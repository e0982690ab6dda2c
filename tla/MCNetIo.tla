-------------------------------- MODULE MCNetIo --------------------------------
EXTENDS NetIo, TLC

CONSTANTS c1, c2

\* One connection breaks off early; the other can complete two lines after it.
Bytes == (c1 :> 1) @@ (c2 :> 3)
================================================================================
