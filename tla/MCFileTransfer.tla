----------------------------- MODULE MCFileTransfer -----------------------------
EXTENDS FileTransfer

\* Upload: a longer file of other contents was at the remote path before.
OldFileOf4 == <<0, 0, 0, 0>>

Full(d) == [data |-> d, full |-> TRUE]
Rest(d) == [data |-> d, full |-> FALSE]

\* Download: no file; a file ending in a rest; a newer version of it sharing a
\* chunk, of whole chunks only.
TwoVersions == {<<>>, <<Full(1), Rest(2)>>, <<Full(3), Full(1)>>}
===============================================================================
