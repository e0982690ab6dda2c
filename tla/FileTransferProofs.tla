--------------------------- MODULE FileTransferProofs ---------------------------
(***************************************************************************)
(* Proofs about push_file and pull_file (PushFile and PullFile), for files *)
(* of any length, any set of versions of the remote file, any limits on    *)
(* retries, resumes and downloads, and any number of damaged lines, lost   *)
(* connections and replacements.                                           *)
(***************************************************************************)
EXTENDS PushFile, PullFile, TLAPS

LEMMA SequenceType ==
    ASSUME NEW S
    PROVE  /\ <<>> \in Seq(S)
           /\ \A d \in S : <<d>> \in Seq(S)
           /\ \A q \in Seq(S), d \in S : Append(q, d) \in Seq(S)
           /\ \A q, f \in Seq(S) : q \o f \in Seq(S)
           /\ \A q \in Seq(S) : q # <<>> => Head(q) \in S /\ Tail(q) \in Seq(S)
  OBVIOUS

LEMMA TailFacts ==
    ASSUME NEW S, NEW q \in Seq(S), q # <<>>
    PROVE  /\ Len(Tail(q)) = Len(q) - 1 /\ Len(q) \in Nat
           /\ \A i \in DOMAIN Tail(q) : i \in Nat /\ i + 1 \in DOMAIN q /\ Tail(q)[i] = q[i + 1]
           /\ 1 \in DOMAIN q /\ Head(q) = q[1]
  OBVIOUS

LEMMA AppendFacts ==
    ASSUME NEW S, NEW q \in Seq(S), NEW d \in S
    PROVE  /\ Len(Append(q, d)) = Len(q) + 1 /\ Len(q) \in Nat
           /\ \A i \in DOMAIN Append(q, d) :
                 \/ i = Len(q) + 1 /\ Append(q, d)[i] = d
                 \/ i \in DOMAIN q /\ Append(q, d)[i] = q[i]
  OBVIOUS

-------------------------------------------------------------------------------
(* push_file                                                               *)

LEMMA WriteType ==
    ASSUME NEW at \in 0..(NChunks - 1), NEW data \in PushContents, NEW full \in BOOLEAN
    PROVE  Write(at, data, full) \in Command
  BY DEF Write, Command

\* A damaged write, if it arrives at all, is still a write; a damaged CHECKSUM
\* is lost.
LEMMA FormsType ==
    ASSUME NEW m \in Command, NEW f \in PushForms(m)
    PROVE  \/ f = <<>>
           \/ m.op = "write" /\ \E d \in Command : d.op = "write" /\ f = <<d>>
  <1>1. CASE m.op # "write"
    BY <1>1 DEF PushForms
  <1>2. CASE m.op = "write"
    <2>1. m.at \in 0..(NChunks - 1) /\ m.data \in PushContents /\ m.full \in BOOLEAN
      BY <1>2 DEF Command
    <2>2. Bad \in PushContents
      BY PushAssumption, LinkAssumption DEF Bad, PushContents
    <2>3. ASSUME NEW d, f = <<d>>,
                 \/ d = Write(m.at, m.data, FALSE) \/ d = Write(m.at, Bad, m.full)
                 \/ \E o \in 0..(NChunks - 1) : d = Write(o, m.data, m.full)
          PROVE  d \in Command /\ d.op = "write"
      <3>1. Write(m.at, m.data, FALSE) \in Command /\ Write(m.at, Bad, m.full) \in Command
        BY <2>1, <2>2, WriteType
      <3>2. \A o \in 0..(NChunks - 1) : Write(o, m.data, m.full) \in Command
        BY <2>1, WriteType
      <3>3. d.op = "write"
        BY <2>3 DEF Write
      <3> QED BY <2>3, <3>1, <3>2, <3>3, Zenon
    <2> QED BY <1>2, <2>3 DEF PushForms
  <1> QED BY <1>1, <1>2

\* conn.send adds at most one command, of the kind that was sent.
LEMMA PushLineType ==
    ASSUME PushLinkOK, NEW m \in Command, PushLine(m)
    PROVE  /\ damage' \in 0..MaxDamage
           /\ \/ toDaemon' = toDaemon
              \/ \E d \in Command : d.op = m.op /\ toDaemon' = Append(toDaemon, d)
  <1>1. damage' \in 0..MaxDamage
    BY PushAssumption, LinkAssumption DEF PushLine, PushLinkOK
  <1>2. ASSUME NEW f \in PushForms(m), toDaemon' = toDaemon \o f
        PROVE  \/ toDaemon' = toDaemon
               \/ \E d \in Command : d.op = m.op /\ toDaemon' = Append(toDaemon, d)
    <2>1. toDaemon \in Seq(Command)
      BY DEF PushLinkOK
    <2>2. CASE f = <<>>
      BY <1>2, <2>1, <2>2
    <2>3. ASSUME NEW d \in Command, f = <<d>>
          PROVE  toDaemon' = Append(toDaemon, d)
      BY <1>2, <2>1, <2>3
    <2> QED BY <2>2, <2>3, FormsType
  <1> QED BY <1>1, <1>2 DEF PushLine

\* The daemon's answer adds at most one line, the answer or one that nobody
\* waits for.
LEMMA AnswerType ==
    ASSUME PushLinkOK, NEW r \in PushReply, Answer(r)
    PROVE  /\ damage' \in 0..MaxDamage
           /\ toHost' \in Seq(PushReply)
           /\ \A i \in DOMAIN toHost' :
                 \/ i \in DOMAIN toHost /\ toHost'[i] = toHost[i]
                 \/ toHost'[i] \in {r, [op |-> "noise"]}
  <1>1. toHost \in Seq(PushReply) /\ [op |-> "noise"] \in PushReply
    BY DEF PushLinkOK, PushReply
  <1>2. ASSUME NEW n \in {r, [op |-> "noise"]}, toHost' = Append(toHost, n)
        PROVE  /\ toHost' \in Seq(PushReply)
               /\ \A i \in DOMAIN toHost' :
                     \/ i \in DOMAIN toHost /\ toHost'[i] = toHost[i]
                     \/ toHost'[i] = n
    <2>1. n \in PushReply
      BY <1>1, <1>2
    <2> QED BY <1>1, <1>2, <2>1, AppendFacts, SequenceType
  <1>3. damage' \in 0..MaxDamage
    BY PushAssumption, LinkAssumption DEF Answer, PushLinkOK
  <1>4. toHost' = toHost \/ \E n \in {r, [op |-> "noise"]} : toHost' = Append(toHost, n)
    BY DEF Answer
  <1>5. CASE toHost' = toHost
    BY <1>1, <1>3, <1>5
  <1> QED BY <1>2, <1>3, <1>4, <1>5

\* Before the last chunk is acknowledged there is one to send, and push_file waits
\* for the link only with a resume left.
PushProgressInv ==
    /\ pc \in {"send", "ack", "pause", "outage", "settle"} => offset < NChunks
    /\ pc \in {"outage", "settle"} => resumes < MaxResumes

PushInv == PushTypeOK /\ PushProgressInv

\* handle_writefile leaves a file of whole chunks, wrong bytes and fragments.
LEMMA WrittenType ==
    ASSUME remote \in Seq(PushContents), NEW m \in Command, m.op = "write", m.at <= FileEnd
    PROVE  Written(m) \in Seq(PushContents)
  <1>1. /\ m.at \in Nat /\ m.data \in PushContents /\ m.full \in BOOLEAN
        /\ Bad \in PushContents /\ Fragment \in PushContents
    BY PushAssumption, LinkAssumption DEF Command, PushContents, Bad, Fragment
  <1>2. FileEnd \in Nat /\ FileEnd <= Len(remote)
    BY DEF FileEnd
  <1> DEFINE c == IF m.full THEN m.data ELSE Fragment
             b == IF m.full THEN m.data ELSE Bad
  <1>3. c \in PushContents /\ b \in PushContents
    BY <1>1
  <1>4. Written(m) = IF m.at = 0 THEN <<c>>
                     ELSE IF m.at = FileEnd THEN Append(SubSeq(remote, 1, m.at), c)
                     ELSE [remote EXCEPT ![m.at + 1] = b]
    BY DEF Written
  <1> HIDE DEF c, b
  <1>5. CASE m.at = 0
    BY <1>3, <1>4, <1>5, SequenceType
  <1>6. CASE m.at # 0 /\ m.at = FileEnd
    <2>1. SubSeq(remote, 1, m.at) \in Seq(PushContents)
      BY <1>1, <1>2, <1>6
    <2> QED BY <1>3, <1>4, <1>6, <2>1
  <1>7. CASE m.at # 0 /\ m.at # FileEnd
    <2>1. Written(m) = [remote EXCEPT ![m.at + 1] = b]
      BY <1>4, <1>7
    <2>2. remote \in [1..Len(remote) -> PushContents] /\ Len(remote) \in Nat
      OBVIOUS
    <2>3. [remote EXCEPT ![m.at + 1] = b] \in [1..Len(remote) -> PushContents]
      BY <1>3, <2>2
    <2>4. [remote EXCEPT ![m.at + 1] = b] \in Seq(PushContents)
      BY <2>2, <2>3
    <2> QED BY <2>1, <2>4
  <1> QED BY <1>5, <1>6, <1>7

LEMMA PushReturnType ==
    ASSUME PushInv, NEW status \in {"success", "failure", "raised"},
           NEW match \in {"none", "match", "mismatch"}, PushReturn(status, match)
    PROVE  PushHostOK' /\ PushProgressInv'
  BY DEF PushInv, PushTypeOK, PushHostOK, ResultOK, PushProgressInv, PushReturn

\* conn.send raised: the link, the file and the counters are as they were.
LEMMA RaiseType == PushInv /\ Raise => PushInv'
  BY PushReturnType DEF Raise, PushInv, PushTypeOK, PushLinkOK, pushLink

LEMMA PushStep == PushInv /\ [PushNext]_pushVars => PushInv'
  <1> SUFFICES ASSUME PushInv, [PushNext]_pushVars PROVE PushInv'
    OBVIOUS
  <1>a. /\ PushTypeOK /\ PushHostOK /\ PushLinkOK /\ PushProgressInv
        /\ toDaemon \in Seq(Command) /\ toHost \in Seq(PushReply) /\ remote \in Seq(PushContents)
    BY DEF PushInv, PushTypeOK, PushLinkOK
  <1>b. ASSUME PushHostOK', PushProgressInv', UNCHANGED <<connected, pushLink, remote, damage, drops>>
        PROVE  PushInv'
    BY <1>a, <1>b DEF PushInv, PushTypeOK, PushLinkOK, pushLink
  <1>1. CASE PushSend
    <2>1. CASE Raise
      BY <2>1, RaiseType
    <2>2. CASE /\ PushLine(Write(offset, Local[offset + 1], TRUE))
               /\ pc' = "ack" /\ attempts' = attempts + 1
               /\ UNCHANGED <<offset, resumes, result, connected, toHost, remote, drops>>
      <3>1. offset \in 0..(NChunks - 1) /\ Local[offset + 1] \in PushContents
            /\ attempts < MaxRetries
        BY <1>a, <1>1, PushAssumption, LinkAssumption
           DEF PushSend, PushHostOK, ResultOK, PushProgressInv, Local, PushContents
      <3>2. Write(offset, Local[offset + 1], TRUE) \in Command
        BY <3>1, WriteType
      <3>3. toDaemon' \in Seq(Command) /\ damage' \in 0..MaxDamage
        BY <1>a, <2>2, <3>2, PushLineType, SequenceType
      <3>4. PushHostOK' /\ PushProgressInv'
        BY <1>a, <2>2, <3>1, PushAssumption, LinkAssumption
           DEF PushHostOK, ResultOK, PushProgressInv
      <3> QED BY <1>a, <2>2, <3>3, <3>4 DEF PushInv, PushTypeOK, PushLinkOK
    <2> QED BY <1>1, <2>1, <2>2 DEF PushSend
  <1>2. CASE PushChunkFailed
    <2>1. pc = "send" /\ UNCHANGED <<connected, pushLink, remote, damage, drops>>
      BY <1>2 DEF PushChunkFailed
    <2>2. CASE PushReturn("failure", "none")
      BY <1>b, <2>1, <2>2, PushReturnType
    <2>3. CASE /\ resumes < MaxResumes /\ pc' = "outage"
               /\ UNCHANGED <<offset, attempts, resumes, result>>
      BY <1>a, <1>b, <2>1, <2>3 DEF PushHostOK, ResultOK, PushProgressInv
    <2> QED BY <1>2, <2>2, <2>3 DEF PushChunkFailed
  <1>3. CASE PushAck
    <2>1. PushLinkOK' /\ UNCHANGED remote
      BY <1>a, <1>3, SequenceType DEF PushAck, PushLinkOK
    <2>2. PushHostOK' /\ PushProgressInv'
      BY <1>a, <1>3, PushAssumption, LinkAssumption
         DEF PushAck, PushHostOK, ResultOK, PushProgressInv
    <2> QED BY <1>a, <2>1, <2>2 DEF PushInv, PushTypeOK
  <1>4. CASE PushTimeout
    BY <1>a, <1>b, <1>4 DEF PushTimeout, PushHostOK, ResultOK, PushProgressInv
  <1>5. CASE PushPauseOver
    BY <1>a, <1>b, <1>5 DEF PushPauseOver, PushHostOK, ResultOK, PushProgressInv
  <1>6. CASE OutageOver
    BY <1>a, <1>b, <1>6 DEF OutageOver, PushHostOK, ResultOK, PushProgressInv
  <1>7. CASE PushResume
    <2>1. pc = "settle" /\ UNCHANGED <<connected, pushLink, remote, damage, drops>>
      BY <1>7 DEF PushResume
    <2>2. CASE PushReturn("failure", "none")
      BY <1>b, <2>1, <2>2, PushReturnType
    <2>3. CASE /\ pc' = "send" /\ attempts' = 0 /\ resumes' = resumes + 1
               /\ UNCHANGED <<offset, result>>
      <3>1. PushHostOK' /\ PushProgressInv'
        BY <1>a, <2>1, <2>3, PushAssumption, LinkAssumption
           DEF PushHostOK, ResultOK, PushProgressInv
      <3> QED BY <1>b, <2>1, <3>1
    <2> QED BY <1>7, <2>2, <2>3 DEF PushResume
  <1>8. CASE PushVerify
    <2>1. CASE Raise
      BY <2>1, RaiseType
    <2>2. CASE /\ PushLine([op |-> "checksum"]) /\ pc' = "crc"
               /\ UNCHANGED <<offset, attempts, resumes, result, connected, toHost,
                              remote, drops>>
      <3>1. [op |-> "checksum"] \in Command
        BY DEF Command
      <3>2. toDaemon' \in Seq(Command) /\ damage' \in 0..MaxDamage
        BY <1>a, <2>2, <3>1, PushLineType, SequenceType
      <3>3. PushHostOK' /\ PushProgressInv'
        BY <1>a, <2>2 DEF PushHostOK, ResultOK, PushProgressInv
      <3> QED BY <1>a, <2>2, <3>2, <3>3 DEF PushInv, PushTypeOK, PushLinkOK
    <2> QED BY <1>8, <2>1, <2>2 DEF PushVerify
  <1>9. CASE PushCrc
    <2>1. PushLinkOK' /\ UNCHANGED remote
      BY <1>a, <1>9, SequenceType DEF PushCrc, PushLinkOK
    <2>2. PushHostOK' /\ PushProgressInv'
      BY <1>9, PushReturnType DEF PushCrc
    <2> QED BY <1>a, <2>1, <2>2 DEF PushInv, PushTypeOK
  <1>10. CASE PushCrcTimeout
    BY <1>b, <1>10, PushReturnType DEF PushCrcTimeout
  <1>11. CASE PushHostIgnores
    <2>1. PushLinkOK'
      BY <1>a, <1>11, SequenceType DEF PushHostIgnores, PushLinkOK
    <2>2. PushHostOK' /\ PushProgressInv' /\ UNCHANGED remote
      BY <1>a, <1>11
         DEF PushHostIgnores, pushState, PushHostOK, ResultOK, PushProgressInv
    <2> QED BY <1>a, <2>1, <2>2 DEF PushInv, PushTypeOK
  <1>12. CASE DaemonWrite
    <2>1. /\ Head(toDaemon) \in Command /\ Head(toDaemon).op = "write"
          /\ toDaemon' \in Seq(Command)
      BY <1>a, <1>12, SequenceType DEF DaemonWrite
    <2>2. /\ [op |-> "ok", full |-> Head(toDaemon).full] \in PushReply
          /\ [op |-> "err"] \in PushReply
      BY <2>1 DEF Command, PushReply
    <2>3. toHost' \in Seq(PushReply) /\ damage' \in 0..MaxDamage
      BY <1>a, <1>12, <2>2, AnswerType DEF DaemonWrite
    <2>4. remote' \in Seq(PushContents)
      BY <1>a, <1>12, <2>1, WrittenType DEF DaemonWrite
    <2>5. PushHostOK' /\ PushProgressInv' /\ UNCHANGED <<connected, drops>>
      BY <1>a, <1>12 DEF DaemonWrite, pushState, PushHostOK, ResultOK, PushProgressInv
    <2> QED BY <1>a, <2>1, <2>3, <2>4, <2>5 DEF PushInv, PushTypeOK, PushLinkOK
  <1>13. CASE PushDaemonChecksum
    <2>1. toDaemon' \in Seq(Command)
      BY <1>a, <1>13, SequenceType DEF PushDaemonChecksum
    <2>2. [op |-> "crc", of |-> remote] \in PushReply /\ [op |-> "err"] \in PushReply
      BY <1>a DEF PushReply
    <2>3. toHost' \in Seq(PushReply) /\ damage' \in 0..MaxDamage
      BY <1>a, <1>13, <2>2, AnswerType DEF PushDaemonChecksum
    <2>4. PushHostOK' /\ PushProgressInv' /\ UNCHANGED <<connected, remote, drops>>
      BY <1>a, <1>13
         DEF PushDaemonChecksum, pushState, PushHostOK, ResultOK, PushProgressInv
    <2> QED BY <1>a, <2>1, <2>3, <2>4 DEF PushInv, PushTypeOK, PushLinkOK
  <1>14. CASE PushDrop
    <2>1. toDaemon' \in Seq(Command) /\ toHost' \in Seq(PushReply)
      BY <1>14, SequenceType DEF PushDrop, Drop
    <2>2. drops' \in 0..MaxDrops
      BY <1>a, <1>14, PushAssumption, LinkAssumption DEF PushDrop, Drop, PushLinkOK
    <2>3. PushHostOK' /\ PushProgressInv'
      BY <1>a, <1>14
         DEF PushDrop, Drop, pushState, PushHostOK, ResultOK, PushProgressInv
    <2> QED BY <1>a, <1>14, <2>1, <2>2, <2>3
       DEF PushDrop, Drop, PushInv, PushTypeOK, PushLinkOK
  <1>15. CASE PushReconnect
    BY <1>a, <1>15 DEF PushReconnect, Reconnect, PushInv, PushTypeOK, PushHostOK,
       ResultOK, PushLinkOK, PushProgressInv, pushState, pushLink
  <1>16. CASE UNCHANGED pushVars
    BY <1>a, <1>16 DEF pushVars, PushInv, PushTypeOK, PushHostOK, ResultOK,
       PushLinkOK, PushProgressInv, pushState, pushLink
  <1> QED
    BY <1>1, <1>2, <1>3, <1>4, <1>5, <1>6, <1>7, <1>8, <1>9, <1>10, <1>11, <1>12, <1>13,
       <1>14, <1>15, <1>16 DEF PushNext, PushHost

LEMMA PushInitType == PushInit => PushInv
  <1> SUFFICES ASSUME PushInit PROVE PushInv
    OBVIOUS
  <1>1. PushHostOK
    BY PushAssumption, LinkAssumption DEF PushInit, PushHostOK, ResultOK, Pending
  <1>2. toDaemon \in Seq(Command) /\ toHost \in Seq(PushReply)
    BY SequenceType DEF PushInit
  <1>3. PushLinkOK
    BY <1>2, PushAssumption, LinkAssumption DEF PushInit, PushLinkOK
  <1>4. remote \in Seq(PushContents)
    <2>1. OldFile \in Seq(PushContents)
      <3>1. 0 \in PushContents
        BY PushAssumption, LinkAssumption DEF PushContents
      <3> QED BY <3>1, PushAssumption, LinkAssumption
    <2> QED BY <2>1, SequenceType DEF PushInit
  <1>5. PushProgressInv
    BY PushAssumption, LinkAssumption DEF PushInit, PushProgressInv
  <1> QED BY <1>1, <1>3, <1>4, <1>5 DEF PushInv, PushTypeOK

\* file_transfer.py push_file and _push_chunk: the state keeps its shape; retries
\* and resumes stay capped and no chunk beyond the last is sent.
THEOREM PushTypeCorrect == PushSpec => []PushTypeOK
  <1>1. PushInv => PushTypeOK
    BY DEF PushInv
  <1> QED BY <1>1, PushInitType, PushStep, PTL DEF PushSpec

LEMMA PushReturnMovesOn ==
    ASSUME PushInv, pc # "done", NEW status, NEW match, PushReturn(status, match)
    PROVE  PushMovesOn
  BY DEF PushInv, PushTypeOK, PushHostOK, PushReturn, PushMovesOn, PushRank

LEMMA PushHostMovesOn == PushInv /\ PushHost => PushMovesOn
  <1> SUFFICES ASSUME PushInv, PushHost PROVE PushMovesOn
    OBVIOUS
  <1>a. offset \in Nat /\ attempts \in Nat /\ resumes \in Nat
    BY DEF PushInv, PushTypeOK, PushHostOK
  <1>1. CASE PushSend
    <2>1. CASE Raise
      BY <1>1, <2>1, PushReturnMovesOn DEF PushSend, Raise
    <2>2. CASE attempts' = attempts + 1 /\ UNCHANGED <<offset, resumes>>
      BY <1>a, <2>2 DEF PushMovesOn
    <2> QED BY <1>1, <2>1, <2>2, Zenon DEF PushSend
  <1>2. CASE PushChunkFailed
    BY <1>a, <1>2, PushReturnMovesOn DEF PushChunkFailed, PushMovesOn, PushRank
  <1>3. CASE PushAck
    BY <1>a, <1>3 DEF PushAck, PushMovesOn, PushRank
  <1>4. CASE PushTimeout \/ PushPauseOver \/ OutageOver
    BY <1>a, <1>4 DEF PushTimeout, PushPauseOver, OutageOver, PushMovesOn, PushRank
  <1>5. CASE PushResume
    BY <1>a, <1>5, PushReturnMovesOn DEF PushResume, PushMovesOn
  <1>6. CASE PushVerify
    BY <1>a, <1>6, PushReturnMovesOn DEF PushVerify, Raise, PushMovesOn, PushRank
  <1>7. CASE PushCrc \/ PushCrcTimeout
    BY <1>7, PushReturnMovesOn DEF PushCrc, PushCrcTimeout
  <1> QED BY <1>1, <1>2, <1>3, <1>4, <1>5, <1>6, <1>7 DEF PushHost

\* file_transfer.py push_file: each step of the three nested loops uses up a resume,
\* a chunk or an attempt, or comes to a later station, and nobody else moves it; the
\* caps in PushTypeOK leave finitely many such steps.
THEOREM PushAdvancesCorrect == PushSpec => PushAdvances
  <1>1. PushInv /\ [PushNext]_pushVars
        => [IF PushHost THEN PushMovesOn ELSE UNCHANGED pushState]_pushVars
    <2> SUFFICES ASSUME PushInv, PushNext, ~PushHost PROVE UNCHANGED pushState
      BY PushHostMovesOn
    <2> QED BY DEF PushNext, PushHostIgnores, DaemonWrite, PushDaemonChecksum, PushDrop,
                   Drop, PushReconnect, Reconnect, pushState
  <1> QED BY <1>1, PushInitType, PushStep, PTL DEF PushSpec, PushAdvances


-------------------------------------------------------------------------------
\* CHECKSUM is the last command of a transfer, and its answer the CRC of a file
\* that nothing on its way to the daemon can change any more.
NoWrites == \A i \in DOMAIN toDaemon : toDaemon[i].op # "write"
NotAsked == /\ \A i \in DOMAIN toDaemon : toDaemon[i].op # "checksum"
            /\ \A i \in DOMAIN toHost : toHost[i].op # "crc"
            /\ result.crc # "match"

ChecksumInv ==
    /\ pc \notin {"crc", "done"} => NotAsked
    /\ \A i \in DOMAIN toDaemon : toDaemon[i].op = "checksum" => i = Len(toDaemon)
    /\ \A i \in DOMAIN toHost : toHost[i].op = "crc" => toHost[i].of = remote /\ NoWrites
    /\ result.crc = "match" => Intact /\ NoWrites

\* A line taken off the queue to the host leaves the rest as it was.
LEMMA TakeReply ==
    ASSUME PushTypeOK, ChecksumInv, toHost # <<>>, toHost' = Tail(toHost),
           UNCHANGED <<toDaemon, remote>>
    PROVE  /\ \A i \in DOMAIN toHost' : toHost'[i].op = "crc" => toHost'[i].of = remote /\ NoWrites
           /\ NoWrites' <=> NoWrites
           /\ Intact' <=> Intact
           /\ NotAsked /\ result'.crc # "match" => NotAsked'
  <1>1. \A i \in DOMAIN toHost' : i + 1 \in DOMAIN toHost /\ toHost'[i] = toHost[i + 1]
    BY TailFacts DEF PushTypeOK, PushLinkOK
  <1>2. \A i \in DOMAIN toHost' : toHost'[i].op = "crc" => toHost'[i].of = remote /\ NoWrites
    BY <1>1 DEF ChecksumInv
  <1>3. (NoWrites' <=> NoWrites) /\ (Intact' <=> Intact)
    BY DEF NoWrites, Intact
  <1>4. NotAsked /\ result'.crc # "match" => NotAsked'
    BY <1>1 DEF NotAsked
  <1> QED BY <1>2, <1>3, <1>4

\* A command the daemon takes off its queue.
LEMMA TakeCommand ==
    ASSUME PushTypeOK, ChecksumInv, toDaemon # <<>>, toDaemon' = Tail(toDaemon)
    PROVE  /\ \A i \in DOMAIN toDaemon' : toDaemon'[i].op = "checksum" => i = Len(toDaemon')
           /\ NoWrites => NoWrites'
           /\ Head(toDaemon).op = "write" => ~NoWrites
           /\ Head(toDaemon).op = "checksum" => NoWrites'
           /\ \A i \in DOMAIN toDaemon' :
                 \E j \in DOMAIN toDaemon : toDaemon'[i].op = toDaemon[j].op
  <1>1. /\ Len(toDaemon') = Len(toDaemon) - 1 /\ Len(toDaemon) \in Nat
        /\ \A i \in DOMAIN toDaemon' :
              i \in Nat /\ i + 1 \in DOMAIN toDaemon /\ toDaemon'[i] = toDaemon[i + 1]
        /\ 1 \in DOMAIN toDaemon /\ Head(toDaemon) = toDaemon[1]
    BY TailFacts DEF PushTypeOK, PushLinkOK
  <1>2. \A i \in DOMAIN toDaemon' : toDaemon'[i].op = "checksum" => i = Len(toDaemon')
    BY <1>1 DEF ChecksumInv
  <1>3. (NoWrites => NoWrites') /\ (Head(toDaemon).op = "write" => ~NoWrites)
    BY <1>1 DEF NoWrites
  <1>4. Head(toDaemon).op = "checksum" => NoWrites'
    <2>1. toDaemon' \in Seq(Command)
      BY SequenceType DEF PushTypeOK, PushLinkOK
    <2>2. Head(toDaemon).op = "checksum" => Len(toDaemon') = 0
      BY <1>1 DEF ChecksumInv
    <2> QED BY <2>1, <2>2 DEF NoWrites
  <1>5. \A i \in DOMAIN toDaemon' : \E j \in DOMAIN toDaemon : toDaemon'[i].op = toDaemon[j].op
    BY <1>1
  <1> QED BY <1>2, <1>3, <1>4, <1>5

LEMMA ChecksumStep == PushInv /\ ChecksumInv /\ [PushNext]_pushVars => ChecksumInv'
  <1> SUFFICES ASSUME PushInv, ChecksumInv, [PushNext]_pushVars PROVE ChecksumInv'
    OBVIOUS
  <1>a. /\ PushTypeOK /\ PushLinkOK
        /\ toDaemon \in Seq(Command) /\ toHost \in Seq(PushReply)
    BY DEF PushInv, PushTypeOK, PushLinkOK
  <1>1. ASSUME UNCHANGED <<toDaemon, toHost, remote>>, result'.crc # "match",
               pc' \notin {"crc", "done"} => pc \notin {"crc", "done"}
        PROVE  ChecksumInv'
    BY <1>1 DEF ChecksumInv, NotAsked, NoWrites, Intact
  <1>2. ASSUME UNCHANGED <<toDaemon, toHost, remote, result>>,
               pc' \notin {"crc", "done"} => pc \notin {"crc", "done"}
        PROVE  ChecksumInv'
    BY <1>2 DEF ChecksumInv, NotAsked, NoWrites, Intact
  <1>3. CASE Raise
    BY <1>1, <1>3 DEF Raise, PushReturn, pushLink
  <1>4. CASE PushSend /\ ~Raise
    <2> DEFINE m == Write(offset, Local[offset + 1], TRUE)
    <2>1. /\ PushLine(m) /\ pc = "send" /\ pc' = "ack" /\ UNCHANGED <<toHost, remote, result>>
      BY <1>4 DEF PushSend
    <2>2. m \in Command /\ m.op = "write"
      <3>1. offset \in 0..(NChunks - 1) /\ Local[offset + 1] \in PushContents
        BY <2>1, PushAssumption, LinkAssumption
           DEF PushInv, PushTypeOK, PushHostOK, ResultOK, PushProgressInv, Local,
                  PushContents
      <3> QED BY <3>1, WriteType DEF Write
    <2> HIDE DEF m
    <2>3. CASE toDaemon' = toDaemon
      BY <1>2, <2>1, <2>3
    <2>4. ASSUME NEW d \in Command, d.op = m.op, toDaemon' = Append(toDaemon, d)
          PROVE  ChecksumInv'
      <3>1. NotAsked /\ d.op # "checksum"
        BY <2>1, <2>2, <2>4 DEF ChecksumInv
      <3>2. \A i \in DOMAIN toDaemon' : toDaemon'[i].op # "checksum"
        BY <1>a, <2>4, <3>1, AppendFacts DEF NotAsked
      <3> QED BY <2>1, <3>1, <3>2 DEF ChecksumInv, NotAsked
    <2> QED BY <1>a, <2>1, <2>2, <2>3, <2>4, PushLineType
  <1>5. CASE PushVerify /\ ~Raise
    <2> DEFINE m == [op |-> "checksum"]
    <2>1. /\ PushLine(m) /\ pc = "verify" /\ pc' = "crc" /\ UNCHANGED <<toHost, remote, result>>
      BY <1>5 DEF PushVerify
    <2>2. m \in Command /\ m.op = "checksum" /\ NotAsked
      BY <2>1 DEF Command, ChecksumInv
    <2> HIDE DEF m
    <2>3. CASE toDaemon' = toDaemon
      BY <1>2, <2>1, <2>3
    <2>4. ASSUME NEW d \in Command, d.op = m.op, toDaemon' = Append(toDaemon, d)
          PROVE  ChecksumInv'
      <3>1. \A i \in DOMAIN toDaemon' : toDaemon'[i].op = "checksum" => i = Len(toDaemon')
        BY <1>a, <2>2, <2>4, AppendFacts DEF NotAsked
      <3> QED BY <2>1, <2>2, <3>1 DEF ChecksumInv, NotAsked
    <2> QED BY <1>a, <2>1, <2>2, <2>3, <2>4, PushLineType
  <1>6. CASE PushAck
    <2>1. /\ toHost # <<>> /\ toHost' = Tail(toHost) /\ UNCHANGED <<toDaemon, remote, result>>
          /\ pc = "ack"
      BY <1>6 DEF PushAck
    <2>2. NotAsked /\ result'.crc # "match"
      BY <2>1 DEF ChecksumInv, NotAsked
    <2>3. NotAsked'
      BY <1>a, <2>1, <2>2, TakeReply
    <2> QED BY <2>3 DEF ChecksumInv, NotAsked
  <1>7. CASE PushChunkFailed \/ PushTimeout \/ PushPauseOver \/ OutageOver \/ PushResume
    <2>1. UNCHANGED <<toDaemon, toHost, remote>> /\ pc \notin {"crc", "done"}
      BY <1>7 DEF PushChunkFailed, PushTimeout, PushPauseOver, OutageOver, PushResume,
         pushLink
    <2>2. result' = result \/ result'.crc = "none"
      BY <1>7
         DEF PushChunkFailed, PushTimeout, PushPauseOver, OutageOver, PushResume,
                PushReturn
    <2> QED BY <1>1, <1>2, <2>1, <2>2
  <1>8. CASE PushCrc
    <2>1. /\ toHost # <<>> /\ toHost' = Tail(toHost) /\ UNCHANGED <<toDaemon, remote>>
          /\ Head(toHost).op = "crc" /\ pc' = "done"
          /\ result'.crc = "match" => Head(toHost).of = Local
      BY <1>8 DEF PushCrc, PushReturn
    <2>2. Head(toHost).of = remote /\ NoWrites
      BY <1>a, <2>1, TailFacts DEF ChecksumInv
    <2>3. result'.crc = "match" => (Intact /\ NoWrites)'
      BY <1>a, <2>1, <2>2, TakeReply DEF Intact
    <2> QED BY <1>a, <2>1, <2>3, TakeReply DEF ChecksumInv
  <1>9. CASE PushCrcTimeout
    BY <1>1, <1>9 DEF PushCrcTimeout, PushReturn, pushLink
  <1>10. CASE PushHostIgnores
    <2>1. /\ toHost # <<>> /\ toHost' = Tail(toHost)
          /\ UNCHANGED <<pc, result, toDaemon, remote>>
      BY <1>10 DEF PushHostIgnores, pushState
    <2>2. pc' \notin {"crc", "done"} => NotAsked'
      <3>1. pc' \notin {"crc", "done"} => NotAsked /\ result'.crc # "match"
        BY <2>1 DEF ChecksumInv, NotAsked
      <3> QED BY <1>a, <2>1, <3>1, TakeReply
    <2> QED BY <1>a, <2>1, <2>2, TakeReply DEF ChecksumInv
  <1>11. CASE DaemonWrite
    <2>1. /\ toDaemon # <<>> /\ toDaemon' = Tail(toDaemon) /\ Head(toDaemon).op = "write"
          /\ Head(toDaemon) \in Command /\ UNCHANGED <<pc, result>>
      BY <1>a, <1>11, SequenceType DEF DaemonWrite, pushState
    <2>2. PICK r \in PushReply : Answer(r) /\ r.op # "crc"
      <3>1. /\ [op |-> "ok", full |-> Head(toDaemon).full] \in PushReply
            /\ [op |-> "err"] \in PushReply
        BY <2>1 DEF Command, PushReply
      <3> QED BY <1>11, <3>1 DEF DaemonWrite
    <2>3. ~NoWrites
      BY <1>a, <2>1, TakeCommand
    <2>4. (\A i \in DOMAIN toHost : toHost[i].op # "crc") /\ result.crc # "match"
      BY <2>3 DEF ChecksumInv
    <2>5. \A i \in DOMAIN toHost' : toHost'[i].op # "crc"
      BY <1>a, <2>2, <2>4, AnswerType
    <2>6. pc' \notin {"crc", "done"} => NotAsked'
      BY <1>a, <2>1, <2>5, TakeCommand DEF ChecksumInv, NotAsked
    <2> QED BY <1>a, <2>1, <2>4, <2>5, <2>6, TakeCommand DEF ChecksumInv
  <1>12. CASE PushDaemonChecksum
    <2>1. /\ toDaemon # <<>> /\ toDaemon' = Tail(toDaemon) /\ Head(toDaemon).op = "checksum"
          /\ UNCHANGED <<pc, result, remote>>
      BY <1>12 DEF PushDaemonChecksum, pushState
    <2>2. pc \in {"crc", "done"}
      BY <1>a, <2>1, TailFacts DEF ChecksumInv, NotAsked
    <2>3. PICK r \in PushReply : Answer(r) /\ (r.op = "crc" => r.of = remote)
      <3>1. [op |-> "crc", of |-> remote] \in PushReply /\ [op |-> "err"] \in PushReply
        BY <1>a DEF PushTypeOK, PushReply
      <3> QED BY <1>12, <3>1 DEF PushDaemonChecksum
    <2>4. NoWrites'
      BY <1>a, <2>1, TakeCommand
    <2>5. \A i \in DOMAIN toHost' : toHost'[i].op = "crc" => toHost'[i].of = remote
      BY <1>a, <2>3, AnswerType DEF ChecksumInv
    <2> QED BY <1>a, <2>1, <2>2, <2>4, <2>5, TakeCommand DEF ChecksumInv, Intact
  <1>13. CASE PushDrop
    BY <1>13 DEF PushDrop, Drop, pushState, ChecksumInv, NotAsked, NoWrites, Intact
  <1>14. CASE PushReconnect \/ UNCHANGED pushVars
    BY <1>2, <1>14 DEF PushReconnect, Reconnect, pushVars, pushState, pushLink
  <1> QED
    BY <1>3, <1>4, <1>5, <1>6, <1>7, <1>8, <1>9, <1>10, <1>11, <1>12, <1>13, <1>14
       DEF PushNext, PushHost

\* push_file, "Verifies with CHECKSUM after transfer": what is reported as verified
\* is on the Amiga as it is on the host, and stays so, for every file and fault.
THEOREM PushVerifiedCorrect == PushSpec => []VerifiedIsIntact
  <1>1. PushInit => ChecksumInv
    BY DEF PushInit, Pending, ChecksumInv, NotAsked, NoWrites
  <1>2. ChecksumInv => VerifiedIsIntact
    BY DEF ChecksumInv, VerifiedIsIntact
  <1> QED BY <1>1, <1>2, PushInitType, PushStep, ChecksumStep, PTL DEF PushSpec

-------------------------------------------------------------------------------
\* A command between a file of a chunks and one of b.
Step(m, a, b) == IF m.op = "write" THEN b \in {a, a + 1} /\ m = Write(b - 1, b, TRUE) ELSE b = a

FirstChunks(k) == [i \in 1..k |-> i]

\* g[i] chunks of the local file are on the Amiga when command i of the queue is next;
\* when all are done, those acknowledged are, and at most one more.
Ahead(g) ==
    /\ g[1] = 0 \/ remote = FirstChunks(g[1])
    /\ \A i \in 1..Len(toDaemon) : Step(toDaemon[i], g[i], g[i + 1])
    /\ g[Len(toDaemon) + 1] \in {offset, offset + 1}
    /\ pc = "ack" => g[Len(toDaemon) + 1] = offset + 1

\* An acknowledgement of an earlier attempt may move push_file on before the chunk is
\* written, but never before it was sent.
AheadInv == Undisturbed =>
    /\ pc \in {"verify", "crc"} \/ result.status = "success" => offset = NChunks
    /\ \E g \in [1..(Len(toDaemon) + 1) -> 0..NChunks] : Ahead(g)

LEMMA FirstChunksType ==
    ASSUME NEW k \in 0..NChunks
    PROVE  /\ FirstChunks(k) \in Seq(PushContents) /\ Len(FirstChunks(k)) = k
           /\ \A i \in 1..k : FirstChunks(k)[i] = i
  <1>1. \A i \in 1..k : i \in PushContents
    BY PushAssumption, LinkAssumption DEF PushContents
  <1>2. k \in Nat
    BY PushAssumption, LinkAssumption
  <1> QED BY <1>1, <1>2 DEF FirstChunks

\* handle_writefile: a chunk written again overwrites itself, the first one replaces
\* what was there, and the next one is appended.
LEMMA WriteAdvances ==
    ASSUME remote \in Seq(PushContents), NEW a \in 0..NChunks, NEW b \in 0..NChunks,
           NEW m \in Command, m.op = "write", Step(m, a, b),
           a = 0 \/ remote = FirstChunks(a)
    PROVE  m.at <= FileEnd /\ Written(m) = FirstChunks(b)
  <1>1. a \in Nat /\ b \in Nat /\ NChunks \in Nat /\ b \in {a, a + 1}
    BY PushAssumption, LinkAssumption DEF Step
  <1>2. m.at = b - 1 /\ m.data = b /\ m.full = TRUE
    BY DEF Step, Write
  <1>3. m.at \in 0..(NChunks - 1)
    BY DEF Command
  <1>4. b >= 1
    BY <1>1, <1>2, <1>3
  <1>5. CASE b = 1
    <2>1. m.at <= FileEnd
      BY <1>2, <1>5 DEF FileEnd
    <2>2. Written(m) = <<1>>
      BY <1>2, <1>5 DEF Written
    <2>3. <<1>> = FirstChunks(1)
      BY DEF FirstChunks
    <2> QED BY <1>5, <2>1, <2>2, <2>3
  <1>6. CASE b > 1
    <2>1. a >= 1 /\ remote = FirstChunks(a)
      BY <1>1, <1>6
    <2>2. Len(remote) = a /\ remote # <<>> /\ \A i \in 1..a : remote[i] = i
      BY <2>1, FirstChunksType
    <2>3. FileEnd = a
      <3>1. remote[a] = a /\ a # NChunks + 1
        BY <1>1, <2>1, <2>2
      <3> QED BY <2>2, <3>1 DEF FileEnd, Fragment
    <2>4. CASE b = a
      <3>1. Written(m) = [remote EXCEPT ![a] = a]
        <4>1. m.at + 1 = a /\ m.at # 0 /\ m.at # FileEnd
          BY <1>1, <1>2, <1>6, <2>3, <2>4
        <4> QED BY <1>2, <2>4, <4>1 DEF Written
      <3>2. [remote EXCEPT ![a] = a] = remote
        BY <1>1, <2>1, <2>2
      <3> QED BY <1>1, <1>2, <2>1, <2>3, <2>4, <3>1, <3>2
    <2>5. CASE b = a + 1
      <3>1. Written(m) = Append(SubSeq(remote, 1, a), b)
        <4>1. m.at = a /\ m.at # 0 /\ m.at = FileEnd
          BY <1>1, <1>2, <2>1, <2>3, <2>5
        <4> QED BY <1>2, <4>1 DEF Written
      <3>2. SubSeq(remote, 1, a) = remote
        BY <2>2
      <3>3. Append(remote, b) = FirstChunks(b)
        <4>1. /\ FirstChunks(b) \in Seq(PushContents) /\ Len(FirstChunks(b)) = b
              /\ \A i \in 1..b : FirstChunks(b)[i] = i
          BY FirstChunksType
        <4>2. b \in PushContents
          BY <1>1, PushAssumption, LinkAssumption DEF PushContents
        <4>3. Append(remote, b) \in Seq(PushContents) /\ Len(Append(remote, b)) = b
          BY <2>2, <2>5, <4>2
        <4>4. \A i \in 1..b : Append(remote, b)[i] = i
          BY <1>1, <2>2, <2>5, <4>2
        <4> QED BY <4>1, <4>3, <4>4
      <3> QED BY <1>1, <1>2, <2>3, <2>5, <3>1, <3>2, <3>3
    <2> QED BY <1>1, <2>4, <2>5
  <1> QED BY <1>1, <1>4, <1>5, <1>6

\* One more command at the end of the queue.
LEMMA AheadAppend ==
    ASSUME PushLinkOK, NEW m \in Command, toDaemon' = Append(toDaemon, m),
           UNCHANGED <<remote, offset>>,
           NEW g \in [1..(Len(toDaemon) + 1) -> 0..NChunks], Ahead(g),
           NEW h \in 0..NChunks, Step(m, g[Len(toDaemon) + 1], h),
           h \in {offset, offset + 1}, pc' = "ack" => h = offset + 1
    PROVE  \E f \in [1..(Len(toDaemon') + 1) -> 0..NChunks] : Ahead(f)'
  <1>1. PICK n \in Nat : n = Len(toDaemon)
    BY DEF PushLinkOK
  <1>2. Len(toDaemon') = n + 1 /\ toDaemon'[n + 1] = m /\ \A i \in 1..n : toDaemon'[i] = toDaemon[i]
    BY <1>1 DEF PushLinkOK
  <1>3. PICK f : f = [j \in 1..(n + 2) |-> IF j = n + 2 THEN h ELSE g[j]]
    OBVIOUS
  <1>4. f \in [1..(Len(toDaemon') + 1) -> 0..NChunks]
    <2>1. \A j \in 1..(n + 2) : j # n + 2 => j \in 1..(n + 1)
      OBVIOUS
    <2>2. \A j \in 1..(n + 2) : j # n + 2 => g[j] \in 0..NChunks
      BY <1>1, <2>1
    <2>3. n + 1 + 1 = n + 2
      OBVIOUS
    <2> QED BY <1>2, <1>3, <2>2, <2>3
  <1>5. (\A j \in 1..(n + 1) : f[j] = g[j]) /\ f[n + 2] = h
    BY <1>3
  <1>6. \A i \in 1..(n + 1) : Step(toDaemon'[i], f[i], f[i + 1])
    <2> SUFFICES ASSUME NEW i \in 1..(n + 1) PROVE Step(toDaemon'[i], f[i], f[i + 1])
      OBVIOUS
    <2>1. CASE i = n + 1
      BY <1>1, <1>2, <1>5, <2>1
    <2>2. CASE i \in 1..n
      <3>1. f[i] = g[i] /\ f[i + 1] = g[i + 1] /\ Step(toDaemon[i], g[i], g[i + 1])
        BY <1>1, <1>5, <2>2 DEF Ahead
      <3> QED BY <1>2, <2>2, <3>1
    <2>3. i = n + 1 \/ i \in 1..n
      OBVIOUS
    <2> QED BY <2>1, <2>2, <2>3, Zenon
  <1>7. f[1] = 0 \/ remote' = FirstChunks(f[1])
    BY <1>5 DEF Ahead
  <1>8. Ahead(f)'
    <2>1. f[Len(toDaemon') + 1] = h
      BY <1>2, <1>5
    <2> QED BY <1>2, <1>6, <1>7, <2>1 DEF Ahead
  <1> QED BY <1>4, <1>8

\* The daemon has executed the first command of the queue.
LEMMA AheadTail ==
    ASSUME PushLinkOK, toDaemon # <<>>, toDaemon' = Tail(toDaemon), UNCHANGED <<pc,
       offset>>,
           NEW g \in [1..(Len(toDaemon) + 1) -> 0..NChunks], Ahead(g),
           g[2] = 0 \/ remote' = FirstChunks(g[2])
    PROVE  \E f \in [1..(Len(toDaemon') + 1) -> 0..NChunks] : Ahead(f)'
  <1>1. PICK n \in Nat : n + 1 = Len(toDaemon)
    <2>1. Len(toDaemon) \in Nat \ {0}
      BY DEF PushLinkOK
    <2> QED BY <2>1
  <1>2. Len(toDaemon') = n /\ \A i \in 1..n : toDaemon'[i] = toDaemon[i + 1]
    BY <1>1 DEF PushLinkOK
  <1>3. PICK f : f = [j \in 1..(n + 1) |-> g[j + 1]]
    OBVIOUS
  <1>4. f \in [1..(Len(toDaemon') + 1) -> 0..NChunks]
    <2>1. \A j \in 1..(n + 1) : j + 1 \in 1..(Len(toDaemon) + 1)
      BY <1>1
    <2> QED BY <1>2, <1>3, <2>1
  <1>5. \A j \in 1..(n + 1) : f[j] = g[j + 1]
    BY <1>3
  <1>6. \A i \in 1..n : Step(toDaemon'[i], f[i], f[i + 1])
    <2> SUFFICES ASSUME NEW i \in 1..n PROVE Step(toDaemon'[i], f[i], f[i + 1])
      OBVIOUS
    <2>1. Step(toDaemon[i + 1], g[i + 1], g[(i + 1) + 1]) /\ i + 1 \in 1..(n + 1)
      BY <1>1 DEF Ahead
    <2>2. f[i] = g[i + 1] /\ f[i + 1] = g[(i + 1) + 1]
      BY <1>5, <2>1
    <2> QED BY <1>2, <2>1, <2>2
  <1>7. f[1] = g[2] /\ f[n + 1] = g[Len(toDaemon) + 1]
    <2>1. 1 \in 1..(n + 1) /\ n + 1 \in 1..(n + 1) /\ (n + 1) + 1 = Len(toDaemon) + 1 /\ 1 + 1 = 2
      BY <1>1
    <2> QED BY <1>5, <2>1
  <1>8. Ahead(f)'
    BY <1>2, <1>6, <1>7 DEF Ahead
  <1> QED BY <1>4, <1>8

\* A step that leaves the commands and the file alone.
LEMMA AheadKept ==
    ASSUME AheadInv, Undisturbed, UNCHANGED <<toDaemon, remote, offset>>,
           pc' = "ack" => pc = "ack",
           pc' \in {"verify", "crc"} \/ result'.status = "success" =>
              pc \in {"verify", "crc"} \/ result.status = "success"
    PROVE  AheadInv'
  <1>1. PICK g \in [1..(Len(toDaemon) + 1) -> 0..NChunks] : Ahead(g)
    BY DEF AheadInv
  <1>2. Ahead(g)'
    BY <1>1 DEF Ahead
  <1> QED BY <1>1, <1>2 DEF AheadInv

LEMMA AheadStep == PushInv /\ AheadInv /\ [PushNext]_pushVars => AheadInv'
  <1> SUFFICES ASSUME PushInv, AheadInv, [PushNext]_pushVars, Undisturbed' PROVE AheadInv'
    BY DEF AheadInv
  <1>a. /\ PushTypeOK /\ PushLinkOK /\ PushHostOK /\ offset \in 0..NChunks /\ NChunks \in Nat \ {0}
        /\ toDaemon \in Seq(Command) /\ remote \in Seq(PushContents)
        /\ damage \in Nat /\ drops \in Nat /\ damage' = 0 /\ drops' = 0
    BY PushAssumption, LinkAssumption
       DEF PushInv, PushTypeOK, PushHostOK, ResultOK, PushLinkOK, Undisturbed
  <1>b. ASSUME UNCHANGED damage \/ damage' = damage + 1, UNCHANGED drops
        PROVE  Undisturbed /\ damage' = damage
    BY <1>a, <1>b DEF Undisturbed
  <1>1. CASE Raise
    BY <1>1, <1>b, AheadKept DEF Raise, PushReturn, pushLink
  <1>2. CASE PushSend /\ ~Raise
    <2>1. PICK m : m = Write(offset, offset + 1, TRUE)
      OBVIOUS
    <2>2. /\ pc = "send" /\ pc' = "ack" /\ UNCHANGED <<offset, resumes, result, remote, drops>>
          /\ PushLine(Write(offset, Local[offset + 1], TRUE)) /\ offset < NChunks
      BY <1>2 DEF PushSend, PushInv, PushProgressInv
    <2>3. Local[offset + 1] = offset + 1
      BY <1>a, <2>2 DEF Local
    <2>4. PushLine(m)
      BY <2>1, <2>2, <2>3
    <2>5. Undisturbed /\ damage' = damage
      BY <1>b, <2>2, <2>4 DEF PushLine
    <2>6. toDaemon' = Append(toDaemon, m)
      BY <1>a, <2>4, <2>5 DEF PushLine
    <2>7. m \in Command
      <3>1. offset \in 0..(NChunks - 1) /\ offset + 1 \in PushContents
        BY <1>a, <2>2 DEF PushContents
      <3> QED BY <2>1, <3>1, WriteType
    <2>8. PICK g \in [1..(Len(toDaemon) + 1) -> 0..NChunks] : Ahead(g)
      BY <2>5 DEF AheadInv
    <2>9. Step(m, g[Len(toDaemon) + 1], offset + 1)
      <3>1. offset + 1 \in {g[Len(toDaemon) + 1], g[Len(toDaemon) + 1] + 1}
        BY <2>8 DEF Ahead
      <3>2. (offset + 1) - 1 = offset
        BY <1>a
      <3>3. m = Write((offset + 1) - 1, offset + 1, TRUE)
        BY <2>1, <3>2
      <3>4. m.op = "write"
        BY <2>1 DEF Write
      <3> QED BY <3>1, <3>3, <3>4, Zenon DEF Step
    <2>10. offset + 1 \in 0..NChunks
      BY <1>a, <2>2
    <2>11. \E f \in [1..(Len(toDaemon') + 1) -> 0..NChunks] : Ahead(f)'
      BY <1>a, <2>2, <2>6, <2>7, <2>8, <2>9, <2>10, AheadAppend
    <2>12. result'.status # "success" \/ offset' = NChunks
      BY <2>2, <2>5 DEF AheadInv
    <2> QED BY <2>2, <2>11, <2>12 DEF AheadInv
  <1>3. CASE PushVerify /\ ~Raise
    <2>1. PICK m : m = [op |-> "checksum"]
      OBVIOUS
    <2>2. /\ pc = "verify" /\ pc' = "crc" /\ UNCHANGED <<offset, resumes, result, remote, drops>>
          /\ PushLine(m)
      BY <1>3, <2>1 DEF PushVerify
    <2>3. Undisturbed /\ damage' = damage
      BY <1>b, <2>2 DEF PushLine
    <2>4. toDaemon' = Append(toDaemon, m) /\ m \in Command
      BY <1>a, <2>1, <2>2, <2>3 DEF PushLine, Command
    <2>5. PICK g \in [1..(Len(toDaemon) + 1) -> 0..NChunks] : Ahead(g)
      BY <2>3 DEF AheadInv
    <2>6. PICK h : h = g[Len(toDaemon) + 1]
      OBVIOUS
    <2>7. h \in 0..NChunks /\ h \in {offset, offset + 1} /\ Step(m, g[Len(toDaemon) + 1], h)
      <3>1. Len(toDaemon) + 1 \in 1..(Len(toDaemon) + 1)
        BY <1>a
      <3> QED BY <2>1, <2>5, <2>6, <3>1 DEF Ahead, Step
    <2>8. \E f \in [1..(Len(toDaemon') + 1) -> 0..NChunks] : Ahead(f)'
      BY <1>a, <2>2, <2>4, <2>5, <2>7, AheadAppend
    <2> QED BY <2>2, <2>3, <2>8 DEF AheadInv
  <1>4. CASE PushAck
    <2>1. /\ pc = "ack" /\ UNCHANGED <<toDaemon, remote, damage, drops, result>>
          /\ \/ offset' = offset + 1 /\ pc' = IF offset + 1 = NChunks THEN "verify" ELSE "send"
             \/ offset' = offset /\ pc' = "pause"
      BY <1>4, Zenon DEF PushAck
    <2>2. Undisturbed
      BY <1>b, <2>1
    <2>3. PICK g \in [1..(Len(toDaemon) + 1) -> 0..NChunks] : Ahead(g)
      BY <2>2 DEF AheadInv
    <2>4. Ahead(g)'
      BY <2>1, <2>3 DEF Ahead
    <2>5. result.status # "success"
      BY <1>a, <2>1, <2>2 DEF AheadInv, PushInv, PushProgressInv
    <2>6. pc' \in {"verify", "crc"} \/ result'.status = "success" => offset' = NChunks
      BY <2>1, <2>5
    <2> QED BY <2>1, <2>3, <2>4, <2>6 DEF AheadInv
  <1>5. CASE PushChunkFailed \/ PushTimeout \/ PushPauseOver \/ OutageOver \/ PushResume
    <2>1. /\ UNCHANGED <<toDaemon, remote, damage, drops, offset>>
          /\ pc' \notin {"ack", "verify", "crc"}
      BY <1>5
         DEF PushChunkFailed, PushTimeout, PushPauseOver, OutageOver, PushResume,
                PushReturn, pushLink
    <2>2. result' = result \/ result'.status = "failure"
      BY <1>5
         DEF PushChunkFailed, PushTimeout, PushPauseOver, OutageOver, PushResume,
                PushReturn
    <2> QED BY <1>b, <2>1, <2>2, AheadKept
  <1>6. CASE PushCrc \/ PushCrcTimeout
    <2>1. UNCHANGED <<toDaemon, remote, damage, drops, offset>> /\ pc' = "done" /\ pc = "crc"
      BY <1>6 DEF PushCrc, PushCrcTimeout, PushReturn, pushLink
    <2> QED BY <1>b, <2>1, AheadKept
  <1>7. CASE PushHostIgnores \/ PushReconnect \/ UNCHANGED pushVars
    BY <1>7, <1>b, AheadKept
       DEF PushHostIgnores, PushReconnect, Reconnect, pushVars, pushState, pushLink
  <1>8. CASE DaemonWrite
    <2>1. PICK m : m = Head(toDaemon)
      OBVIOUS
    <2>2. /\ toDaemon # <<>> /\ m.op = "write" /\ toDaemon' = Tail(toDaemon)
          /\ UNCHANGED <<pushState, drops>>
          /\ IF m.at <= FileEnd THEN remote' = Written(m) ELSE UNCHANGED remote
      BY <1>8, <2>1 DEF DaemonWrite
    <2>3. UNCHANGED damage \/ damage' = damage + 1
      BY <1>8 DEF DaemonWrite, Answer
    <2>4. Undisturbed
      BY <1>b, <2>2, <2>3
    <2>5. PICK g \in [1..(Len(toDaemon) + 1) -> 0..NChunks] : Ahead(g)
      BY <2>4 DEF AheadInv
    <2>6. m \in Command /\ m = toDaemon[1] /\ 1 \in 1..Len(toDaemon) /\ 2 \in 1..(Len(toDaemon) + 1)
      BY <1>a, <2>1, <2>2
    <2>7. Step(m, g[1], g[2]) /\ (g[1] = 0 \/ remote = FirstChunks(g[1]))
      <3>1. 1 + 1 = 2
        OBVIOUS
      <3> QED BY <2>5, <2>6, <3>1 DEF Ahead
    <2>8. PICK a, b : a = g[1] /\ b = g[2]
      OBVIOUS
    <2>9. a \in 0..NChunks /\ b \in 0..NChunks
      BY <2>5, <2>6, <2>8
    <2>10. m.at <= FileEnd /\ Written(m) = FirstChunks(b)
      BY <1>a, <2>2, <2>6, <2>7, <2>8, <2>9, WriteAdvances
    <2>11. remote' = FirstChunks(g[2])
      BY <2>2, <2>8, <2>10
    <2>12. \E f \in [1..(Len(toDaemon') + 1) -> 0..NChunks] : Ahead(f)'
      BY <1>a, <2>2, <2>5, <2>11, AheadTail DEF pushState
    <2> QED BY <2>2, <2>4, <2>12 DEF AheadInv, pushState
  <1>9. CASE PushDaemonChecksum
    <2>1. PICK m : m = Head(toDaemon)
      OBVIOUS
    <2>2. /\ toDaemon # <<>> /\ m.op = "checksum" /\ toDaemon' = Tail(toDaemon)
          /\ UNCHANGED <<pushState, remote, drops>>
      BY <1>9, <2>1 DEF PushDaemonChecksum
    <2>3. UNCHANGED damage \/ damage' = damage + 1
      BY <1>9 DEF PushDaemonChecksum, Answer
    <2>4. Undisturbed
      BY <1>b, <2>2, <2>3
    <2>5. PICK g \in [1..(Len(toDaemon) + 1) -> 0..NChunks] : Ahead(g)
      BY <2>4 DEF AheadInv
    <2>6. m = toDaemon[1] /\ 1 \in 1..Len(toDaemon)
      BY <1>a, <2>1, <2>2
    <2>7. g[2] = g[1]
      <3>1. 1 + 1 = 2
        OBVIOUS
      <3>2. Step(m, g[1], g[2])
        BY <2>5, <2>6, <3>1 DEF Ahead
      <3> QED BY <2>2, <3>2 DEF Step
    <2>8. g[2] = 0 \/ remote' = FirstChunks(g[2])
      BY <2>2, <2>5, <2>7 DEF Ahead
    <2>9. \E f \in [1..(Len(toDaemon') + 1) -> 0..NChunks] : Ahead(f)'
      BY <1>a, <2>2, <2>5, <2>8, AheadTail DEF pushState
    <2> QED BY <2>2, <2>4, <2>9 DEF AheadInv, pushState
  <1>10. CASE PushDrop
    BY <1>10, <1>a DEF PushDrop, Drop
  <1> QED
    BY <1>1, <1>2, <1>3, <1>4, <1>5, <1>6, <1>7, <1>8, <1>9, <1>10
       DEF PushNext, PushHost

\* push_file: for a file of any length and any limits, a success reported over a link
\* that was slow at worst means that once nothing is in flight the file is on the
\* Amiga, whichever attempts the acknowledgements belonged to.
THEOREM SuccessCorrect == PushSpec => []SuccessIsIntact
  <1>1. PushInit => AheadInv
    <2> SUFFICES ASSUME PushInit PROVE AheadInv
      OBVIOUS
    <2>1. PICK g : g = [j \in 1..(Len(toDaemon) + 1) |-> 0]
      OBVIOUS
    <2>2. g \in [1..(Len(toDaemon) + 1) -> 0..NChunks] /\ Len(toDaemon) = 0 /\ g[1] = 0
      BY <2>1, PushAssumption, LinkAssumption DEF PushInit
    <2>3. Ahead(g)
      BY <2>2 DEF PushInit, Ahead
    <2> QED BY <2>2, <2>3 DEF PushInit, Pending, AheadInv
  <1>2. PushInv /\ AheadInv => SuccessIsIntact
    <2> SUFFICES ASSUME PushInv, AheadInv, Undisturbed, result.status = "success", toDaemon = <<>>
                 PROVE  Intact
      BY DEF SuccessIsIntact
    <2>1. PICK g \in [1..(Len(toDaemon) + 1) -> 0..NChunks] : Ahead(g)
      BY DEF AheadInv
    <2>2. Len(toDaemon) + 1 = 1 /\ g[1] \in 0..NChunks /\ NChunks \in Nat \ {0}
      BY <2>1, PushAssumption, LinkAssumption
    <2>3. offset = NChunks /\ g[1] = NChunks
      BY <2>1, <2>2 DEF AheadInv, Ahead
    <2> QED BY <2>1, <2>2, <2>3 DEF Ahead, Intact, Local, FirstChunks
  <1> QED BY <1>1, <1>2, PushInitType, PushStep, AheadStep, PTL DEF PushSpec

-------------------------------------------------------------------------------
(* pull_file                                                               *)

LEMMA VersionType ==
    ASSUME NEW v \in Versions
    PROVE  /\ v \in Seq(Chunk) /\ v \in Seq(PullContents) /\ Len(v) \in 0..MaxLen /\ SizeOf(v) \in Lengths
           /\ \A i \in 1..Len(v) : v[i] \in PullContents
  <1>1. /\ v \in Seq(Chunk) /\ Len(v) <= MaxLen /\ Len(v) \in Nat
        /\ MaxLen \in Nat
    BY PullAssumption, LinkAssumption
  <1>2. \A i \in DOMAIN v : v[i] \in PullContents
    BY DEF PullContents
  <1>3. v \in Seq(PullContents)
    BY <1>1, <1>2
  <1>4. (v # <<>> => v[Len(v)].full) \in BOOLEAN
    OBVIOUS
  <1>5. SizeOf(v) \in Lengths
    BY <1>1, <1>4 DEF SizeOf, Lengths
  <1> QED BY <1>1, <1>2, <1>3, <1>5

LEMMA NoChunkType == NoChunk \in PullContents /\ NoChunk.full = FALSE
  BY DEF NoChunk, PullContents

LEMMA ContentsFull == \A c \in PullContents : c.full \in BOOLEAN
  <1> SUFFICES ASSUME NEW c \in PullContents PROVE c.full \in BOOLEAN
    OBVIOUS
  <1>1. CASE c \in [data : {0}, full : BOOLEAN]
    BY <1>1
  <1>2. ASSUME NEW v \in Versions, NEW i \in DOMAIN v, c = v[i] PROVE c.full \in BOOLEAN
    <2>1. v \in Seq(Chunk)
      BY PullAssumption, LinkAssumption
    <2>2. v[i] \in Chunk
      BY <2>1
    <2> QED BY <1>2, <2>2 DEF Chunk
  <1> QED BY <1>1, <1>2 DEF PullContents

LEMMA CrcType == Wrong \in Crcs /\ Garbled \in Crcs /\ Versions \subseteq Crcs
  BY DEF Crcs

\* A damaged line is still some line, of its own kind.
LEMMA RequestForms ==
    ASSUME NEW m \in Request, NEW f \in PullForms(m)
    PROVE  f \in Seq(Request)
  <1>1. Altered(m) \subseteq Request
    <2>1. CASE m.op = "read"
      BY <2>1 DEF Altered, Request
    <2>2. CASE m.op = "checksum"
      BY <2>2 DEF Altered
    <2> QED BY <2>1, <2>2 DEF Request
  <1>2. f = <<>> \/ \E d \in Altered(m) : f = <<d>>
    BY DEF PullForms
  <1> QED BY <1>1, <1>2, SequenceType, Zenon

LEMMA ReplyForms ==
    ASSUME NEW m \in PullReply, NEW f \in PullForms(m)
    PROVE  f \in Seq(PullReply)
  <1>1. Altered(m) \subseteq PullReply
    <2>1. CASE m.op = "file"
      <3>1. m.chunk \in PullContents /\ m.odd \in BOOLEAN
        BY <2>1 DEF PullReply
      <3>2. [data |-> 0, full |-> m.chunk.full] \in PullContents
        BY <3>1, ContentsFull DEF PullContents
      <3> QED BY <2>1, <3>1, <3>2 DEF Altered, PullReply
    <2>2. CASE m.op = "crc"
      BY <2>2, CrcType DEF Altered, PullReply
    <2>3. CASE m.op = "err"
      BY <2>3 DEF Altered
    <2> QED BY <2>1, <2>2, <2>3 DEF PullReply
  <1>2. f = <<>> \/ \E d \in Altered(m) : f = <<d>>
    BY DEF PullForms
  <1> QED BY <1>1, <1>2, SequenceType, Zenon

-------------------------------------------------------------------------------
\* Where pull_file is tells how much of the file it has, and a chunk that is
\* not the last is a whole one.
PullProgressInv ==
    /\ pc \in {"checksum", "crc"} => collected = <<>>
    /\ pc \in {"send", "file"} => Len(collected) < size.n
    /\ pc = "compare" => Len(collected) = size.n /\ size.n > 0
    /\ \A i \in 1..Len(collected) : i < size.n => collected[i].full

PullInv == PullTypeOK /\ PullProgressInv

\* What the line makes of a command or of an answer is still commands or answers.
LEMMA CarriesRequest ==
    ASSUME PullLinkOK, NEW m \in Request, Carries(toDaemon, toDaemon', m)
    PROVE  toDaemon' \in Seq(Request) /\ damage' \in 0..MaxDamage /\ hurt' \in BOOLEAN
  <1>1. toDaemon \in Seq(Request) /\ damage \in 0..MaxDamage /\ hurt \in BOOLEAN
    BY DEF PullLinkOK
  <1>2. toDaemon' \in Seq(Request)
    <2>1. CASE toDaemon' = Append(toDaemon, m)
      BY <1>1, <2>1, SequenceType
    <2>2. ASSUME NEW f \in PullForms(m), toDaemon' = toDaemon \o f
          PROVE  toDaemon' \in Seq(Request)
      BY <1>1, <2>2, RequestForms, SequenceType
    <2> QED BY <2>1, <2>2 DEF Carries
  <1>3. damage' \in 0..MaxDamage
    BY <1>1, PullAssumption, LinkAssumption DEF Carries
  <1>4. hurt' \in BOOLEAN
    BY <1>1, Zenon DEF Carries
  <1> QED BY <1>2, <1>3, <1>4

LEMMA CarriesReply ==
    ASSUME PullLinkOK, NEW m \in PullReply, Carries(toHost, toHost', m)
    PROVE  toHost' \in Seq(PullReply) /\ damage' \in 0..MaxDamage /\ hurt' \in BOOLEAN
  <1>1. toHost \in Seq(PullReply) /\ damage \in 0..MaxDamage /\ hurt \in BOOLEAN
    BY DEF PullLinkOK
  <1>2. toHost' \in Seq(PullReply)
    <2>1. CASE toHost' = Append(toHost, m)
      BY <1>1, <2>1, SequenceType
    <2>2. ASSUME NEW f \in PullForms(m), toHost' = toHost \o f
          PROVE  toHost' \in Seq(PullReply)
      BY <1>1, <2>2, ReplyForms, SequenceType
    <2> QED BY <2>1, <2>2 DEF Carries
  <1>3. damage' \in 0..MaxDamage
    BY <1>1, PullAssumption, LinkAssumption DEF Carries
  <1>4. hurt' \in BOOLEAN
    BY <1>1, Zenon DEF Carries
  <1> QED BY <1>2, <1>3, <1>4

\* The daemon answers every command with a line of the protocol.
LEMMA DaemonType ==
    ASSUME PullInv, NEW op, NEW answer \in PullReply, Daemon(op, answer)
    PROVE  PullInv'
  <1>1. PullLinkOK /\ toDaemon # <<>> /\ toDaemon' = Tail(toDaemon)
        /\ Carries(toHost, toHost', answer)
    BY DEF PullInv, PullTypeOK, Daemon
  <1>2. PullLinkOK'
    BY <1>1, CarriesReply, SequenceType DEF PullLinkOK, Daemon
  <1> QED BY <1>2 DEF PullInv, PullTypeOK, PullHostOK, ResultOK, PullProgressInv,
     Daemon, pullState, pullWork

LEMMA ReadReply ==
    ASSUME PullTypeOK, remote # <<>>, NEW m \in Request, m.op = "read"
    PROVE  Read(m) \in PullReply
  <1>1. remote \in Versions /\ remote \in Seq(PullContents) /\ m.at \in 1..MaxLen
    BY VersionType DEF PullTypeOK, Request
  <1>2. CASE m.at > Len(remote)
    BY <1>2, NoChunkType DEF Read, PullReply
  <1>3. CASE m.at <= Len(remote)
    <2>1. remote[m.at] \in PullContents
      BY <1>1, <1>3
    <2> QED BY <1>1, <1>3, <2>1, NoChunkType DEF Read, PullReply
  <1> QED BY <1>1, <1>2, <1>3

LEMMA ChecksumReply ==
    ASSUME PullTypeOK
    PROVE  [op |-> "crc", size |-> SizeOf(remote), crc |-> remote] \in PullReply
  BY VersionType, CrcType DEF PullTypeOK, PullReply

LEMMA ErrReply == [op |-> "err"] \in PullReply
  BY DEF PullReply

\* A line taken off the queue was a line of the protocol.
LEMMA GetsType ==
    ASSUME PullTypeOK, NEW op, Gets(op)
    PROVE  /\ PullLinkOK' /\ UNCHANGED <<remote, changes, late>>
           /\ Head(toHost) \in PullReply /\ Head(toHost).op = op
  BY SequenceType DEF PullTypeOK, PullLinkOK, Gets

\* conn.send puts a command on the line, or raises and changes nothing else.
LEMMA PullLineType ==
    ASSUME PullInv, NEW m \in Request, NEW next, NEW n, PullLine(m, next, n)
    PROVE  /\ PullLinkOK' /\ UNCHANGED <<remote, changes, late>>
           /\ \/ PullReturn("raised", "none")
              \/ pc' = next /\ tries' = n
                 /\ UNCHANGED <<size, crc, attempt, collected, saved, result>>
  <1>1. PullLinkOK
    BY DEF PullInv, PullTypeOK
  <1>2. UNCHANGED <<remote, changes, late>>
    BY DEF PullLine
  <1>3. CASE PullReturn("raised", "none") /\ UNCHANGED pullLink
    BY <1>1, <1>2, <1>3 DEF PullLinkOK, pullLink
  <1>4. CASE /\ Carries(toDaemon, toDaemon', m) /\ pc' = next /\ tries' = n
             /\ UNCHANGED <<size, crc, attempt, collected, saved, result,
                            connected, toHost, drops>>
    <2>1. PullLinkOK'
      BY <1>1, <1>4, CarriesRequest DEF PullLinkOK
    <2> QED BY <1>2, <1>4, <2>1
  <1> QED BY <1>3, <1>4, Zenon DEF PullLine


\* pull_file returns: what it collected stays within the size announced.
LEMMA PullReturnType ==
    ASSUME PullInv, NEW status \in {"success", "failure", "raised"},
           NEW match \in {"none", "match", "mismatch"}, PullReturn(status, match)
    PROVE  PullHostOK' /\ PullProgressInv'
  BY DEF PullInv, PullTypeOK, PullHostOK, ResultOK, PullProgressInv, PullReturn

LEMMA PullStep == PullInv /\ [PullNext]_pullVars => PullInv'
  <1> SUFFICES ASSUME PullInv, [PullNext]_pullVars PROVE PullInv'
    OBVIOUS
  <1>a. /\ PullTypeOK /\ PullHostOK /\ PullLinkOK /\ PullProgressInv
        /\ collected \in Seq(PullContents) /\ size.n \in 0..MaxLen /\ size.whole \in BOOLEAN
        /\ MaxLen \in Nat \ {0} /\ MaxRetries \in Nat \ {0} /\ MaxAttempts \in Nat \ {0}
    BY PullAssumption, LinkAssumption
       DEF PullInv, PullTypeOK, PullHostOK, ResultOK, Lengths
  <1>b. ASSUME PullHostOK', PullLinkOK', PullProgressInv', UNCHANGED <<remote, changes, late>>
        PROVE  PullInv'
    BY <1>a, <1>b DEF PullInv, PullTypeOK
  <1>1. CASE PullChecksum
    <2>1. [op |-> "checksum"] \in Request
      BY DEF Request
    <2>2. PullLine([op |-> "checksum"], "crc", tries) /\ pc = "checksum"
      BY <1>1 DEF PullChecksum
    <2>3. CASE PullReturn("raised", "none")
      BY <1>b, <2>1, <2>2, <2>3, PullLineType, PullReturnType
    <2>4. CASE /\ pc' = "crc" /\ tries' = tries
               /\ UNCHANGED <<size, crc, attempt, collected, saved, result>>
      <3>1. PullHostOK' /\ PullProgressInv'
        BY <1>a, <2>2, <2>4 DEF PullHostOK, ResultOK, PullProgressInv
      <3> QED BY <1>b, <2>1, <2>2, <3>1, PullLineType
    <2> QED BY <2>1, <2>2, <2>3, <2>4, PullLineType
  <1>2. CASE PullSize
    <2>1. /\ PullLinkOK' /\ UNCHANGED <<remote, changes, late>>
          /\ Head(toHost) \in PullReply /\ Head(toHost).op = "crc" /\ pc = "crc"
      BY <1>a, <1>2, GetsType DEF PullSize
    <2>2. CASE PullReturn("failure", "none")
      BY <1>b, <2>1, <2>2, PullReturnType
    <2>3. CASE Head(toHost).size.n # 0
      <3>1. /\ size' = Head(toHost).size /\ crc' = Head(toHost).crc /\ pc' = "send"
            /\ UNCHANGED <<attempt, tries, collected, saved, result>>
        BY <1>2, <2>3 DEF PullSize
      <3>2. size' \in Lengths /\ crc' \in Crcs /\ size'.n # 0 /\ collected = <<>>
        BY <1>a, <2>1, <2>3, <3>1 DEF PullReply, PullProgressInv
      <3>3. PullHostOK' /\ PullProgressInv'
        BY <1>a, <3>1, <3>2 DEF PullHostOK, ResultOK, PullProgressInv, Lengths
      <3> QED BY <1>b, <2>1, <3>3
    <2> QED BY <1>2, <2>2, <2>3 DEF PullSize
  <1>3. CASE PullSizeTimeout
    BY <1>3, <1>a, PullReturnType
       DEF PullSizeTimeout, TimesOut, PullInv, PullTypeOK, PullLinkOK, pullLink
  <1>4. CASE PullSend
    <2>1. /\ PullLine(ReadNext, "file", tries + 1) /\ pc = "send" /\ tries < MaxRetries
          /\ Len(collected) < size.n
      BY <1>a, <1>4 DEF PullSend, PullProgressInv
    <2>2. ReadNext \in Request
      <3>1. Len(collected) + 1 \in 1..MaxLen
        BY <1>a, <2>1
      <3>2. Wanted \in BOOLEAN
        BY <1>a, Zenon DEF Wanted
      <3> QED BY <3>1, <3>2 DEF ReadNext, Request
    <2>3. CASE PullReturn("raised", "none")
      BY <1>b, <2>1, <2>2, <2>3, PullLineType, PullReturnType
    <2>4. CASE /\ pc' = "file" /\ tries' = tries + 1
               /\ UNCHANGED <<size, crc, attempt, collected, saved, result>>
      <3>1. PullHostOK' /\ PullProgressInv'
        BY <1>a, <2>1, <2>4 DEF PullHostOK, ResultOK, PullProgressInv
      <3> QED BY <1>b, <2>1, <2>2, <3>1, PullLineType
    <2> QED BY <2>1, <2>2, <2>3, <2>4, PullLineType
  <1>5. CASE PullGiveUp
    BY <1>5, <1>a, PullReturnType
       DEF PullGiveUp, PullInv, PullTypeOK, PullLinkOK, pullLink
  <1>6. CASE PullChunk
    <2>1. /\ PullLinkOK' /\ UNCHANGED <<remote, changes, late>>
          /\ Head(toHost) \in PullReply /\ Head(toHost).op = "file"
          /\ pc = "file" /\ Len(collected) < size.n
      BY <1>a, <1>6, GetsType DEF PullChunk, PullProgressInv
    <2>2. UNCHANGED <<size, crc, attempt, saved, result>>
      BY <1>6 DEF PullChunk
    <2>3. CASE ~(~Head(toHost).odd /\ Head(toHost).chunk.full = Wanted)
      <3>1. pc' = "send" /\ UNCHANGED <<collected, tries>>
        BY <1>6, <2>3 DEF PullChunk
      <3>2. PullHostOK' /\ PullProgressInv'
        BY <1>a, <2>1, <2>2, <3>1 DEF PullHostOK, ResultOK, PullProgressInv
      <3> QED BY <1>b, <2>1, <3>2
    <2>4. CASE Head(toHost).chunk.full = Wanted /\ ~Head(toHost).odd
      <3> DEFINE c == Head(toHost).chunk
      <3>1. /\ collected' = Append(collected, c) /\ tries' = 0
            /\ pc' = IF Len(collected) + 1 = size.n THEN "compare" ELSE "send"
        BY <1>6, <2>4 DEF PullChunk
      <3>2. c \in PullContents
        BY <2>1 DEF PullReply
      <3>3. Len(collected) + 1 < size.n => c.full
        BY <2>4 DEF Wanted
      <3> HIDE DEF c
      <3>4. /\ collected' \in Seq(PullContents) /\ Len(collected') = Len(collected) + 1
            /\ \A i \in 1..Len(collected') :
                  collected'[i] = IF i = Len(collected) + 1 THEN c ELSE collected[i]
        BY <1>a, <3>1, <3>2
      <3>5. PullHostOK'
        BY <1>a, <2>1, <2>2, <3>1, <3>4 DEF PullHostOK, ResultOK
      <3>6. PullProgressInv'
        BY <1>a, <2>1, <2>2, <3>1, <3>3, <3>4 DEF PullProgressInv
      <3> QED BY <1>b, <2>1, <3>5, <3>6
    <2> QED BY <2>3, <2>4
  <1>7. CASE PullTimeout
    BY <1>7, <1>a DEF PullTimeout, TimesOut, PullInv, PullTypeOK, PullLinkOK,
       PullHostOK, ResultOK, PullProgressInv, pullLink
  <1>8. CASE PullCompare
    <2>1. UNCHANGED <<pullLink, remote, changes, late>> /\ pc = "compare"
      BY <1>8 DEF PullCompare
    <2>2. PullLinkOK'
      BY <1>a, <2>1 DEF PullLinkOK, pullLink
    <2>3. Matches \in {"match", "none"}
      BY DEF Matches
    <2>4. CASE PullReturn("success", Matches) \/ PullReturn("failure", "mismatch")
      BY <1>b, <2>1, <2>2, <2>3, <2>4, PullReturnType
    <2>5. CASE Redo(attempt + 1) /\ attempt + 1 # MaxAttempts
      <3>1. PullHostOK' /\ PullProgressInv'
        BY <1>a, <2>1, <2>5 DEF PullHostOK, ResultOK, PullProgressInv, Redo
      <3> QED BY <1>b, <2>1, <2>2, <3>1
    <2> QED BY <1>8, <2>4, <2>5 DEF PullCompare
  <1>9. CASE PullHostIgnores
    <2>1. PICK op \in {"crc", "file", "err"} : Gets(op)
      BY <1>9 DEF PullHostIgnores
    <2>2. PullLinkOK' /\ UNCHANGED <<remote, changes, late>>
      BY <1>a, <2>1, GetsType
    <2>3. PullHostOK' /\ PullProgressInv'
      BY <1>a, <1>9 DEF PullHostIgnores, pullState, pullWork, PullHostOK, ResultOK,
         PullProgressInv
    <2> QED BY <1>b, <2>2, <2>3
  <1>10. CASE PullDaemonChecksum
    <2>1. CASE remote = <<>>
      BY <1>10, <2>1, DaemonType, ErrReply DEF PullDaemonChecksum
    <2>2. CASE remote # <<>>
      BY <1>10, <1>a, <2>2, DaemonType, ChecksumReply DEF PullDaemonChecksum
    <2> QED BY <2>1, <2>2
  <1>11. CASE DaemonRead
    <2>1. CASE remote = <<>>
      BY <1>11, <2>1, DaemonType, ErrReply DEF DaemonRead
    <2>2. CASE remote # <<>>
      <3>1. Daemon("read", Read(Head(toDaemon)))
        BY <1>11, <2>2 DEF DaemonRead
      <3>2. Head(toDaemon) \in Request /\ Head(toDaemon).op = "read"
        BY <1>a, <3>1, SequenceType DEF Daemon, PullLinkOK
      <3>3. Read(Head(toDaemon)) \in PullReply
        BY <1>a, <2>2, <3>2, ReadReply
      <3> QED BY <3>1, <3>3, DaemonType
    <2> QED BY <2>1, <2>2
  <1>12. CASE RemoteChange
    BY <1>12, <1>a, PullAssumption, LinkAssumption
       DEF RemoteChange, PullInv, PullTypeOK, PullHostOK, ResultOK, PullLinkOK,
              PullProgressInv, pullState, pullWork, pullLink
  <1>13. CASE PullDrop
    <2>1. PullLinkOK'
      <3>1. toDaemon' \in Seq(Request) /\ toHost' \in Seq(PullReply)
        BY <1>13, SequenceType DEF PullDrop, Drop
      <3>2. drops' \in 0..MaxDrops
        BY <1>13, <1>a, PullAssumption, LinkAssumption DEF PullDrop, Drop, PullLinkOK
      <3> QED BY <1>13, <1>a, <3>1, <3>2 DEF PullDrop, Drop, PullLinkOK
    <2>2. PullHostOK' /\ PullProgressInv'
      BY <1>13, <1>a DEF PullDrop, Drop, pullState, pullWork, PullHostOK, ResultOK,
         PullProgressInv
    <2> QED BY <1>13, <1>b, <2>1, <2>2 DEF PullDrop, Drop
  <1>14. CASE PullReconnect
    BY <1>14, <1>a DEF PullReconnect, Reconnect, PullInv, PullTypeOK, PullHostOK,
       ResultOK, PullLinkOK, PullProgressInv, pullState, pullWork
  <1>15. CASE UNCHANGED pullVars
    BY <1>15, <1>a DEF pullVars, PullInv, PullTypeOK, PullHostOK, ResultOK,
       PullLinkOK, PullProgressInv, pullState, pullWork, pullLink
  <1> QED
    BY <1>1, <1>2, <1>3, <1>4, <1>5, <1>6, <1>7, <1>8, <1>9, <1>10, <1>11, <1>12, <1>13,
       <1>14, <1>15 DEF PullNext, PullHost


LEMMA PullInitType == PullInit => PullInv
  <1> SUFFICES ASSUME PullInit PROVE PullInv
    OBVIOUS
  <1>1. SizeOf(<<>>) \in Lengths /\ SizeOf(<<>>).n = 0
    <2>1. (<<>> # <<>> => <<>>[Len(<<>>)].full) = TRUE
      OBVIOUS
    <2> QED BY <2>1, PullAssumption, LinkAssumption DEF SizeOf, Lengths
  <1>2. PullHostOK
    BY <1>1, CrcType, PullAssumption, LinkAssumption
       DEF PullInit, PullHostOK, ResultOK, Pending
  <1>3. toHost \in Seq(PullReply)
    <2>1. \A c \in PullContents : [op |-> "file", chunk |-> c, odd |-> FALSE] \in PullReply
      BY DEF PullReply
    <2>2. \A f \in Leftovers : f = <<>> \/ \E d \in PullReply : f = <<d>>
      BY <2>1 DEF Leftovers
    <2> QED BY <2>2, SequenceType, Zenon DEF PullInit
  <1>4. PullLinkOK
    <2>1. toDaemon \in Seq(Request)
      BY SequenceType DEF PullInit
    <2>2. damage \in 0..MaxDamage /\ drops \in 0..MaxDrops
      BY PullAssumption, LinkAssumption DEF PullInit
    <2> QED BY <1>3, <2>1, <2>2 DEF PullInit, PullLinkOK
  <1>5. late \in BOOLEAN
    BY DEF PullInit
  <1>6. PullProgressInv
    BY <1>1 DEF PullInit, PullProgressInv
  <1> QED BY <1>2, <1>4, <1>5, <1>6, PullAssumption, LinkAssumption
     DEF PullInit, PullInv, PullTypeOK

\* file_transfer.py pull_file and the handlers it talks to: the state keeps its
\* shape; retries and downloads stay capped, and no download collects more
\* chunks than the size that was announced.
THEOREM PullTypeCorrect == PullSpec => []PullTypeOK
  <1>1. PullInv => PullTypeOK
    BY DEF PullInv
  <1> QED BY <1>1, PullInitType, PullStep, PTL DEF PullSpec

LEMMA PullReturnMovesOn ==
    ASSUME PullInv, pc # "done", NEW status, NEW match, PullReturn(status, match)
    PROVE  PullMovesOn
  BY DEF PullInv, PullTypeOK, PullHostOK, PullReturn, PullMovesOn, PullRank

LEMMA PullHostMovesOn == PullInv /\ PullHost => PullMovesOn
  <1> SUFFICES ASSUME PullInv, PullHost PROVE PullMovesOn
    OBVIOUS
  <1>a. /\ collected \in Seq(PullContents) /\ Len(collected) \in Nat
        /\ attempt \in Nat /\ tries \in Nat
    BY DEF PullInv, PullTypeOK, PullHostOK
  <1>1. CASE PullChecksum
    BY <1>a, <1>1, PullReturnMovesOn DEF PullChecksum, PullLine, PullMovesOn, PullRank
  <1>2. CASE PullSize \/ PullSizeTimeout \/ PullGiveUp
    BY <1>a, <1>2, PullReturnMovesOn
       DEF PullSize, PullSizeTimeout, PullGiveUp, PullMovesOn, PullRank
  <1>3. CASE PullSend
    BY <1>a, <1>3, PullReturnMovesOn DEF PullSend, PullLine, PullMovesOn
  <1>4. CASE PullChunk
    <2>1. Head(toHost) \in PullReply /\ Head(toHost).op = "file" /\ pc = "file"
      BY <1>4, SequenceType DEF PullChunk, Gets, PullInv, PullTypeOK, PullLinkOK
    <2>2. Head(toHost).chunk \in PullContents
      BY <2>1 DEF PullReply
    <2>3. Len(Append(collected, Head(toHost).chunk)) = Len(collected) + 1
      BY <1>a, <2>2
    <2> QED BY <1>a, <1>4, <2>1, <2>3 DEF PullChunk, PullMovesOn, PullRank
  <1>5. CASE PullTimeout
    BY <1>a, <1>5 DEF PullTimeout, PullMovesOn, PullRank
  <1>6. CASE PullCompare
    BY <1>a, <1>6, PullReturnMovesOn DEF PullCompare, Redo, PullMovesOn
  <1> QED BY <1>1, <1>2, <1>3, <1>4, <1>5, <1>6 DEF PullHost

\* file_transfer.py pull_file: each step uses up a download, a chunk or a try, or
\* comes to a later station, and nobody else moves it; the caps in PullTypeOK leave
\* finitely many such steps.
THEOREM PullAdvancesCorrect == PullSpec => PullAdvances
  <1>1. PullInv /\ [PullNext]_pullVars
        => [IF PullHost THEN PullMovesOn ELSE UNCHANGED pullState]_pullVars
    <2> SUFFICES ASSUME PullInv, PullNext, ~PullHost PROVE UNCHANGED pullState
      BY PullHostMovesOn
    <2> QED BY DEF PullNext, PullHostIgnores, PullDaemonChecksum, DaemonRead, Daemon,
                   RemoteChange, PullDrop, Drop, PullReconnect, Reconnect, pullState, pullWork
  <1> QED BY <1>1, PullInitType, PullStep, PTL DEF PullSpec, PullAdvances

-------------------------------------------------------------------------------
\* The CRC that a complete download matches belongs to a version: it is not that
\* of no file, since the download has whole chunks before its last, and not one
\* that did not parse, since the download is not empty.
LEMMA MatchIsVersion ==
    ASSUME PullInv, pc = "compare", crc = collected
    PROVE  collected \in Versions
  <1>1. /\ collected \in Seq(PullContents) /\ size.n = Len(collected) /\ Len(collected) > 0
        /\ \A i \in 1..Len(collected) : i < size.n => collected[i].full
        /\ crc \in Crcs
    BY DEF PullInv, PullTypeOK, PullHostOK, ResultOK, PullProgressInv
  <1>2. collected # Garbled
    BY <1>1 DEF Garbled
  <1>3. collected # Wrong
    <2>1. SUFFICES ASSUME collected = Wrong PROVE FALSE
      OBVIOUS
    <2>2. Len(collected) = 2 /\ collected[1] = NoChunk
      BY <2>1 DEF Wrong
    <2> QED BY <1>1, <2>2, NoChunkType
  <1> QED BY <1>1, <1>2, <1>3 DEF Crcs

LEMMA VerifiedStep == PullInv /\ VerifiedIsOneVersion /\ [PullNext]_pullVars => VerifiedIsOneVersion'
  <1> SUFFICES ASSUME PullInv, VerifiedIsOneVersion, [PullNext]_pullVars PROVE VerifiedIsOneVersion'
    OBVIOUS
  <1>0. UNCHANGED call
    BY DEF PullNext, pullVars
  <1>1. CASE UNCHANGED <<result, saved>>
    BY <1>0, <1>1 DEF VerifiedIsOneVersion
  <1>2. ASSUME NEW status, NEW match, PullReturn(status, match), match # "match"
        PROVE  VerifiedIsOneVersion'
    BY <1>2 DEF PullReturn, VerifiedIsOneVersion
  <1>3. CASE PullCompare
    <2>1. CASE PullReturn("success", Matches)
      <3>1. result'.crc = Matches /\ saved' = collected
        BY <2>1 DEF PullReturn
      <3>2. CASE crc = collected
        BY <1>3, <3>1, <3>2, MatchIsVersion DEF PullCompare, VerifiedIsOneVersion
      <3>3. CASE crc # collected
        BY <3>1, <3>3 DEF Matches, VerifiedIsOneVersion
      <3> QED BY <3>2, <3>3
    <2> QED BY <1>1, <1>2, <1>3, <2>1 DEF PullCompare, Redo
  <1>4. CASE PullChecksum \/ PullSend
    <2>1. PullReturn("raised", "none") \/ UNCHANGED <<result, saved>>
      BY <1>4, Zenon DEF PullChecksum, PullSend, PullLine
    <2> QED BY <1>1, <1>2, <2>1
  <1>5. CASE PullSize \/ PullSizeTimeout \/ PullGiveUp
    <2>1. PullReturn("failure", "none") \/ UNCHANGED <<result, saved>>
      BY <1>5 DEF PullSize, PullSizeTimeout, PullGiveUp
    <2> QED BY <1>1, <1>2, <2>1
  <1>6. CASE PullChunk \/ PullTimeout
    BY <1>1, <1>6 DEF PullChunk, PullTimeout
  <1>7. CASE \/ PullHostIgnores \/ PullDaemonChecksum \/ DaemonRead \/ RemoteChange \/ PullDrop
             \/ PullReconnect \/ UNCHANGED pullVars
    BY <1>1, <1>7
       DEF PullHostIgnores, PullDaemonChecksum, DaemonRead, Daemon, RemoteChange,
              PullDrop, Drop, PullReconnect, Reconnect,
           pullVars, pullState, pullWork
  <1> QED BY <1>3, <1>4, <1>5, <1>6, <1>7 DEF PullNext, PullHost

\* pull_file, "Verifies with CHECKSUM after transfer": what is saved as verified
\* is one version of the file, for every set of versions and every fault.
THEOREM PullVerifiedCorrect == PullSpec => []VerifiedIsOneVersion
  <1>1. PullInit => VerifiedIsOneVersion
    BY DEF PullInit, Pending, VerifiedIsOneVersion
  <1> QED BY <1>1, PullInitType, PullStep, VerifiedStep, PTL DEF PullSpec

-------------------------------------------------------------------------------
\* What DamageIsRepaired leaves out: the exchange is intact, nothing is late.
Clean == ~late /\ ~hurt /\ drops = 0 /\ changes = 0 /\ remote # <<>>

Quiet == toDaemon = <<>> /\ toHost = <<>>
IntactSoFar == \A i \in 1..Len(collected) : collected[i] = remote[i]

\* One line is under way: the next command or its answer; else a line was damaged, and
\* there may be any line in their place or none.
OnTheWay ==
    \/ toDaemon = <<ReadNext>> /\ toHost = <<>>
    \/ toDaemon = <<>> /\ toHost = <<Read(ReadNext)>>
    \/ /\ tries <= damage /\ attempt < damage
       /\ \/ Quiet
          \/ toHost = <<>> /\ \E m \in Request : m.op = "read" /\ toDaemon = <<m>>
          \/ toDaemon = <<>> /\ \E m \in PullReply : m.op = "file" /\ toHost = <<m>>

\* Every turn without a chunk, every chunk that is not the file's, and so every
\* download that is thrown away was paid for with a damaged line.
RepairInv == Clean =>
    /\ connected
    /\ pc = "checksum" => Quiet /\ attempt = 0 /\ tries = 0
    /\ pc = "crc" =>
          /\ attempt = 0 /\ tries = 0
          /\ \/ toDaemon = <<[op |-> "checksum"]>> /\ toHost = <<>>
             \/ toDaemon = <<>> /\ toHost = <<[op |-> "crc", size |-> SizeOf(remote), crc |-> remote]>>
    /\ pc \in {"send", "file", "compare"} =>
          /\ size = SizeOf(remote) /\ crc = remote /\ attempt <= damage
          /\ IntactSoFar \/ attempt < damage
    /\ pc = "send" => Quiet /\ tries <= damage
    /\ pc = "file" => OnTheWay /\ tries <= damage + 1
    /\ pc = "compare" => Quiet /\ tries = 0

LEMMA CleanStep ==
    ASSUME PullInv, RepairInv, [PullNext]_pullVars, Clean'
    PROVE  /\ Clean /\ connected /\ connected' /\ remote' = remote
           /\ PullHost \/ PullHostIgnores \/ PullDaemonChecksum \/ DaemonRead \/ UNCHANGED pullVars
  <1>1. /\ drops \in Nat /\ changes \in Nat /\ late \in BOOLEAN /\ hurt \in BOOLEAN
    BY PullAssumption, LinkAssumption DEF PullInv, PullTypeOK, PullLinkOK
  <1>2. ~PullDrop /\ ~RemoteChange
    BY <1>1 DEF Clean, PullDrop, Drop, RemoteChange
  <1>3. CASE PullReconnect
    <2>1. Clean
      BY <1>3 DEF PullReconnect, Reconnect, Clean
    <2> QED BY <1>3, <2>1 DEF RepairInv, PullReconnect, Reconnect
  <1>4. ASSUME UNCHANGED <<drops, changes, remote, connected>>, late => late', hurt => hurt'
        PROVE  Clean /\ connected /\ connected' /\ remote' = remote
    BY <1>4 DEF Clean, RepairInv
  <1>5. CASE PullChecksum \/ PullSend
    <2>1. UNCHANGED <<drops, changes, remote, connected, late>>
      BY <1>5 DEF PullChecksum, PullSend, PullLine, pullLink
    <2>2. hurt => hurt'
      BY <1>5, Zenon DEF PullChecksum, PullSend, PullLine, pullLink, Carries
    <2> QED BY <1>4, <1>5, <2>1, <2>2 DEF PullHost
  <1>6. CASE PullSize \/ PullChunk \/ PullHostIgnores
    BY <1>4, <1>6, Zenon DEF PullSize, PullChunk, PullHostIgnores, Gets, PullHost
  <1>7. CASE PullSizeTimeout \/ PullTimeout
    <2>1. UNCHANGED <<drops, changes, remote, connected, hurt>>
      BY <1>7 DEF PullSizeTimeout, PullTimeout, TimesOut, pullLink
    <2>2. late => late'
      BY <1>7, Zenon DEF PullSizeTimeout, PullTimeout, TimesOut
    <2> QED BY <1>4, <1>7, <2>1, <2>2 DEF PullHost
  <1>8. CASE PullGiveUp \/ PullCompare
    BY <1>4, <1>8 DEF PullGiveUp, PullCompare, pullLink, PullHost
  <1>9. CASE PullDaemonChecksum \/ DaemonRead
    <2>1. UNCHANGED <<drops, changes, remote, connected, late>>
      BY <1>9 DEF PullDaemonChecksum, DaemonRead, Daemon
    <2>2. hurt => hurt'
      BY <1>9, Zenon DEF PullDaemonChecksum, DaemonRead, Daemon, Carries
    <2> QED BY <1>4, <1>9, <2>1, <2>2
  <1>10. CASE UNCHANGED pullVars
    BY <1>4, <1>10 DEF pullVars, pullLink
  <1> QED
    BY <1>2, <1>3, <1>5, <1>6, <1>7, <1>8, <1>9, <1>10 DEF PullNext, PullHost

\* On a quiet line a command arrives as it was sent, or at the cost of a damaged line
\* as at most one other line; so does an answer.
LEMMA CommandArrives ==
    ASSUME NEW m, toDaemon = <<>>, Carries(toDaemon, toDaemon', m)
    PROVE  \/ toDaemon' = <<m>> /\ UNCHANGED <<damage, hurt>>
           \/ /\ damage' = damage + 1 /\ hurt' = (hurt \/ m.op \notin {"read", "file"})
              /\ toDaemon' = <<>> \/ \E d \in Altered(m) : toDaemon' = <<d>>
  <1>1. CASE toDaemon' = Append(toDaemon, m) /\ UNCHANGED <<damage, hurt>>
    BY <1>1
  <1>2. ASSUME NEW f \in PullForms(m), toDaemon' = toDaemon \o f,
               damage' = damage + 1, hurt' = (hurt \/ m.op \notin {"read", "file"})
        PROVE  toDaemon' = <<>> \/ \E d \in Altered(m) : toDaemon' = <<d>>
    BY <1>2 DEF PullForms
  <1> QED BY <1>1, <1>2 DEF Carries

LEMMA AnswerArrives ==
    ASSUME NEW m, toHost = <<>>, Carries(toHost, toHost', m)
    PROVE  \/ toHost' = <<m>> /\ UNCHANGED <<damage, hurt>>
           \/ /\ damage' = damage + 1 /\ hurt' = (hurt \/ m.op \notin {"read", "file"})
              /\ toHost' = <<>> \/ \E d \in Altered(m) : toHost' = <<d>>
  <1>1. CASE toHost' = Append(toHost, m) /\ UNCHANGED <<damage, hurt>>
    BY <1>1
  <1>2. ASSUME NEW f \in PullForms(m), toHost' = toHost \o f,
               damage' = damage + 1, hurt' = (hurt \/ m.op \notin {"read", "file"})
        PROVE  toHost' = <<>> \/ \E d \in Altered(m) : toHost' = <<d>>
    BY <1>2 DEF PullForms
  <1> QED BY <1>1, <1>2 DEF Carries

\* handle_readfile's answer to the next command is the next chunk of the file, with
\* as many bytes as pull_file asked for.
LEMMA NextChunk ==
    ASSUME PullTypeOK, remote # <<>>, size = SizeOf(remote), Len(collected) < size.n
    PROVE  /\ Read(ReadNext).op = "file" /\ ~Read(ReadNext).odd
           /\ Read(ReadNext).chunk = remote[Len(collected) + 1]
           /\ Read(ReadNext).chunk.full = Wanted
  <1> DEFINE i == Len(collected) + 1
  <1>1. /\ remote \in Versions /\ remote \in Seq(Chunk) /\ collected \in Seq(PullContents)
        /\ size.n = Len(remote) /\ size.whole = (remote # <<>> => remote[Len(remote)].full)
    BY PullAssumption, LinkAssumption DEF PullTypeOK, PullHostOK, ResultOK, SizeOf
  <1>2. i \in 1..Len(remote) /\ Len(remote) \in Nat
    BY <1>1
  <1>3. remote[i] \in Chunk
    BY <1>1, <1>2
  <1>4. remote[i].full = Wanted
    <2>1. CASE i < Len(remote)
      <3>1. remote[i].full
        BY <1>1, <1>2, <2>1, PullAssumption, LinkAssumption
      <3>2. Wanted /\ remote[i].full \in BOOLEAN
        BY <1>1, <1>3, <2>1 DEF Wanted, Chunk
      <3> QED BY <3>1, <3>2
    <2>2. CASE i = Len(remote)
      <3>1. remote[i].full = size.whole /\ size.whole \in BOOLEAN
        <4>1. remote[i].full \in BOOLEAN
          BY <1>3 DEF Chunk
        <4> QED BY <1>1, <2>2, <4>1
      <3>2. Wanted = size.whole
        BY <1>1, <2>2, <3>1 DEF Wanted
      <3> QED BY <3>1, <3>2
    <2> QED BY <1>2, <2>1, <2>2
  <1>5. ReadNext.at = i /\ ReadNext.full = Wanted /\ i <= Len(remote)
    BY <1>2 DEF ReadNext
  <1>6. Read(ReadNext) = [op |-> "file", odd |-> FALSE, chunk |-> remote[i]]
    <2>1. ~(ReadNext.at > Len(remote)) /\ ~(remote[ReadNext.at].full /\ ~ReadNext.full)
      BY <1>2, <1>4, <1>5
    <2> QED BY <1>5, <2>1 DEF Read
  <1> QED BY <1>4, <1>6

LEMMA NextCommand ==
    ASSUME PullTypeOK, Len(collected) < size.n
    PROVE  ReadNext \in Request /\ ReadNext.op = "read"
  <1>1. collected \in Seq(PullContents) /\ size.n \in 0..MaxLen /\ size.whole \in BOOLEAN /\ MaxLen \in Nat
    BY PullAssumption, LinkAssumption DEF PullTypeOK, PullHostOK, ResultOK, Lengths
  <1>2. Len(collected) + 1 \in 1..MaxLen
    BY <1>1
  <1>3. Wanted \in BOOLEAN
    BY <1>1, Zenon DEF Wanted
  <1> QED BY <1>2, <1>3 DEF ReadNext, Request

\* A damaged READFILE is a READFILE, a damaged FILE a FILE.
LEMMA DamagedRead == ASSUME NEW m \in Request, m.op = "read", NEW d \in Altered(m)
                     PROVE  d \in Request /\ d.op = "read"
  BY DEF Altered, Request

LEMMA DamagedFile == ASSUME NEW m \in PullReply, m.op = "file", NEW d \in Altered(m)
                     PROVE  d \in PullReply /\ d.op = "file"
  <1>1. m.chunk \in PullContents /\ m.odd \in BOOLEAN
    BY DEF PullReply
  <1>2. [data |-> 0, full |-> m.chunk.full] \in PullContents
    BY <1>1, ContentsFull DEF PullContents
  <1>3. \/ d = [op |-> "file", chunk |-> m.chunk, odd |-> TRUE]
        \/ d = [op |-> "file", chunk |-> [data |-> 0, full |-> m.chunk.full], odd |-> m.odd]
    BY DEF Altered
  <1>4. CASE d = [op |-> "file", chunk |-> m.chunk, odd |-> TRUE]
    BY <1>1, <1>4 DEF PullReply
  <1>5. CASE d = [op |-> "file", chunk |-> [data |-> 0, full |-> m.chunk.full], odd |-> m.odd]
    BY <1>1, <1>2, <1>5 DEF PullReply
  <1> QED BY <1>3, <1>4, <1>5

LEMMA RepairStep == PullInv /\ RepairInv /\ [PullNext]_pullVars => RepairInv'
  <1> SUFFICES ASSUME PullInv, RepairInv, [PullNext]_pullVars, Clean' PROVE RepairInv'
    BY DEF RepairInv
  <1>a. /\ PullTypeOK /\ collected \in Seq(PullContents) /\ remote \in Versions /\ remote \in Seq(PullContents)
        /\ damage \in Nat /\ attempt \in Nat /\ tries \in Nat /\ size.n \in Nat /\ remote # <<>>
        /\ ~late' /\ ~hurt' /\ ~late /\ ~hurt
    BY CleanStep, VersionType
       DEF PullInv, PullTypeOK, PullHostOK, ResultOK, PullLinkOK, Lengths, Clean
  <1>b. /\ Clean /\ connected /\ connected' /\ remote' = remote
        /\ PullHost \/ PullHostIgnores \/ PullDaemonChecksum \/ DaemonRead \/ UNCHANGED pullVars
    BY CleanStep
  <1>p. /\ pc \in {"checksum", "crc"} => collected = <<>>
        /\ pc \in {"send", "file"} => Len(collected) < size.n
        /\ pc = "compare" => Len(collected) = size.n
    BY DEF PullInv, PullProgressInv
  <1>i. /\ pc = "checksum" => Quiet /\ attempt = 0 /\ tries = 0
        /\ pc = "crc" =>
              /\ attempt = 0 /\ tries = 0
              /\ \/ toDaemon = <<[op |-> "checksum"]>> /\ toHost = <<>>
                 \/ toDaemon = <<>>
                    /\ toHost = <<[op |-> "crc", size |-> SizeOf(remote), crc |-> remote]>>
        /\ pc \in {"send", "file", "compare"} =>
              /\ size = SizeOf(remote) /\ crc = remote /\ attempt <= damage
              /\ IntactSoFar \/ attempt < damage
        /\ pc = "send" => Quiet /\ tries <= damage
        /\ pc = "file" => OnTheWay /\ tries <= damage + 1
        /\ pc = "compare" => Quiet /\ tries = 0
    BY <1>b DEF RepairInv
  <1>d. ASSUME pc' = "done" PROVE RepairInv'
    BY <1>b, <1>d DEF RepairInv
  <1>r. ASSUME NEW s, NEW match, PullReturn(s, match) PROVE RepairInv'
    BY <1>d, <1>r DEF PullReturn
  <1>1. CASE PullChecksum
    <2>1. /\ toDaemon = <<>> /\ toHost = <<>> /\ pc = "checksum" /\ attempt = 0 /\ tries = 0
          /\ PullLine([op |-> "checksum"], "crc", tries)
      BY <1>1, <1>i DEF PullChecksum, Quiet
    <2>2. CASE /\ Carries(toDaemon, toDaemon', [op |-> "checksum"]) /\ pc' = "crc" /\ tries' = tries
               /\ UNCHANGED <<size, crc, attempt, collected, saved, result, connected, toHost, drops>>
      <3>1. toDaemon' = <<[op |-> "checksum"]>>
        <4> DEFINE m == [op |-> "checksum"]
        <4>1. Carries(toDaemon, toDaemon', m) /\ m.op = "checksum"
          BY <2>2
        <4>2. ~hurt'
          BY <1>a
        <4> HIDE DEF m
        <4>3. toDaemon' = <<m>>
          BY <2>1, <4>1, <4>2, CommandArrives
        <4> QED BY <4>3 DEF m
      <3> QED BY <1>b, <2>1, <2>2, <3>1 DEF RepairInv
    <2> QED BY <1>b, <1>r, <2>1, <2>2, Zenon DEF PullLine
  <1>2. CASE PullSize
    <2>1. /\ pc = "crc" /\ Gets("crc") /\ attempt = 0 /\ tries = 0 /\ collected = <<>>
      BY <1>2, <1>i, <1>p DEF PullSize
    <2>2. /\ toDaemon = <<>>
          /\ toHost = <<[op |-> "crc", size |-> SizeOf(remote), crc |-> remote]>>
      BY <1>i, <2>1 DEF Gets
    <2>3. Head(toHost).size = SizeOf(remote) /\ Head(toHost).crc = remote /\ Tail(toHost) = <<>>
      BY <2>2
    <2>4. CASE Head(toHost).size.n # 0
      <3>1. /\ size' = SizeOf(remote) /\ crc' = remote /\ pc' = "send"
            /\ attempt' = 0 /\ tries' = 0 /\ collected' = <<>>
        BY <1>2, <2>1, <2>3, <2>4 DEF PullSize
      <3>2. toDaemon' = <<>> /\ toHost' = <<>> /\ damage' = damage
        BY <2>1, <2>2, <2>3 DEF Gets
      <3>3. IntactSoFar' /\ Quiet'
        BY <3>1, <3>2 DEF IntactSoFar, Quiet
      <3> QED BY <1>a, <1>b, <3>1, <3>2, <3>3 DEF RepairInv
    <2> QED BY <1>2, <1>r, <2>4 DEF PullSize
  <1>3. CASE PullSizeTimeout \/ PullGiveUp
    BY <1>3, <1>r DEF PullSizeTimeout, PullGiveUp
  <1>4. CASE PullSend
    <2>1. /\ toDaemon = <<>> /\ toHost = <<>> /\ pc = "send" /\ tries <= damage
          /\ Len(collected) < size.n /\ size = SizeOf(remote) /\ crc = remote
          /\ attempt <= damage /\ (IntactSoFar \/ attempt < damage)
          /\ PullLine(ReadNext, "file", tries + 1)
      BY <1>4, <1>i, <1>p DEF PullSend, Quiet
    <2>2. CASE /\ Carries(toDaemon, toDaemon', ReadNext) /\ pc' = "file" /\ tries' = tries + 1
               /\ UNCHANGED <<size, crc, attempt, collected, saved, result, connected, toHost, drops>>
      <3>1. PICK m \in Request : m = ReadNext /\ m.op = "read"
        BY <1>a, <2>1, NextCommand
      <3>2. ReadNext' = ReadNext /\ (IntactSoFar' <=> IntactSoFar)
        BY <1>b, <2>2 DEF ReadNext, Wanted, IntactSoFar
      <3>3. Carries(toDaemon, toDaemon', m)
        BY <2>2, <3>1
      <3>4. CASE toDaemon' = <<m>> /\ UNCHANGED <<damage, hurt>>
        <4>1. OnTheWay'
          BY <2>1, <2>2, <3>1, <3>2, <3>4 DEF OnTheWay
        <4> QED BY <1>a, <1>b, <2>1, <2>2, <3>2, <3>4, <4>1 DEF RepairInv
      <3>5. CASE damage' = damage + 1 /\ (toDaemon' = <<>> \/ \E d \in Altered(m) : toDaemon' = <<d>>)
        <4>1. toDaemon' = <<>> \/ \E d \in Request : d.op = "read" /\ toDaemon' = <<d>>
          BY <3>1, <3>5, DamagedRead
        <4>2. toHost' = <<>> /\ tries' <= damage' /\ attempt' < damage'
          BY <1>a, <2>1, <2>2, <3>5
        <4>3. OnTheWay'
          BY <4>1, <4>2 DEF OnTheWay, Quiet
        <4>4. tries' <= damage' + 1 /\ attempt' <= damage' /\ (IntactSoFar' \/ attempt' < damage')
          BY <1>a, <2>2, <3>5, <4>2
        <4> QED BY <1>b, <2>1, <2>2, <4>3, <4>4 DEF RepairInv
      <3> QED BY <2>1, <3>3, <3>4, <3>5, CommandArrives
    <2> QED BY <1>b, <1>r, <2>1, <2>2, Zenon DEF PullLine

  <1>5. CASE PullChunk
    <2>1. /\ pc = "file" /\ Gets("file") /\ OnTheWay /\ tries <= damage + 1
          /\ Len(collected) < size.n /\ size = SizeOf(remote) /\ crc = remote
          /\ attempt <= damage /\ (IntactSoFar \/ attempt < damage)
      BY <1>5, <1>i, <1>p DEF PullChunk
    <2>2. /\ toHost # <<>> /\ toHost' = Tail(toHost) /\ UNCHANGED <<toDaemon, damage, size, crc, attempt>>
      BY <1>5, <2>1 DEF PullChunk, Gets
    <2>3. Quiet'
      <3>1. toDaemon = <<>> /\ \E m : toHost = <<m>>
        BY <2>1, <2>2 DEF OnTheWay, Quiet
      <3> QED BY <2>2, <3>1 DEF Quiet
    <2>4. CASE toHost = <<Read(ReadNext)>>
      <3>1. /\ ~Head(toHost).odd /\ Head(toHost).chunk.full = Wanted
            /\ Head(toHost).chunk = remote[Len(collected) + 1]
        BY <1>a, <2>1, <2>4, NextChunk
      <3>2. /\ collected' = Append(collected, remote[Len(collected) + 1]) /\ tries' = 0
            /\ pc' \in {"send", "compare"}
        BY <1>5, <3>1 DEF PullChunk
      <3>3. IntactSoFar => IntactSoFar'
        <4>1. PICK c : c = remote[Len(collected) + 1]
          OBVIOUS
        <4>2. \A i \in 1..Len(collected') :
                  collected'[i] = IF i = Len(collected) + 1 THEN c ELSE collected[i]
          BY <1>a, <3>2, <4>1
        <4>3. Len(collected') = Len(collected) + 1 /\ Len(collected) \in Nat
          BY <1>a, <3>2
        <4> QED BY <1>b, <4>1, <4>2, <4>3 DEF IntactSoFar
      <3> QED BY <1>a, <1>b, <2>1, <2>2, <2>3, <3>2, <3>3 DEF RepairInv
    <2>5. CASE tries <= damage /\ attempt < damage
      <3>1. \/ pc' = "send" /\ UNCHANGED <<collected, tries>>
            \/ pc' \in {"send", "compare"} /\ tries' = 0
        BY <1>5 DEF PullChunk
      <3> QED BY <1>a, <1>b, <2>1, <2>2, <2>3, <2>5, <3>1 DEF RepairInv
    <2> QED BY <2>1, <2>2, <2>4, <2>5 DEF OnTheWay
  <1>6. CASE PullTimeout
    <2>1. /\ pc = "file" /\ OnTheWay /\ size = SizeOf(remote) /\ crc = remote
          /\ attempt <= damage /\ (IntactSoFar \/ attempt < damage)
      BY <1>6, <1>i DEF PullTimeout
    <2>2. /\ UNCHANGED <<toDaemon, toHost, damage, size, crc, attempt, tries, collected>>
          /\ pc' = "send"
      BY <1>6 DEF PullTimeout, TimesOut, pullLink
    <2>3. toDaemon = <<>> /\ toHost = <<>>
      BY <1>6, <1>a DEF PullTimeout, TimesOut
    <2>4. tries <= damage
      BY <2>1, <2>3 DEF OnTheWay
    <2> QED BY <1>a, <1>b, <2>1, <2>2, <2>3, <2>4 DEF RepairInv, Quiet, IntactSoFar
  <1>7. CASE PullCompare
    <2>1. /\ pc = "compare" /\ Quiet /\ tries = 0 /\ size = SizeOf(remote) /\ crc = remote
          /\ attempt <= damage /\ (IntactSoFar \/ attempt < damage) /\ Len(collected) = size.n
          /\ UNCHANGED <<pullLink, remote, changes, late>>
      BY <1>7, <1>i, <1>p DEF PullCompare
    <2>2. CASE Redo(attempt + 1) /\ crc # collected
      <3>1. ~IntactSoFar
        <4>1. SUFFICES ASSUME IntactSoFar PROVE crc = collected
          BY <2>2
        <4>2. Len(collected) = Len(remote) /\ \A i \in 1..Len(remote) : collected[i] = remote[i]
          BY <2>1, <4>1 DEF SizeOf, IntactSoFar
        <4> QED BY <1>a, <2>1, <4>2
      <3>2. /\ attempt' = attempt + 1 /\ collected' = <<>> /\ pc' = "send"
            /\ UNCHANGED <<size, crc, tries, toDaemon, toHost, damage>>
        BY <2>1, <2>2 DEF Redo, pullLink
      <3>3. attempt' <= damage' /\ tries' <= damage' /\ IntactSoFar'
        BY <1>a, <2>1, <3>1, <3>2 DEF IntactSoFar
      <3> QED BY <1>b, <2>1, <3>2, <3>3 DEF RepairInv, Quiet
    <2> QED BY <1>7, <1>r, <2>2 DEF PullCompare
  <1>8. CASE PullHostIgnores
    <2>1. PICK op \in {"crc", "file", "err"} : pc # op /\ Gets(op) /\ pc # "done"
      BY <1>8 DEF PullHostIgnores
    <2>2. toHost # <<>> /\ Head(toHost).op # pc
      BY <2>1 DEF Gets
    <2>3. pc \notin {"checksum", "send", "compare"}
      BY <1>i, <2>2 DEF Quiet
    <2>4. pc # "crc"
      BY <1>i, <2>2
    <2>5. ASSUME pc = "file" PROVE FALSE
      <3>1. OnTheWay /\ Len(collected) < size.n /\ size = SizeOf(remote)
        BY <1>i, <1>p, <2>5
      <3>2. CASE toHost = <<Read(ReadNext)>>
        BY <1>a, <2>2, <2>5, <3>1, <3>2, NextChunk
      <3> QED BY <2>2, <2>5, <3>1, <3>2 DEF OnTheWay, Quiet
    <2> QED BY <1>d, <2>1, <2>3, <2>4, <2>5
       DEF PullInv, PullTypeOK, PullHostOK, ResultOK
  <1>9. CASE PullDaemonChecksum
    <2>1. PICK m : m = [op |-> "crc", size |-> SizeOf(remote), crc |-> remote]
      OBVIOUS
    <2>2. /\ toDaemon # <<>> /\ Head(toDaemon).op = "checksum" /\ toDaemon' = Tail(toDaemon)
          /\ Carries(toHost, toHost', m) /\ UNCHANGED <<pullState, connected, drops, remote, changes, late>>
      BY <1>9, <1>a, <2>1 DEF PullDaemonChecksum, Daemon
    <2>3. pc \notin {"checksum", "send", "compare", "file"}
      <3>1. pc # "file" \/ Len(collected) < size.n
        BY <1>p
      <3>2. ReadNext.op = "read"
        BY DEF ReadNext
      <3> QED BY <1>i, <2>2, <3>2 DEF Quiet, OnTheWay
    <2>4. CASE pc = "crc"
      <3>1. toDaemon = <<[op |-> "checksum"]>> /\ toHost = <<>>
        BY <1>i, <2>2, <2>4
      <3>2. Carries(toHost, toHost', m) /\ m.op = "crc" /\ ~hurt'
        BY <1>a, <2>1, <2>2
      <3>3. toHost' = <<m>> /\ UNCHANGED damage
        BY <3>1, <3>2, AnswerArrives
      <3>4. toDaemon' = <<>>
        BY <2>2, <3>1
      <3> QED BY <1>b, <1>i, <2>1, <2>2, <2>4, <3>3, <3>4
         DEF RepairInv, pullState, pullWork
    <2> QED BY <1>d, <2>2, <2>3, <2>4
       DEF PullInv, PullTypeOK, PullHostOK, ResultOK, pullState, pullWork
  <1>10. CASE DaemonRead
    <2>1. PICK c : c = Head(toDaemon)
      OBVIOUS
    <2>2. PICK m : m = Read(c)
      OBVIOUS
    <2>3. /\ toDaemon # <<>> /\ c.op = "read" /\ toDaemon' = Tail(toDaemon)
          /\ Carries(toHost, toHost', m) /\ UNCHANGED <<pullState, connected, drops, remote, changes, late>>
      BY <1>10, <1>a, <2>1, <2>2 DEF DaemonRead, Daemon
    <2>4. pc \notin {"checksum", "send", "compare", "crc"}
      BY <1>i, <2>1, <2>3 DEF Quiet
    <2>5. CASE pc = "file"
      <3>1. /\ OnTheWay /\ tries <= damage + 1 /\ Len(collected) < size.n /\ size = SizeOf(remote)
            /\ crc = remote /\ attempt <= damage /\ (IntactSoFar \/ attempt < damage)
        BY <1>i, <1>p, <2>5
      <3>2. /\ pc' = "file" /\ UNCHANGED <<size, crc, attempt, tries, collected>>
            /\ ReadNext' = ReadNext /\ (IntactSoFar' <=> IntactSoFar) /\ Read(ReadNext)' = Read(ReadNext)
        BY <1>b, <2>3, <2>5 DEF pullState, pullWork, ReadNext, Wanted, IntactSoFar, Read
      <3>3. /\ toHost = <<>> /\ toDaemon' = <<>> /\ c \in Request
            /\ toDaemon = <<ReadNext>> \/ (tries <= damage /\ attempt < damage)
        <4>1. ReadNext \in Request
          BY <1>a, <3>1, NextCommand
        <4>2. CASE toDaemon = <<ReadNext>> /\ toHost = <<>>
          BY <2>1, <2>3, <4>1, <4>2
        <4>3. CASE tries <= damage /\ attempt < damage
          <5>1. PICK d \in Request : toDaemon = <<d>> /\ toHost = <<>>
            BY <2>3, <3>1, <4>1, Zenon DEF OnTheWay, Quiet
          <5> QED BY <2>1, <2>3, <4>3, <5>1
        <4> QED BY <2>3, <3>1, <4>2, <4>3, Zenon DEF OnTheWay
      <3>4. m \in PullReply /\ m.op = "file"
        <4>1. m \in PullReply
          BY <1>a, <2>2, <2>3, <3>3, ReadReply
        <4> QED BY <2>2, <4>1 DEF Read
      <3>5. CASE toHost' = <<m>> /\ UNCHANGED <<damage, hurt>>
        <4>1. CASE toDaemon = <<ReadNext>>
          <5>1. c = ReadNext
            BY <2>1, <4>1
          <5>2. OnTheWay'
            BY <2>2, <3>2, <3>3, <3>5, <5>1 DEF OnTheWay
          <5> QED BY <1>a, <1>b, <3>1, <3>2, <3>5, <5>2 DEF RepairInv
        <4>2. CASE tries <= damage /\ attempt < damage
          <5>1. OnTheWay'
            BY <3>2, <3>3, <3>4, <3>5, <4>2 DEF OnTheWay
          <5> QED BY <1>a, <1>b, <3>1, <3>2, <3>5, <5>1 DEF RepairInv
        <4> QED BY <3>3, <4>1, <4>2
      <3>6. CASE damage' = damage + 1 /\ (toHost' = <<>> \/ \E d \in Altered(m) : toHost' = <<d>>)
        <4>1. toHost' = <<>> \/ \E d \in PullReply : d.op = "file" /\ toHost' = <<d>>
          BY <3>4, <3>6, DamagedFile
        <4>2. tries' <= damage' /\ attempt' < damage'
          BY <1>a, <3>1, <3>2, <3>6
        <4>3. OnTheWay'
          BY <3>3, <4>1, <4>2 DEF OnTheWay, Quiet
        <4>4. tries' <= damage' + 1 /\ attempt' <= damage' /\ (IntactSoFar' \/ attempt' < damage')
          BY <1>a, <3>1, <3>2, <3>6, <4>2
        <4> QED BY <1>b, <3>1, <3>2, <4>3, <4>4 DEF RepairInv
      <3> QED BY <2>3, <3>3, <3>5, <3>6, AnswerArrives
    <2> QED BY <1>d, <2>3, <2>4, <2>5
       DEF PullInv, PullTypeOK, PullHostOK, ResultOK, pullState, pullWork
  <1>11. CASE UNCHANGED pullVars
    <2>1. UNCHANGED <<pc, size, crc, attempt, tries, collected, toDaemon, toHost, damage, remote>>
      BY <1>11 DEF pullVars, pullState, pullWork, pullLink
    <2>2. (OnTheWay' <=> OnTheWay) /\ (Quiet' <=> Quiet) /\ (IntactSoFar' <=> IntactSoFar)
      BY <2>1 DEF OnTheWay, Quiet, IntactSoFar, ReadNext, Wanted, Read
    <2> QED BY <1>b, <1>i, <2>1, <2>2 DEF RepairInv
  <1> QED
    BY <1>b, <1>1, <1>2, <1>3, <1>4, <1>5, <1>6, <1>7, <1>8, <1>9, <1>10, <1>11
       DEF PullHost

\* A file whose CRC is not the remote one has a chunk that is not the file's.
LEMMA IntactIsEqual ==
    ASSUME PullTypeOK, size = SizeOf(remote), Len(collected) = size.n, IntactSoFar
    PROVE  collected = remote
  <1>1. collected \in Seq(PullContents) /\ remote \in Seq(PullContents)
    BY VersionType DEF PullTypeOK, PullHostOK, ResultOK
  <1>2. Len(collected) = Len(remote) /\ \A i \in 1..Len(remote) : collected[i] = remote[i]
    BY DEF SizeOf, IntactSoFar
  <1> QED BY <1>1, <1>2

LEMMA RepairedStep ==
    PullInv /\ RepairInv /\ DamageIsRepaired /\ [PullNext]_pullVars => DamageIsRepaired'
  <1> DEFINE Repaired == result = [status |-> "success", crc |-> "match"] /\ saved = remote
  <1> SUFFICES ASSUME PullInv, RepairInv, DamageIsRepaired, [PullNext]_pullVars,
                      call' = "pull", Clean', pc' = "done", damage' < MaxRetries,
                      damage' < MaxAttempts
               PROVE  Repaired'
    BY DEF DamageIsRepaired, Clean
  <1>0. call = "pull"
    BY DEF PullNext, pullVars
  <1>a. /\ PullTypeOK /\ damage \in Nat /\ attempt \in Nat /\ MaxRetries \in Nat /\ MaxAttempts \in Nat
        /\ ~late'
    BY PullAssumption, LinkAssumption
       DEF PullInv, PullTypeOK, PullHostOK, ResultOK, PullLinkOK, Clean
  <1>b. /\ Clean /\ connected /\ remote' = remote
        /\ PullHost \/ PullHostIgnores \/ PullDaemonChecksum \/ DaemonRead \/ UNCHANGED pullVars
    BY CleanStep
  <1>i. /\ pc = "crc" =>
              \/ toDaemon = <<[op |-> "checksum"]>> /\ toHost = <<>>
              \/ toDaemon = <<>>
                 /\ toHost = <<[op |-> "crc", size |-> SizeOf(remote), crc |-> remote]>>
        /\ pc \in {"send", "file", "compare"} =>
              size = SizeOf(remote) /\ crc = remote /\ (IntactSoFar \/ attempt < damage)
        /\ pc = "send" => tries <= damage
    BY <1>b DEF RepairInv
  <1>1. pc = "done" /\ damage <= damage' => Repaired
    <2>1. PullInv'
      BY PullStep
    <2>2. damage' \in Nat
      BY <2>1, PullAssumption, LinkAssumption DEF PullInv, PullTypeOK, PullLinkOK
    <2> SUFFICES ASSUME pc = "done", damage <= damage' PROVE Repaired
      OBVIOUS
    <2>3. damage < MaxRetries /\ damage < MaxAttempts
      BY <1>a, <2>2
    <2> QED BY <1>0, <1>b, <2>3 DEF DamageIsRepaired, Clean
  <1>2. CASE PullChecksum \/ PullSend
    BY <1>2, <1>b DEF PullChecksum, PullSend, PullLine
  <1>3. CASE PullSize
    <2>1. toHost = <<[op |-> "crc", size |-> SizeOf(remote), crc |-> remote]>>
      BY <1>3, <1>i DEF PullSize, Gets
    <2>2. Head(toHost).size.n = Len(remote)
      BY <2>1 DEF SizeOf
    <2>3. Len(remote) # 0
      BY <1>a, <1>b, VersionType DEF PullTypeOK, Clean
    <2> QED BY <1>3, <2>2, <2>3 DEF PullSize
  <1>4. CASE PullSizeTimeout
    <2>1. toDaemon # <<>> \/ toHost # <<>>
      BY <1>4, <1>i DEF PullSizeTimeout
    <2>2. late'
      BY <1>4, <2>1, Zenon DEF PullSizeTimeout, TimesOut
    <2> QED BY <1>a, <2>2
  <1>5. CASE PullGiveUp
    <2>1. tries = MaxRetries /\ tries <= damage
      BY <1>5, <1>i DEF PullGiveUp
    <2>2. damage' = damage
      BY <1>5 DEF PullGiveUp, pullLink
    <2> QED BY <1>a, <2>1, <2>2
  <1>6. CASE PullChunk \/ PullTimeout
    BY <1>6 DEF PullChunk, PullTimeout
  <1>7. CASE PullCompare
    <2>1. /\ pc = "compare" /\ UNCHANGED <<pullLink, remote, changes, late>>
          /\ size = SizeOf(remote) /\ crc = remote /\ (IntactSoFar \/ attempt < damage)
          /\ Len(collected) = size.n
      <3>1. pc = "compare" /\ UNCHANGED <<pullLink, remote, changes, late>>
        BY <1>7 DEF PullCompare
      <3>2. Len(collected) = size.n
        BY <3>1 DEF PullInv, PullProgressInv
      <3> QED BY <1>i, <3>1, <3>2
    <2>2. CASE crc = collected
      <3>1. PullReturn("success", "match")
        BY <1>7, <2>2 DEF PullCompare, Matches
      <3> QED BY <1>b, <2>1, <2>2, <3>1 DEF PullReturn
    <2>3. crc # Garbled
      BY <1>b, <2>1 DEF Clean, Garbled
    <2>4. CASE crc # collected
      <3>1. attempt < damage
        BY <1>a, <2>1, <2>4, IntactIsEqual
      <3>2. attempt + 1 = MaxAttempts
        BY <1>7, <2>3, <2>4 DEF PullCompare, Redo
      <3>3. damage' = damage
        BY <2>1 DEF pullLink
      <3> QED BY <1>a, <3>1, <3>2, <3>3
    <2> QED BY <2>2, <2>4
  <1>8. CASE PullHostIgnores
    BY <1>8 DEF PullHostIgnores, pullState, pullWork
  <1>9. CASE PullDaemonChecksum \/ DaemonRead
    <2>1. UNCHANGED pullState /\ damage <= damage'
      BY <1>9, <1>a DEF PullDaemonChecksum, DaemonRead, Daemon, Carries
    <2> QED BY <1>1, <1>b, <2>1 DEF pullState, pullWork
  <1>10. CASE UNCHANGED pullVars
    BY <1>1, <1>10, <1>a DEF pullVars, pullState, pullWork, pullLink
  <1> QED
    BY <1>b, <1>2, <1>3, <1>4, <1>5, <1>6, <1>7, <1>8, <1>9, <1>10 DEF PullHost

\* pull_file, "Outer loop re-downloads the whole file if the assembled CRC doesn't
\* match": for any limits and any file, damaged lines fewer than the retries and the
\* downloads never cost the caller the file, as long as the CHECKSUM exchange is
\* intact, no answer is late and the connection and the file are left alone.
THEOREM RepairCorrect == PullSpec => []DamageIsRepaired
  <1>1. PullInit => RepairInv
    BY DEF PullInit, Clean, RepairInv, Quiet
  <1>2. PullInit => DamageIsRepaired
    BY DEF PullInit, DamageIsRepaired
  <1> QED BY <1>1, <1>2, PullInitType, PullStep, RepairStep, RepairedStep, PTL
     DEF PullSpec
=================================================================================
