-------------------------------- MODULE PushFile --------------------------------
(***************************************************************************)
(* push_file (file_transfer.py) sending one file to the Amiga in chunks,   *)
(* the daemon's WRITEFILE and CHECKSUM handlers, and the link between      *)
(* them: in order, but lines may be damaged, replies may come after the    *)
(* host stopped waiting, and the connection may drop.  Offsets count       *)
(* chunks.  Chunk i of the local file has contents i; the CRC is taken to  *)
(* tell different contents apart.                                          *)
(***************************************************************************)
EXTENDS FileLink

CONSTANTS
    NChunks,      \* length of the local file
    OldFile,      \* what is at the remote path before: <<>> = no such file
    MaxResumes    \* MAX_RESUMES, scaled down

ASSUME PushAssumption ==
    NChunks \in Nat \ {0} /\ MaxResumes \in Nat /\ OldFile \in Seq({0})

Local == [i \in 1..NChunks |-> i]
Bad == 0                \* contents that are not the chunk's
Fragment == NChunks + 1 \* a chunk cut short at the end of the file

VARIABLES
    offset,      \* chunks acknowledged
    attempts,    \* turns of _push_chunk's loop so far for this chunk
    resumes      \* resumes used

pushState == <<pc, offset, attempts, resumes, result>>
pushLink == <<toDaemon, toHost>>
pushVars == <<call, pushState, connected, pushLink, remote, damage, drops>>

PushContents == 0..(NChunks + 1)
Command == [op : {"write"}, at : 0..(NChunks - 1), data : PushContents, full : BOOLEAN]
           \cup [op : {"checksum"}]
PushReply ==
    [op : {"ok"}, full : BOOLEAN] \cup [op : {"err"}]
      \cup [op : {"crc"}, of : Seq(PushContents)] \cup [op : {"noise"}]

PushHostOK ==
    /\ pc \in {"send", "ack", "pause", "outage", "settle", "verify", "crc", "done"}
    /\ offset \in 0..NChunks /\ attempts \in 0..MaxRetries /\ resumes \in 0..MaxResumes
    /\ ResultOK
PushLinkOK ==
    /\ connected \in BOOLEAN
    /\ toDaemon \in Seq(Command) /\ toHost \in Seq(PushReply)
    /\ damage \in 0..MaxDamage /\ drops \in 0..MaxDrops

\* The shape of the state; offsets and attempt counters stay in their bounds.
PushTypeOK == PushHostOK /\ PushLinkOK /\ remote \in Seq(PushContents)

PushInit ==
    /\ call = "push"
    /\ pc = "send" /\ offset = 0 /\ attempts = 0 /\ resumes = 0 /\ result = Pending
    /\ connected = TRUE /\ toDaemon = <<>> /\ toHost = <<>>
    /\ remote \in {<<>>, OldFile}
    /\ damage = 0 /\ drops = 0

-------------------------------------------------------------------------------
(* The link                                                                *)

Write(at, data, full) == [op |-> "write", at |-> at, data |-> data, full |-> full]

\* What a damaged command arrives as: not at all, or as a write of too few
\* bytes, of other bytes, or at another offset.
PushForms(m) ==
    {<<>>} \cup IF m.op # "write" THEN {}
               ELSE {<<Write(m.at, m.data, FALSE)>>, <<Write(m.at, Bad, m.full)>>}
                    \cup {<<Write(o, m.data, m.full)>> : o \in 0..(NChunks - 1)}

\* conn.send of one line.
PushLine(m) ==
    \/ toDaemon' = Append(toDaemon, m) /\ UNCHANGED damage
    \/ /\ damage < MaxDamage /\ damage' = damage + 1
       /\ \E f \in PushForms(m) : toDaemon' = toDaemon \o f

\* The daemon's answer; a damaged one is lost or does not parse as what it was.
Answer(r) ==
    \/ toHost' = Append(toHost, r) /\ UNCHANGED damage
    \/ /\ damage < MaxDamage /\ damage' = damage + 1
       /\ toHost' \in {toHost, Append(toHost, [op |-> "noise"])}

PushDrop == Drop /\ UNCHANGED <<offset, attempts, resumes>>
PushReconnect == Reconnect /\ UNCHANGED <<offset, attempts, resumes>>

-------------------------------------------------------------------------------
(* The daemon                                                              *)

FileEnd == IF remote # <<>> /\ remote[Len(remote)] = Fragment
           THEN Len(remote) - 1 ELSE Len(remote)

\* Mutant of Written: offset 0 opens the old file without truncating it.
WrittenNoTruncate(m) ==
    IF m.at = FileEnd THEN Append(SubSeq(remote, 1, m.at), m.data)
    ELSE [remote EXCEPT ![m.at + 1] = m.data]

\* Offset 0 creates or truncates; a later one overwrites in place.
Written(m) ==
    IF m.at = 0 THEN <<IF m.full THEN m.data ELSE Fragment>>
    ELSE IF m.at = FileEnd
         THEN Append(SubSeq(remote, 1, m.at), IF m.full THEN m.data ELSE Fragment)
         ELSE [remote EXCEPT ![m.at + 1] = IF m.full THEN m.data ELSE Bad]

\* handle_writefile: a Seek past the end of the file fails.
DaemonWrite ==
    /\ toDaemon # <<>> /\ Head(toDaemon).op = "write"
    /\ toDaemon' = Tail(toDaemon)
    /\ LET m == Head(toDaemon)
       IN IF m.at <= FileEnd
          THEN /\ remote' = Written(m)
               /\ Answer([op |-> "ok", full |-> m.full])
          ELSE /\ Answer([op |-> "err"])
               /\ UNCHANGED remote
    /\ UNCHANGED <<pushState, connected, drops>>

\* handle_checksum: ERR|CHECKSUM if there is no such file.
PushDaemonChecksum ==
    /\ toDaemon # <<>> /\ Head(toDaemon).op = "checksum"
    /\ toDaemon' = Tail(toDaemon)
    /\ Answer(IF remote = <<>> THEN [op |-> "err"] ELSE [op |-> "crc", of |-> remote])
    /\ UNCHANGED <<pushState, connected, remote, drops>>

-------------------------------------------------------------------------------
(* push_file and _push_chunk                                               *)

PushReturn(status, crc) ==
    /\ pc' = "done"
    /\ result' = [status |-> status, crc |-> crc]
    /\ UNCHANGED <<offset, attempts, resumes>>

\* conn.send raises RuntimeError without a connection; nothing catches it.
Raise ==
    /\ ~connected
    /\ PushReturn("raised", "none")
    /\ UNCHANGED <<connected, pushLink, remote, damage, drops>>

PushSend ==
    /\ pc = "send" /\ attempts < MaxRetries
    /\ \/ Raise
       \/ /\ connected
          /\ PushLine(Write(offset, Local[offset + 1], TRUE))
          /\ pc' = "ack" /\ attempts' = attempts + 1
          /\ UNCHANGED <<offset, resumes, result, connected, toHost, remote, drops>>

\* _push_chunk returned False.
PushChunkFailed ==
    /\ pc = "send" /\ attempts = MaxRetries
    /\ IF resumes < MaxResumes
       THEN pc' = "outage" /\ UNCHANGED <<offset, attempts, resumes, result>>
       ELSE PushReturn("failure", "none")
    /\ UNCHANGED <<connected, pushLink, remote, damage, drops>>

\* Any OK|WRITEFILE with the right count is this chunk's acknowledgement.
PushAck ==
    /\ pc = "ack" /\ toHost # <<>> /\ Head(toHost).op = "ok"
    /\ toHost' = Tail(toHost)
    /\ IF Head(toHost).full
       THEN /\ offset' = offset + 1 /\ attempts' = 0
            /\ pc' = IF offset + 1 = NChunks THEN "verify" ELSE "send"
       ELSE /\ pc' = "pause" /\ UNCHANGED <<offset, attempts>>
    /\ UNCHANGED <<resumes, result, connected, toDaemon, remote, damage, drops>>

\* No (intelligible) acknowledgement within CHUNK_TIMEOUT.
PushTimeout ==
    /\ pc = "ack"
    /\ pc' = "pause"
    /\ UNCHANGED <<offset, attempts, resumes, result, connected, pushLink, remote,
                   damage, drops>>

\* The wait for "err" and the short sleep are over; next attempt.
PushPauseOver ==
    /\ pc = "pause"
    /\ pc' = "send"
    /\ UNCHANGED <<offset, attempts, resumes, result, connected, pushLink, remote,
                   damage, drops>>

\* A line nobody waits for is published to no subscriber.
PushHostIgnores ==
    /\ toHost # <<>> /\ pc # "done"
    /\ ~(pc = "ack" /\ Head(toHost).op = "ok")
    /\ ~(pc = "crc" /\ Head(toHost).op = "crc")
    /\ toHost' = Tail(toHost)
    /\ UNCHANGED <<pushState, connected, toDaemon, remote, damage, drops>>

\* Polling .connected for up to RESUME_WAIT_SEC, then a second to settle.
OutageOver ==
    /\ pc = "outage"
    /\ pc' = "settle"
    /\ UNCHANGED <<offset, attempts, resumes, result, connected, pushLink, remote,
                   damage, drops>>

\* Mutant of PushResume: the wait for the link to come back has no end.
PushResumeWaits ==
    /\ pc = "settle"
    /\ IF connected
       THEN /\ pc' = "send" /\ attempts' = 0 /\ resumes' = resumes + 1
            /\ UNCHANGED <<offset, result>>
       ELSE pc' = "outage" /\ UNCHANGED <<offset, attempts, resumes, result>>
    /\ UNCHANGED <<connected, pushLink, remote, damage, drops>>

PushResume ==
    /\ pc = "settle"
    /\ IF connected
       THEN /\ pc' = "send" /\ attempts' = 0 /\ resumes' = resumes + 1
            /\ UNCHANGED <<offset, result>>
       ELSE PushReturn("failure", "none")
    /\ UNCHANGED <<connected, pushLink, remote, damage, drops>>

PushVerify ==
    /\ pc = "verify"
    /\ \/ Raise
       \/ /\ connected
          /\ PushLine([op |-> "checksum"])
          /\ pc' = "crc"
          /\ UNCHANGED <<offset, attempts, resumes, result, connected, toHost, remote,
                         drops>>

\* Mutant of PushCrc: any CHECKSUM answer counts as a match.
PushCrcUncompared ==
    /\ pc = "crc" /\ toHost # <<>> /\ Head(toHost).op = "crc"
    /\ toHost' = Tail(toHost)
    /\ PushReturn("success", "match")
    /\ UNCHANGED <<connected, toDaemon, remote, damage, drops>>

PushCrc ==
    /\ pc = "crc" /\ toHost # <<>> /\ Head(toHost).op = "crc"
    /\ toHost' = Tail(toHost)
    /\ IF Head(toHost).of = Local THEN PushReturn("success", "match")
                                  ELSE PushReturn("failure", "mismatch")
    /\ UNCHANGED <<connected, toDaemon, remote, damage, drops>>

\* No CHECKSUM answer within 10 s: crc_match stays None, and that is success.
PushCrcTimeout ==
    /\ pc = "crc"
    /\ PushReturn("success", "none")
    /\ UNCHANGED <<connected, pushLink, remote, damage, drops>>

PushHost ==
    \/ PushSend \/ PushChunkFailed \/ PushAck \/ PushTimeout \/ PushPauseOver
    \/ OutageOver \/ PushResume \/ PushVerify \/ PushCrc \/ PushCrcTimeout

PushNext ==
    /\ call = "push" /\ UNCHANGED call
    /\ \/ PushHost \/ PushHostIgnores \/ DaemonWrite \/ PushDaemonChecksum
       \/ PushDrop \/ PushReconnect

PushSpec == PushInit /\ [][PushNext]_pushVars

-------------------------------------------------------------------------------
Intact == remote = Local

\* So far the link was slow at worst: it lost and damaged nothing.
Undisturbed == damage = 0 /\ drops = 0

\* A transfer reported as verified left exactly the local file on the Amiga,
\* whatever the line damaged and however late the acknowledgements were.
VerifiedIsIntact == call = "push" /\ result.crc = "match" => Intact

\* push_file's docstring: "Verifies with CHECKSUM after transfer."  On a
\* link that is slow at worst, when nothing is in flight any more, a reported
\* success is intact: a late acknowledgement of an earlier attempt may stand in
\* for a chunk's own, and re-sending neither duplicates nor loses data.
SuccessIsIntact ==
    /\ call = "push" /\ Undisturbed /\ pc = "done" /\ result.status = "success"
    /\ toDaemon = <<>>
    => Intact

\* The stations of push_file in the order one attempt can pass them.
PushRank ==
    [ack |-> 7, pause |-> 6, send |-> 5, outage |-> 4, settle |-> 3, verify |-> 2, crc |-> 1,
     done |-> 0]

\* One of the capped counters moves on, with all that rank before it as they
\* were, or else push_file comes to a later station.
PushMovesOn ==
    \/ resumes' > resumes
    \/ /\ resumes' = resumes
       /\ \/ offset' > offset
          \/ /\ offset' = offset
             /\ \/ attempts' > attempts
                \/ attempts' = attempts /\ PushRank[pc'] < PushRank[pc]

\* push_file's loops within loops make headway with every step the host takes:
\* a retry is paid for with an attempt, a chunk sent again after an outage with a
\* resume, and neither the line nor the daemon ever gives one back.
PushAdvances == [][IF PushHost THEN PushMovesOn ELSE UNCHANGED pushState]_pushVars

\* push_file returns: retries and resumes are capped.
PushReturns == call = "push" => <>(pc = "done")
===============================================================================
