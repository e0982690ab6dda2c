-------------------------------- MODULE PullFile --------------------------------
(***************************************************************************)
(* pull_file (file_transfer.py) fetching one file of the Amiga in chunks,  *)
(* the daemon's CHECKSUM and READFILE handlers, a program on the Amiga     *)
(* that replaces the file meanwhile, and the link: in order, but lines may *)
(* be damaged, answers may come after the host stopped waiting, and the    *)
(* connection may be lost.  Lengths count chunks; the last chunk of a file *)
(* may be a shorter rest.  The CRC is taken to tell contents apart.        *)
(***************************************************************************)
EXTENDS FileLink

CONSTANTS
    Versions,      \* contents the remote file can have; <<>> = no such file
    MaxLen,        \* bound: chunks of a file, also as a damaged line has them
    MaxAttempts,   \* the 3 of range(3): downloads of the whole file
    MaxChanges     \* bound: replacements of the remote file

\* A chunk's contents; 0 stands for contents damaged or cut.
Chunk == [data : Nat, full : BOOLEAN]

ASSUME PullAssumption ==
    /\ Versions \subseteq Seq(Chunk)
    /\ \A v \in Versions : Len(v) <= MaxLen
    /\ \A v \in Versions : \A i \in 1..Len(v) : v[i].data # 0 /\ (i < Len(v) => v[i].full)
    /\ {MaxLen, MaxAttempts} \subseteq Nat \ {0} /\ MaxChanges \in Nat

VARIABLES
    size, crc,   \* the answer to CHECKSUM: length and CRC of the remote file
    attempt,     \* file_attempt
    tries,       \* turns of the retry loop so far for this chunk
    collected,
    saved,       \* what was written to local_path
    changes,     \* bound used up: replacements
    late,        \* history: a wait was given up with its answer on the way
    hurt         \* history: a line of the CHECKSUM exchange was damaged

pullWork == <<size, crc, attempt, tries, collected, saved>>
pullState == <<pc, pullWork, result>>
pullLink == <<connected, toDaemon, toHost, drops, damage, hurt>>
pullVars == <<call, pullState, pullLink, remote, changes, late>>

NoChunk == [data |-> 0, full |-> FALSE]

\* A CRC stands as the contents it belongs to; one that belongs to no file, and
\* one that does not parse.
Wrong == <<NoChunk, NoChunk>>
Garbled == <<>>
Crcs == Versions \cup {Wrong, Garbled}

PullContents ==
    (UNION {{v[i] : i \in DOMAIN v} : v \in Versions}) \cup [data : {0}, full : BOOLEAN]
Lengths == [n : 0..MaxLen, whole : BOOLEAN]
Request == [op : {"read"}, at : 1..MaxLen, full : BOOLEAN] \cup [op : {"checksum"}]
PullReply ==
    [op : {"file"}, chunk : PullContents, odd : BOOLEAN]
      \cup [op : {"crc"}, size : Lengths, crc : Crcs] \cup [op : {"err"}]

PullHostOK ==
    /\ pc \in {"checksum", "crc", "send", "file", "compare", "done"}
    /\ size \in Lengths /\ crc \in Crcs
    /\ attempt \in 0..(MaxAttempts - 1) /\ tries \in 0..MaxRetries
    /\ collected \in Seq(PullContents) /\ Len(collected) <= size.n
    /\ saved \in Seq(PullContents)
    /\ ResultOK
PullLinkOK ==
    /\ connected \in BOOLEAN /\ toDaemon \in Seq(Request) /\ toHost \in Seq(PullReply)
    /\ damage \in 0..MaxDamage /\ drops \in 0..MaxDrops /\ hurt \in BOOLEAN

\* The shape of the state; the retry and attempt counters stay in bounds and
\* no more chunks are collected than the size announced.
PullTypeOK ==
    /\ PullHostOK /\ PullLinkOK
    /\ remote \in Versions /\ changes \in 0..MaxChanges /\ late \in BOOLEAN

SizeOf(f) == [n |-> Len(f), whole |-> f # <<>> => f[Len(f)].full]

\* FILE answers a caller before this one may have stopped waiting for.
Leftovers ==
    {<<>>} \cup {<<[op |-> "file", chunk |-> c, odd |-> FALSE]>> : c \in PullContents}

PullInit ==
    /\ call = "pull"
    /\ pc = "checksum" /\ size = SizeOf(<<>>) /\ crc = Wrong
    /\ attempt = 0 /\ tries = 0 /\ collected = <<>> /\ saved = <<>> /\ result = Pending
    /\ connected = TRUE /\ toDaemon = <<>> /\ toHost \in Leftovers
    /\ remote \in Versions
    /\ damage = 0 /\ drops = 0 /\ changes = 0
    /\ late = (toHost # <<>>) /\ hurt = FALSE

-------------------------------------------------------------------------------
(* The link and the Amiga                                                  *)

\* What can become of a line that is damaged and still is one of its kind.
Altered(m) ==
    IF m.op = "read" THEN {[op |-> "read", at |-> i, full |-> m.full] : i \in 1..MaxLen}
    ELSE IF m.op = "file"
    THEN {[op |-> "file", chunk |-> m.chunk, odd |-> TRUE],
          [op |-> "file", chunk |-> [data |-> 0, full |-> m.chunk.full], odd |-> m.odd]}
    ELSE IF m.op = "crc"
    THEN {[op |-> "crc", size |-> m.size, crc |-> c] : c \in {Wrong, Garbled}}
         \cup {[op |-> "crc", size |-> s, crc |-> m.crc] : s \in Lengths}
    ELSE {}

\* What a damaged line arrives as: not at all, or as something else.
PullForms(m) == {<<>>} \cup {<<d>> : d \in Altered(m)}

\* queue with line m, intact or damaged, at its end.
Carries(queue, new, m) ==
    \/ new = Append(queue, m) /\ UNCHANGED <<damage, hurt>>
    \/ /\ damage < MaxDamage /\ damage' = damage + 1
       /\ \E f \in PullForms(m) : new = queue \o f
       /\ hurt' = (hurt \/ m.op \notin {"read", "file"})

PullDrop == Drop /\ UNCHANGED <<pullWork, hurt, changes, late>>
PullReconnect == Reconnect /\ UNCHANGED <<pullWork, hurt, changes, late>>

\* Another program replaces the file.
RemoteChange ==
    /\ changes < MaxChanges /\ changes' = changes + 1
    /\ remote' \in Versions \ {remote}
    /\ UNCHANGED <<pullState, pullLink, late>>

\* The daemon takes a command of kind op and sends its answer.
Daemon(op, answer) ==
    /\ toDaemon # <<>> /\ Head(toDaemon).op = op
    /\ toDaemon' = Tail(toDaemon)
    /\ Carries(toHost, toHost', answer)
    /\ UNCHANGED <<pullState, connected, drops, remote, changes, late>>

\* handle_checksum
PullDaemonChecksum ==
    Daemon("checksum", IF remote = <<>> THEN [op |-> "err"]
                       ELSE [op |-> "crc", size |-> SizeOf(remote), crc |-> remote])

\* fs_read_file: short at the end of the file, empty beyond it; asking only
\* for a rest's length cuts a full chunk.
Read(m) ==
    IF m.at > Len(remote) THEN [op |-> "file", chunk |-> NoChunk, odd |-> TRUE]
    ELSE [op |-> "file", odd |-> FALSE,
          chunk |-> IF remote[m.at].full /\ ~m.full THEN NoChunk ELSE remote[m.at]]

\* handle_readfile
DaemonRead ==
    Daemon("read", IF remote = <<>> THEN [op |-> "err"] ELSE Read(Head(toDaemon)))

-------------------------------------------------------------------------------
(* pull_file                                                               *)

PullReturn(status, match) ==
    /\ pc' = "done"
    /\ result' = [status |-> status, crc |-> match]
    /\ saved' = IF status = "success" THEN collected ELSE saved
    /\ UNCHANGED <<size, crc, attempt, tries, collected>>

\* conn.send of one line; it raises without a connection.
PullLine(m, next, n) ==
    /\ \/ ~connected /\ PullReturn("raised", "none") /\ UNCHANGED pullLink
       \/ /\ connected
          /\ Carries(toDaemon, toDaemon', m)
          /\ pc' = next /\ tries' = n
          /\ UNCHANGED <<size, crc, attempt, collected, saved, result, connected,
                         toHost, drops>>
    /\ UNCHANGED <<remote, changes, late>>

\* The line a wait_for ends with.
Gets(op) ==
    /\ toHost # <<>> /\ Head(toHost).op = op
    /\ toHost' = Tail(toHost)
    /\ UNCHANGED <<connected, toDaemon, drops, damage, hurt, remote, changes, late>>

TimesOut ==
    /\ late' = (late \/ toDaemon # <<>> \/ toHost # <<>>)
    /\ UNCHANGED <<pullLink, remote, changes>>

PullChecksum == pc = "checksum" /\ PullLine([op |-> "checksum"], "crc", tries)

PullSize ==
    /\ pc = "crc" /\ Gets("crc")
    /\ IF Head(toHost).size.n = 0
       THEN PullReturn("failure", "none")
       ELSE /\ size' = Head(toHost).size /\ crc' = Head(toHost).crc
            /\ pc' = "send"
            /\ UNCHANGED <<attempt, tries, collected, saved, result>>

\* No CHECKSUM answer: "No response", or what an ERR says.
PullSizeTimeout == pc = "crc" /\ TimesOut /\ PullReturn("failure", "none")

\* Whether a whole chunk_size is asked for, or the shorter rest.
Wanted == Len(collected) + 1 < size.n \/ size.whole

ReadNext == [op |-> "read", at |-> Len(collected) + 1, full |-> Wanted]

PullSend == pc = "send" /\ tries < MaxRetries /\ PullLine(ReadNext, "file", tries + 1)

\* MAX_RETRIES turns without this chunk.
PullGiveUp ==
    /\ pc = "send" /\ tries = MaxRetries
    /\ PullReturn("failure", "none")
    /\ UNCHANGED <<pullLink, remote, changes, late>>

\* Any FILE line for the path with the right number of bytes is this chunk.
PullChunk ==
    /\ pc = "file" /\ Gets("file")
    /\ IF ~Head(toHost).odd /\ Head(toHost).chunk.full = Wanted
       THEN /\ collected' = Append(collected, Head(toHost).chunk) /\ tries' = 0
            /\ pc' = IF Len(collected) + 1 = size.n THEN "compare" ELSE "send"
       ELSE pc' = "send" /\ UNCHANGED <<collected, tries>>
    /\ UNCHANGED <<size, crc, attempt, saved, result>>

PullTimeout ==
    /\ pc = "file" /\ TimesOut
    /\ pc' = "send"
    /\ UNCHANGED <<size, crc, attempt, tries, collected, saved, result>>

\* A line nobody waits for is published to no subscriber.
PullHostIgnores ==
    /\ pc # "done" /\ \E op \in {"crc", "file", "err"} : pc # op /\ Gets(op)
    /\ UNCHANGED pullState

Redo(n) ==
    /\ attempt' = n /\ collected' = <<>> /\ pc' = "send"
    /\ UNCHANGED <<size, crc, tries, result, saved>>

Matches == IF crc = collected THEN "match" ELSE "none"

\* Mutants of PullCompare: the first mismatch is final; no mismatch is; the
\* CRC is not compared.
PullCompareOnce ==
    /\ pc = "compare" /\ UNCHANGED <<pullLink, remote, changes, late>>
    /\ IF crc \in {collected, Garbled} THEN PullReturn("success", Matches)
       ELSE PullReturn("failure", "mismatch")
PullCompareForever ==
    /\ pc = "compare" /\ UNCHANGED <<pullLink, remote, changes, late>>
    /\ IF crc \in {collected, Garbled} THEN PullReturn("success", Matches)
       ELSE Redo(attempt)
PullCompareForgets ==
    /\ pc = "compare" /\ UNCHANGED <<pullLink, remote, changes, late>>
    /\ PullReturn("success", "match")

\* The CRC of the whole file: a match, or a CRC that does not parse, ends the
\* download and writes the local file; a mismatch starts it over.
PullCompare ==
    /\ pc = "compare" /\ UNCHANGED <<pullLink, remote, changes, late>>
    /\ IF crc \in {collected, Garbled} THEN PullReturn("success", Matches)
       ELSE IF attempt + 1 = MaxAttempts THEN PullReturn("failure", "mismatch")
       ELSE Redo(attempt + 1)

PullHost ==
    \/ PullChecksum \/ PullSize \/ PullSizeTimeout \/ PullSend \/ PullGiveUp
    \/ PullChunk \/ PullTimeout \/ PullCompare

PullNext ==
    /\ call = "pull" /\ UNCHANGED call
    /\ \/ PullHost \/ PullHostIgnores \/ PullDaemonChecksum \/ DaemonRead \/ RemoteChange
       \/ PullDrop \/ PullReconnect

PullSpec == PullInit /\ [][PullNext]_pullVars

-------------------------------------------------------------------------------
\* pull_file: "Verifies with CHECKSUM after transfer."  What it saves as
\* verified is one version the file had, never a mixture of versions, of
\* another caller's chunks or of damaged ones, although each chunk was read at
\* another time and any FILE line for the path is taken.
VerifiedIsOneVersion == call = "pull" /\ result.crc = "match" => saved \in Versions

\* "Outer loop re-downloads the whole file if the assembled CRC doesn't match":
\* as long as the CHECKSUM exchange is intact, no answer is late, the file is
\* left alone and the connection holds, lost, shortened and altered lines are made
\* good wherever they strike, up to one less than the retries and downloads.
DamageIsRepaired ==
    /\ call = "pull" /\ pc = "done" /\ ~late /\ ~hurt /\ drops = 0 /\ changes = 0 /\ remote # <<>>
    /\ damage < MaxRetries /\ damage < MaxAttempts
    =>
        result = [status |-> "success", crc |-> "match"] /\ saved = remote

\* The stations of pull_file in the order one attempt can pass them.
PullRank ==
    [checksum |-> 5, crc |-> 4, file |-> 3, send |-> 2, compare |-> 1, done |-> 0]

\* One of the capped counts moves on, with all that rank before it as they were,
\* or else pull_file comes to a later station.
PullMovesOn ==
    \/ attempt' > attempt
    \/ /\ attempt' = attempt
       /\ \/ Len(collected') > Len(collected)
          \/ /\ collected' = collected
             /\ \/ tries' > tries
                \/ tries' = tries /\ PullRank[pc'] < PullRank[pc]

\* Every step of pull_file makes headway: a line that is lost, late or not the
\* chunk's costs one of its tries, and a download begun again one of the downloads,
\* whatever the line, the daemon or another writer of the file does meanwhile.
PullAdvances == [][IF PullHost THEN PullMovesOn ELSE UNCHANGED pullState]_pullVars

\* pull_file returns: retries and downloads are capped.
PullReturns == call = "pull" => <>(pc = "done")
===============================================================================
