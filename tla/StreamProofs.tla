----------------------------- MODULE StreamProofs -----------------------------
(***************************************************************************)
(* What a client reads, for any number of clients, links, files and        *)
(* compressors and under any order of writes and breaks: a follower of a run *)
(* log gets it in order, an exec session's last word is its command's status, *)
(* and a response is the handler's own bytes in the encoding it names.     *)
(***************************************************************************)
EXTENDS RunLogs, ExecSession, Responses, SequenceTheorems, FiniteSetTheorems, TLAPS

(* Following a run log: RunLogs *)

\* The newest file of the node that runs the process.
NewestFile == IF host = "none" THEN 0 ELSE Len(files[host])

\* What the follower has is a prefix of the newest file, or of an older one.
CursorInv ==
    /\ cursor \in [attempt : Nat, offset : Nat] /\ cursor.attempt <= NewestFile
    /\ host # "none" /\ cursor.attempt = NewestFile => cursor.offset <= files[host][NewestFile]
    /\ cursor.attempt = 0 => cursor.offset = 0
    /\ IF printed.attempt = cursor.attempt THEN printed.to = cursor.offset
       ELSE printed.attempt = 0 /\ cursor.offset = 0

\* As long as nothing happens to a node or its logs, there is one host, and every
\* answer is a slice of its files.
CalmInv ==
    /\ lost = {} /\ inOrder = TRUE /\ report \in {"none", host}
    /\ host # "none" => files[host] # <<>>
    /\ \A n \in LogNodes : n # host => files[n] = <<>>
    /\ CursorInv

LogInv ==
    /\ files \in [LogNodes -> Seq(Nat)] /\ host \in LogNodes \cup {"none"} /\ running \in BOOLEAN
    /\ running => host # "none" /\ files[host] # <<>>
    /\ trouble \in [faults : Nat, moves : {0, 1}]
    /\ Undisturbed => CalmInv

LEMMA LogsStart == LogInit => LogInv
<1> SUFFICES ASSUME LogInit PROVE LogInv
    OBVIOUS
<1>1. CursorInv
    BY DEF LogInit, CursorInv, NewestFile, Nothing
<1>2. CalmInv
    BY <1>1 DEF LogInit, CalmInv
<1>3. files \in [LogNodes -> Seq(Nat)]
    <2>1. <<>> \in Seq(Nat)
        OBVIOUS
    <2>2. files = [n \in LogNodes |-> <<>>]
        BY DEF LogInit
    <2> QED BY <2>1, <2>2
<1>4. trouble \in [faults : Nat, moves : {0, 1}]
    BY DEF LogInit
<1> QED BY <1>2, <1>3, <1>4 DEF LogInit, LogInv

\* A slice is of the newest file, starts where the last one of that file ended,
\* and carries the position it ends at.
LEMMA SliceIs ==
    ASSUME NEW n \in LogNodes, NEW c \in [attempt : Nat, offset : Nat],
           files \in [LogNodes -> Seq(Nat)], files[n] # <<>>
    PROVE  LET x == Slice(n, c) IN
           /\ x.attempt = Len(files[n]) /\ x.attempt \in Nat \ {0}
           /\ x.from \in Nat /\ x.to \in Nat /\ x.offset = x.to
           /\ x.from <= x.to /\ x.to <= files[n][x.attempt]
           /\ IF c.attempt = x.attempt /\ c.offset <= files[n][x.attempt] THEN x.from = c.offset
              ELSE x.from = 0 \/ (x.from + TailBytes = files[n][x.attempt] /\ x.from < x.to)
<1> DEFINE attempt == Len(files[n])
           size == files[n][attempt]
           from == IF c.attempt = attempt /\ c.offset <= size THEN c.offset
                   ELSE IF size > TailBytes THEN size - TailBytes ELSE 0
           sent == IF size - from > ChunkBytes THEN ChunkBytes ELSE size - from
<1>1. attempt \in Nat \ {0} /\ size \in Nat
    OBVIOUS
<1>2. Slice(n, c) = [attempt |-> attempt, offset |-> from + sent, from |-> from, to |-> from + sent]
    BY <1>1 DEF Slice
<1> HIDE DEF attempt, size
<1>0. TailBytes \in Nat \ {0} /\ ChunkBytes \in Nat \ {0}
    BY RunLogsAssumption
<1>3. /\ from \in Nat /\ from <= size
      /\ IF c.attempt = attempt /\ c.offset <= size THEN from = c.offset
         ELSE from = 0 \/ (from + TailBytes = size /\ from < size)
    BY <1>0, <1>1
<1> HIDE DEF from
<1>4. sent \in Nat /\ from + sent <= size /\ (from < size => from < from + sent)
    BY <1>0, <1>1, <1>3
<1> HIDE DEF sent
<1> QED BY <1>1, <1>2, <1>3, <1>4 DEF attempt, size

\* With one host, whoever is asked is the host.
LEMMA HostAnswers ==
    ASSUME LogInv, Undisturbed, NEW chunk \in ChunkAnswers(cursor)
    PROVE  IF host = "none" THEN chunk = [attempt |-> 0, offset |-> 0, from |-> 0, to |-> 0]
           ELSE chunk = Slice(host, cursor)
<1>1. CalmInv /\ files \in [LogNodes -> Seq(Nat)] /\ host \in LogNodes \cup {"none"}
    BY DEF LogInv
<1>2. CASE host = "none"
    <2>1. \A n \in LogNodes : Started[n] = 0
        <3>1. \A n \in LogNodes : n # "none"
            BY RunLogsAssumption
        <3>2. \A n \in LogNodes : files[n] = <<>>
            BY <1>1, <1>2, <3>1 DEF CalmInv
        <3>3. Len(<<>>) = 0
            OBVIOUS
        <3>4. \A n \in LogNodes : Len(files[n]) = 0
            BY <3>2, <3>3, Zenon
        <3> QED BY <3>4 DEF Started
    <2>2. Asked = {}
        <3>1. report = "none" /\ \A n \in LogNodes \ lost : ~(Started[n] > 0)
            BY <1>1, <1>2, <2>1 DEF CalmInv
        <3> QED BY <3>1 DEF Asked
    <2> QED BY <1>2, <2>2 DEF ChunkAnswers
<1>3. CASE host # "none"
    <2>1. host \in LogNodes /\ Started[host] \in Nat \ {0}
        BY <1>1, <1>3 DEF CalmInv, Started
    <2>2. \A n \in LogNodes : n # host => Started[n] = 0
        BY <1>1 DEF CalmInv, Started
    <2>3. Asked = {host}
        <3>1. CASE report # "none"
            BY <1>1, <3>1 DEF CalmInv, Asked
        <3>2. CASE report = "none"
            <4>1. lost = {}
                BY <1>1 DEF CalmInv
            <4>2. ASSUME NEW n \in LogNodes
                  PROVE  (Started[n] > 0 /\ \A k \in LogNodes : Started[k] <= Started[n]) <=> n = host
                BY <2>1, <2>2
            <4> QED BY <2>1, <3>2, <4>1, <4>2 DEF Asked
        <3> QED BY <3>1, <3>2
    <2> QED BY <1>3, <2>3 DEF ChunkAnswers
<1> QED BY <1>2, <1>3

LEMMA FollowsStep == ASSUME LogInv, Follows PROVE LogInv'
<1>1. UNCHANGED <<files, host, running, lost, report, trouble>>
    BY DEF Follows
<1>2. Undisturbed' = Undisturbed
    BY <1>1 DEF Undisturbed
<1>3. ASSUME Undisturbed PROVE CalmInv'
    <2>1. CalmInv /\ files \in [LogNodes -> Seq(Nat)] /\ host \in LogNodes \cup {"none"}
        BY <1>3 DEF LogInv
    <2>2. PICK chunk, restarted, prints, next, extent :
             /\ chunk \in ChunkAnswers(cursor)
             /\ restarted \in BOOLEAN /\ prints \in BOOLEAN
             /\ restarted <=> (cursor.attempt # 0 /\ chunk.attempt # cursor.attempt)
             /\ next = [attempt |-> chunk.attempt, from |-> chunk.from, to |-> chunk.to,
                        restarted |-> restarted]
             /\ prints <=> (chunk.from < chunk.to \/ restarted)
             /\ cursor' = Echo(chunk)
             /\ printed' = IF prints THEN next ELSE printed
             /\ extent = IF host = "none" THEN 0 ELSE files[host][chunk.attempt]
             /\ inOrder' = (inOrder /\ (prints => Continues(next, printed, extent)))
        BY <1>3 DEF Follows
    <2>3. CASE host = "none"
        <3>1. chunk = [attempt |-> 0, offset |-> 0, from |-> 0, to |-> 0] /\ cursor.attempt = 0
            <4>1. cursor.attempt = 0
                BY <2>1, <2>3 DEF CalmInv, CursorInv, NewestFile
            <4> QED BY <1>3, <2>2, <2>3, <4>1, HostAnswers
        <3>2. prints = FALSE
            BY <2>2, <3>1
        <3>3. cursor' = [attempt |-> 0, offset |-> 0]
            BY <2>2, <3>1 DEF Echo
        <3>4. printed' = printed /\ inOrder' = TRUE
            BY <2>1, <2>2, <3>2 DEF CalmInv
        <3>5. CursorInv'
            <4>1. printed.attempt = 0 /\ printed.to = 0
                BY <2>1, <3>1 DEF CalmInv, CursorInv
            <4> QED BY <1>1, <2>3, <3>3, <3>4, <4>1 DEF CursorInv, NewestFile
        <3> QED BY <1>1, <2>1, <2>3, <3>4, <3>5 DEF CalmInv
    <2>4. CASE host # "none"
        <3> DEFINE size == files[host][Len(files[host])]
        <3>0. host \in LogNodes /\ files[host] # <<>> /\ cursor \in [attempt : Nat, offset : Nat]
            BY <2>1, <2>4 DEF CalmInv, CursorInv
        <3>1. chunk = Slice(host, cursor)
            BY <1>3, <2>2, <2>4, HostAnswers
        <3>2. /\ chunk.attempt = Len(files[host]) /\ chunk.attempt \in Nat \ {0}
              /\ chunk.from \in Nat /\ chunk.to \in Nat /\ chunk.offset = chunk.to
              /\ chunk.from <= chunk.to /\ chunk.to <= size
              /\ IF cursor.attempt = chunk.attempt /\ cursor.offset <= size
                 THEN chunk.from = cursor.offset
                 ELSE chunk.from = 0 \/ (chunk.from + TailBytes = size /\ chunk.from < chunk.to)
            BY <2>1, <3>0, <3>1, SliceIs
        <3>3. cursor' = [attempt |-> chunk.attempt, offset |-> chunk.to]
            BY <2>2, <3>2 DEF Echo
        <3>4. IF cursor.attempt = chunk.attempt THEN chunk.from = cursor.offset
              ELSE chunk.from = 0 \/ (chunk.from + TailBytes = size /\ chunk.from < chunk.to)
            <4>1. cursor.attempt = chunk.attempt => cursor.offset <= size
                BY <2>1, <2>4, <3>2 DEF CalmInv, CursorInv, NewestFile
            <4> QED BY <3>2, <4>1
        <3>5. /\ cursor.attempt = 0 => cursor.offset = 0
              /\ IF printed.attempt = cursor.attempt THEN printed.to = cursor.offset
                 ELSE printed.attempt = 0 /\ cursor.offset = 0
            BY <2>1 DEF CalmInv, CursorInv
        <3>6. cursor.attempt \in Nat /\ cursor.attempt <= chunk.attempt
            BY <2>1, <2>4, <3>2 DEF CalmInv, CursorInv, NewestFile
        <3>7. inOrder' = TRUE
            <4>1. /\ next.attempt = chunk.attempt /\ next.from = chunk.from
                  /\ next.restarted = restarted /\ extent = size
                BY <2>2, <2>4, <3>2
            <4>2. CASE printed.attempt = chunk.attempt
                <5>1. cursor.attempt = chunk.attempt /\ printed.to = cursor.offset
                    BY <3>2, <3>5, <4>2
                <5>2. Continues(next, printed, extent)
                    BY <2>2, <3>4, <4>1, <4>2, <5>1 DEF Continues
                <5> QED BY <2>1, <2>2, <5>2 DEF CalmInv
            <4>3. CASE printed.attempt # chunk.attempt
                <5>1. chunk.attempt > printed.attempt /\ (printed.attempt # 0 => restarted = TRUE)
                    BY <2>2, <3>2, <3>5, <3>6, <4>3
                <5>2. chunk.from = 0 \/ chunk.from + TailBytes = size
                    BY <3>4, <3>5, <4>3
                <5>3. Continues(next, printed, extent)
                    BY <4>1, <4>3, <5>1, <5>2 DEF Continues
                <5> QED BY <2>1, <2>2, <5>3 DEF CalmInv
            <4> QED BY <4>2, <4>3
        <3>8. CursorInv'
            <4>1. cursor' \in [attempt : Nat, offset : Nat] /\ cursor'.attempt = NewestFile'
                BY <1>1, <2>4, <3>2, <3>3 DEF NewestFile
            <4>2. cursor'.offset <= files'[host'][NewestFile']
                BY <1>1, <2>4, <3>2, <3>3 DEF NewestFile
            <4>3. IF printed'.attempt = cursor'.attempt THEN printed'.to = cursor'.offset
                  ELSE printed'.attempt = 0 /\ cursor'.offset = 0
                <5>1. CASE prints
                    <6>1. printed'.attempt = chunk.attempt /\ printed'.to = chunk.to
                        BY <2>2, <5>1
                    <6> QED BY <3>3, <6>1
                <5>2. CASE ~prints
                    <6>1. printed' = printed /\ chunk.from = chunk.to /\ (cursor.attempt = 0 \/ chunk.attempt = cursor.attempt)
                        BY <2>2, <3>2, <5>2
                    <6>2. cursor'.attempt = chunk.attempt /\ cursor'.offset = chunk.to
                        BY <3>3
                    <6> QED BY <3>2, <3>4, <3>5, <6>1, <6>2
                <5> QED BY <5>1, <5>2
            <4>4. cursor'.attempt \in Nat /\ cursor'.attempt <= NewestFile'
                BY <4>1
            <4>5. cursor'.attempt # 0
                BY <3>2, <3>3
            <4> QED BY <4>1, <4>2, <4>3, <4>4, <4>5 DEF CursorInv
        <3> QED BY <1>1, <2>1, <3>7, <3>8 DEF CalmInv
    <2> QED BY <2>3, <2>4
<1> QED BY <1>1, <1>2, <1>3 DEF LogInv

LEMMA OpensLogStep == ASSUME LogInv, NEW n \in LogNodes, OpensLog(n) PROVE LogInv'
<1>1. /\ ~running /\ running' = TRUE /\ host' = n /\ files' = [files EXCEPT ![n] = Append(@, 0)]
      /\ trouble' = [trouble EXCEPT !.moves = IF host \in {"none", n} THEN @ ELSE 1]
      /\ UNCHANGED <<lost, report, cursor, printed, inOrder, follower>>
    BY DEF OpensLog
<1>2. /\ files' \in [LogNodes -> Seq(Nat)] /\ files'[n] # <<>> /\ Len(files'[n]) = Len(files[n]) + 1
      /\ \A k \in LogNodes : k # n => files'[k] = files[k]
    BY <1>1 DEF LogInv
<1>3. trouble' \in [faults : Nat, moves : {0, 1}] /\ (Undisturbed' => Undisturbed /\ host \in {"none", n})
    <2>1. trouble \in [faults : Nat, moves : {0, 1}]
        BY DEF LogInv
    <2> QED BY <1>1, <2>1 DEF Undisturbed
<1>4. ASSUME Undisturbed' PROVE CalmInv'
    <2>1. Undisturbed /\ CalmInv /\ host \in {"none", n}
        BY <1>3, <1>4 DEF LogInv
    <2>2. CursorInv'
        <3>1. NewestFile \in Nat /\ NewestFile' = Len(files[n]) + 1 /\ NewestFile <= Len(files[n]) /\ n # "none"
            BY <1>1, <1>2, <2>1, RunLogsAssumption DEF NewestFile, LogInv
        <3>2. cursor.attempt \in Nat /\ cursor.attempt < NewestFile'
            BY <2>1, <3>1 DEF CalmInv, CursorInv, LogInv
        <3> QED BY <1>1, <2>1, <3>1, <3>2 DEF CalmInv, CursorInv
    <2>3. report \in {"none", n}
        BY <2>1 DEF CalmInv
    <2> QED BY <1>1, <1>2, <2>1, <2>2, <2>3, RunLogsAssumption DEF CalmInv
<1> QED BY <1>1, <1>2, <1>3, <1>4, RunLogsAssumption DEF LogInv

LEMMA LogsStep == ASSUME LogInv, Logs PROVE LogInv'
<1>1. /\ running /\ files' = [files EXCEPT ![host][Len(files[host])] = @ + 1]
      /\ UNCHANGED <<host, running, lost, report, cursor, printed, inOrder, follower, trouble>>
    BY DEF Logs
<1>2. host \in LogNodes /\ files[host] # <<>> /\ files \in [LogNodes -> Seq(Nat)]
    BY <1>1 DEF LogInv
<1>3. PICK last \in Nat : last = Len(files[host]) /\ last >= 1
    BY <1>2
<1>4. PICK grown : grown = [files[host] EXCEPT ![last] = @ + 1]
    OBVIOUS
<1>5. grown \in Seq(Nat) /\ Len(grown) = last /\ grown # <<>> /\ grown[last] = files[host][last] + 1
    BY <1>2, <1>3, <1>4
<1>6. files' = [files EXCEPT ![host] = grown]
    BY <1>1, <1>2, <1>3, <1>4
<1>7. files' \in [LogNodes -> Seq(Nat)] /\ files'[host] = grown /\ \A n \in LogNodes : n # host => files'[n] = files[n]
    BY <1>2, <1>5, <1>6
<1>8. Undisturbed' = Undisturbed
    BY <1>1 DEF Undisturbed
<1>9. ASSUME Undisturbed PROVE CalmInv'
    <2>1. CalmInv
        BY <1>9 DEF LogInv
    <2>2. CursorInv'
        <3>1. NewestFile' = NewestFile /\ (host # "none" => NewestFile = last)
            BY <1>1, <1>3, <1>5, <1>7 DEF NewestFile
        <3>2. files[host][last] \in Nat /\ cursor.offset \in Nat
            BY <1>2, <1>3, <2>1 DEF CalmInv, CursorInv
        <3> QED BY <1>1, <1>5, <1>7, <2>1, <3>1, <3>2 DEF CalmInv, CursorInv
    <2> QED BY <1>1, <1>5, <1>7, <2>1, <2>2 DEF CalmInv
<1> QED BY <1>1, <1>5, <1>7, <1>8, <1>9 DEF LogInv

\* What leaves the files and the follower's position alone.
LEMMA FilesKeptStep ==
    ASSUME LogInv, UNCHANGED <<files, host, cursor, printed, inOrder>>,
           running' \in BOOLEAN, running' => running,
           trouble' \in [faults : Nat, moves : {0, 1}], Undisturbed' => Undisturbed /\ lost' = lost,
           report' = report \/ report' \in {"none", host}
    PROVE  LogInv'
<1>1. ASSUME Undisturbed' PROVE CalmInv'
    <2>1. CalmInv /\ lost' = lost
        BY <1>1 DEF LogInv
    <2>2. CursorInv'
        BY <2>1 DEF CalmInv, CursorInv, NewestFile
    <2> QED BY <2>1, <2>2 DEF CalmInv
<1> QED BY <1>1 DEF LogInv

\* A fault that is counted.
LEMMA FaultCounts ==
    ASSUME LogInv, trouble' = [trouble EXCEPT !.faults = @ + 1]
    PROVE  trouble' \in [faults : Nat, moves : {0, 1}] /\ ~Undisturbed'
<1>1. trouble \in [faults : Nat, moves : {0, 1}]
    BY DEF LogInv
<1>2. trouble'.faults = trouble.faults + 1
    BY <1>1
<1> QED BY <1>1, <1>2 DEF Undisturbed

LEMMA LogsRemovedStep == ASSUME LogInv, LogsRemoved PROVE LogInv'
<1>1. /\ ~running /\ files' = [files EXCEPT ![host] = <<>>]
      /\ trouble' = [trouble EXCEPT !.faults = @ + 1]
      /\ UNCHANGED <<host, running, lost, report, cursor, printed, inOrder, follower>>
    BY DEF LogsRemoved
<1>2. files' \in [LogNodes -> Seq(Nat)]
    <2>1. <<>> \in Seq(Nat)
        OBVIOUS
    <2> QED BY <1>1, <2>1 DEF LogInv
<1> QED BY <1>1, <1>2, FaultCounts DEF LogInv

LEMMA LogSteps == LogInv /\ [LogNext]_logVars => LogInv'
<1> SUFFICES ASSUME LogInv, [LogNext]_logVars PROVE LogInv'
    OBVIOUS
<1>0. /\ running \in BOOLEAN /\ trouble \in [faults : Nat, moves : {0, 1}]
      /\ Undisturbed => lost = {}
    BY DEF LogInv, CalmInv
<1>1. CASE Logs
    BY <1>1, LogsStep
<1>2. CASE ProcessEnds
    BY <1>0, <1>2, FilesKeptStep DEF ProcessEnds, Undisturbed
<1>3. CASE LogsRemoved
    BY <1>3, LogsRemovedStep
<1>4. CASE Follows
    BY <1>4, FollowsStep
<1>5. CASE FollowFails
    BY <1>0, <1>5, FilesKeptStep DEF FollowFails, Undisturbed
<1>6. ASSUME NEW held \in BOOLEAN, NodesReport(held) PROVE LogInv'
    <2>1. report' \in {"none", host}
        BY <1>6 DEF NodesReport
    <2> QED BY <1>0, <1>6, <2>1, FilesKeptStep DEF NodesReport, Undisturbed
<1>7. ASSUME NEW n \in LogNodes, OpensLog(n) PROVE LogInv'
    BY <1>7, OpensLogStep
<1>8. ASSUME NEW n \in LogNodes, NodeLost(n) PROVE LogInv'
    BY <1>0, <1>8, FaultCounts, FilesKeptStep DEF NodeLost
<1>9. ASSUME NEW n \in LogNodes, NodeBack(n) PROVE LogInv'
    BY <1>0, <1>9, FilesKeptStep DEF NodeBack, Undisturbed
<1>10. CASE UNCHANGED logVars
    BY <1>0, <1>10, FilesKeptStep DEF logVars, Undisturbed
<1> QED BY <1>1, <1>2, <1>3, <1>4, <1>5, <1>6, <1>7, <1>8, <1>9, <1>10 DEF LogNext

\* A follower of the run log prints what was logged in order, once, with the
\* restarts in between, whatever the process does (client.go, runlog.go).
THEOREM LogsAreFollowed == LogSpec => []FollowedInOrder
<1>1. LogInv => FollowedInOrder
    BY DEF LogInv, CalmInv, FollowedInOrder
<1> QED BY <1>1, LogsStart, LogSteps, PTL DEF LogSpec

LogTypeInv ==
    /\ LogTypeOK /\ cursor \in [attempt : 0 .. LogStarts, offset : 0 .. LogBytes]
    /\ trouble \in [faults : 0 .. LogFaults, moves : 0 .. 1]
    /\ \A n \in LogNodes : Len(files[n]) <= LogStarts

LEMMA LogTypesStart == LogInit => LogTypeInv
<1> SUFFICES ASSUME LogInit PROVE LogTypeInv
    OBVIOUS
<1>1. LogStarts \in Nat /\ LogBytes \in Nat /\ LogFaults \in Nat
    BY RunLogsAssumption
<1>2. <<>> \in Seq(0 .. LogBytes) /\ Len(<<>>) = 0
    OBVIOUS
<1>3. files \in [LogNodes -> Seq(0 .. LogBytes)] /\ \A n \in LogNodes : Len(files[n]) <= LogStarts
    BY <1>1, <1>2 DEF LogInit
<1>4. 0 \in 0 .. LogStarts /\ 0 \in 0 .. LogBytes /\ 0 \in 0 .. LogFaults /\ 0 \in 0 .. 1
    BY <1>1
<1>5. /\ cursor \in [attempt : 0 .. LogStarts, offset : 0 .. LogBytes]
      /\ trouble \in [faults : 0 .. LogFaults, moves : 0 .. 1]
    BY <1>4 DEF LogInit
<1> QED BY <1>3, <1>5 DEF LogInit, LogTypeInv, LogTypeOK

LEMMA EntryOf == ASSUME NEW S, NEW s \in Seq(S) PROVE \A i \in 1 .. Len(s) : s[i] \in S
OBVIOUS

\* A node's answer is about one of its files.
LEMMA AnswersTyped ==
    ASSUME LogInv, LogTypeInv, NEW chunk \in ChunkAnswers(cursor)
    PROVE  Echo(chunk) \in [attempt : 0 .. LogStarts, offset : 0 .. LogBytes]
<1>1. LogStarts \in Nat /\ LogBytes \in Nat
    BY RunLogsAssumption
<1>2. CASE chunk = [attempt |-> 0, offset |-> 0, from |-> 0, to |-> 0]
    BY <1>1, <1>2 DEF Echo
<1>3. ASSUME NEW n \in Asked, chunk = Slice(n, cursor) PROVE Echo(chunk) \in [attempt : 0 .. LogStarts, offset : 0 .. LogBytes]
    <2>1. n \in LogNodes /\ files \in [LogNodes -> Seq(Nat)] /\ files \in [LogNodes -> Seq(0 .. LogBytes)]
        BY DEF Asked, LogInv, LogTypeInv, LogTypeOK
    <2>2. CASE files[n] = <<>>
        <3>1. Len(files[n]) = 0
            BY <2>2
        <3> QED BY <1>2, <1>3, <3>1 DEF Slice
    <2>3. CASE files[n] # <<>>
        <3>1. cursor \in [attempt : Nat, offset : Nat]
            BY <1>1 DEF LogTypeInv
        <3>2. PICK x : /\ x = Slice(n, cursor) /\ x.attempt = Len(files[n]) /\ x.attempt \in Nat \ {0}
                       /\ x.to \in Nat /\ x.offset = x.to /\ x.to <= files[n][x.attempt]
            BY <2>1, <2>3, <3>1, SliceIs
        <3>3. files[n][x.attempt] \in 0 .. LogBytes /\ x.attempt <= LogStarts
            <4>1. \A i \in 1 .. Len(files[n]) : files[n][i] \in 0 .. LogBytes
                <5>1. files[n] \in Seq(0 .. LogBytes)
                    BY <2>1
                <5> QED BY <5>1, EntryOf
            <4>2. Len(files[n]) \in Nat /\ Len(files[n]) <= LogStarts
                BY <2>1 DEF LogTypeInv
            <4>3. x.attempt \in 1 .. Len(files[n])
                BY <3>2, <4>2
            <4> QED BY <3>2, <4>1, <4>2, <4>3
        <3>4. x.attempt \in 0 .. LogStarts /\ x.offset \in 0 .. LogBytes
            BY <1>1, <3>2, <3>3
        <3> QED BY <1>3, <3>2, <3>4 DEF Echo
    <2> QED BY <2>2, <2>3
<1> QED BY <1>2, <1>3 DEF ChunkAnswers

LEMMA FaultCounted ==
    ASSUME LogFaults \in Nat, trouble \in [faults : 0 .. LogFaults, moves : 0 .. 1],
           trouble.faults < LogFaults, trouble' = [trouble EXCEPT !.faults = @ + 1]
    PROVE  trouble' \in [faults : 0 .. LogFaults, moves : 0 .. 1]
<1>1. PICK f \in 0 .. LogFaults : f = trouble.faults
    OBVIOUS
<1>2. f + 1 \in 0 .. LogFaults
    BY <1>1
<1> QED BY <1>1, <1>2

LEMMA LogTypeSteps == LogInv /\ LogTypeInv /\ [LogNext]_logVars => LogTypeInv'
<1> SUFFICES ASSUME LogInv, LogTypeInv, [LogNext]_logVars PROVE LogTypeInv'
    OBVIOUS
<1>1. /\ LogStarts \in Nat /\ LogBytes \in Nat /\ LogFaults \in Nat
      /\ files \in [LogNodes -> Seq(0 .. LogBytes)]
      /\ \A n \in LogNodes : Len(files[n]) <= LogStarts
    BY RunLogsAssumption DEF LogTypeInv, LogTypeOK
<1>2. CASE UNCHANGED logVars
    BY <1>2 DEF logVars, LogTypeInv, LogTypeOK
<1>3. ASSUME Logs PROVE LogTypeInv'
    <2>1. /\ host \in LogNodes /\ files[host] # <<>> /\ files[host][Len(files[host])] < LogBytes
          /\ files' = [files EXCEPT ![host][Len(files[host])] = @ + 1]
          /\ UNCHANGED <<host, running, lost, report, cursor, follower, trouble>>
        BY <1>3 DEF Logs, LogInv
    <2>2. PICK last \in Nat : last = Len(files[host]) /\ last >= 1
        BY <1>1, <2>1
    <2>3. files[host][last] + 1 \in 0 .. LogBytes
        BY <1>1, <2>1, <2>2
    <2>4. PICK grown : grown = [files[host] EXCEPT ![last] = @ + 1]
        OBVIOUS
    <2>5. grown \in Seq(0 .. LogBytes) /\ Len(grown) = last
        BY <1>1, <2>1, <2>2, <2>3, <2>4
    <2>6. files' = [files EXCEPT ![host] = grown]
        BY <1>1, <2>1, <2>2, <2>4
    <2>7. files' \in [LogNodes -> Seq(0 .. LogBytes)] /\ \A n \in LogNodes : Len(files'[n]) <= LogStarts
        BY <1>1, <2>1, <2>2, <2>5, <2>6
    <2> QED BY <2>1, <2>7 DEF LogTypeInv, LogTypeOK
<1>4. ASSUME ProcessEnds \/ FollowFails PROVE LogTypeInv'
    BY <1>4 DEF ProcessEnds, FollowFails, LogTypeInv, LogTypeOK
<1>5. ASSUME LogsRemoved PROVE LogTypeInv'
    <2>1. <<>> \in Seq(0 .. LogBytes) /\ Len(<<>>) = 0
        OBVIOUS
    <2>2. files' \in [LogNodes -> Seq(0 .. LogBytes)] /\ \A n \in LogNodes : Len(files'[n]) <= LogStarts
        <3>1. files' = [files EXCEPT ![host] = <<>>]
            BY <1>5 DEF LogsRemoved
        <3>2. files' \in [LogNodes -> Seq(0 .. LogBytes)]
            BY <1>1, <2>1, <3>1
        <3>3. ASSUME NEW n \in LogNodes PROVE Len(files'[n]) <= LogStarts
            BY <1>1, <2>1, <3>1
        <3> QED BY <3>2, <3>3
    <2>3. trouble' \in [faults : 0 .. LogFaults, moves : 0 .. 1]
        BY <1>1, <1>5, FaultCounted DEF LogsRemoved, LogTypeInv
    <2> QED BY <1>5, <2>2, <2>3 DEF LogsRemoved, LogTypeInv, LogTypeOK
<1>6. ASSUME Follows PROVE LogTypeInv'
    <2>1. cursor' \in [attempt : 0 .. LogStarts, offset : 0 .. LogBytes]
        BY <1>6, AnswersTyped DEF Follows
    <2>2. follower' = "follows" /\ UNCHANGED <<files, host, running, lost, report, trouble>>
        BY <1>6 DEF Follows
    <2> QED BY <2>1, <2>2 DEF LogTypeInv, LogTypeOK
<1>7. ASSUME NEW held \in BOOLEAN, NodesReport(held) PROVE LogTypeInv'
    BY <1>7 DEF NodesReport, LogTypeInv, LogTypeOK
<1>8. ASSUME NEW n \in LogNodes, OpensLog(n) PROVE LogTypeInv'
    <2>1. /\ files' = [files EXCEPT ![n] = Append(@, 0)] /\ Len(files[n]) < LogStarts
          /\ running' = TRUE /\ host' = n /\ UNCHANGED <<lost, report, cursor, follower>>
        BY <1>8 DEF OpensLog, Started
    <2>2. PICK longer : longer = Append(files[n], 0)
        OBVIOUS
    <2>5. longer \in Seq(0 .. LogBytes) /\ Len(longer) = Len(files[n]) + 1 /\ Len(files[n]) \in Nat
        <3>1. 0 \in 0 .. LogBytes /\ files[n] \in Seq(0 .. LogBytes)
            BY <1>1
        <3> QED BY <2>2, <3>1
    <2>3. files' \in [LogNodes -> Seq(0 .. LogBytes)] /\ \A k \in LogNodes : Len(files'[k]) <= LogStarts
        <3>1. files' = [files EXCEPT ![n] = longer] /\ Len(longer) <= LogStarts
            BY <1>1, <2>1, <2>2, <2>5
        <3>2. files' \in [LogNodes -> Seq(0 .. LogBytes)]
            BY <1>1, <2>5, <3>1
        <3>3. ASSUME NEW k \in LogNodes PROVE Len(files'[k]) <= LogStarts
            BY <1>1, <3>1
        <3> QED BY <3>2, <3>3
    <2>4. trouble' \in [faults : 0 .. LogFaults, moves : 0 .. 1]
        BY <1>8 DEF OpensLog, LogTypeInv
    <2> QED BY <2>1, <2>3, <2>4 DEF LogTypeInv, LogTypeOK
<1>9. ASSUME NEW n \in LogNodes, NodeLost(n) PROVE LogTypeInv'
    <2>1. trouble' \in [faults : 0 .. LogFaults, moves : 0 .. 1]
        BY <1>1, <1>9, FaultCounted DEF NodeLost, LogTypeInv
    <2> QED BY <1>9, <2>1 DEF NodeLost, LogTypeInv, LogTypeOK
<1>10. ASSUME NEW n \in LogNodes, NodeBack(n) PROVE LogTypeInv'
    BY <1>10 DEF NodeBack, LogTypeInv, LogTypeOK
<1> QED BY <1>2, <1>3, <1>4, <1>5, <1>6, <1>7, <1>8, <1>9, <1>10 DEF LogNext

\* The variables of the run logs have their types; no cursor points past a file.
THEOREM LogsTyped == LogSpec => []LogTypeOK
<1>1. LogTypeInv => LogTypeOK
    BY DEF LogTypeInv
<1> QED BY <1>1, LogsStart, LogSteps, LogTypesStart, LogTypeSteps, PTL DEF LogSpec

-------------------------------------------------------------------------------
(* The end of an exec session: ExecSession *)

ExitFrames == {"zero", "nonzero"}
AllOut(l) == \A i \in DOMAIN downward[l] : downward[l][i] = "out"
Nearer(l) == IF l = 1 THEN 0 ELSE Len(downward[1])

SessionTyped ==
    /\ downward \in [Links -> Seq(Answers)] /\ near \subseteq Links /\ far \subseteq Links
    /\ shown \in Nat /\ hop \in [Copiers -> {"idle", "dial", "copies", "done"}]
    /\ attach \in [ours : BOOLEAN, engine : BOOLEAN, in : {0, 1}, out : Nat]
    /\ command \in [pc : {"none", "runs", "detached", "exited"}, made : Nat, code : {0, 1}, cut : BOOLEAN]

\* Before the bridge, nothing but errors; the next link is not there.
EarlyInv ==
    /\ bridge \in {"idle", "setup"} =>
          /\ command.pc = "none" /\ command.made = 0 /\ attach.out = 0 /\ shown = 0
          /\ downward[Hops] = <<>>
          /\ \A l \in Links : \A i \in DOMAIN downward[l] : downward[l][i] = "error"
    /\ bridge = "idle" => /\ 1 \in far => downward[1] = <<>>
                          /\ \A n \in Copiers : hop[n] # "copies"
    /\ \A n \in Copiers : hop[n] = "dial" => bridge = "idle"
    /\ cli = "off" => /\ bridge = "idle" /\ near = {} /\ far = {}
                      /\ downward = [l \in Links |-> <<>>] /\ \A n \in Copiers : hop[n] = "idle"

CommandInv ==
    /\ attach.engine <=> command.pc = "runs"
    /\ command.pc = "detached" => command.cut
    /\ bridge \in {"streams", "inspects"} => command.pc # "none"
    /\ bridge = "inspects" => attach.out = 0 /\ ~attach.engine

FlowInv ==
    /\ Hops \in far => AllOut(Hops)
    /\ (\A l \in Links : CanSendDown(l)) =>
          /\ \A l \in Links : AllOut(l)
          /\ shown + Nearer(Hops) + Len(downward[Hops]) + attach.out = command.made

StatusIn(l, i) ==
    /\ \A j \in 1 .. i - 1 : downward[l][j] = "out"
    /\ Hops \notin far
    /\ \A k \in Links : k > l => downward[k] = <<>>
    /\ l = Hops => i = Len(downward[l])
    /\ ~command.cut => command.pc = "exited" /\ (downward[l][i] = "zero" <=> command.code = 0)
    /\ (\A k \in Links : k < l => CanSendDown(k)) =>
          /\ \A k \in Links : k < l => AllOut(k)
          /\ ~command.cut => shown + Nearer(l) + i - 1 = command.made

ExecInv ==
    /\ SessionTyped /\ EarlyInv /\ CommandInv /\ FlowInv
    /\ \A l \in Links : \A i \in DOMAIN downward[l] : downward[l][i] \in ExitFrames => StatusIn(l, i)
    /\ StatusIsTheCommands

LEMMA LinksAre ==
    /\ Hops \in {1, 2} /\ Links \subseteq {1, 2} /\ 1 \in Links /\ Hops \in Links
    /\ Hops = 1 => Links = {1} /\ Copiers = {}
    /\ Hops = 2 => Links = {1, 2} /\ Copiers = {1}
BY ExecSessionAssumption DEF Links, Copiers

LEMMA Nones == <<>> \in Seq(Answers) /\ DOMAIN <<>> = {} /\ Len(<<>>) = 0
OBVIOUS

LEMMA TailIs ==
    ASSUME NEW s \in Seq(Answers), s # <<>>
    PROVE  /\ Tail(s) \in Seq(Answers) /\ Len(Tail(s)) = Len(s) - 1 /\ Len(s) \in Nat \ {0}
           /\ DOMAIN Tail(s) = 1 .. Len(s) - 1 /\ 1 \in DOMAIN s /\ s[1] = Head(s)
           /\ \A i \in DOMAIN Tail(s) : i + 1 \in DOMAIN s /\ Tail(s)[i] = s[i + 1]
OBVIOUS

LEMMA SessionStarts == ExecInit => ExecInv
<1> SUFFICES ASSUME ExecInit PROVE ExecInv
    OBVIOUS
<1>1. downward = [l \in Links |-> <<>>] /\ near = {} /\ far = {}
    BY DEF ExecInit
<1>2. \A l \in Links : DOMAIN downward[l] = {} /\ downward[l] = <<>>
    BY <1>1, Nones
<1>3. SessionTyped
    BY <1>1, Nones DEF ExecInit, SessionTyped
<1>4. EarlyInv /\ CommandInv
    BY <1>1, <1>2, LinksAre DEF ExecInit, EarlyInv, CommandInv
<1>5. FlowInv
    BY <1>1, <1>2, LinksAre DEF FlowInv, CanSendDown
<1>6. StatusIsTheCommands
    BY DEF ExecInit, StatusIsTheCommands
<1> QED BY <1>2, <1>3, <1>4, <1>5, <1>6 DEF ExecInv

\* What passes no frame and closes no end, and changes the command only before a
\* status of it can be under way.
LEMMA QuietStep ==
    ASSUME ExecInv, SessionTyped', EarlyInv', CommandInv',
           UNCHANGED <<downward, near, far, cli, shown>>,
           command'.made - attach'.out = command.made - attach.out,
           ~command'.cut => ~command.cut /\ (command.pc = "exited" => command' = command)
    PROVE  ExecInv'
<1>1. FlowInv'
    <2>1. Nearer(Hops)' = Nearer(Hops) /\ Nearer(Hops) \in Nat /\ Len(downward[Hops]) \in Nat
        BY LinksAre DEF ExecInv, SessionTyped, Nearer
    <2>2. /\ command'.made \in Nat /\ command.made \in Nat /\ attach'.out \in Nat
          /\ attach.out \in Nat /\ shown \in Nat
        BY DEF ExecInv, SessionTyped
    <2>3. /\ \A l \in Links : AllOut(l)' = AllOut(l) /\ CanSendDown(l)' = CanSendDown(l)
          /\ FlowInv /\ Hops \in Links
        BY LinksAre DEF AllOut, CanSendDown, ExecInv
    <2>4. shown + Nearer(Hops) + Len(downward[Hops]) + attach.out = command.made
          => shown' + Nearer(Hops)' + Len(downward'[Hops]) + attach'.out = command'.made
        BY <2>1, <2>2
    <2> QED BY <2>3, <2>4 DEF FlowInv
<1>2. ASSUME NEW l \in Links, NEW i \in DOMAIN downward[l], downward[l][i] \in ExitFrames
      PROVE  StatusIn(l, i)'
    <2>1. StatusIn(l, i)
        BY <1>2 DEF ExecInv
    <2> QED BY <2>1 DEF StatusIn, AllOut, CanSendDown, Nearer
<1>3. StatusIsTheCommands'
    BY DEF ExecInv, StatusIsTheCommands
<1> QED BY <1>1, <1>2, <1>3 DEF ExecInv

\* Ends of links are closed, what a link holds may be thrown away with them, and a
\* server that forwards the session may say why.
LEMMA EndsStep ==
    ASSUME ExecInv, SessionTyped', CommandInv', EarlyInv', StatusIsTheCommands',
           near' \subseteq near, far' \subseteq far, UNCHANGED <<command, attach, shown>>,
           \A k \in Links : \/ downward'[k] = downward[k]
                            \/ downward'[k] = <<>> /\ ~(k \in near' /\ k \in far')
                            \/ downward'[k] = Append(downward[k], "error") /\ k \notin far' /\ k # Hops
    PROVE  ExecInv'
<1>1. \A k \in Links : k \in near' /\ k \in far' => downward'[k] = downward[k] /\ CanSendDown(k)
    BY DEF CanSendDown
<1>2. downward \in [Links -> Seq(Answers)] /\ downward' \in [Links -> Seq(Answers)]
    BY DEF ExecInv, SessionTyped
<1>3. FlowInv'
    <2>1. Hops \in far' => AllOut(Hops)'
        <3>1. CASE downward'[Hops] = downward[Hops]
            BY <3>1 DEF ExecInv, FlowInv, AllOut
        <3>2. CASE downward'[Hops] = <<>>
            BY <3>2, Nones DEF AllOut
        <3> QED BY <3>1, <3>2, LinksAre
    <2>2. ASSUME \A l \in Links : CanSendDown(l)'
          PROVE  /\ \A l \in Links : AllOut(l)'
                 /\ (shown + Nearer(Hops) + Len(downward[Hops]) + attach.out = command.made)'
        <3>1. \A l \in Links : downward'[l] = downward[l] /\ CanSendDown(l)
            BY <1>1, <2>2 DEF CanSendDown
        <3> QED BY <3>1, LinksAre DEF ExecInv, FlowInv, AllOut, Nearer
    <2> QED BY <2>1, <2>2 DEF FlowInv
<1>4. ASSUME NEW l \in Links, NEW i \in DOMAIN downward'[l], downward'[l][i] \in ExitFrames
      PROVE  StatusIn(l, i)'
    <2>1. /\ i \in DOMAIN downward[l] /\ downward[l][i] = downward'[l][i]
          /\ \A j \in 1 .. i - 1 : downward'[l][j] = downward[l][j]
          /\ l = Hops => downward'[l] = downward[l]
        <3>1. CASE downward'[l] = downward[l]
            BY <3>1
        <3>2. CASE downward'[l] = <<>>
            BY <1>4, <3>2, Nones
        <3>3. CASE downward'[l] = Append(downward[l], "error") /\ l # Hops
            <4>1. i \in 1 .. Len(downward[l]) + 1 /\ i # Len(downward[l]) + 1
                BY <1>2, <1>4, <3>3 DEF ExitFrames
            <4> QED BY <1>2, <3>3, <4>1
        <3> QED BY <3>1, <3>2, <3>3
    <2>2. StatusIn(l, i)
        BY <1>4, <2>1 DEF ExecInv
    <2>3. \A k \in Links : k > l => downward'[k] = <<>>
        <3>1. \A k \in Links : k > l => k = Hops /\ downward[k] = <<>>
            BY <2>2, LinksAre DEF StatusIn
        <3> QED BY <3>1
    <2>4. ASSUME \A k \in Links : k < l => CanSendDown(k)'
          PROVE  /\ \A k \in Links : k < l => CanSendDown(k) /\ AllOut(k)' = AllOut(k)
                 /\ Nearer(l)' = Nearer(l)
        <3>1. \A k \in Links : k < l => CanSendDown(k) /\ downward'[k] = downward[k]
            BY <1>1, <2>4 DEF CanSendDown
        <3> QED BY <3>1, LinksAre DEF AllOut, Nearer
    <2> QED BY <2>1, <2>2, <2>3, <2>4 DEF StatusIn
<1> QED BY <1>3, <1>4 DEF ExecInv

\* The bridge returns, with the frame that says how: a status when the output is
\* through and the engine has been asked.
LEMMA ReturnStep ==
    ASSUME ExecInv, NEW frame \in Answers \ {"out"}, ExecReturns(frame),
           bridge \in {"setup", "streams", "inspects"}, UNCHANGED <<near, hop, cli, shown, command>>,
           frame \in ExitFrames => /\ bridge = "inspects"
                                   /\ frame = "nonzero" <=> (command.pc = "exited" /\ command.code # 0)
    PROVE  ExecInv'
<1>1. /\ bridge' = "done" /\ far' = far \ {Hops} /\ downward' = SendDown(Hops, frame)
      /\ attach' = [attach EXCEPT !.ours = FALSE]
    BY DEF ExecReturns
<1>2. SessionTyped /\ EarlyInv /\ CommandInv /\ FlowInv /\ Hops \in Links
    BY LinksAre DEF ExecInv
<1>3. /\ downward' \in [Links -> Seq(Answers)]
      /\ \A k \in Links : k # Hops => downward'[k] = downward[k]
      /\ downward'[Hops] = IF CanSendDown(Hops) THEN Append(downward[Hops], frame) ELSE downward[Hops]
    BY <1>1, <1>2 DEF SendDown, SessionTyped
<1>4. /\ attach' \in [ours : BOOLEAN, engine : BOOLEAN, in : {0, 1}, out : Nat]
      /\ attach'.engine = attach.engine /\ attach'.out = attach.out
    BY <1>1, <1>2 DEF SessionTyped
<1>5. SessionTyped' /\ CommandInv' /\ EarlyInv' /\ StatusIsTheCommands'
    BY <1>1, <1>2, <1>3, <1>4 DEF SessionTyped, CommandInv, EarlyInv, ExecInv, StatusIsTheCommands
<1>6. FlowInv'
    BY <1>1, <1>2 DEF FlowInv, CanSendDown
<1>7. ASSUME NEW l \in Links, NEW i \in DOMAIN downward'[l], downward'[l][i] \in ExitFrames
      PROVE  StatusIn(l, i)'
    <2>1. CASE CanSendDown(Hops)
        <3>1. \A k \in Links : \A j \in DOMAIN downward[k] : downward[k][j] \notin ExitFrames
            BY <2>1 DEF ExecInv, StatusIn, CanSendDown
        <3>2. l = Hops
            BY <1>3, <1>7, <3>1
        <3>3. i = Len(downward[Hops]) + 1 /\ i = Len(downward'[Hops]) /\ downward'[Hops][i] = frame
              /\ \A j \in 1 .. i - 1 : j \in DOMAIN downward[Hops] /\ downward'[Hops][j] = downward[Hops][j]
            <4>1. downward[Hops] \in Seq(Answers)
                BY <1>2 DEF SessionTyped
            <4>2. i \in 1 .. Len(downward[Hops]) + 1
                BY <1>3, <1>7, <2>1, <3>2, <4>1
            <4>3. i \notin DOMAIN downward[Hops]
                BY <1>3, <1>7, <2>1, <3>1, <3>2, <4>1
            <4> QED BY <1>3, <2>1, <4>1, <4>2, <4>3
        <3>4. frame \in ExitFrames
            BY <1>7, <3>2, <3>3
        <3>5. \A j \in 1 .. i - 1 : downward'[Hops][j] = "out"
            BY <1>2, <2>1, <3>3 DEF FlowInv, AllOut, CanSendDown
        <3>6. ~command.cut => command.pc = "exited" /\ (frame = "zero" <=> command.code = 0)
            <4>1. command.pc \in {"none", "runs", "detached", "exited"} /\ frame \in {"zero", "nonzero"}
                BY <1>2, <3>4 DEF SessionTyped, ExitFrames
            <4>2. bridge = "inspects" /\ (frame = "nonzero" <=> (command.pc = "exited" /\ command.code # 0))
                BY <3>4
            <4>3. command.pc # "none" /\ command.pc # "runs" /\ (command.pc = "detached" => command.cut)
                BY <1>2, <4>2 DEF CommandInv
            <4> QED BY <4>1, <4>2, <4>3
        <3>7. ASSUME \A k \in Links : k < Hops => CanSendDown(k)'
              PROVE  /\ \A k \in Links : k < Hops => AllOut(k)'
                     /\ shown + Nearer(Hops)' + i - 1 = command.made
            <4>1. \A k \in Links : CanSendDown(k)
                BY <1>1, <2>1, <3>7, LinksAre DEF CanSendDown
            <4>2. /\ \A k \in Links : AllOut(k)
                  /\ shown + Nearer(Hops) + Len(downward[Hops]) + attach.out = command.made
                BY <1>2, <4>1 DEF FlowInv
            <4>3. attach.out = 0 /\ Nearer(Hops)' = Nearer(Hops) /\ Nearer(Hops) \in Nat /\ shown \in Nat
                BY <1>2, <1>3, <3>4, LinksAre DEF CommandInv, Nearer, SessionTyped
            <4>4. Len(downward[Hops]) \in Nat
                BY <1>2 DEF SessionTyped
            <4>5. shown + Nearer(Hops)' + i - 1 = command.made
                <5>1. i = Len(downward[Hops]) + 1
                    BY <3>3
                <5> QED BY <4>2, <4>3, <4>4, <5>1
            <4>6. \A k \in Links : k < Hops => downward'[k] = downward[k]
                BY <1>3, LinksAre
            <4> QED BY <4>2, <4>5, <4>6 DEF AllOut
        <3> QED BY <1>1, <3>2, <3>3, <3>5, <3>6, <3>7, LinksAre DEF StatusIn
    <2>2. CASE ~CanSendDown(Hops)
        <3>1. downward' = downward
            BY <1>1, <2>2 DEF SendDown
        <3>2. StatusIn(l, i)
            BY <1>7, <3>1 DEF ExecInv
        <3>3. far' = far
            BY <1>1, <3>2 DEF StatusIn
        <3> QED BY <3>1, <3>2, <3>3 DEF StatusIn, AllOut, CanSendDown, Nearer
    <2> QED BY <2>1, <2>2
<1> QED BY <1>5, <1>6, <1>7 DEF ExecInv

LEMMA OutputCopiedStep == ASSUME ExecInv, OutputCopied PROVE ExecInv'
<1>1. /\ bridge = "streams" /\ attach.out > 0 /\ CanSendDown(Hops)
      /\ attach' = [attach EXCEPT !.out = @ - 1] /\ downward' = [downward EXCEPT ![Hops] = Append(@, "out")]
      /\ UNCHANGED <<upward, near, far, hop, cli, shown, bridge, command>>
    BY DEF OutputCopied, SendDown, terminal
<1>2. SessionTyped /\ EarlyInv /\ CommandInv /\ FlowInv /\ Hops \in Links
    BY LinksAre DEF ExecInv
<1>3. /\ attach' \in [ours : BOOLEAN, engine : BOOLEAN, in : {0, 1}, out : Nat]
      /\ attach'.engine = attach.engine /\ attach'.out = attach.out - 1
    <2>1. attach \in [ours : BOOLEAN, engine : BOOLEAN, in : {0, 1}, out : Nat]
        BY <1>2 DEF SessionTyped
    <2>2. attach.out - 1 \in Nat
        BY <1>1, <2>1
    <2> QED BY <1>1, <2>1, <2>2
<1>4. /\ downward' \in [Links -> Seq(Answers)] /\ downward'[Hops] = Append(downward[Hops], "out")
      /\ \A k \in Links : k # Hops => downward'[k] = downward[k]
    BY <1>1, <1>2 DEF SessionTyped, Answers
<1>5. SessionTyped' /\ CommandInv' /\ EarlyInv' /\ StatusIsTheCommands'
    BY <1>1, <1>2, <1>3, <1>4 DEF SessionTyped, CommandInv, EarlyInv, ExecInv, StatusIsTheCommands
<1>6. downward[Hops] \in Seq(Answers)
    BY <1>2 DEF SessionTyped
<1>7. \A k \in Links : AllOut(k) => AllOut(k)'
    <2>1. AllOut(Hops) => AllOut(Hops)'
        <3>1. /\ DOMAIN downward'[Hops] = 1 .. Len(downward[Hops]) + 1
              /\ downward'[Hops][Len(downward[Hops]) + 1] = "out"
              /\ \A i \in DOMAIN downward[Hops] : downward'[Hops][i] = downward[Hops][i]
              /\ DOMAIN downward[Hops] = 1 .. Len(downward[Hops]) /\ Len(downward[Hops]) \in Nat
            BY <1>4, <1>6
        <3> QED BY <3>1 DEF AllOut
    <2> QED BY <1>4, <2>1 DEF AllOut
<1>8. FlowInv'
    <2>1. Nearer(Hops)' = Nearer(Hops) /\ Nearer(Hops) \in Nat
        BY <1>2, <1>4, LinksAre DEF Nearer, SessionTyped
    <2>2. attach.out \in Nat /\ shown \in Nat /\ Len(downward'[Hops]) = Len(downward[Hops]) + 1
        BY <1>2, <1>4, <1>6 DEF SessionTyped
    <2>3. Hops \in far => AllOut(Hops)'
        BY <1>2, <1>7 DEF FlowInv
    <2>4. ASSUME \A l \in Links : CanSendDown(l)'
          PROVE  /\ \A l \in Links : AllOut(l)'
                 /\ (shown + Nearer(Hops) + Len(downward[Hops]) + attach.out = command.made)'
        <3>1. \A l \in Links : CanSendDown(l)
            BY <1>1, <2>4 DEF CanSendDown
        <3>2. /\ \A l \in Links : AllOut(l)
              /\ shown + Nearer(Hops) + Len(downward[Hops]) + attach.out = command.made
            BY <1>2, <3>1 DEF FlowInv
        <3>3. Len(downward[Hops]) \in Nat
            BY <1>6
        <3>4. (shown + Nearer(Hops) + Len(downward[Hops]) + attach.out = command.made)'
            BY <1>1, <1>3, <2>1, <2>2, <3>2, <3>3
        <3> QED BY <1>7, <3>2, <3>4
    <2> QED BY <1>1, <2>3, <2>4 DEF FlowInv
<1>9. ASSUME NEW l \in Links, NEW i \in DOMAIN downward'[l], downward'[l][i] \in ExitFrames
      PROVE  FALSE
    <2>1. \A k \in Links : \A j \in DOMAIN downward[k] : downward[k][j] \notin ExitFrames
        BY <1>1 DEF ExecInv, StatusIn, CanSendDown
    <2>2. CASE l = Hops
        BY <1>4, <1>6, <1>9, <2>1, <2>2 DEF ExitFrames
    <2> QED BY <1>4, <1>9, <2>1, <2>2
<1> QED BY <1>5, <1>8, <1>9 DEF ExecInv

LEMMA ConnectsStep == ASSUME ExecInv, Connects PROVE ExecInv'
<1>1. /\ cli = "off" /\ cli' = "runs" /\ near' = {1} /\ far' = {1}
      /\ hop' = [n \in Copiers |-> "dial"] /\ bridge' = IF Hops = 1 THEN "setup" ELSE "idle"
      /\ UNCHANGED <<upward, downward, typed, shown, pump, attach, command>>
    BY DEF Connects
<1>2. SessionTyped /\ EarlyInv /\ CommandInv
    BY DEF ExecInv
<1>3. \A l \in Links : downward[l] = <<>> /\ DOMAIN downward[l] = {} /\ Len(downward[l]) = 0
    BY <1>1, <1>2, Nones DEF EarlyInv
<1>4. /\ bridge = "idle" /\ command.pc = "none" /\ command.made = 0 /\ attach.out = 0 /\ shown = 0
    BY <1>1, <1>2 DEF EarlyInv
<1>5. SessionTyped'
    BY <1>1, <1>2, LinksAre DEF SessionTyped
<1>6. EarlyInv'
    <2>1. \A n \in Copiers : bridge' = "idle" /\ hop'[n] = "dial"
        BY <1>1, LinksAre
    <2> QED BY <1>1, <1>3, <1>4, <2>1, LinksAre DEF EarlyInv
<1>7. CommandInv'
    BY <1>1, <1>2, <1>4 DEF CommandInv
<1>8. FlowInv'
    <2>1. \A l \in Links : AllOut(l)'
        BY <1>1, <1>3 DEF AllOut
    <2>2. (\A l \in Links : CanSendDown(l)') => Hops = 1
        BY <1>1, LinksAre DEF CanSendDown
    <2>3. Hops = 1 => (shown + Nearer(Hops) + Len(downward[Hops]) + attach.out = command.made)'
        BY <1>1, <1>3, <1>4, LinksAre DEF Nearer
    <2> QED BY <2>1, <2>2, <2>3, LinksAre DEF FlowInv
<1>9. StatusIsTheCommands'
    BY <1>1 DEF StatusIsTheCommands
<1> QED BY <1>1, <1>3, <1>5, <1>6, <1>7, <1>8, <1>9 DEF ExecInv

LEMMA DialsStep == ASSUME ExecInv, NEW n \in Copiers, Dials(n) PROVE ExecInv'
<1>1. /\ hop[n] = "dial" /\ hop' = [hop EXCEPT ![n] = "copies"]
      /\ near' = near \cup {n + 1} /\ far' = far \cup {n + 1} /\ bridge' = "setup"
      /\ UNCHANGED <<upward, downward, cli, typed, shown, pump, attach, command>>
    BY DEF Dials, terminal
<1>2. Hops = 2 /\ Links = {1, 2} /\ Copiers = {1} /\ n = 1
    BY LinksAre
<1>3. SessionTyped /\ EarlyInv /\ CommandInv /\ bridge = "idle"
    BY <1>1 DEF ExecInv, EarlyInv
<1>4. /\ command.pc = "none" /\ command.made = 0 /\ attach.out = 0 /\ shown = 0
      /\ downward[2] = <<>> /\ (1 \in far => downward[1] = <<>>)
      /\ \A l \in Links : \A i \in DOMAIN downward[l] : downward[l][i] = "error"
    BY <1>2, <1>3 DEF EarlyInv
<1>5. SessionTyped'
    BY <1>1, <1>2, <1>3 DEF SessionTyped
<1>6. cli # "off"
    BY <1>1, <1>3 DEF EarlyInv
<1>7. EarlyInv'
    BY <1>1, <1>2, <1>3, <1>4, <1>6 DEF EarlyInv, SessionTyped
<1>8. CommandInv'
    BY <1>1, <1>3 DEF CommandInv
<1>9. FlowInv'
    <2>1. AllOut(2)' /\ (1 \in far' => AllOut(1)' /\ Len(downward'[1]) = 0)
        BY <1>1, <1>2, <1>4, Nones DEF AllOut
    <2>2. Len(downward'[2]) = 0
        BY <1>1, <1>4, Nones
    <2> QED BY <1>1, <1>2, <1>4, <2>1, <2>2 DEF FlowInv, CanSendDown, Nearer
<1>10. StatusIsTheCommands'
    BY <1>1 DEF ExecInv, StatusIsTheCommands
<1>11. \A l \in Links : \A i \in DOMAIN downward'[l] : downward'[l][i] \notin ExitFrames
    BY <1>1, <1>4 DEF ExitFrames
<1> QED BY <1>5, <1>7, <1>8, <1>9, <1>10, <1>11 DEF ExecInv

LEMMA CliReadsStep == ASSUME ExecInv, CliReads PROVE ExecInv'
<1>1. /\ cli = "runs" /\ downward[1] # <<>> /\ downward' = [downward EXCEPT ![1] = Tail(@)]
      /\ UNCHANGED <<upward, far, hop, typed, bridge, pump, attach, command>>
    BY DEF CliReads, container
<1>2. SessionTyped /\ EarlyInv /\ CommandInv /\ FlowInv /\ downward[1] \in Seq(Answers)
    BY LinksAre DEF ExecInv, SessionTyped
<1>3. PICK f \in Answers : f = Head(downward[1])
    BY <1>1, <1>2
<1>4. \/ f = "out" /\ shown' = shown + 1 /\ UNCHANGED <<cli, near>>
      \/ f # "out" /\ cli' = Ended(f) /\ near' = near \ {1} /\ shown' = shown
    BY <1>3 DEF CliReads, CliCloses
<1>5. /\ downward'[1] \in Seq(Answers) /\ Len(downward'[1]) = Len(downward[1]) - 1
      /\ Len(downward[1]) \in Nat \ {0} /\ DOMAIN downward'[1] = 1 .. Len(downward[1]) - 1
      /\ \A i \in DOMAIN downward'[1] : i + 1 \in DOMAIN downward[1] /\ downward'[1][i] = downward[1][i + 1]
      /\ downward[1][1] = f /\ 1 \in DOMAIN downward[1]
      /\ \A k \in Links : k # 1 => downward'[k] = downward[k]
    BY <1>1, <1>2, <1>3, LinksAre DEF SessionTyped
<1>6. downward' \in [Links -> Seq(Answers)] /\ shown' \in Nat
    BY <1>1, <1>2, <1>4, <1>5 DEF SessionTyped
<1>7. SessionTyped'
    BY <1>1, <1>2, <1>4, <1>6 DEF SessionTyped
<1>8. CommandInv'
    BY <1>1, <1>2 DEF CommandInv
<1>9. EarlyInv'
    <2>1. bridge \in {"idle", "setup"} => f = "error" /\ Hops # 1
        BY <1>1, <1>2, <1>5, LinksAre DEF EarlyInv
    <2>2. f # "out" => cli' # "off"
        BY <1>3, <1>4 DEF Ended, Answers
    <2>3. \A k \in Links : (\A i \in DOMAIN downward[k] : downward[k][i] = "error")
                           => \A i \in DOMAIN downward'[k] : downward'[k][i] = "error"
        BY <1>5
    <2>4. bridge = "idle" => 1 \notin far
        BY <1>1, <1>2 DEF EarlyInv
    <2>5. cli' # "off"
        BY <1>1, <1>4, <2>2
    <2>6. bridge \in {"idle", "setup"} => shown' = 0 /\ downward'[Hops] = <<>>
        BY <1>2, <1>4, <1>5, <2>1, LinksAre DEF EarlyInv
    <2> QED BY <1>1, <1>2, <2>3, <2>4, <2>5, <2>6 DEF EarlyInv
<1>10. \A k \in Links : AllOut(k) => AllOut(k)'
    BY <1>5 DEF AllOut
<1>11. FlowInv'
    <2>1. Hops \in far => AllOut(Hops)'
        BY <1>2, <1>10, LinksAre DEF FlowInv
    <2>2. ASSUME \A l \in Links : CanSendDown(l)'
          PROVE  (shown + Nearer(Hops) + Len(downward[Hops]) + attach.out = command.made)'
                 /\ \A l \in Links : AllOut(l)
        <3>1. f = "out" /\ shown' = shown + 1 /\ near' = near
            BY <1>4, <2>2, LinksAre DEF CanSendDown
        <3>2. /\ \A l \in Links : AllOut(l)
              /\ shown + Nearer(Hops) + Len(downward[Hops]) + attach.out = command.made
            BY <1>1, <1>2, <2>2, <3>1 DEF FlowInv, CanSendDown
        <3>0. shown \in Nat /\ attach.out \in Nat /\ command.made \in Nat /\ Nearer(1) = 0 /\ Nearer(1)' = 0
            BY <1>2 DEF SessionTyped, Nearer
        <3>3. CASE Hops = 1
            BY <1>1, <1>5, <3>0, <3>1, <3>2, <3>3
        <3>4. CASE Hops = 2
            <4>1. downward'[2] = downward[2] /\ Len(downward[2]) \in Nat
                BY <1>2, <1>5, <3>4, LinksAre DEF SessionTyped
            <4>2. Nearer(2) = Len(downward[1]) /\ Nearer(2)' = Len(downward[1]) - 1
                BY <1>5 DEF Nearer
            <4>3. shown + Nearer(2) + Len(downward[2]) + attach.out = command.made
                BY <3>2, <3>4
            <4>4. shown' + Nearer(2)' + Len(downward'[2]) + attach'.out = command'.made
                BY <1>1, <1>5, <3>0, <3>1, <4>1, <4>2, <4>3
            <4> QED BY <3>2, <3>4, <4>4
        <3> QED BY <3>2, <3>3, <3>4, LinksAre
    <2> QED BY <1>1, <1>10, <2>1, <2>2 DEF FlowInv
<1>12. ASSUME NEW l \in Links, NEW i \in DOMAIN downward'[l], downward'[l][i] \in ExitFrames
      PROVE  StatusIn(l, i)'
    <2>1. CASE l = 1
        <3>1. i + 1 \in DOMAIN downward[1] /\ downward[1][i + 1] = downward'[1][i] /\ i \in Nat \ {0}
            BY <1>5, <1>12, <2>1
        <3>2. StatusIn(1, i + 1)
            BY <1>12, <2>1, <3>1, LinksAre DEF ExecInv
        <3>3. \A j \in 1 .. i : downward[1][j] = "out"
            BY <3>1, <3>2 DEF StatusIn
        <3>4. f = "out" /\ shown' = shown + 1
            BY <1>4, <1>5, <3>1, <3>3
        <3>5. \A j \in 1 .. i - 1 : downward'[1][j] = "out"
            <4>1. \A j \in 1 .. i - 1 : j \in DOMAIN downward'[1] /\ j + 1 \in 1 .. i
                BY <1>5, <1>12, <2>1, <3>1
            <4> QED BY <1>5, <3>3, <4>1
        <3>6. ~command.cut => shown' + 0 + i - 1 = command.made
            <4>1. ~command.cut => shown + Nearer(1) + (i + 1) - 1 = command.made
                BY <3>2, LinksAre DEF StatusIn
            <4> QED BY <1>2, <3>1, <3>4, <4>1 DEF Nearer, SessionTyped
        <3>7. \A k \in Links : k > 1 => downward'[k] = <<>>
            BY <1>5, <3>2, LinksAre DEF StatusIn
        <3>8. 1 = Hops => i = Len(downward'[1])
            BY <1>5, <3>1, <3>2 DEF StatusIn
        <3> QED BY <1>1, <2>1, <3>1, <3>2, <3>5, <3>6, <3>7, <3>8, LinksAre DEF StatusIn, Nearer
    <2>2. CASE l # 1
        <3>1. l = 2 /\ Hops = 2 /\ downward'[2] = downward[2] /\ StatusIn(2, i)
            BY <1>5, <1>12, <2>2, LinksAre DEF ExecInv
        <3>2. ASSUME \A k \in Links : k < 2 => CanSendDown(k)'
              PROVE  /\ \A k \in Links : k < 2 => AllOut(k)'
                     /\ ~command.cut => shown' + Nearer(2)' + i - 1 = command.made
            <4>1. f = "out" /\ shown' = shown + 1 /\ near' = near
                BY <1>4, <3>2, LinksAre DEF CanSendDown
            <4>2. \A k \in Links : k < 2 => AllOut(k)
                BY <1>1, <3>1, <3>2, <4>1 DEF StatusIn, CanSendDown
            <4>3. ~command.cut => shown + Nearer(2) + i - 1 = command.made
                BY <1>1, <3>1, <3>2, <4>1 DEF StatusIn, CanSendDown
            <4>4. i \in Nat /\ Nearer(2)' = Nearer(2) - 1 /\ Nearer(2) \in Nat \ {0} /\ shown \in Nat
                <5>1. downward[2] \in Seq(Answers) /\ i \in DOMAIN downward[2]
                    BY <1>2, <1>12, <3>1 DEF SessionTyped
                <5> QED BY <1>2, <1>5, <5>1 DEF SessionTyped, Nearer
            <4> QED BY <1>10, <4>1, <4>2, <4>3, <4>4
        <3> QED BY <1>1, <3>1, <3>2, LinksAre DEF StatusIn
    <2> QED BY <2>1, <2>2
<1>13. StatusIsTheCommands'
    <2>1. CASE cli' \in {"ok", "fail"}
        <3>1. f \in ExitFrames /\ shown' = shown /\ (cli' = "ok" <=> f = "zero")
            BY <1>1, <1>3, <1>4, <2>1 DEF Ended, Answers, ExitFrames
        <3>2. StatusIn(1, 1)
            BY <1>5, <3>1, LinksAre DEF ExecInv
        <3>3. ~command.cut => /\ command.pc = "exited" /\ (f = "zero" <=> command.code = 0)
                              /\ shown + Nearer(1) + 1 - 1 = command.made
            BY <1>5, <3>2, LinksAre DEF StatusIn
        <3>4. Nearer(1) = 0 /\ shown \in Nat
            BY <1>2 DEF Nearer, SessionTyped
        <3> QED BY <1>1, <2>1, <3>1, <3>3, <3>4 DEF StatusIsTheCommands
    <2>2. CASE cli' \notin {"ok", "fail"}
        BY <2>2 DEF StatusIsTheCommands
    <2> QED BY <2>1, <2>2
<1> QED BY <1>7, <1>8, <1>9, <1>11, <1>12, <1>13 DEF ExecInv

LEMMA CopiesDownStep == ASSUME ExecInv, NEW n \in Copiers, CopiesDown(n) PROVE ExecInv'
<1>1. Hops = 2 /\ Links = {1, 2} /\ Copiers = {1} /\ n = 1
    BY LinksAre
<1>2. /\ hop[1] = "copies" /\ 2 \in near /\ downward[2] # <<>> /\ CanSendDown(1)
      /\ downward' = [downward EXCEPT ![2] = Tail(@), ![1] = Append(@, Head(downward[2]))]
      /\ UNCHANGED <<upward, near, far, hop, cli, typed, shown, bridge, pump, attach, command>>
    BY <1>1 DEF CopiesDown, terminal, container
<1>3. SessionTyped /\ EarlyInv /\ CommandInv /\ FlowInv
      /\ downward[1] \in Seq(Answers) /\ downward[2] \in Seq(Answers)
    BY <1>1 DEF ExecInv, SessionTyped
<1>4. PICK f \in Answers : f = Head(downward[2])
    BY <1>2, <1>3
<1>5. /\ downward'[1] \in Seq(Answers) /\ downward'[2] \in Seq(Answers)
      /\ downward' \in [Links -> Seq(Answers)]
    <2>1. downward \in [Links -> Seq(Answers)] /\ Tail(downward[2]) \in Seq(Answers)
          /\ Append(downward[1], f) \in Seq(Answers)
        BY <1>2, <1>3 DEF SessionTyped
    <2> QED BY <1>1, <1>2, <1>4, <2>1
<1>6. /\ Len(downward'[1]) = Len(downward[1]) + 1 /\ Len(downward[1]) \in Nat
      /\ DOMAIN downward'[1] = 1 .. Len(downward[1]) + 1 /\ DOMAIN downward[1] = 1 .. Len(downward[1])
      /\ downward'[1][Len(downward[1]) + 1] = f
      /\ \A i \in DOMAIN downward[1] : downward'[1][i] = downward[1][i]
    <2>1. downward'[1] = Append(downward[1], f)
        BY <1>1, <1>2, <1>3, <1>4 DEF SessionTyped
    <2> QED BY <1>3, <2>1
<1>7. /\ Len(downward'[2]) = Len(downward[2]) - 1 /\ Len(downward[2]) \in Nat \ {0}
      /\ DOMAIN downward'[2] = 1 .. Len(downward[2]) - 1 /\ 1 \in DOMAIN downward[2] /\ downward[2][1] = f
      /\ \A i \in DOMAIN downward'[2] : i + 1 \in DOMAIN downward[2] /\ downward'[2][i] = downward[2][i + 1]
    <2>1. downward'[2] = Tail(downward[2])
        BY <1>1, <1>2, <1>3 DEF SessionTyped
    <2>2. PICK s \in Seq(Answers) : s = downward[2]
        BY <1>3
    <2>3. s # <<>> /\ f = Head(s) /\ downward'[2] = Tail(s)
        BY <1>2, <1>4, <2>1, <2>2
    <2> QED BY <2>2, <2>3, TailIs
<1>8. bridge \notin {"idle", "setup"}
    BY <1>1, <1>2, <1>3 DEF EarlyInv
<1>9. SessionTyped' /\ CommandInv' /\ EarlyInv' /\ StatusIsTheCommands'
    BY <1>1, <1>2, <1>3, <1>5, <1>8 DEF SessionTyped, CommandInv, EarlyInv, ExecInv, StatusIsTheCommands
<1>10. AllOut(2) => AllOut(2)' /\ f = "out"
    BY <1>7 DEF AllOut
<1>11. AllOut(1) /\ f = "out" => AllOut(1)'
    BY <1>6 DEF AllOut
<1>12. Nearer(2)' = Nearer(2) + 1 /\ Nearer(2) = Len(downward[1])
    BY <1>6 DEF Nearer
<1>13. FlowInv'
    <2>1. shown \in Nat /\ attach.out \in Nat /\ command.made \in Nat
        BY <1>3 DEF SessionTyped
    <2>2. 2 \in far => AllOut(2)'
        BY <1>1, <1>3, <1>10 DEF FlowInv
    <2>3. ASSUME \A l \in Links : CanSendDown(l)'
          PROVE  /\ \A l \in Links : AllOut(l)'
                 /\ (shown + Nearer(2) + Len(downward[2]) + attach.out = command.made)'
        <3>1. \A l \in Links : CanSendDown(l)
            BY <1>2, <2>3 DEF CanSendDown
        <3>2. AllOut(1) /\ AllOut(2) /\ shown + Nearer(2) + Len(downward[2]) + attach.out = command.made
            BY <1>1, <1>3, <3>1 DEF FlowInv
        <3>3. (shown + Nearer(2) + Len(downward[2]) + attach.out = command.made)'
            <4>1. shown' = shown /\ attach'.out = attach.out /\ command'.made = command.made
                BY <1>2
            <4>2. Len(downward'[2]) = Len(downward[2]) - 1 /\ Len(downward[2]) \in Nat
                BY <1>7
            <4>3. Nearer(2)' = Nearer(2) + 1 /\ Nearer(2) \in Nat
                BY <1>6, <1>12
            <4> QED BY <2>1, <3>2, <4>1, <4>2, <4>3
        <3> QED BY <1>1, <1>10, <1>11, <3>2, <3>3
    <2> QED BY <1>1, <1>2, <2>2, <2>3 DEF FlowInv
<1>14. \A i \in DOMAIN downward[1] : downward[1][i] \notin ExitFrames
    BY <1>1, <1>2 DEF ExecInv, StatusIn
<1>15. ASSUME NEW i \in DOMAIN downward[2], downward[2][i] \in ExitFrames
       PROVE  /\ StatusIn(2, i) /\ AllOut(1) /\ i \in Nat
              /\ ~command.cut => shown + Len(downward[1]) + i - 1 = command.made
    <2>1. StatusIn(2, i)
        BY <1>1, <1>15 DEF ExecInv
    <2>2. \A k \in Links : k < 2 => CanSendDown(k)
        BY <1>1, <1>2
    <2>3. i \in Nat
        BY <1>3, <1>15
    <2> QED BY <1>1, <1>12, <2>1, <2>2, <2>3 DEF StatusIn
<1>16. ASSUME NEW l \in Links, NEW i \in DOMAIN downward'[l], downward'[l][i] \in ExitFrames
      PROVE  StatusIn(l, i)'
    <2>1. CASE l = 1
        <3>1. i = Len(downward[1]) + 1 /\ f \in ExitFrames
            BY <1>6, <1>14, <1>16, <2>1
        <3>2. StatusIn(2, 1) /\ AllOut(1) /\ (~command.cut => shown + Len(downward[1]) + 1 - 1 = command.made)
            BY <1>7, <1>15, <3>1
        <3>3. downward'[2] = <<>>
            <4>1. Len(downward'[2]) = 0
                BY <1>1, <1>7, <3>2 DEF StatusIn
            <4> QED BY <1>5, <4>1
        <3>4. \A j \in 1 .. i - 1 : downward'[1][j] = "out"
            BY <1>6, <3>1, <3>2 DEF AllOut
        <3>5. ~command.cut => shown + Nearer(1)' + i - 1 = command.made
            BY <1>3, <1>6, <3>1, <3>2 DEF Nearer, SessionTyped
        <3>6. downward'[1][i] = downward[2][1]
            BY <1>6, <1>7, <3>1
        <3>7. 2 \notin far /\ (~command.cut => command.pc = "exited" /\ (f = "zero" <=> command.code = 0))
            BY <1>1, <1>7, <3>2 DEF StatusIn
        <3>8. downward'[1][i] = f
            BY <1>6, <3>1
        <3>9. \A k \in Links : ~(k < 1) /\ (k > 1 => k = 2)
            BY <1>1
        <3>10. StatusIn(1, i)'
            <4>1. \A k \in Links : k > 1 => downward'[k] = <<>>
                BY <3>3, <3>9
            <4>2. 1 # Hops
                BY <1>1
            <4>3. ~command'.cut => command'.pc = "exited" /\ (downward'[1][i] = "zero" <=> command'.code = 0)
                BY <1>2, <3>7, <3>8
            <4>4. ~command'.cut => shown' + Nearer(1)' + i - 1 = command'.made
                BY <1>2, <3>5
            <4>5. Hops \notin far'
                BY <1>1, <1>2, <3>7
            <4> QED BY <3>4, <3>9, <4>1, <4>2, <4>3, <4>4, <4>5 DEF StatusIn
        <3> QED BY <2>1, <3>10
    <2>2. CASE l = 2
        <3>1. i + 1 \in DOMAIN downward[2] /\ downward[2][i + 1] = downward'[2][i] /\ i \in Nat \ {0}
            BY <1>7, <1>16, <2>2
        <3>2. /\ StatusIn(2, i + 1) /\ AllOut(1)
              /\ ~command.cut => shown + Len(downward[1]) + (i + 1) - 1 = command.made
            BY <1>15, <1>16, <2>2, <3>1
        <3>3. f = "out" /\ \A j \in 1 .. i : downward[2][j] = "out"
            BY <1>7, <3>1, <3>2 DEF StatusIn
        <3>4. \A j \in 1 .. i - 1 : downward'[2][j] = "out"
            <4>1. \A j \in 1 .. i - 1 : j \in DOMAIN downward'[2] /\ j + 1 \in 1 .. i
                <5>1. i \in 1 .. Len(downward[2]) - 1
                    BY <1>7, <1>16, <2>2
                <5> QED BY <1>7, <3>1, <5>1
            <4> QED BY <1>7, <3>3, <4>1
        <3>5. AllOut(1)'
            BY <1>11, <3>2, <3>3
        <3>6. ~command.cut => shown + Nearer(2)' + i - 1 = command.made
            <4>1. shown \in Nat /\ i \in Nat /\ command.made \in Nat
                BY <1>3, <3>1 DEF SessionTyped
            <4> QED BY <1>6, <1>12, <3>2, <4>1
        <3>7. i = Len(downward'[2])
            BY <1>1, <1>7, <3>1, <3>2 DEF StatusIn
        <3>8. 2 \notin far /\ (~command.cut => command.pc = "exited" /\ (downward'[2][i] = "zero" <=> command.code = 0))
            BY <1>1, <3>1, <3>2 DEF StatusIn
        <3>9. \A k \in Links : ~(k > 2) /\ (k < 2 => k = 1)
            BY <1>1
        <3>10. StatusIn(2, i)'
            BY <1>1, <1>2, <3>4, <3>5, <3>6, <3>7, <3>8, <3>9 DEF StatusIn
        <3> QED BY <2>2, <3>10
    <2> QED BY <1>1, <2>1, <2>2
<1> QED BY <1>9, <1>13, <1>16 DEF ExecInv

\* The command line gives up, with what it was still sent or without it.
LEMMA CliGivesUpStep ==
    ASSUME ExecInv, cli = "runs", cli' \in {"left", "error"}, near' = near \ {1},
           downward' = downward \/ downward' = [downward EXCEPT ![1] = <<>>],
           UNCHANGED <<far, hop, shown, bridge, attach, command>>
    PROVE  ExecInv'
<1>1. SessionTyped /\ EarlyInv /\ CommandInv
    BY DEF ExecInv
<1>2. \A k \in Links : downward'[k] = downward[k] \/ (k = 1 /\ downward'[k] = <<>>)
    BY <1>1 DEF SessionTyped
<1>3. downward' \in [Links -> Seq(Answers)]
    BY <1>1, Nones DEF SessionTyped
<1>4. SessionTyped' /\ CommandInv' /\ StatusIsTheCommands'
    BY <1>1, <1>3 DEF SessionTyped, CommandInv, StatusIsTheCommands
<1>5. EarlyInv'
    BY <1>1, <1>2, Nones, LinksAre DEF EarlyInv
<1> QED BY <1>2, <1>4, <1>5, EndsStep, LinksAre

LEMMA BreaksStep == ASSUME ExecInv, NEW l \in Links, Breaks(l) PROVE ExecInv'
<1>1. /\ CanSendUp(l) /\ far' = far \ {l} /\ downward' = [downward EXCEPT ![l] = <<>>]
      /\ UNCHANGED <<near, hop, cli, typed, shown, bridge, pump, attach, command>>
    BY DEF Breaks, terminal, container
<1>2. SessionTyped /\ EarlyInv /\ CommandInv
    BY DEF ExecInv
<1>3. \A k \in Links : downward'[k] = downward[k] \/ (k = l /\ downward'[k] = <<>>)
    BY <1>1, <1>2 DEF SessionTyped
<1>4. downward' \in [Links -> Seq(Answers)]
    BY <1>1, <1>2, Nones DEF SessionTyped
<1>5. SessionTyped' /\ CommandInv' /\ StatusIsTheCommands'
    BY <1>1, <1>2, <1>4 DEF SessionTyped, CommandInv, ExecInv, StatusIsTheCommands
<1>6. EarlyInv'
    <2>1. cli # "off"
        BY <1>1, <1>2 DEF EarlyInv, CanSendUp
    <2> QED BY <1>1, <1>2, <1>3, <2>1, Nones, LinksAre DEF EarlyInv
<1> QED BY <1>1, <1>3, <1>5, <1>6, EndsStep, LinksAre

LEMMA DialFailsStep == ASSUME ExecInv, NEW n \in Copiers, DialFails(n) PROVE ExecInv'
<1>1. Hops = 2 /\ Links = {1, 2} /\ Copiers = {1} /\ n = 1
    BY LinksAre
<1>2. /\ hop[1] = "dial" /\ hop' = [hop EXCEPT ![1] = "done"] /\ downward' = SendDown(1, "error")
      /\ far' = far \ {1} /\ UNCHANGED <<upward, near, cli, typed, shown, bridge, pump, attach, command>>
    BY <1>1 DEF DialFails, HandlerFails, terminal, container
<1>3. SessionTyped /\ EarlyInv /\ CommandInv /\ bridge = "idle" /\ cli # "off" /\ downward[1] \in Seq(Answers)
    BY <1>1, <1>2 DEF ExecInv, EarlyInv, SessionTyped
<1>4. /\ downward'[2] = downward[2]
      /\ downward'[1] = downward[1] \/ downward'[1] = Append(downward[1], "error")
    BY <1>1, <1>2, <1>3 DEF SendDown, SessionTyped
<1>5. downward' \in [Links -> Seq(Answers)]
    BY <1>1, <1>2, <1>3 DEF SendDown, SessionTyped, Answers
<1>6. SessionTyped' /\ CommandInv' /\ StatusIsTheCommands'
    BY <1>1, <1>2, <1>3, <1>5 DEF SessionTyped, CommandInv, ExecInv, StatusIsTheCommands
<1>7. \A i \in DOMAIN downward'[1] : downward'[1][i] = "error"
    <2>1. \A i \in DOMAIN downward[1] : downward[1][i] = "error"
        BY <1>1, <1>3 DEF EarlyInv
    <2>2. CASE downward'[1] = Append(downward[1], "error")
        BY <1>3, <2>1, <2>2
    <2> QED BY <1>4, <2>1, <2>2
<1>8. EarlyInv'
    BY <1>1, <1>2, <1>3, <1>4, <1>7 DEF EarlyInv, SessionTyped
<1>9. near' \subseteq near /\ far' \subseteq far /\ 1 \notin far' /\ UNCHANGED <<command, attach, shown>>
    BY <1>2
<1>10. \A k \in Links : \/ downward'[k] = downward[k]
                        \/ downward'[k] = Append(downward[k], "error") /\ k \notin far' /\ k # Hops
    BY <1>1, <1>4, <1>9
<1> QED BY <1>6, <1>8, <1>9, <1>10, EndsStep

\* A copy ends, and closes the worker's connection; the one towards the command
\* line closes that one too, and says so if it was not the worker that ended it.
LEMMA CopyEndsIs ==
    ASSUME SessionTyped, NEW n \in Copiers, UpCopyEnds(n) \/ DownCopyEnds(n)
    PROVE  /\ hop[1] = "copies" /\ near' = near \ {2} /\ far' \subseteq far
           /\ hop' \in [Copiers -> {"idle", "dial", "copies", "done"}] /\ hop'[1] \in {"copies", "done"}
           /\ UNCHANGED <<cli, shown, bridge, attach, command>>
           /\ downward'[2] = <<>> /\ DOMAIN downward' = Links
           /\ \/ downward'[1] = downward[1]
              \/ downward'[1] = Append(downward[1], "error") /\ 1 \notin far'
<1>1. Hops = 2 /\ Links = {1, 2} /\ Copiers = {1} /\ n = 1
    BY LinksAre
<1>2. SessionTyped /\ downward \in [Links -> Seq(Answers)]
    BY DEF SessionTyped
<1>3. CASE UpCopyEnds(1)
    BY <1>1, <1>2, <1>3 DEF UpCopyEnds, terminal, container, SessionTyped
<1>4. CASE DownCopyEnds(1)
    <2>1. PICK sent : /\ sent = (IF 2 \in near /\ downward[2] = <<>> THEN downward ELSE SendDown(1, "error"))
                      /\ downward' = [sent EXCEPT ![2] = <<>>]
        <3>1. PICK sent : sent = IF 2 \in near /\ downward[2] = <<>> THEN downward ELSE SendDown(1, "error")
            OBVIOUS
        <3>2. downward' = [sent EXCEPT ![2] = <<>>]
            BY <1>4, <3>1 DEF DownCopyEnds
        <3> QED BY <3>1, <3>2
    <2>2. /\ hop[1] = "copies" /\ near' = near \ {2} /\ far' = far \ {1} /\ hop' = [hop EXCEPT ![1] = "done"]
          /\ UNCHANGED <<cli, shown, bridge, attach, command>>
        BY <1>4 DEF DownCopyEnds, terminal, container
    <2>3. DOMAIN sent = Links /\ (sent[1] = downward[1] \/ sent[1] = Append(downward[1], "error"))
        BY <1>1, <1>2, <2>1 DEF SendDown
    <2>4. DOMAIN downward' = Links /\ downward'[1] = sent[1] /\ downward'[2] = <<>>
        BY <1>1, <2>1, <2>3
    <2>5. hop' \in [Copiers -> {"idle", "dial", "copies", "done"}] /\ hop'[1] = "done"
        BY <1>1, <1>2, <2>2 DEF SessionTyped
    <2> QED BY <2>2, <2>3, <2>4, <2>5
<1> QED BY <1>1, <1>3, <1>4

LEMMA CopyEndsStep ==
    ASSUME ExecInv, NEW n \in Copiers, UpCopyEnds(n) \/ DownCopyEnds(n)
    PROVE  ExecInv'
<1>1. Hops = 2 /\ Links = {1, 2} /\ Copiers = {1} /\ n = 1
    BY LinksAre
<1>2. SessionTyped /\ EarlyInv /\ CommandInv /\ downward \in [Links -> Seq(Answers)]
    BY DEF ExecInv, SessionTyped
<1>3. /\ hop[1] = "copies" /\ near' = near \ {2} /\ far' \subseteq far
      /\ hop' \in [Copiers -> {"idle", "dial", "copies", "done"}] /\ hop'[1] \in {"copies", "done"}
      /\ UNCHANGED <<cli, shown, bridge, attach, command>>
      /\ downward'[2] = <<>> /\ DOMAIN downward' = Links
      /\ \/ downward'[1] = downward[1]
         \/ downward'[1] = Append(downward[1], "error") /\ 1 \notin far'
    BY <1>2, CopyEndsIs
<1>4. downward' \in [Links -> Seq(Answers)]
    <2>1. downward'[1] \in Seq(Answers) /\ downward'[2] \in Seq(Answers)
        <3>1. downward[1] \in Seq(Answers) /\ "error" \in Answers
            BY <1>1, <1>2 DEF Answers
        <3>2. Append(downward[1], "error") \in Seq(Answers)
            BY <3>1
        <3> QED BY <1>3, <3>1, <3>2, Nones
    <2>2. downward' = [k \in Links |-> downward'[k]]
        <3>1. \/ downward' = [downward EXCEPT ![2] = <<>>]
              \/ \E sent : downward' = [sent EXCEPT ![2] = <<>>]
            BY <1>1 DEF UpCopyEnds, DownCopyEnds
        <3> QED BY <1>3, <3>1
    <2> QED BY <1>1, <2>1, <2>2
<1>5. SessionTyped' /\ CommandInv' /\ StatusIsTheCommands'
    BY <1>2, <1>3, <1>4 DEF SessionTyped, CommandInv, ExecInv, StatusIsTheCommands
<1>6. cli # "off" /\ bridge # "idle"
    BY <1>1, <1>2, <1>3 DEF EarlyInv
<1>7. EarlyInv'
    <2>1. ASSUME \A i \in DOMAIN downward[1] : downward[1][i] = "error"
          PROVE  \A i \in DOMAIN downward'[1] : downward'[1][i] = "error"
        <3>1. CASE downward'[1] = Append(downward[1], "error")
            <4>1. downward[1] \in Seq(Answers)
                BY <1>1, <1>2
            <4> QED BY <2>1, <3>1, <4>1
        <3> QED BY <1>3, <2>1, <3>1
    <2>2. \A i \in DOMAIN downward'[2] : downward'[2][i] = "error"
        BY <1>3, Nones
    <2>3. \A m \in Copiers : hop'[m] # "dial"
        BY <1>1, <1>3
    <2> QED BY <1>1, <1>2, <1>3, <1>6, <2>1, <2>2, <2>3 DEF EarlyInv
<1>8. \A k \in Links : \/ downward'[k] = downward[k]
                       \/ downward'[k] = <<>> /\ k \notin near'
                       \/ downward'[k] = Append(downward[k], "error") /\ k \notin far' /\ k # Hops
    BY <1>1, <1>3
<1> QED BY <1>3, <1>5, <1>7, <1>8, EndsStep

LEMMA SetupStep == ASSUME ExecInv, Setup PROVE ExecInv'
<1>1. /\ bridge = "setup" /\ bridge' = "streams" /\ command' = [command EXCEPT !.pc = "runs"]
      /\ attach' = [ours |-> TRUE, engine |-> TRUE, in |-> 0, out |-> 0]
      /\ UNCHANGED <<downward, near, far, hop, cli, shown>>
    BY DEF Setup, links, terminal
<1>2. SessionTyped /\ EarlyInv
    BY DEF ExecInv
<1>3. command.pc = "none" /\ attach.out = 0 /\ command'.made = command.made /\ command'.pc = "runs"
      /\ command'.cut = command.cut
    BY <1>1, <1>2 DEF EarlyInv, SessionTyped
<1>4. SessionTyped' /\ CommandInv'
    BY <1>1, <1>2, <1>3 DEF SessionTyped, CommandInv
<1>5. EarlyInv'
    BY <1>1, <1>2 DEF EarlyInv
<1> QED BY <1>1, <1>3, <1>4, <1>5, QuietStep

\* The command prints, ends, or loses its stream.
LEMMA CommandStep ==
    ASSUME ExecInv, Prints \/ Consumes \/ Detaches \/ \E code \in {0, 1} : Exits(code)
    PROVE  ExecInv'
<1>1. UNCHANGED <<downward, near, far, hop, cli, shown, bridge, pump>>
    BY DEF Prints, Consumes, Detaches, Exits, links, terminal
<1>2. SessionTyped /\ EarlyInv /\ CommandInv
    BY DEF ExecInv
<1>3. command \in [pc : {"none", "runs", "detached", "exited"}, made : Nat, code : {0, 1}, cut : BOOLEAN]
      /\ attach \in [ours : BOOLEAN, engine : BOOLEAN, in : {0, 1}, out : Nat]
    BY <1>2 DEF SessionTyped
<1>4. command.pc \in {"runs", "detached"} /\ bridge \notin {"idle", "setup"}
    <2>1. command.pc \in {"runs", "detached"}
        BY DEF Prints, Consumes, Detaches, Exits
    <2> QED BY <1>2, <2>1 DEF EarlyInv
<1>5. /\ command' \in [pc : {"none", "runs", "detached", "exited"}, made : Nat, code : {0, 1}, cut : BOOLEAN]
      /\ attach' \in [ours : BOOLEAN, engine : BOOLEAN, in : {0, 1}, out : Nat]
      /\ command'.made - attach'.out = command.made - attach.out
      /\ ~command'.cut => ~command.cut
      /\ attach'.engine <=> command'.pc = "runs"
      /\ command'.pc = "detached" => command'.cut
      /\ command'.pc # "none" /\ (bridge = "inspects" => attach'.out = 0 /\ ~attach'.engine)
    <2>1. CASE Prints
        <3>1. attach.engine /\ command' = [command EXCEPT !.made = @ + 1] /\ attach' = [attach EXCEPT !.out = @ + 1]
            BY <2>1 DEF Prints
        <3>2. command'.made = command.made + 1 /\ attach'.out = attach.out + 1 /\ command.made + 1 \in Nat
              /\ attach.out + 1 \in Nat
            BY <1>3, <3>1
        <3> QED BY <1>2, <1>3, <1>4, <3>1, <3>2 DEF CommandInv
    <2>2. CASE Consumes
        <3>1. command' = command /\ attach' = [attach EXCEPT !.in = 0]
            BY <2>2 DEF Consumes
        <3> QED BY <1>2, <1>3, <1>4, <3>1 DEF CommandInv
    <2>3. CASE Detaches
        <3>1. /\ command' = [command EXCEPT !.pc = "detached", !.cut = TRUE]
              /\ attach' = [attach EXCEPT !.engine = FALSE]
            BY <2>3 DEF Detaches
        <3> QED BY <1>2, <1>3, <1>4, <3>1 DEF CommandInv
    <2>4. ASSUME NEW code \in {0, 1}, Exits(code)
          PROVE  <1>5!:
        <3>1. /\ command' = [command EXCEPT !.pc = "exited", !.code = code]
              /\ attach' = [attach EXCEPT !.engine = FALSE]
            BY <2>4 DEF Exits
        <3> QED BY <1>2, <1>3, <1>4, <3>1 DEF CommandInv
    <2> QED BY <2>1, <2>2, <2>3, <2>4
<1>6. SessionTyped' /\ CommandInv'
    BY <1>1, <1>2, <1>5 DEF SessionTyped, CommandInv
<1>7. EarlyInv'
    BY <1>1, <1>2, <1>4 DEF EarlyInv
<1> QED BY <1>1, <1>4, <1>5, <1>6, <1>7, QuietStep

\* What reads the command line's frames, and the end of the output.
LEMMA UpwardStep ==
    ASSUME ExecInv, \/ \E f \in {"in", "eof"} : Types(f)
                    \/ \E n \in Copiers : CopiesUp(n)
                    \/ PumpReads \/ PumpWrites \/ PumpEnds \/ OutputEnds \/ UNCHANGED execVars
    PROVE  ExecInv'
<1>1. UNCHANGED <<downward, near, far, hop, cli, shown, command>>
    BY DEF Types, CopiesUp, PumpReads, PumpWrites, PumpEnds, OutputEnds, execVars, links, terminal, container
<1>2. SessionTyped /\ EarlyInv /\ CommandInv
    BY DEF ExecInv
<1>3. attach \in [ours : BOOLEAN, engine : BOOLEAN, in : {0, 1}, out : Nat]
    BY <1>2 DEF SessionTyped
<1>4. attach' = attach \/ attach' = [attach EXCEPT !.in = 1] \/ attach' = [attach EXCEPT !.ours = FALSE]
    BY DEF Types, CopiesUp, PumpReads, PumpWrites, PumpEnds, OutputEnds, execVars, container
<1>5. /\ attach' \in [ours : BOOLEAN, engine : BOOLEAN, in : {0, 1}, out : Nat]
      /\ attach'.engine = attach.engine /\ attach'.out = attach.out
    BY <1>3, <1>4
<1>6. \/ bridge' = bridge
      \/ bridge = "streams" /\ bridge' = "inspects" /\ attach.out = 0 /\ ~attach.engine
    BY DEF Types, CopiesUp, PumpReads, PumpWrites, PumpEnds, OutputEnds, execVars, container
<1>7. SessionTyped' /\ CommandInv' /\ EarlyInv'
    BY <1>1, <1>2, <1>5, <1>6 DEF SessionTyped, CommandInv, EarlyInv
<1> QED BY <1>1, <1>5, <1>7, QuietStep

LEMMA SessionSteps == ExecInv /\ [ExecNext]_execVars => ExecInv'
<1> SUFFICES ASSUME ExecInv, [ExecNext]_execVars PROVE ExecInv'
    OBVIOUS
<1>1. CASE Connects
    BY <1>1, ConnectsStep
<1>2. CASE Leaves \/ CliCutOff
    BY <1>2, CliGivesUpStep DEF Leaves, CliCutOff, CliCloses, container
<1>3. ASSUME NEW l \in Links, Breaks(l) PROVE ExecInv'
    BY <1>3, BreaksStep
<1>4. CASE CliReads
    BY <1>4, CliReadsStep
<1>5. CASE Setup
    BY <1>5, SetupStep
<1>6. CASE SetupFails \/ OutputBreaks \/ InspectFails
    <2>1. "error" \in Answers \ {"out"} /\ "error" \notin ExitFrames
        BY DEF Answers, ExitFrames
    <2> QED BY <1>6, <2>1, ReturnStep DEF SetupFails, OutputBreaks, InspectFails, terminal
<1>7. CASE Inspects
    <2>1. PICK frame : frame = IF command.pc = "exited" /\ command.code # 0 THEN "nonzero" ELSE "zero"
        OBVIOUS
    <2>2. frame \in Answers \ {"out"} /\ (frame = "nonzero" <=> (command.pc = "exited" /\ command.code # 0))
        BY <2>1 DEF Answers
    <2>3. bridge = "inspects" /\ ExecReturns(frame) /\ UNCHANGED <<near, hop, cli, shown, command>>
        BY <1>7, <2>1 DEF Inspects, terminal
    <2> QED BY <2>2, <2>3, ReturnStep
<1>8. CASE OutputCopied
    BY <1>8, OutputCopiedStep
<1>9. ASSUME NEW n \in Copiers, Dials(n) PROVE ExecInv'
    BY <1>9, DialsStep
<1>10. ASSUME NEW n \in Copiers, DialFails(n) PROVE ExecInv'
    BY <1>10, DialFailsStep
<1>11. ASSUME NEW n \in Copiers, UpCopyEnds(n) \/ DownCopyEnds(n) PROVE ExecInv'
    BY <1>11, CopyEndsStep
<1>12. ASSUME NEW n \in Copiers, CopiesDown(n) PROVE ExecInv'
    BY <1>12, CopiesDownStep
<1>13. CASE Prints \/ Consumes \/ Detaches \/ \E code \in {0, 1} : Exits(code)
    BY <1>13, CommandStep
<1>14. CASE \/ \E f \in {"in", "eof"} : Types(f)
            \/ \E n \in Copiers : CopiesUp(n)
            \/ PumpReads \/ PumpWrites \/ PumpEnds \/ OutputEnds \/ UNCHANGED execVars
    BY <1>14, UpwardStep
<1> QED BY <1>1, <1>2, <1>3, <1>4, <1>5, <1>6, <1>7, <1>8, <1>9, <1>10, <1>11, <1>12, <1>13, <1>14
        DEF ExecNext, Streams

\* The exit status `preview exec` ends with is the command's, and its output was
\* shown in full before, whoever closed what in between (client/exec.go,
\* supervise/exec.go).
THEOREM StatusIsReported == ExecSpec => []StatusIsTheCommands
<1>1. ExecInv => StatusIsTheCommands
    BY DEF ExecInv
<1> QED BY <1>1, SessionStarts, SessionSteps, PTL DEF ExecSpec

(* The types of a session's variables; what has been shown, with what is under
   way, is at most what the command has printed *)

OutsIn(s) == { i \in DOMAIN s : s[i] = "out" }
OutsOf(s) == Cardinality(OutsIn(s))
UnderWay == IF Hops = 1 THEN OutsOf(downward[1]) ELSE OutsOf(downward[1]) + OutsOf(downward[2])

FlowBound == shown + UnderWay + attach.out <= command.made /\ command.made <= Outputs

InputTypeInv ==
    /\ upward \in [Links -> Seq(Frames)] /\ typed \in 0 .. Inputs
    /\ cli \in {"off", "runs", "left", "ok", "fail", "error"}
    /\ bridge \in {"idle", "setup", "streams", "inspects", "done"}
    /\ pump \in {"off", "reads", "writes"}

ExecTypeInv == InputTypeInv /\ FlowBound

LEMMA OutsType ==
    ASSUME NEW s \in Seq(Answers)
    PROVE  OutsOf(s) \in Nat /\ IsFiniteSet(OutsIn(s)) /\ OutsIn(s) \subseteq 1 .. Len(s)
<1>1. IsFiniteSet(1 .. Len(s)) /\ OutsIn(s) \subseteq 1 .. Len(s)
    BY FS_Interval DEF OutsIn
<1>2. IsFiniteSet(OutsIn(s))
    BY <1>1, FS_Subset
<1> QED BY <1>1, <1>2, FS_CardinalityType DEF OutsOf

LEMMA OutsNone == OutsOf(<<>>) = 0
<1>1. OutsIn(<<>>) = {}
    BY DEF OutsIn
<1> QED BY <1>1, FS_EmptySet DEF OutsOf

LEMMA OutsAppend ==
    ASSUME NEW s \in Seq(Answers), NEW f \in Answers
    PROVE  OutsOf(Append(s, f)) = IF f = "out" THEN OutsOf(s) + 1 ELSE OutsOf(s)
<1>1. PICK last \in Nat : last = Len(s) + 1 /\ last \notin 1 .. Len(s)
    OBVIOUS
<1>2. /\ DOMAIN Append(s, f) = (1 .. Len(s)) \cup {last} /\ DOMAIN s = 1 .. Len(s)
      /\ Append(s, f)[last] = f /\ \A i \in 1 .. Len(s) : Append(s, f)[i] = s[i]
    BY <1>1
<1>3. OutsIn(Append(s, f)) = IF f = "out" THEN OutsIn(s) \cup {last} ELSE OutsIn(s)
    BY <1>1, <1>2 DEF OutsIn
<1>4. last \notin OutsIn(s)
    BY <1>1, <1>2 DEF OutsIn
<1> QED BY <1>3, <1>4, OutsType, FS_AddElement DEF OutsOf

LEMMA OutsTail ==
    ASSUME NEW s \in Seq(Answers), s # <<>>
    PROVE  /\ Head(s) = "out" => OutsOf(Tail(s)) + 1 <= OutsOf(s)
           /\ OutsOf(Tail(s)) <= OutsOf(s)
<1> DEFINE later == OutsIn(s) \ {1}
           moved == [i \in OutsIn(Tail(s)) |-> i + 1]
<1>1. Tail(s) \in Seq(Answers) /\ s[1] = Head(s) /\ 1 \in DOMAIN s
    BY TailIs
<1>2. IsFiniteSet(later) /\ Cardinality(later) = (IF 1 \in OutsIn(s) THEN OutsOf(s) - 1 ELSE OutsOf(s))
    BY OutsType, FS_RemoveElement DEF OutsOf
<1>3. \A i \in OutsIn(Tail(s)) : i \in Nat \ {0} /\ i + 1 \in later
    <2>1. ASSUME NEW i \in OutsIn(Tail(s)) PROVE i \in Nat \ {0} /\ i + 1 \in later
        <3>1. i \in DOMAIN Tail(s) /\ Tail(s)[i] = "out"
            BY DEF OutsIn
        <3>2. i \in 1 .. Len(s) - 1 /\ i + 1 \in DOMAIN s /\ s[i + 1] = "out" /\ Len(s) \in Nat
            BY <3>1, TailIs
        <3> QED BY <3>2 DEF OutsIn
    <2> QED BY <2>1
<1>4. moved \in Injection(OutsIn(Tail(s)), later)
    <2>1. moved \in [OutsIn(Tail(s)) -> later]
        BY <1>3
    <2>2. \A i, j \in OutsIn(Tail(s)) : moved[i] = moved[j] => i = j
        BY <1>3
    <2> QED BY <2>1, <2>2 DEF Injection, IsInjective
<1> HIDE DEF later, moved
<1>5. Cardinality(OutsIn(Tail(s))) <= Cardinality(later)
    BY <1>2, <1>4, FS_Injection
<1>6. OutsOf(Tail(s)) \in Nat /\ OutsOf(s) \in Nat /\ OutsOf(Tail(s)) <= Cardinality(later)
    BY <1>1, <1>5, OutsType DEF OutsOf
<1>7. Head(s) = "out" => 1 \in OutsIn(s)
    BY <1>1 DEF OutsIn
<1> QED BY <1>2, <1>6, <1>7

\* What a link may become without more output on it.
Quieter(l) ==
    \/ downward'[l] = downward[l] \/ downward'[l] = <<>>
    \/ \E f \in Answers \ {"out"} : downward'[l] = Append(downward[l], f)

LEMMA NoMoreOuts ==
    ASSUME SessionTyped, SessionTyped', NEW l \in Links, Quieter(l)
    PROVE  /\ OutsOf(downward[l]) \in Nat /\ OutsOf(downward'[l]) \in Nat
           /\ OutsOf(downward'[l]) <= OutsOf(downward[l])
<1>1. downward[l] \in Seq(Answers) /\ downward'[l] \in Seq(Answers)
    BY DEF SessionTyped
<1>2. OutsOf(downward[l]) \in Nat /\ OutsOf(downward'[l]) \in Nat
    BY <1>1, OutsType
<1>3. CASE downward'[l] = <<>>
    BY <1>2, <1>3, OutsNone
<1>4. ASSUME NEW f \in Answers \ {"out"}, downward'[l] = Append(downward[l], f)
      PROVE  OutsOf(downward'[l]) <= OutsOf(downward[l])
    <2>1. OutsOf(Append(downward[l], f)) = OutsOf(downward[l])
        BY <1>1, OutsAppend
    <2> QED BY <1>2, <1>4, <2>1
<1> QED BY <1>2, <1>3, <1>4 DEF Quieter

\* A step that adds no output to a link, and takes none from the command.
LEMMA FlowKept ==
    ASSUME SessionTyped, SessionTyped', FlowBound, UNCHANGED shown,
           \A l \in Links : Quieter(l),
           attach'.out = attach.out \/ attach'.out = 0, command'.made = command.made
    PROVE  FlowBound'
<1>1. /\ shown \in Nat /\ attach.out \in Nat /\ attach'.out \in Nat /\ command.made \in Nat
    BY DEF SessionTyped
<1>2. UnderWay \in Nat /\ UnderWay' \in Nat /\ UnderWay' <= UnderWay
    <2>1. /\ OutsOf(downward[1]) \in Nat /\ OutsOf(downward'[1]) \in Nat
          /\ OutsOf(downward'[1]) <= OutsOf(downward[1])
        BY LinksAre, NoMoreOuts
    <2>2. CASE Hops = 1
        BY <2>1, <2>2 DEF UnderWay
    <2>3. CASE Hops = 2
        <3>1. /\ OutsOf(downward[2]) \in Nat /\ OutsOf(downward'[2]) \in Nat
              /\ OutsOf(downward'[2]) <= OutsOf(downward[2])
            BY <2>3, LinksAre, NoMoreOuts
        <3> QED BY <2>1, <2>3, <3>1 DEF UnderWay
    <2> QED BY <2>2, <2>3, LinksAre
<1> QED BY <1>1, <1>2, ExecSessionAssumption DEF FlowBound

LEMMA FlowMoved ==
    ASSUME SessionTyped, SessionTyped', FlowBound, UnderWay \in Nat, UnderWay' \in Nat,
           shown' + UnderWay' <= shown + UnderWay, UNCHANGED <<attach, command>>
    PROVE  FlowBound'
<1>1. PICK x, y, u, v, o, m \in Nat : /\ x = shown /\ y = shown' /\ u = UnderWay /\ v = UnderWay'
                                      /\ o = attach.out /\ m = command.made
    BY DEF SessionTyped
<1>2. x + u + o <= m /\ m <= Outputs /\ y + v <= x + u
    BY <1>1 DEF FlowBound
<1>3. y + v + o <= m
    BY <1>2
<1> QED BY <1>1, <1>2, <1>3 DEF FlowBound

\* A chunk that moves on: printed, sent, copied or shown.
LEMMA OutMoves ==
    ASSUME SessionTyped, SessionTyped', FlowBound, ExecNext,
           Prints \/ OutputCopied \/ CliReads \/ \E n \in Copiers : CopiesDown(n)
    PROVE  FlowBound'
<1>0. /\ downward \in [Links -> Seq(Answers)] /\ shown \in Nat /\ Outputs \in Nat
      /\ attach.out \in Nat /\ command.made \in Nat
    BY ExecSessionAssumption DEF SessionTyped
<1>1. \A l \in Links : OutsOf(downward[l]) \in Nat /\ OutsOf(downward'[l]) \in Nat
    BY OutsType DEF SessionTyped
<1>2. CASE Prints
    <2>1. /\ command'.made = command.made + 1 /\ attach'.out = attach.out + 1
          /\ command.made < Outputs /\ UNCHANGED <<downward, shown>>
        BY <1>2 DEF Prints, links, terminal, SessionTyped
    <2>2. UnderWay' = UnderWay /\ UnderWay \in Nat
        BY <1>1, <2>1, LinksAre DEF UnderWay
    <2> QED BY <1>0, <2>1, <2>2 DEF FlowBound
<1>3. CASE OutputCopied
    <2>1. /\ attach'.out = attach.out - 1 /\ attach.out > 0 /\ UNCHANGED <<shown, command>>
          /\ downward' = [downward EXCEPT ![Hops] = Append(@, "out")]
        BY <1>3 DEF OutputCopied, SendDown, terminal, SessionTyped
    <2>2. OutsOf(downward'[Hops]) = OutsOf(downward[Hops]) + 1
        BY <1>0, <2>1, OutsAppend, LinksAre DEF Answers
    <2>3. UnderWay' = UnderWay + 1 /\ UnderWay \in Nat
        BY <1>0, <1>1, <2>1, <2>2, LinksAre DEF UnderWay
    <2> QED BY <1>0, <2>1, <2>3 DEF FlowBound
<1>4. CASE CliReads
    <2>1. /\ downward[1] # <<>> /\ downward' = [downward EXCEPT ![1] = Tail(@)]
          /\ UNCHANGED <<attach, command>>
          /\ shown' = shown \/ (Head(downward[1]) = "out" /\ shown' = shown + 1)
        BY <1>4 DEF CliReads, container
    <2>2. /\ OutsOf(downward'[1]) <= OutsOf(downward[1])
          /\ Head(downward[1]) = "out" => OutsOf(downward'[1]) + 1 <= OutsOf(downward[1])
        BY <1>0, <2>1, OutsTail, LinksAre
    <2>3. /\ UnderWay \in Nat /\ UnderWay' \in Nat /\ UnderWay' <= UnderWay
          /\ Head(downward[1]) = "out" => UnderWay' + 1 <= UnderWay
        <3>1. OutsOf(downward[1]) \in Nat /\ OutsOf(downward'[1]) \in Nat
            BY <1>1, LinksAre
        <3>2. CASE Hops = 1
            BY <2>2, <3>1, <3>2 DEF UnderWay
        <3>3. CASE Hops = 2
            <4>1. downward'[2] = downward[2] /\ OutsOf(downward[2]) \in Nat
                BY <1>0, <1>1, <2>1, <3>3, LinksAre
            <4> QED BY <2>2, <3>1, <3>3, <4>1 DEF UnderWay
        <3> QED BY <3>2, <3>3, LinksAre
    <2>4. PICK x, u, v \in Nat : x = shown /\ u = UnderWay /\ v = UnderWay'
        BY <1>0, <2>3
    <2>5. shown' + UnderWay' <= shown + UnderWay
        <3>1. CASE shown' = shown
            <4>1. v <= u
                BY <2>3, <2>4
            <4>2. x + v <= x + u
                BY <4>1
            <4> QED BY <2>4, <3>1, <4>2
        <3>2. CASE Head(downward[1]) = "out" /\ shown' = shown + 1
            <4>1. v + 1 <= u
                BY <2>3, <2>4, <3>2
            <4>2. x + 1 + v <= x + u
                BY <4>1
            <4> QED BY <2>4, <3>2, <4>2
        <3> QED BY <2>1, <3>1, <3>2
    <2> QED BY <2>1, <2>3, <2>5, FlowMoved
<1>5. ASSUME NEW n \in Copiers, CopiesDown(n) PROVE FlowBound'
    <2>0. Hops = 2 /\ n = 1 /\ Links = {1, 2}
        BY LinksAre
    <2>1. PICK f \in Answers :
            /\ downward[2] # <<>> /\ f = Head(downward[2])
            /\ downward' = [downward EXCEPT ![2] = Tail(@), ![1] = Append(@, f)]
            /\ UNCHANGED <<attach, command, shown>>
        <3>1. /\ downward[n + 1] # <<>> /\ UNCHANGED <<attach, command, shown>>
              /\ downward' = [downward EXCEPT ![n + 1] = Tail(@), ![n] = Append(@, Head(downward[n + 1]))]
            BY <1>5 DEF CopiesDown, terminal, container
        <3>2. n + 1 = 2
            BY <2>0
        <3>3. downward[2] # <<>> /\ downward[2] \in Seq(Answers)
            BY <1>0, <2>0, <3>1, <3>2
        <3>4. Head(downward[2]) \in Answers
            BY <3>3
        <3> QED BY <2>0, <3>1, <3>2, <3>3, <3>4
    <2>2. downward'[1] = Append(downward[1], f) /\ downward'[2] = Tail(downward[2])
        BY <1>0, <2>0, <2>1
    <2>3. OutsOf(downward'[1]) = IF f = "out" THEN OutsOf(downward[1]) + 1 ELSE OutsOf(downward[1])
        BY <1>0, <2>0, <2>2, OutsAppend
    <2>4. /\ OutsOf(downward'[2]) <= OutsOf(downward[2])
          /\ f = "out" => OutsOf(downward'[2]) + 1 <= OutsOf(downward[2])
        BY <1>0, <2>0, <2>1, <2>2, OutsTail
    <2>5. UnderWay \in Nat /\ UnderWay' \in Nat /\ UnderWay' <= UnderWay
        BY <1>1, <2>0, <2>3, <2>4 DEF UnderWay
    <2>6. shown' + UnderWay' <= shown + UnderWay
        <3>1. PICK x, u, v \in Nat : x = shown /\ u = UnderWay /\ v = UnderWay'
            BY <1>0, <2>5
        <3>2. v <= u /\ shown' = x
            BY <2>1, <2>5, <3>1
        <3>3. x + v <= x + u
            BY <3>2
        <3> QED BY <3>1, <3>2, <3>3
    <2> QED BY <2>1, <2>5, <2>6, FlowMoved
<1> QED BY <1>2, <1>3, <1>4, <1>5

LEMMA ExecTypesStart == ExecInit => ExecTypeInv
<1> SUFFICES ASSUME ExecInit PROVE ExecTypeInv
    OBVIOUS
<1>1. Inputs \in Nat /\ Outputs \in Nat /\ <<>> \in Seq(Frames)
    BY ExecSessionAssumption
<1>2. InputTypeInv
    BY <1>1 DEF ExecInit, InputTypeInv
<1>3. /\ downward = [l \in Links |-> <<>>] /\ shown = 0
      /\ attach = [ours |-> FALSE, engine |-> FALSE, in |-> 0, out |-> 0]
      /\ command = [pc |-> "none", made |-> 0, code |-> 0, cut |-> FALSE]
    BY DEF ExecInit
<1>4. UnderWay = 0
    BY <1>3, OutsNone, LinksAre DEF UnderWay
<1> QED BY <1>1, <1>2, <1>3, <1>4 DEF ExecTypeInv, FlowBound

\* Every other step adds no output to a link.
LEMMA FlowSteps ==
    ASSUME SessionTyped, SessionTyped', FlowBound, [ExecNext]_execVars
    PROVE  FlowBound'
<1>0. downward \in [Links -> Seq(Answers)] /\ Hops \in Links
    BY LinksAre DEF SessionTyped
<1>1. CASE Prints \/ OutputCopied \/ CliReads \/ \E n \in Copiers : CopiesDown(n)
    BY <1>1, OutMoves DEF ExecNext, Streams
<1>2. CASE \/ Connects \/ CliCutOff \/ (\E f \in {"in", "eof"} : Types(f)) \/ Setup
           \/ PumpReads \/ PumpWrites \/ PumpEnds \/ OutputEnds \/ Consumes \/ Detaches
           \/ (\E code \in {0, 1} : Exits(code)) \/ (\E n \in Copiers : Dials(n) \/ CopiesUp(n))
           \/ UNCHANGED execVars
    <2>1. UNCHANGED <<downward, shown>>
        BY <1>2 DEF Connects, CliCutOff, Types, Setup, PumpReads, PumpWrites, PumpEnds, OutputEnds,
                    Consumes, Detaches, Exits, Dials, CopiesUp, execVars, links, terminal
    <2>2. /\ attach'.out = attach.out \/ attach'.out = 0
          /\ command'.made = command.made
        <3>1. CASE Setup
            BY <3>1 DEF Setup, SessionTyped
        <3>2. CASE Detaches \/ \E code \in {0, 1} : Exits(code)
            BY <3>2 DEF Detaches, Exits, SessionTyped
        <3>3. CASE Consumes \/ PumpWrites \/ PumpEnds
            BY <3>3 DEF Consumes, PumpWrites, PumpEnds, SessionTyped
        <3>4. CASE \/ Connects \/ CliCutOff \/ (\E f \in {"in", "eof"} : Types(f)) \/ PumpReads \/ OutputEnds
                   \/ (\E n \in Copiers : Dials(n) \/ CopiesUp(n)) \/ UNCHANGED execVars
            BY <3>4 DEF Connects, CliCutOff, Types, PumpReads, OutputEnds, Dials, CopiesUp, execVars, container
        <3> QED BY <1>2, <3>1, <3>2, <3>3, <3>4
    <2> QED BY <2>1, <2>2, FlowKept DEF Quieter
<1>3. CASE Leaves \/ (\E l \in Links : Breaks(l))
    <2>1. PICK l \in Links : downward' = [downward EXCEPT ![l] = <<>>]
        BY <1>3, LinksAre DEF Leaves, Breaks
    <2>2. UNCHANGED <<shown, attach, command>>
        BY <1>3 DEF Leaves, Breaks, terminal, container
    <2> QED BY <1>0, <2>1, <2>2, FlowKept DEF Quieter
<1>4. ASSUME NEW l \in Links, NEW f \in Answers \ {"out"}, downward' = SendDown(l, f),
             UNCHANGED <<shown, command>>, attach'.out = attach.out
      PROVE  FlowBound'
    <2>1. \A k \in Links : Quieter(k)
        BY <1>0, <1>4 DEF Quieter, SendDown
    <2> QED BY <1>4, <2>1, FlowKept
<1>5. ASSUME NEW n \in Copiers, DialFails(n) PROVE FlowBound'
    <2>1. n \in Links /\ "error" \in Answers \ {"out"}
        BY LinksAre DEF Answers
    <2> QED BY <1>4, <1>5, <2>1 DEF DialFails, HandlerFails, terminal, container
<1>6. ASSUME NEW f \in Answers \ {"out"}, ExecReturns(f), UNCHANGED <<shown, command>> PROVE FlowBound'
    <2>1. attach'.out = attach.out
        BY <1>6 DEF ExecReturns, SessionTyped
    <2> QED BY <1>0, <1>4, <1>6, <2>1 DEF ExecReturns
<1>7. CASE SetupFails \/ OutputBreaks \/ InspectFails \/ Inspects
    <2>1. {"error", "zero", "nonzero"} \subseteq Answers \ {"out"}
        BY DEF Answers
    <2>2. PICK f \in Answers \ {"out"} : ExecReturns(f)
        BY <1>7, <2>1 DEF SetupFails, OutputBreaks, InspectFails, Inspects
    <2> QED BY <1>6, <1>7, <2>2 DEF SetupFails, OutputBreaks, InspectFails, Inspects, terminal
<1>8. ASSUME NEW n \in Copiers, UpCopyEnds(n) \/ DownCopyEnds(n) PROVE FlowBound'
    <2>1. /\ UNCHANGED <<shown, attach, command>> /\ downward'[2] = <<>>
          /\ downward'[1] = downward[1] \/ downward'[1] = Append(downward[1], "error")
        BY <1>8, CopyEndsIs
    <2>2. "error" \in Answers \ {"out"}
        BY DEF Answers
    <2> QED BY <2>1, <2>2, FlowKept, LinksAre DEF Quieter
<1> QED BY <1>1, <1>2, <1>3, <1>5, <1>7, <1>8 DEF ExecNext, Streams

LEMMA InputTypeSteps ==
    ASSUME SessionTyped, InputTypeInv, [ExecNext]_execVars
    PROVE  InputTypeInv'
<1>0. /\ upward \in [Links -> Seq(Frames)] /\ 1 \in Links /\ Hops \in Links
      /\ Inputs \in Nat /\ typed \in 0 .. Inputs
    BY ExecSessionAssumption, LinksAre DEF InputTypeInv
<1>1. ASSUME NEW f \in {"in", "eof"}, Types(f) PROVE InputTypeInv'
    <2>1. typed' \in 0 .. Inputs
        BY <1>0, <1>1 DEF Types
    <2>2. upward' \in [Links -> Seq(Frames)]
        <3>1. upward' = [upward EXCEPT ![1] = Append(@, f)] /\ f \in Frames
            BY <1>1 DEF Types, Frames
        <3> QED BY <1>0, <3>1
    <2> QED BY <1>1, <2>1, <2>2 DEF Types, container, InputTypeInv
<1>2. ASSUME NEW l \in Links, Breaks(l) PROVE InputTypeInv'
    <2>1. upward' \in [Links -> Seq(Frames)]
        BY <1>0, <1>2 DEF Breaks
    <2> QED BY <1>2, <2>1 DEF Breaks, terminal, container, InputTypeInv
<1>3. ASSUME NEW n \in Copiers, CopiesUp(n) PROVE InputTypeInv'
    <2>1. n \in Links /\ n + 1 \in Links /\ n # n + 1
        BY LinksAre
    <2>2. PICK f \in Frames : upward' = [upward EXCEPT ![n] = Tail(@), ![n + 1] = Append(@, f)]
        <3>1. upward[n] # <<>> /\ upward[n] \in Seq(Frames)
            BY <1>0, <1>3, <2>1 DEF CopiesUp
        <3>2. Head(upward[n]) \in Frames
            BY <3>1
        <3> QED BY <1>3, <3>2 DEF CopiesUp
    <2>3. Tail(upward[n]) \in Seq(Frames) /\ Append(upward[n + 1], f) \in Seq(Frames)
        <3>1. upward[n] # <<>> /\ upward[n] \in Seq(Frames) /\ upward[n + 1] \in Seq(Frames)
            BY <1>0, <1>3, <2>1 DEF CopiesUp
        <3> QED BY <3>1
    <2>4. upward' \in [Links -> Seq(Frames)]
        BY <1>0, <2>1, <2>2, <2>3
    <2> QED BY <1>3, <2>4 DEF CopiesUp, terminal, container, InputTypeInv
<1>4. CASE PumpReads
    <2>1. upward[Hops] # <<>> /\ upward[Hops] \in Seq(Frames)
        BY <1>0, <1>4 DEF PumpReads
    <2>2. Tail(upward[Hops]) \in Seq(Frames)
        BY <2>1
    <2>3. upward' \in [Links -> Seq(Frames)]
        BY <1>0, <1>4, <2>2 DEF PumpReads
    <2> QED BY <1>4, <2>3 DEF PumpReads, terminal, InputTypeInv
<1>5. CASE \/ Connects \/ Leaves \/ CliCutOff \/ Setup \/ PumpWrites \/ PumpEnds
           \/ OutputCopied \/ OutputEnds \/ Prints \/ Consumes \/ Detaches
           \/ (\E code \in {0, 1} : Exits(code)) \/ UNCHANGED execVars
    BY <1>5 DEF Connects, Leaves, CliCutOff, CliCloses, Setup, PumpWrites, PumpEnds, OutputCopied,
                OutputEnds, Prints, Consumes, Detaches, Exits, execVars, links, terminal, container,
                InputTypeInv
<1>6. CASE SetupFails \/ OutputBreaks \/ InspectFails \/ Inspects
    BY <1>6 DEF SetupFails, OutputBreaks, InspectFails, Inspects, ExecReturns, terminal, InputTypeInv
<1>7. CASE \E n \in Copiers : Dials(n) \/ DialFails(n) \/ UpCopyEnds(n) \/ CopiesDown(n) \/ DownCopyEnds(n)
    BY <1>7 DEF Dials, DialFails, UpCopyEnds, CopiesDown, DownCopyEnds, terminal, container, InputTypeInv
<1>8. CASE CliReads
    <2>1. downward[1] # <<>> /\ downward[1] \in Seq(Answers)
        BY <1>0, <1>8 DEF CliReads, SessionTyped
    <2>2. PICK f \in Answers : f = Head(downward[1])
        BY <2>1
    <2>3. f # "out" => Ended(f) \in {"ok", "fail", "error"}
        BY DEF Answers, Ended
    <2>4. cli' = cli \/ cli' \in {"ok", "fail", "error"}
        BY <1>8, <2>2, <2>3 DEF CliReads, CliCloses
    <2> QED BY <1>8, <2>4 DEF CliReads, container, InputTypeInv
<1> QED BY <1>1, <1>2, <1>3, <1>4, <1>5, <1>6, <1>7, <1>8 DEF ExecNext, Streams

\* The variables of an exec session have their types; what has been displayed was
\* printed, and is shown once.
LEMMA ExecTypeSteps == ExecInv /\ ExecTypeInv /\ [ExecNext]_execVars => ExecTypeInv'
<1> SUFFICES ASSUME ExecInv, ExecTypeInv, [ExecNext]_execVars PROVE ExecTypeInv'
    OBVIOUS
<1>1. SessionTyped /\ SessionTyped'
    BY SessionSteps DEF ExecInv
<1> QED BY <1>1, FlowSteps, InputTypeSteps DEF ExecTypeInv

LEMMA ExecTypesHold == ExecInv /\ ExecTypeInv => ExecTypeOK
<1> SUFFICES ASSUME ExecInv, ExecTypeInv PROVE ExecTypeOK
    OBVIOUS
<1>1. UnderWay \in Nat
    BY OutsType, LinksAre DEF UnderWay, ExecInv, SessionTyped
<1>2. shown \in 0 .. Outputs
    BY <1>1, ExecSessionAssumption DEF ExecInv, SessionTyped, ExecTypeInv, FlowBound
<1> QED BY <1>2 DEF ExecInv, SessionTyped, ExecTypeInv, InputTypeInv, ExecTypeOK

\* The variables of an exec session have their types (supervise/exec.go,
\* client/exec.go); no output is displayed that the command has not printed.
THEOREM SessionsTyped == ExecSpec => []ExecTypeOK
<1>1. ExecInv /\ ExecTypeInv => ExecTypeOK
    BY ExecTypesHold
<1> QED BY <1>1, SessionStarts, SessionSteps, ExecTypesStart, ExecTypeSteps, PTL DEF ExecSpec

-------------------------------------------------------------------------------
(* An HTTP response: Responses *)

\* The values of a response's record.
Bytes == (Exchanges \X Nat) \cup {"error text"}
Items == Bytes \X BOOLEAN
HeadTypes == [status : {"none", "own", "implied", "switching", "failed"}, gzip : BOOLEAN, length : BOOLEAN]
Records ==
    [kind : ResponseKinds, mode : {"undecided", "passthrough", "gzip"},
     code : {"none", "early", "own", "implied", "switching"}, buf : Seq(Bytes),
     gz : Compressors \cup {"none"}, length : BOOLEAN, head : HeadTypes, wire : Seq(Items),
     asked : {"implied", "own", "switching"}, written : Nat, flushed : Nat, early : BOOLEAN,
     end : {"serving", "returned", "panicked", "hijacked"}]

\* What a response holds back, or its compressor does.
Held(x) == IF x.gz = "none" THEN x.buf ELSE zip[x.gz].holds

\* A compressor and the response that uses it know each other.
Owned(x, r) ==
    /\ x \in Records /\ x.written <= BodyUnits[r]
    /\ x.gz # "none" <=> (x.mode = "gzip" /\ x.end = "serving")
    /\ x.gz # "none" => zip[x.gz].to = r
    /\ x.end = "serving" /\ x.code = "none" => x.mode = "undecided"
    /\ x.kind = "upgrade" => x.mode # "gzip"

ZipInv ==
    /\ zip \in [Compressors -> [to : Exchanges \cup {"none"}, holds : Seq(Bytes)]] /\ pool \subseteq Compressors
    /\ \A z \in Compressors : /\ zip[z].to = "none" => zip[z].holds = <<>>
                              /\ zip[z].to # "none" => res[zip[z].to].gz = z
                              /\ z \in pool => zip[z].to = "none"

\* The status that was meant is recorded, and sent before any byte.
HeadInv(x) ==
    /\ x.mode = "undecided" => x.head = NoHead /\ x.wire = <<>>
    /\ x.mode # "undecided" => x.buf = <<>> /\ x.head.status # "none"
    /\ x.mode = "passthrough" => x.head.gzip = FALSE
    /\ x.mode = "gzip" => x.head.gzip = TRUE
    /\ x.mode = "gzip" => ~x.head.length /\ x.kind \in {"text", "sized"}
    /\ x.head.status \in {"none", x.asked}
    /\ x.code = "none" => x.written = 0 /\ x.asked = "implied"
    /\ x.code # "none" => /\ x.code = x.asked /\ (x.kind = "opaque" => x.mode # "undecided")
                          /\ x.asked = "implied" => x.written > 0
    /\ x.asked = "switching" => x.mode = "passthrough"
    /\ x.kind = "upgrade" => x.asked \in {"implied", "switching"} /\ x.written = 0

\* What is on the wire and what is held back are the body so far.
BodyInv(x, r, held) ==
    /\ \A i \in DOMAIN x.wire : x.wire[i] = <<<<r, i>>, x.head.gzip>>
    /\ \A i \in DOMAIN held : held[i] = <<r, Len(x.wire) + i>>
    /\ Len(x.wire) + Len(held) = x.written
    /\ Len(x.wire) >= x.flushed

\* A response that is over.
AllSent(x, r) ==
    /\ \A i \in DOMAIN x.wire : x.wire[i] = <<<<r, i>>, x.head.gzip>>
    /\ x.head.gzip => ~x.head.length /\ x.kind \in {"text", "sized"}
    /\ x.head.status \in {"none", x.asked} /\ Len(x.wire) >= x.flushed
    /\ x.end = "returned" => Len(x.wire) = x.written /\ x.head.status = x.asked
    /\ x.end = "hijacked" => x.head.status = IF x.asked = "switching" THEN x.asked ELSE "none"

Sound(x, r) ==
    ~x.early /\ x.end # "panicked" =>
        IF x.end = "serving" THEN HeadInv(x) /\ BodyInv(x, r, Held(x)) ELSE AllSent(x, r)

RespInv ==
    /\ ZipInv /\ DOMAIN res = Exchanges
    /\ \A r \in Exchanges : Owned(res[r], r) /\ Sound(res[r], r)

Statuses == {"own", "implied", "switching", "failed", "early"}

\* Two records that differ in what was sent at most.
SameBut(x, y) ==
    /\ x.kind = y.kind /\ x.mode = y.mode /\ x.code = y.code /\ x.buf = y.buf /\ x.gz = y.gz
    /\ x.length = y.length /\ x.asked = y.asked /\ x.written = y.written /\ x.flushed = y.flushed
    /\ x.early = y.early /\ x.end = y.end

LEMMA CommitIs ==
    \A x \in Records, s \in Statuses : LET y == Commit(x, s) IN
           /\ y \in Records /\ SameBut(y, x) /\ y.wire = x.wire
           /\ x.head.status # "none" \/ s = "early" => y.head = x.head
           /\ x.head.status = "none" /\ s # "early" =>
                 /\ y.head.status = s /\ y.head.length = x.length
                 /\ x.mode = "gzip" => y.head.gzip = TRUE
                 /\ x.mode # "gzip" => y.head.gzip = FALSE
<1> TAKE x \in Records, s \in Statuses
<1>1. CASE x.head.status # "none" \/ s = "early"
    BY <1>1 DEF Commit, SameBut
<1>2. CASE x.head.status = "none" /\ s # "early"
    <2>1. PICK h \in HeadTypes : /\ h = [status |-> s, gzip |-> x.mode = "gzip", length |-> x.length]
                                 /\ (x.mode = "gzip" => h.gzip = TRUE) /\ (x.mode # "gzip" => h.gzip = FALSE)
        <3>1. CASE x.mode = "gzip"
            <4>1. [status |-> s, gzip |-> x.mode = "gzip", length |-> x.length]
                        = [status |-> s, gzip |-> TRUE, length |-> x.length]
                BY <3>1
            <4>2. PICK h \in HeadTypes : h = [status |-> s, gzip |-> TRUE, length |-> x.length]
                BY <1>2 DEF Records, HeadTypes, Statuses
            <4>3. h.gzip = TRUE
                BY <4>2
            <4>4. h = [status |-> s, gzip |-> x.mode = "gzip", length |-> x.length]
                BY <4>1, <4>2
            <4> QED BY <3>1, <4>3, <4>4
        <3>2. CASE x.mode # "gzip"
            <4>1. [status |-> s, gzip |-> x.mode = "gzip", length |-> x.length]
                        = [status |-> s, gzip |-> FALSE, length |-> x.length]
                BY <3>2
            <4>2. PICK h \in HeadTypes : h = [status |-> s, gzip |-> FALSE, length |-> x.length]
                BY <1>2 DEF Records, HeadTypes, Statuses
            <4>3. h.gzip = FALSE
                BY <4>2
            <4>4. h = [status |-> s, gzip |-> x.mode = "gzip", length |-> x.length]
                BY <4>1, <4>2
            <4> QED BY <3>2, <4>3, <4>4
        <3> QED BY <3>1, <3>2
    <2>2. Commit(x, s) = [x EXCEPT !.head = [status |-> s, gzip |-> x.mode = "gzip", length |-> x.length]]
        BY <1>2 DEF Commit
    <2>6. Commit(x, s) = [x EXCEPT !.head = h]
        BY <2>1, <2>2
    <2>3. h.status = s /\ h.length = x.length
        BY <2>1
    <2>4. [x EXCEPT !.head = h] \in Records
        BY DEF Records
    <2>5. PICK y : y = [x EXCEPT !.head = h]
        OBVIOUS
    <2>7. y.head = h /\ y.wire = x.wire /\ SameBut(y, x)
        BY <2>5 DEF Records, SameBut
    <2>8. /\ y.head.status = s /\ y.head.length = x.length
          /\ (x.mode = "gzip" => y.head.gzip = TRUE) /\ (x.mode # "gzip" => y.head.gzip = FALSE)
        BY <2>1, <2>3, <2>7
    <2> QED BY <1>2, <2>4, <2>5, <2>6, <2>7, <2>8
<1> QED BY <1>1, <1>2

LEMMA ListedIs ==
    ASSUME NEW S, NEW n \in Nat, NEW f \in [1 .. n -> S]
    PROVE  f \in Seq(S) /\ Len(f) = n /\ DOMAIN f = 1 .. n
OBVIOUS

LEMMA JoinedIs ==
    \A S : \A s, t \in Seq(S) :
       /\ s \o t \in Seq(S) /\ Len(s \o t) = Len(s) + Len(t)
       /\ \A i \in DOMAIN s : (s \o t)[i] = s[i]
       /\ \A i \in DOMAIN t : (s \o t)[Len(s) + i] = t[i]
<1> TAKE S
<1> TAKE s, t \in Seq(S)
<1>1. /\ s \o t \in Seq(S) /\ Len(s \o t) = Len(s) + Len(t)
      /\ \A i \in 1 .. Len(s) + Len(t) : (s \o t)[i] = IF i <= Len(s) THEN s[i] ELSE t[i - Len(s)]
    BY ConcatProperties
<1>2. PICK w : w = s \o t
    OBVIOUS
<1>3. Len(s) \in Nat /\ Len(t) \in Nat /\ DOMAIN s = 1 .. Len(s) /\ DOMAIN t = 1 .. Len(t)
    OBVIOUS
<1>4. ASSUME NEW i \in DOMAIN t PROVE w[Len(s) + i] = t[i]
    <2>1. Len(s) + i \in 1 .. Len(s) + Len(t) /\ ~(Len(s) + i <= Len(s)) /\ Len(s) + i - Len(s) = i
        BY <1>3
    <2> QED BY <1>1, <1>2, <2>1
<1>5. \A i \in DOMAIN s : w[i] = s[i]
    BY <1>1, <1>2, <1>3
<1> QED BY <1>1, <1>2, <1>4, <1>5

LEMMA EmitIs ==
    ASSUME NEW x \in Records, NEW bytes \in Seq(Bytes), NEW g \in BOOLEAN
    PROVE  LET y == Emit(x, bytes, g) IN
           /\ y \in Records /\ SameBut(y, x) /\ y.head = Commit(x, "implied").head
           /\ Len(y.wire) = Len(x.wire) + Len(bytes)
           /\ \A i \in DOMAIN x.wire : y.wire[i] = x.wire[i]
           /\ \A i \in DOMAIN bytes : y.wire[Len(x.wire) + i] = <<bytes[i], g>>
<1>1. PICK c \in Records : c = Commit(x, "implied") /\ SameBut(c, x) /\ c.wire = x.wire
    BY CommitIs DEF Statuses
<1>2. PICK more : more = [i \in 1 .. Len(bytes) |-> <<bytes[i], g>>]
    OBVIOUS
<1>3. /\ more \in Seq(Items) /\ Len(more) = Len(bytes) /\ DOMAIN more = DOMAIN bytes
      /\ \A i \in DOMAIN bytes : more[i] = <<bytes[i], g>>
    <2>1. Len(bytes) \in Nat /\ DOMAIN bytes = 1 .. Len(bytes)
        OBVIOUS
    <2>2. \A i \in 1 .. Len(bytes) : <<bytes[i], g>> \in Items
        BY <2>1 DEF Items
    <2>3. more \in [1 .. Len(bytes) -> Items]
        BY <1>2, <2>2
    <2> QED BY <1>2, <2>1, <2>3, ListedIs
<1>4. PICK w : w = x.wire \o more
    OBVIOUS
<1>5. /\ w \in Seq(Items) /\ Len(w) = Len(x.wire) + Len(bytes) /\ \A i \in DOMAIN x.wire : w[i] = x.wire[i]
      /\ \A i \in DOMAIN bytes : w[Len(x.wire) + i] = <<bytes[i], g>>
    <2>1. PICK s \in Seq(Items) : s = x.wire
        BY DEF Records
    <2>2. w = s \o more
        BY <1>4, <2>1
    <2>3. /\ s \o more \in Seq(Items) /\ Len(s \o more) = Len(s) + Len(more)
          /\ \A i \in DOMAIN s : (s \o more)[i] = s[i]
          /\ \A i \in DOMAIN more : (s \o more)[Len(s) + i] = more[i]
        <3>1. more \in Seq(Items)
            BY <1>3
        <3> QED BY <3>1, JoinedIs
    <2> QED BY <1>3, <2>1, <2>2, <2>3
<1>6. Emit(x, bytes, g) = [c EXCEPT !.wire = w]
    BY <1>1, <1>2, <1>4 DEF Emit
<1>7. [c EXCEPT !.wire = w] \in Records
    BY <1>5 DEF Records
<1>8. [c EXCEPT !.wire = w].wire = w /\ [c EXCEPT !.wire = w].head = c.head /\ SameBut([c EXCEPT !.wire = w], c)
    BY DEF Records, SameBut
<1> QED BY <1>1, <1>5, <1>6, <1>7, <1>8 DEF SameBut

LEMMA NoBytes == <<>> \in Seq(Bytes) /\ <<>> \in Seq(Items) /\ DOMAIN <<>> = {} /\ Len(<<>>) = 0
OBVIOUS

LEMMA ResponsesStart == ResponsesInit => RespInv
<1> SUFFICES ASSUME ResponsesInit PROVE RespInv
    OBVIOUS
<1>1. PICK kind \in [Exchanges -> ResponseKinds] : res = [r \in Exchanges |-> Fresh(kind[r])]
    BY DEF ResponsesInit
<1>2. pool = Compressors /\ zip = [z \in Compressors |-> Unused]
    BY DEF ResponsesInit
<1>3. ZipInv
    BY <1>2, NoBytes DEF ZipInv, Unused
<1>4. ASSUME NEW r \in Exchanges PROVE Owned(res[r], r) /\ Sound(res[r], r)
    <2>1. PICK x : x = res[r] /\ x = Fresh(kind[r]) /\ kind[r] \in ResponseKinds
        BY <1>1
    <2>2. NoHead \in HeadTypes
        BY DEF NoHead, HeadTypes
    <2>3. PICK sized \in BOOLEAN : sized = (kind[r] = "sized")
        OBVIOUS
    <2>4. x = [kind |-> kind[r], mode |-> "undecided", code |-> "none", buf |-> <<>>, gz |-> "none",
               length |-> sized, head |-> NoHead, wire |-> <<>>, asked |-> "implied",
               written |-> 0, flushed |-> 0, early |-> FALSE, end |-> "serving"]
        BY <2>1, <2>3 DEF Fresh
    <2>5. x \in Records
        BY <2>1, <2>2, <2>4, NoBytes DEF Records
    <2>6. Owned(x, r)
        BY <2>1, <2>4, <2>5, ResponsesAssumption DEF Owned
    <2>7. HeadInv(x) /\ BodyInv(x, r, Held(x))
        BY <2>4, NoBytes DEF HeadInv, BodyInv, Held, NoHead
    <2> QED BY <2>1, <2>4, <2>6, <2>7 DEF Sound
<1> QED BY <1>1, <1>3, <1>4 DEF RespInv

\* A step of one response, with the compressor it has or takes at most, leaves the
\* others as they are.
LEMMA OthersKept ==
    ASSUME RespInv, NEW r \in Exchanges, NEW q \in Exchanges, q # r, res'[q] = res[q],
           \A z \in Compressors : zip[z].to \notin {r, "none"} => zip'[z] = zip[z]
    PROVE  Owned(res[q], q)' /\ Sound(res[q], q)'
<1>1. Owned(res[q], q) /\ Sound(res[q], q)
    BY DEF RespInv
<1>2. res[q].gz # "none" => res[q].gz \in Compressors /\ zip[res[q].gz].to = q
    BY <1>1 DEF Owned, Records
<1>3. res[q].gz # "none" => zip'[res[q].gz] = zip[res[q].gz]
    BY <1>2, ResponsesAssumption
<1>4. Owned(res[q], q)'
    BY <1>1, <1>3 DEF Owned
<1>5. Held(res[q])' = Held(res[q])
    BY <1>3 DEF Held
<1> QED BY <1>1, <1>4, <1>5 DEF Sound

LEMMA StepOf ==
    ASSUME RespInv, NEW r \in Exchanges, NEW y, res' = [res EXCEPT ![r] = y],
           \A z \in Compressors : zip[z].to \notin {r, "none"} => zip'[z] = zip[z],
           ZipInv', Owned(y, r)', Sound(y, r)'
    PROVE  RespInv'
<1>1. DOMAIN res' = Exchanges /\ res'[r] = y /\ \A q \in Exchanges : q # r => res'[q] = res[q]
    BY DEF RespInv
<1>2. ASSUME NEW q \in Exchanges PROVE Owned(res[q], q)' /\ Sound(res[q], q)'
    <2>1. CASE q = r
        BY <1>1, <2>1
    <2>2. CASE q # r
        BY <1>1, <2>2, OthersKept
    <2> QED BY <2>1, <2>2
<1> QED BY <1>1, <1>2 DEF RespInv

\* A step of a response that keeps to its record.
LEMMA RecordStep ==
    ASSUME RespInv, NEW r \in Exchanges, NEW y, res' = [res EXCEPT ![r] = y], UNCHANGED <<pool, zip>>,
           y.gz = res[r].gz, Owned(y, r), Sound(y, r)
    PROVE  RespInv'
<1>1. Owned(y, r)' /\ Sound(y, r)'
    BY DEF Owned, Sound, Held
<1>2. ZipInv'
    <2>1. DOMAIN res = Exchanges /\ \A q \in Exchanges : res'[q].gz = res[q].gz
        BY DEF RespInv
    <2> QED BY <2>1 DEF RespInv, ZipInv
<1> QED BY <1>1, <1>2, StepOf

LEMMA WriteHeaderIs ==
    \A x \in Records, s \in {"own", "implied", "switching"} :
           LET y == WriteHeader(x, s) IN
           /\ y \in Records
           /\ x.code # "none" => y = x
           /\ /\ y.kind = x.kind /\ y.buf = x.buf /\ y.gz = x.gz /\ y.length = x.length /\ y.wire = x.wire
              /\ y.asked = x.asked /\ y.written = x.written /\ y.flushed = x.flushed
              /\ y.early = x.early /\ y.end = x.end /\ y.code # "none"
           /\ x.code = "none" =>
                 /\ y.code = s
                 /\ x.kind # "opaque" /\ s # "switching" => y.mode = x.mode /\ y.head = x.head
                 /\ x.kind = "opaque" \/ s = "switching" =>
                       /\ y.mode = "passthrough"
                       /\ x.head.status # "none" => y.head = x.head
                       /\ x.head.status = "none" => y.head.status = s /\ y.head.gzip = FALSE
<1> TAKE x \in Records, s \in {"own", "implied", "switching"}
<1>1. CASE x.code # "none"
    BY <1>1 DEF WriteHeader
<1>2. CASE x.code = "none"
    <2>1. PICK c \in Records : c = [x EXCEPT !.code = s]
        BY DEF Records
    <2>2. CASE x.kind = "opaque" \/ s = "switching"
        <3>1. PICK p \in Records : p = [c EXCEPT !.mode = "passthrough"]
            BY DEF Records
        <3>2. WriteHeader(x, s) = Commit(p, s)
            BY <1>2, <2>1, <2>2, <3>1 DEF WriteHeader
        <3>3. /\ p.kind = x.kind /\ p.buf = x.buf /\ p.gz = x.gz /\ p.length = x.length /\ p.wire = x.wire
              /\ p.asked = x.asked /\ p.written = x.written /\ p.flushed = x.flushed
              /\ p.early = x.early /\ p.end = x.end /\ p.code = s /\ p.mode = "passthrough" /\ p.head = x.head
            BY <2>1, <3>1 DEF Records
        <3>4. PICK y : y = Commit(p, s)
            OBVIOUS
        <3>0. s \in Statuses
            BY DEF Statuses
        <3>5. /\ y \in Records /\ SameBut(y, p) /\ y.wire = p.wire
              /\ p.head.status # "none" \/ s = "early" => y.head = p.head
              /\ p.head.status = "none" /\ s # "early" =>
                    /\ y.head.status = s /\ y.head.length = p.length
                    /\ p.mode = "gzip" => y.head.gzip = TRUE
                    /\ p.mode # "gzip" => y.head.gzip = FALSE
            BY <3>0, <3>4, CommitIs
        <3> QED BY <1>2, <2>2, <3>2, <3>3, <3>4, <3>5 DEF SameBut
    <2>3. CASE ~(x.kind = "opaque" \/ s = "switching")
        <3>1. WriteHeader(x, s) = c
            BY <1>2, <2>1, <2>3 DEF WriteHeader
        <3> QED BY <1>2, <2>1, <2>3, <3>1 DEF Records
    <2> QED BY <2>2, <2>3
<1> QED BY <1>1, <1>2

LEMMA SetsStatusStep == ASSUME RespInv, NEW r \in Exchanges, SetsStatus(r) PROVE RespInv'
<1>1. PICK x : x = res[r] /\ Owned(x, r) /\ Sound(x, r) /\ x \in Records
    BY DEF RespInv, Owned
<1>2. PICK s \in {"own", "switching"} :
         /\ (x.kind = "upgrade" <=> s = "switching") /\ x.end = "serving" /\ x.asked = "implied" /\ x.written = 0
         /\ res' = [res EXCEPT ![r] = [WriteHeader(x, s) EXCEPT !.asked = s]]
         /\ UNCHANGED <<pool, zip>>
    <2>1. DOMAIN res = Exchanges
        BY DEF RespInv
    <2> QED BY <1>1, <2>1 DEF SetsStatus, Serving
<1>0. s \in {"own", "implied", "switching"}
    OBVIOUS
<1>3. PICK h \in Records : h = WriteHeader(x, s)
    BY <1>0, <1>1, WriteHeaderIs
<1>4. PICK y : y = [h EXCEPT !.asked = s]
    OBVIOUS
<1>5. /\ y \in Records /\ y.kind = h.kind /\ y.mode = h.mode /\ y.code = h.code /\ y.buf = h.buf /\ y.gz = h.gz
      /\ y.head = h.head /\ y.wire = h.wire /\ y.asked = s /\ y.written = h.written
      /\ y.flushed = h.flushed /\ y.early = h.early /\ y.end = h.end
    BY <1>4 DEF Records
<1>6. /\ x.code # "none" => h = x
      /\ h.kind = x.kind /\ h.buf = x.buf /\ h.gz = x.gz /\ h.wire = x.wire /\ h.written = x.written
      /\ h.flushed = x.flushed /\ h.early = x.early /\ h.end = x.end /\ h.code # "none"
      /\ x.code = "none" =>
            /\ h.code = s
            /\ x.kind # "opaque" /\ s # "switching" => h.mode = x.mode /\ h.head = x.head
            /\ x.kind = "opaque" \/ s = "switching" =>
                  /\ h.mode = "passthrough"
                  /\ x.head.status # "none" => h.head = x.head
                  /\ x.head.status = "none" => h.head.status = s /\ h.head.gzip = FALSE
    BY <1>0, <1>1, <1>3, WriteHeaderIs
<1>7. Owned(y, r)
    BY <1>1, <1>2, <1>5, <1>6 DEF Owned
<1>8. ASSUME ~x.early PROVE HeadInv(y) /\ BodyInv(y, r, Held(y))
    <2>1. HeadInv(x) /\ BodyInv(x, r, Held(x)) /\ x.code = "none"
        BY <1>1, <1>2, <1>8 DEF Sound, HeadInv
    <2>2. x.mode = "undecided" /\ x.head = NoHead /\ x.wire = <<>> /\ x.gz = "none"
        BY <1>1, <1>2, <2>1 DEF Owned, HeadInv
    <2>3. x.buf = <<>>
        <3>1. Len(x.wire) = 0 /\ x.buf \in Seq(Bytes) /\ Held(x) = x.buf
            BY <1>1, <2>2, NoBytes DEF Records, Held
        <3>2. Len(x.buf) = 0
            BY <1>2, <2>1, <3>1 DEF BodyInv
        <3> QED BY <3>1, <3>2
    <2>4. HeadInv(y)
        BY <1>2, <1>5, <1>6, <2>1, <2>2, <2>3 DEF HeadInv, NoHead
    <2>5. Held(y) = Held(x) /\ y.wire = <<>> /\ x.wire = <<>>
        BY <1>5, <1>6, <2>2 DEF Held
    <2>6. BodyInv(y, r, Held(y))
        BY <1>5, <1>6, <2>1, <2>5, NoBytes DEF BodyInv
    <2> QED BY <2>4, <2>6
<1>9. Sound(y, r)
    BY <1>2, <1>5, <1>6, <1>8 DEF Sound
<1>10. res' = [res EXCEPT ![r] = y] /\ UNCHANGED <<pool, zip>> /\ y.gz = res[r].gz
    BY <1>1, <1>2, <1>3, <1>4, <1>5, <1>6
<1> QED BY <1>7, <1>9, <1>10, RecordStep

LEMMA InformsStep == ASSUME RespInv, NEW r \in Exchanges, Informs(r) PROVE RespInv'
<1>1. PICK x : x = res[r] /\ Owned(x, r) /\ x \in Records
    BY DEF RespInv, Owned
<1>5. PICK code \in {"early", "own", "implied", "switching"} : code = IF x.code = "none" THEN "early" ELSE x.code
    BY <1>1 DEF Records
<1>2. PICK y : y = [x EXCEPT !.code = code, !.early = TRUE]
    OBVIOUS
<1>3. res' = [res EXCEPT ![r] = y] /\ UNCHANGED <<pool, zip>>
    <2>1. DOMAIN res = Exchanges
        BY DEF RespInv
    <2> QED BY <1>1, <1>2, <1>5, <2>1 DEF Informs
<1>4. /\ y \in Records /\ y.kind = x.kind /\ y.mode = x.mode /\ y.code # "none" /\ y.gz = x.gz
      /\ y.written = x.written /\ y.early = TRUE /\ y.end = x.end
    BY <1>1, <1>2, <1>5 DEF Records
<1>6. Owned(y, r) /\ Sound(y, r)
    BY <1>1, <1>4 DEF Owned, Sound
<1> QED BY <1>1, <1>3, <1>4, <1>6, RecordStep

LEMMA HijacksStep == ASSUME RespInv, NEW r \in Exchanges, Hijacks(r) PROVE RespInv'
<1>1. PICK x : x = res[r] /\ Owned(x, r) /\ Sound(x, r) /\ x \in Records
    BY DEF RespInv, Owned
<1>2. PICK y : y = [x EXCEPT !.mode = "passthrough", !.end = "hijacked"]
    OBVIOUS
<1>3. /\ res' = [res EXCEPT ![r] = y] /\ UNCHANGED <<pool, zip>>
      /\ x.end = "serving" /\ x.kind = "upgrade"
    <2>1. DOMAIN res = Exchanges
        BY DEF RespInv
    <2> QED BY <1>1, <1>2, <2>1 DEF Hijacks, Serving
<1>4. /\ y \in Records /\ y.kind = x.kind /\ y.mode = "passthrough" /\ y.gz = x.gz /\ y.head = x.head
      /\ y.written = x.written /\ y.early = x.early /\ y.end = "hijacked" /\ y.wire = x.wire
      /\ y.asked = x.asked /\ y.flushed = x.flushed
    BY <1>1, <1>2 DEF Records
<1>5. Owned(y, r)
    BY <1>1, <1>3, <1>4 DEF Owned
<1>6. ASSUME ~y.early PROVE AllSent(y, r)
    <2>1. HeadInv(x) /\ BodyInv(x, r, Held(x))
        BY <1>1, <1>3, <1>4, <1>6 DEF Sound
    <2>2. /\ \A i \in DOMAIN y.wire : y.wire[i] = <<<<r, i>>, y.head.gzip>>
          /\ Len(y.wire) >= y.flushed
        BY <1>4, <2>1 DEF BodyInv
    <2>3. x.mode # "gzip" /\ (x.head.gzip => x.mode = "gzip")
        BY <1>1, <1>3, <2>1 DEF Owned, HeadInv, NoHead, Records
    <2>4. y.head.status \in {"none", y.asked}
        BY <1>4, <2>1 DEF HeadInv
    <2>5. x.asked \in {"implied", "switching"} /\ x.written = 0
        BY <1>3, <2>1 DEF HeadInv
    <2>6. CASE x.asked = "switching"
        <3>1. x.head.status = "switching"
            BY <2>1, <2>6 DEF HeadInv
        <3> QED BY <1>4, <2>2, <2>3, <2>4, <2>6, <3>1 DEF AllSent
    <2>7. CASE x.asked = "implied"
        <3>1. x.code = "none"
            BY <2>1, <2>5, <2>7 DEF HeadInv
        <3>2. x.head.status = "none"
            BY <1>1, <1>3, <2>1, <3>1 DEF Owned, HeadInv, NoHead
        <3> QED BY <1>4, <2>2, <2>3, <2>4, <2>7, <3>2 DEF AllSent
    <2> QED BY <2>5, <2>6, <2>7
<1>7. Sound(y, r)
    BY <1>4, <1>6 DEF Sound
<1> QED BY <1>1, <1>3, <1>4, <1>5, <1>7, RecordStep

\* A write before the headers are decided implies the status; the rest is kept.
LEMMA GrownIs ==
    \A x \in Records, n \in Nat :
       LET y == Grown(x, n) IN
       /\ y \in Records
       /\ /\ y.kind = x.kind /\ y.buf = x.buf /\ y.gz = x.gz /\ y.length = x.length /\ y.wire = x.wire
          /\ y.asked = x.asked /\ y.written = x.written + n /\ y.flushed = x.flushed
          /\ y.early = x.early /\ y.end = x.end /\ y.code # "none"
       /\ x.code # "none" => y.code = x.code /\ y.mode = x.mode /\ y.head = x.head
       /\ x.code = "none" =>
             /\ y.code = "implied"
             /\ x.kind # "opaque" => y.mode = x.mode /\ y.head = x.head
             /\ x.kind = "opaque" =>
                   /\ y.mode = "passthrough"
                   /\ x.head.status # "none" => y.head = x.head
                   /\ x.head.status = "none" => y.head.status = "implied" /\ y.head.gzip = FALSE
<1> TAKE x \in Records, n \in Nat
<1>1. PICK h \in Records : h = WriteHeader(x, "implied")
    BY WriteHeaderIs
<1>2. /\ x.code # "none" => h = x
      /\ /\ h.kind = x.kind /\ h.buf = x.buf /\ h.gz = x.gz /\ h.length = x.length /\ h.wire = x.wire
         /\ h.asked = x.asked /\ h.written = x.written /\ h.flushed = x.flushed
         /\ h.early = x.early /\ h.end = x.end /\ h.code # "none"
      /\ x.code = "none" =>
            /\ h.code = "implied"
            /\ x.kind # "opaque" => h.mode = x.mode /\ h.head = x.head
            /\ x.kind = "opaque" =>
                  /\ h.mode = "passthrough"
                  /\ x.head.status # "none" => h.head = x.head
                  /\ x.head.status = "none" => h.head.status = "implied" /\ h.head.gzip = FALSE
    BY <1>1, WriteHeaderIs
<1>6. PICK m \in Nat : m = h.written + n
    BY DEF Records
<1>3. PICK y : y = [h EXCEPT !.written = m]
    OBVIOUS
<1>4. Grown(x, n) = y
    BY <1>1, <1>3, <1>6 DEF Grown
<1>5. /\ y \in Records /\ y.kind = h.kind /\ y.mode = h.mode /\ y.code = h.code /\ y.buf = h.buf
      /\ y.gz = h.gz /\ y.length = h.length /\ y.head = h.head /\ y.wire = h.wire /\ y.asked = h.asked
      /\ y.written = m /\ y.flushed = h.flushed /\ y.early = h.early /\ y.end = h.end
    BY <1>3 DEF Records
<1> QED BY <1>2, <1>4, <1>5, <1>6

LEMMA BodyIs ==
    \A r \in Exchanges, n \in Nat : res[r] \in Records =>
       /\ Body(r, n) \in Seq(Bytes) /\ Len(Body(r, n)) = n
       /\ \A i \in DOMAIN Body(r, n) : Body(r, n)[i] = <<r, res[r].written + i>>
<1> TAKE r \in Exchanges, n \in Nat
<1> HAVE res[r] \in Records
<1>0. PICK m \in Nat : m = res[r].written
    BY DEF Records
<1>1. \A i \in 1 .. n : <<r, res[r].written + i>> \in Bytes
    <2> TAKE i \in 1 .. n
    <2>1. m + i \in Nat
        BY <1>0
    <2> QED BY <1>0, <2>1 DEF Bytes
<1>2. PICK b : b = [i \in 1 .. n |-> <<r, res[r].written + i>>]
    OBVIOUS
<1>3. b \in [1 .. n -> Bytes]
    BY <1>1, <1>2
<1>4. b \in Seq(Bytes) /\ Len(b) = n /\ DOMAIN b = 1 .. n
    BY <1>3, ListedIs
<1> QED BY <1>2, <1>4 DEF Body

\* What a write adds to what is held back continues it.
LEMMA HeldGrows ==
    ASSUME NEW r \in Exchanges, NEW n \in Nat, res[r] \in Records, NEW held \in Seq(Bytes),
           NEW x, BodyInv(res[r], r, held), x.wire = res[r].wire, x.head.gzip = res[r].head.gzip \/ x.wire = <<>>,
           x.written = res[r].written + n, x.flushed = res[r].flushed
    PROVE  BodyInv(x, r, held \o Body(r, n))
<1>1. PICK b \in Seq(Bytes) : /\ b = Body(r, n) /\ Len(b) = n
                              /\ \A i \in DOMAIN b : b[i] = <<r, res[r].written + i>>
    BY BodyIs
<1>2. PICK w : w = held \o b
    OBVIOUS
<1>3. /\ w \in Seq(Bytes) /\ Len(w) = Len(held) + Len(b) /\ \A i \in DOMAIN held : w[i] = held[i]
      /\ \A i \in DOMAIN b : w[Len(held) + i] = b[i]
    BY <1>2, JoinedIs
<1>4. PICK l \in Nat : l = Len(res[r].wire)
    BY DEF Records
<1>5. /\ Len(held) \in Nat /\ DOMAIN held = 1 .. Len(held) /\ DOMAIN b = 1 .. n /\ DOMAIN w = 1 .. Len(held) + n
      /\ l + Len(held) = res[r].written /\ res[r].written \in Nat /\ \A i \in DOMAIN held : held[i] = <<r, l + i>>
    BY <1>1, <1>3, <1>4 DEF BodyInv, Records
<1>6. ASSUME NEW i \in DOMAIN w PROVE w[i] = <<r, l + i>>
    <2>1. CASE i <= Len(held)
        BY <1>3, <1>5, <2>1
    <2>2. CASE ~(i <= Len(held))
        <3>1. PICK j \in DOMAIN b : i = Len(held) + j
            <4>1. i - Len(held) \in 1 .. n /\ i = Len(held) + (i - Len(held))
                BY <1>5, <2>2
            <4> QED BY <1>5, <4>1
        <3>2. w[i] = <<r, res[r].written + j>>
            BY <1>1, <1>3, <3>1
        <3>3. res[r].written + j = l + i
            BY <1>5, <3>1
        <3> QED BY <3>2, <3>3
    <2> QED BY <2>1, <2>2
<1>7. Len(x.wire) = l /\ l + Len(w) = x.written /\ l >= x.flushed
    <2>1. l >= x.flushed
        BY <1>4 DEF BodyInv
    <2>2. Len(held) + n = Len(w) /\ x.written = res[r].written + n
        BY <1>1, <1>3
    <2>4. PICK h, d \in Nat : h = Len(held) /\ d = res[r].written
        BY <1>5
    <2>5. l + h = d /\ h + n = Len(w) /\ x.written = d + n
        BY <1>5, <2>2, <2>4
    <2>6. l + (h + n) = d + n
        BY <2>5
    <2>3. l + Len(w) = x.written
        BY <2>5, <2>6
    <2> QED BY <1>4, <2>1, <2>3
<1>8. \A i \in DOMAIN x.wire : x.wire[i] = <<<<r, i>>, x.head.gzip>>
    BY NoBytes DEF BodyInv
<1> QED BY <1>1, <1>2, <1>6, <1>7, <1>8 DEF BodyInv

\* Bytes that follow those on the wire are sent in order.
LEMMA EmitOrdered ==
    \A r \in Exchanges, x \in Records, held \in Seq(Bytes), g \in BOOLEAN :
       /\ \A i \in DOMAIN x.wire : x.wire[i] = <<<<r, i>>, g>>
       /\ \A i \in DOMAIN held : held[i] = <<r, Len(x.wire) + i>>
       => LET y == Emit(x, held, g) IN
          /\ \A i \in DOMAIN y.wire : y.wire[i] = <<<<r, i>>, g>>
          /\ Len(y.wire) = Len(x.wire) + Len(held)
<1> TAKE r \in Exchanges, x \in Records, held \in Seq(Bytes), g \in BOOLEAN
<1> HAVE /\ \A i \in DOMAIN x.wire : x.wire[i] = <<<<r, i>>, g>>
         /\ \A i \in DOMAIN held : held[i] = <<r, Len(x.wire) + i>>
<1>0. PICK y : y = Emit(x, held, g)
    OBVIOUS
<1>1. /\ y \in Records /\ Len(y.wire) = Len(x.wire) + Len(held)
      /\ \A i \in DOMAIN x.wire : y.wire[i] = x.wire[i]
      /\ \A i \in DOMAIN held : y.wire[Len(x.wire) + i] = <<held[i], g>>
    BY <1>0, EmitIs
<1>2. PICK l \in Nat : l = Len(x.wire) /\ DOMAIN x.wire = 1 .. l
    BY DEF Records
<1>3. PICK m \in Nat : m = Len(held) /\ DOMAIN held = 1 .. m
    OBVIOUS
<1>4. DOMAIN y.wire = 1 .. l + m
    BY <1>1, <1>2, <1>3 DEF Records
<1>5. ASSUME NEW i \in 1 .. l + m PROVE y.wire[i] = <<<<r, i>>, g>>
    <2>1. CASE i <= l
        <3>1. i \in DOMAIN x.wire
            BY <1>2, <2>1
        <3> QED BY <1>1, <3>1
    <2>2. CASE ~(i <= l)
        <3>1. PICK j \in 1 .. m : i = l + j
            <4>1. i - l \in 1 .. m /\ i = l + (i - l)
                BY <2>2
            <4> QED BY <4>1
        <3> QED BY <1>1, <1>2, <1>3, <3>1
    <2> QED BY <2>1, <2>2
<1> QED BY <1>0, <1>1, <1>4, <1>5

\* A write that decides the status leaves the head as it was meant.
LEMMA GrownHead ==
    ASSUME NEW r \in Exchanges, NEW x \in Records, Owned(x, r), NEW n \in Nat \ {0}, NEW y, y = Grown(x, n),
           HeadInv(x), x.end = "serving", x.written = 0 => x.buf = <<>>, x.kind # "upgrade"
    PROVE  HeadInv(y) /\ (y.wire = x.wire /\ (y.head.gzip = x.head.gzip \/ y.wire = <<>>))
<1>1. /\ y \in Records
      /\ /\ y.kind = x.kind /\ y.buf = x.buf /\ y.wire = x.wire
         /\ y.asked = x.asked /\ y.written = x.written + n /\ y.code # "none"
      /\ x.code # "none" => y.code = x.code /\ y.mode = x.mode /\ y.head = x.head
      /\ x.code = "none" =>
            /\ y.code = "implied"
            /\ x.kind # "opaque" => y.mode = x.mode /\ y.head = x.head
            /\ x.kind = "opaque" =>
                  /\ y.mode = "passthrough"
                  /\ x.head.status # "none" => y.head = x.head
                  /\ x.head.status = "none" => y.head.status = "implied" /\ y.head.gzip = FALSE
    BY GrownIs
<1>2. x.written \in Nat /\ y.written > 0
    BY <1>1 DEF Records
<1>3. CASE x.code # "none"
    BY <1>1, <1>2, <1>3 DEF HeadInv
<1>4. CASE x.code = "none"
    <2>1. x.mode = "undecided" /\ x.head = NoHead /\ x.wire = <<>> /\ x.buf = <<>> /\ x.asked = "implied"
        BY <1>4 DEF HeadInv, Owned
    <2>2. x.head.status = "none"
        BY <2>1 DEF NoHead
    <2>3. CASE x.kind = "opaque"
        BY <1>1, <1>2, <1>4, <2>1, <2>2, <2>3 DEF HeadInv
    <2>4. CASE x.kind # "opaque"
        BY <1>1, <1>2, <1>4, <2>1, <2>2, <2>4 DEF HeadInv
    <2> QED BY <2>3, <2>4
<1> QED BY <1>3, <1>4

LEMMA PlainNowIs ==
    \A r \in Exchanges, x \in Records : \A y \in {PlainNow(x)} : x.code # "none" =>
       /\ y \in Records
       /\ y.kind = x.kind /\ y.mode = "passthrough" /\ y.code = x.code /\ y.buf = <<>> /\ y.gz = x.gz
       /\ y.asked = x.asked /\ y.written = x.written /\ y.flushed = x.flushed /\ y.early = x.early
       /\ y.end = x.end
       /\ x.code # "early" /\ x.head = NoHead /\ x.wire = <<>> /\ (\A i \in DOMAIN x.buf : x.buf[i] = <<r, i>>) =>
             /\ y.head.status = x.code /\ y.head.gzip = FALSE /\ Len(y.wire) = Len(x.buf)
             /\ \A i \in DOMAIN y.wire : y.wire[i] = <<<<r, i>>, FALSE>>
<1> TAKE r \in Exchanges, x \in Records
<1> TAKE y \in {PlainNow(x)}
<1> HAVE x.code # "none"
<1>1. PICK p : p = [x EXCEPT !.mode = "passthrough", !.buf = <<>>]
    OBVIOUS
<1>2. /\ p \in Records /\ p.kind = x.kind /\ p.mode = "passthrough" /\ p.code = x.code /\ p.buf = <<>>
      /\ p.gz = x.gz /\ p.asked = x.asked /\ p.written = x.written /\ p.flushed = x.flushed
      /\ p.early = x.early /\ p.end = x.end /\ p.head = x.head /\ p.wire = x.wire
    BY <1>1, NoBytes DEF Records
<1>3. x.code \in Statuses /\ x.buf \in Seq(Bytes) /\ "implied" \in Statuses
    BY DEF Records, Statuses
<1>4. PICK c \in Records : c = Commit(p, x.code)
    BY <1>2, <1>3, CommitIs
<1>5. /\ SameBut(c, p) /\ c.wire = p.wire
      /\ p.head.status = "none" /\ x.code # "early" => c.head.status = x.code /\ c.head.gzip = FALSE
    BY <1>2, <1>3, <1>4, CommitIs
<1>6. y = Emit(c, x.buf, FALSE)
    BY <1>1, <1>4 DEF PlainNow
<1>7. y \in Records /\ SameBut(y, c) /\ y.head = Commit(c, "implied").head
    BY <1>3, <1>6, EmitIs
<1>8. ASSUME x.code # "early", x.head = NoHead, x.wire = <<>>, \A i \in DOMAIN x.buf : x.buf[i] = <<r, i>>
      PROVE  /\ y.head.status = x.code /\ y.head.gzip = FALSE /\ Len(y.wire) = Len(x.buf)
             /\ \A i \in DOMAIN y.wire : y.wire[i] = <<<<r, i>>, FALSE>>
    <2>1. c.head.status = x.code /\ c.head.gzip = FALSE /\ c.wire = <<>>
        BY <1>2, <1>5, <1>8 DEF NoHead
    <2>2. y.head = c.head
        BY <1>3, <1>4, <1>7, <2>1, CommitIs
    <2>3. \A i \in DOMAIN c.wire : c.wire[i] = <<<<r, i>>, FALSE>>
        BY <2>1, NoBytes
    <2>4. PICK held \in Seq(Bytes) : held = x.buf
        BY <1>3
    <2>5. \A i \in DOMAIN held : held[i] = <<r, Len(c.wire) + i>>
        <3>1. Len(c.wire) = 0
            BY <2>1, NoBytes
        <3>2. \A i \in DOMAIN held : Len(c.wire) + i = i
            BY <3>1
        <3> QED BY <1>8, <2>4, <3>2
    <2>6. y = Emit(c, held, FALSE)
        BY <1>6, <2>4
    <2>7. (\A i \in DOMAIN y.wire : y.wire[i] = <<<<r, i>>, FALSE>>) /\ Len(y.wire) = Len(c.wire) + Len(held)
        <3>1. PICK no \in BOOLEAN : no = FALSE
            OBVIOUS
        <3>2. (\A i \in DOMAIN c.wire : c.wire[i] = <<<<r, i>>, no>>) /\ y = Emit(c, held, no)
            BY <2>3, <2>6, <3>1
        <3>3. (\A i \in DOMAIN y.wire : y.wire[i] = <<<<r, i>>, no>>) /\ Len(y.wire) = Len(c.wire) + Len(held)
            BY <2>5, <3>2, EmitOrdered
        <3> QED BY <3>1, <3>3
    <2>8. Len(y.wire) = Len(x.buf)
        BY <2>1, <2>4, <2>7, NoBytes
    <2> QED BY <2>1, <2>2, <2>7, <2>8
<1> QED BY <1>2, <1>5, <1>7, <1>8 DEF SameBut

\* A step of a response with a compressor, after which the compressor holds hs.
LEMMA HoldsStep ==
    ASSUME RespInv, NEW r \in Exchanges, NEW y \in Records, NEW z \in Compressors, NEW hs \in Seq(Bytes),
           res[r].gz = z, res' = [res EXCEPT ![r] = y], zip' = [zip EXCEPT ![z].holds = hs], UNCHANGED pool,
           y.gz = z, y.mode = "gzip", y.code # "none", y.end = "serving", y.kind = res[r].kind,
           y.written <= BodyUnits[r], ~y.early => HeadInv(y) /\ BodyInv(y, r, hs)
    PROVE  RespInv'
<1>1. z # "none" /\ Owned(res[r], r)
    BY ResponsesAssumption DEF RespInv
<1>2. zip[z].to = r /\ y.kind # "upgrade"
    BY <1>1 DEF Owned
<1>3. zip \in [Compressors -> [to : Exchanges \cup {"none"}, holds : Seq(Bytes)]]
    BY DEF RespInv, ZipInv
<1>4. /\ zip' \in [Compressors -> [to : Exchanges \cup {"none"}, holds : Seq(Bytes)]]
      /\ zip'[z].to = r /\ zip'[z].holds = hs /\ \A q \in Compressors : q # z => zip'[q] = zip[q]
    BY <1>2, <1>3
<1>5. ZipInv'
    <2>1. DOMAIN res = Exchanges /\ \A q \in Exchanges : res'[q].gz = res[q].gz
        BY DEF RespInv
    <2>2. pool' \subseteq Compressors /\ z \notin pool /\ r # "none"
        BY <1>2, ResponsesAssumption DEF RespInv, ZipInv
    <2>3. ASSUME NEW q \in Compressors
          PROVE  /\ zip'[q].to = "none" => zip'[q].holds = <<>>
                 /\ zip'[q].to # "none" => res'[zip'[q].to].gz = q
                 /\ q \in pool' => zip'[q].to = "none"
        <3>1. CASE q = z
            BY <1>4, <2>1, <2>2, <3>1
        <3>2. CASE q # z
            <4>1. zip[q].to \in Exchanges \cup {"none"}
                BY <1>3
            <4> QED BY <1>4, <2>1, <3>2, <4>1 DEF RespInv, ZipInv
        <3> QED BY <3>1, <3>2
    <2> QED BY <1>4, <2>2, <2>3 DEF ZipInv
<1>6. Owned(y, r)'
    BY <1>1, <1>2, <1>4 DEF Owned
<1>7. Held(y)' = hs
    BY <1>1, <1>4 DEF Held
<1>8. Sound(y, r)'
    BY <1>7 DEF Sound
<1>9. \A q \in Compressors : zip[q].to \notin {r, "none"} => zip'[q] = zip[q]
    BY <1>2, <1>4
<1> QED BY <1>5, <1>6, <1>8, <1>9, StepOf

\* The compressor of a response that is over goes back to the pool.
LEMMA PoolsStep ==
    ASSUME RespInv, NEW r \in Exchanges, NEW y \in Records, Pools(res[r].gz), res' = [res EXCEPT ![r] = y],
           y.gz = "none", y.end # "serving", y.kind = "upgrade" => y.mode # "gzip", y.written <= BodyUnits[r],
           Sound(y, r)
    PROVE  RespInv'
<1>1. PICK g : g = res[r].gz
    OBVIOUS
<1>2. /\ zip \in [Compressors -> [to : Exchanges \cup {"none"}, holds : Seq(Bytes)]] /\ pool \subseteq Compressors
      /\ Owned(res[r], r) /\ DOMAIN res = Exchanges
      /\ \A z \in Compressors : /\ zip[z].to = "none" => zip[z].holds = <<>>
                                /\ zip[z].to # "none" => res[zip[z].to].gz = z
                                /\ z \in pool => zip[z].to = "none"
    BY DEF RespInv, ZipInv
<1>3. g \in Compressors \cup {"none"} /\ (g # "none" => zip[g].to = r)
    BY <1>1, <1>2 DEF Owned, Records
<1>4. /\ pool' = pool \cup ({g} \ {"none"})
      /\ zip' = [q \in Compressors |-> IF q = g THEN Unused ELSE zip[q]]
    BY <1>1 DEF Pools
<1>5. Unused \in [to : Exchanges \cup {"none"}, holds : Seq(Bytes)] /\ Unused.to = "none" /\ Unused.holds = <<>>
    BY NoBytes DEF Unused
<1>6. ZipInv'
    <2>1. zip' \in [Compressors -> [to : Exchanges \cup {"none"}, holds : Seq(Bytes)]] /\ pool' \subseteq Compressors
        BY <1>2, <1>3, <1>4, <1>5
    <2>2. ASSUME NEW z \in Compressors
          PROVE  /\ zip'[z].to = "none" => zip'[z].holds = <<>>
                 /\ zip'[z].to # "none" => res'[zip'[z].to].gz = z
                 /\ z \in pool' => zip'[z].to = "none"
        <3>1. CASE z = g
            BY <1>4, <1>5, <3>1
        <3>2. CASE z # g
            <4>1. zip'[z] = zip[z] /\ (z \in pool' => z \in pool)
                BY <1>4, <3>2
            <4>2. zip[z].to \in Exchanges \cup {"none"} /\ zip[z].to # r
                BY <1>1, <1>2, <3>2, ResponsesAssumption
            <4>3. zip[z].to # "none" => res'[zip[z].to] = res[zip[z].to]
                BY <1>2, <4>2
            <4> QED BY <1>2, <4>1, <4>3
        <3> QED BY <3>1, <3>2
    <2> QED BY <2>1, <2>2 DEF ZipInv
<1>7. Owned(y, r)' /\ Sound(y, r)'
    BY DEF Owned, Sound
<1>8. ASSUME NEW z \in Compressors, zip[z].to \notin {r, "none"} PROVE zip'[z] = zip[z]
    <2>1. z # g
        BY <1>3, <1>8, ResponsesAssumption
    <2> QED BY <1>4, <2>1
<1> QED BY <1>6, <1>7, <1>8, StepOf

LEMMA HeldTyped ==
    ASSUME ZipInv, NEW r \in Exchanges, NEW x \in Records
    PROVE  Held(x) \in Seq(Bytes)
<1>1. x.gz \in Compressors \cup {"none"} /\ x.buf \in Seq(Bytes)
    BY DEF Records
<1>2. x.gz \in Compressors => zip[x.gz].holds \in Seq(Bytes)
    BY DEF ZipInv
<1> QED BY <1>1, <1>2 DEF Held

\* What every write starts from.
LEMMA WriteGrows ==
    ASSUME RespInv, NEW r \in Exchanges, NEW n \in 1 .. BodyUnits[r], Serving(r),
           res[r].written + n <= BodyUnits[r], res[r].kind # "upgrade",
           NEW x, x = res[r], NEW g, g = Grown(res[r], n)
    PROVE  /\ Owned(x, r) /\ x \in Records /\ g \in Records /\ Held(x) \in Seq(Bytes)
           /\ g.kind = x.kind /\ g.code # "none" /\ g.buf = x.buf /\ g.gz = x.gz /\ g.wire = x.wire
           /\ g.early = x.early /\ g.end = "serving" /\ g.kind # "upgrade" /\ g.written <= BodyUnits[r]
           /\ g.gz # "none" <=> g.mode = "gzip"
           /\ g.mode = "undecided" => x.mode = "undecided" /\ g.head = x.head
           /\ ~g.early => HeadInv(g) /\ BodyInv(g, r, Held(x) \o Body(r, n))
<1>1. Owned(x, r) /\ Sound(x, r) /\ x \in Records /\ x.end = "serving" /\ ZipInv
    BY DEF RespInv, Owned, Serving
<1>2. n \in Nat \ {0} /\ n \in Nat
    BY ResponsesAssumption
<1>3. /\ g \in Records
      /\ /\ g.kind = x.kind /\ g.buf = x.buf /\ g.gz = x.gz /\ g.wire = x.wire
         /\ g.written = x.written + n /\ g.flushed = x.flushed
         /\ g.early = x.early /\ g.end = x.end /\ g.code # "none"
      /\ x.code # "none" => g.code = x.code /\ g.mode = x.mode /\ g.head = x.head
      /\ x.code = "none" =>
            /\ x.kind # "opaque" => g.mode = x.mode /\ g.head = x.head
            /\ x.kind = "opaque" => g.mode = "passthrough"
    BY <1>1, <1>2, GrownIs
<1>4. Held(x) \in Seq(Bytes)
    BY <1>1, HeldTyped
<1>5. g.gz # "none" <=> g.mode = "gzip"
    BY <1>1, <1>3 DEF Owned
<1>6. g.mode = "undecided" => x.mode = "undecided" /\ g.head = x.head
    BY <1>3
<1>7. ASSUME ~g.early PROVE HeadInv(g) /\ BodyInv(g, r, Held(x) \o Body(r, n))
    <2>1. HeadInv(x) /\ BodyInv(x, r, Held(x))
        BY <1>1, <1>3, <1>7 DEF Sound
    <2>2. ASSUME x.written = 0 PROVE x.buf = <<>>
        <3>1. CASE x.gz = "none"
            <4>1. PICK held \in Seq(Bytes) : held = x.buf /\ held = Held(x)
                BY <1>4, <3>1 DEF Held
            <4>2. Len(held) = 0
                <5>1. PICK l, h \in Nat : l = Len(x.wire) /\ h = Len(held)
                    BY <1>1 DEF Records
                <5>2. l + h = x.written
                    BY <2>1, <4>1, <5>1 DEF BodyInv
                <5>3. l + h = 0
                    BY <2>2, <5>2
                <5> QED BY <5>1, <5>3
            <4> QED BY <4>1, <4>2
        <3>2. CASE x.gz # "none"
            BY <1>1, <2>1, <3>2 DEF Owned, HeadInv
        <3> QED BY <3>1, <3>2
    <2>3. HeadInv(g) /\ g.wire = x.wire /\ (g.head.gzip = x.head.gzip \/ g.wire = <<>>)
        BY <1>1, <1>2, <2>1, <2>2, GrownHead
    <2>4. BodyInv(g, r, Held(x) \o Body(r, n))
        BY <1>1, <1>2, <1>3, <1>4, <2>1, <2>3, HeldGrows
    <2> QED BY <2>3, <2>4
<1> QED BY <1>1, <1>3, <1>4, <1>5, <1>6, <1>7

LEMMA JoinsNothing == \A b \in Seq(Bytes) : <<>> \o b = b
OBVIOUS

LEMMA WritesPlainStep ==
    ASSUME RespInv, NEW r \in Exchanges, NEW n \in 1 .. BodyUnits[r], Serving(r),
           res[r].written + n <= BodyUnits[r], res[r].kind # "upgrade", WritesPlain(r, n)
    PROVE  RespInv'
<1>1. PICK x, g : x = res[r] /\ g = Grown(res[r], n)
    OBVIOUS
<1>2. /\ Owned(x, r) /\ x \in Records /\ g \in Records /\ Held(x) \in Seq(Bytes)
      /\ g.kind = x.kind /\ g.code # "none" /\ g.buf = x.buf /\ g.gz = x.gz /\ g.wire = x.wire
      /\ g.early = x.early /\ g.end = "serving" /\ g.kind # "upgrade" /\ g.written <= BodyUnits[r]
      /\ g.gz # "none" <=> g.mode = "gzip"
      /\ ~g.early => HeadInv(g) /\ BodyInv(g, r, Held(x) \o Body(r, n))
    BY <1>1, WriteGrows
<1>3. n \in Nat
    BY ResponsesAssumption
<1>4. PICK b \in Seq(Bytes) : b = Body(r, n)
    BY <1>1, <1>2, <1>3, BodyIs
<1>5. PICK y : y = Emit(g, b, FALSE)
    OBVIOUS
<1>6. g.mode = "passthrough" /\ res' = [res EXCEPT ![r] = y] /\ UNCHANGED <<pool, zip>>
    BY <1>1, <1>4, <1>5 DEF WritesPlain
<1>7. y \in Records /\ SameBut(y, g) /\ y.head = Commit(g, "implied").head
    <2>1. FALSE \in BOOLEAN
        OBVIOUS
    <2> QED BY <1>2, <1>5, <2>1, EmitIs
<1>8. y.gz = "none" /\ x.gz = "none"
    BY <1>2, <1>6, <1>7 DEF SameBut
<1>9. Owned(y, r)
    BY <1>2, <1>6, <1>7, <1>8 DEF SameBut, Owned
<1>10. ASSUME ~y.early PROVE HeadInv(y) /\ BodyInv(y, r, Held(y))
    <2>1. HeadInv(g) /\ g.buf = <<>> /\ g.head.status # "none" /\ g.head.gzip = FALSE
        BY <1>2, <1>6, <1>7, <1>10 DEF HeadInv, SameBut
    <2>2. Held(x) \o Body(r, n) = b
        BY <1>2, <1>4, <1>8, <2>1, JoinsNothing DEF Held
    <2>3. BodyInv(g, r, b)
        BY <1>2, <1>7, <1>10, <2>2 DEF SameBut
    <2>4. y.head = g.head
        <3>1. "implied" \in Statuses
            BY DEF Statuses
        <3> QED BY <1>2, <1>7, <2>1, <3>1, CommitIs
    <2>5. (\A i \in DOMAIN y.wire : y.wire[i] = <<<<r, i>>, y.head.gzip>>) /\ Len(y.wire) = Len(g.wire) + Len(b)
        <3>1. PICK no \in BOOLEAN : no = FALSE /\ y = Emit(g, b, no) /\ no = g.head.gzip
            BY <1>5, <2>1
        <3>2. /\ \A i \in DOMAIN g.wire : g.wire[i] = <<<<r, i>>, no>>
              /\ \A i \in DOMAIN b : b[i] = <<r, Len(g.wire) + i>>
            BY <2>3, <3>1 DEF BodyInv
        <3>3. (\A i \in DOMAIN y.wire : y.wire[i] = <<<<r, i>>, no>>) /\ Len(y.wire) = Len(g.wire) + Len(b)
            BY <1>2, <3>1, <3>2, EmitOrdered
        <3> QED BY <2>4, <3>1, <3>3
    <2>6. y.buf = <<>> /\ y.flushed = g.flushed /\ y.written = g.written
        BY <1>7, <2>1 DEF SameBut
    <2>7. Len(y.wire) = y.written /\ Len(y.wire) >= y.flushed
        <3>1. PICK l, m, f \in Nat : l = Len(g.wire) /\ m = Len(b) /\ f = g.flushed
            BY <1>2, <1>4 DEF Records
        <3>2. l + m = g.written /\ l >= f
            BY <2>3, <3>1 DEF BodyInv
        <3>3. l + m >= f
            BY <3>2
        <3> QED BY <2>5, <2>6, <3>1, <3>2, <3>3
    <2>8. BodyInv(y, r, Held(y))
        <3>1. Held(y) = <<>>
            BY <1>8, <2>6 DEF Held
        <3>2. Len(y.wire) + 0 = y.written
            BY <1>7, <2>7 DEF Records
        <3> QED BY <2>5, <2>7, <3>1, <3>2, NoBytes DEF BodyInv
    <2>9. HeadInv(y)
        BY <1>6, <1>7, <2>1, <2>4 DEF HeadInv, SameBut
    <2> QED BY <2>8, <2>9
<1>11. Sound(y, r)
    BY <1>2, <1>7, <1>10 DEF Sound, SameBut
<1> QED BY <1>1, <1>6, <1>7, <1>8, <1>9, <1>11, RecordStep

LEMMA WritesHeldStep ==
    ASSUME RespInv, NEW r \in Exchanges, NEW n \in 1 .. BodyUnits[r], Serving(r),
           res[r].written + n <= BodyUnits[r], res[r].kind # "upgrade", WritesHeld(r, n)
    PROVE  RespInv'
<1>1. PICK x, g : x = res[r] /\ g = Grown(res[r], n)
    OBVIOUS
<1>2. /\ Owned(x, r) /\ x \in Records /\ g \in Records /\ Held(x) \in Seq(Bytes)
      /\ g.kind = x.kind /\ g.code # "none" /\ g.buf = x.buf /\ g.gz = x.gz /\ g.wire = x.wire
      /\ g.early = x.early /\ g.end = "serving" /\ g.kind # "upgrade" /\ g.written <= BodyUnits[r]
      /\ g.gz # "none" <=> g.mode = "gzip"
      /\ ~g.early => HeadInv(g) /\ BodyInv(g, r, Held(x) \o Body(r, n))
    BY <1>1, WriteGrows
<1>3. n \in Nat
    BY ResponsesAssumption
<1>4. PICK b \in Seq(Bytes) : b = Body(r, n)
    BY <1>1, <1>2, <1>3, BodyIs
<1>5. PICK held : held = x.buf \o b
    OBVIOUS
<1>6. held \in Seq(Bytes)
    <2>1. x.buf \in Seq(Bytes)
        BY <1>2 DEF Records
    <2> QED BY <1>5, <2>1, JoinedIs
<1>7. PICK y : y = [g EXCEPT !.buf = held]
    OBVIOUS
<1>8. g.mode = "undecided" /\ res' = [res EXCEPT ![r] = y] /\ UNCHANGED <<pool, zip>>
    BY <1>1, <1>2, <1>4, <1>5, <1>7 DEF WritesHeld
<1>9. /\ y \in Records /\ y.kind = g.kind /\ y.mode = "undecided" /\ y.code = g.code /\ y.buf = held
      /\ y.gz = g.gz /\ y.head = g.head /\ y.wire = g.wire /\ y.asked = g.asked /\ y.written = g.written
      /\ y.flushed = g.flushed /\ y.early = g.early /\ y.end = "serving"
    BY <1>2, <1>6, <1>7, <1>8 DEF Records
<1>10. y.gz = "none" /\ x.gz = "none"
    BY <1>2, <1>8, <1>9
<1>11. Owned(y, r)
    BY <1>2, <1>9, <1>10 DEF Owned
<1>12. Sound(y, r)
    <2>1. ASSUME ~y.early PROVE HeadInv(y) /\ BodyInv(y, r, Held(y))
        <3>1. HeadInv(g) /\ BodyInv(g, r, Held(x) \o Body(r, n))
            BY <1>2, <1>9, <2>1
        <3>2. Held(x) \o Body(r, n) = held /\ Held(y) = held
            BY <1>4, <1>5, <1>9, <1>10 DEF Held
        <3>3. HeadInv(y)
            BY <1>8, <1>9, <3>1 DEF HeadInv
        <3>4. BodyInv(y, r, held)
            BY <1>9, <3>1, <3>2 DEF BodyInv
        <3> QED BY <3>2, <3>3, <3>4
    <2> QED BY <1>9, <2>1 DEF Sound
<1> QED BY <1>1, <1>8, <1>10, <1>11, <1>12, RecordStep

LEMMA WritesMoreStep ==
    ASSUME RespInv, NEW r \in Exchanges, NEW n \in 1 .. BodyUnits[r], Serving(r),
           res[r].written + n <= BodyUnits[r], res[r].kind # "upgrade", WritesMore(r, n)
    PROVE  RespInv'
<1>1. PICK x, g : x = res[r] /\ g = Grown(res[r], n)
    OBVIOUS
<1>2. /\ Owned(x, r) /\ x \in Records /\ g \in Records /\ Held(x) \in Seq(Bytes)
      /\ g.kind = x.kind /\ g.code # "none" /\ g.buf = x.buf /\ g.gz = x.gz /\ g.wire = x.wire
      /\ g.early = x.early /\ g.end = "serving" /\ g.kind # "upgrade" /\ g.written <= BodyUnits[r]
      /\ g.gz # "none" <=> g.mode = "gzip"
      /\ ~g.early => HeadInv(g) /\ BodyInv(g, r, Held(x) \o Body(r, n))
    BY <1>1, WriteGrows
<1>3. n \in Nat
    BY ResponsesAssumption
<1>4. PICK b \in Seq(Bytes) : b = Body(r, n)
    BY <1>1, <1>2, <1>3, BodyIs
<1>5. /\ g.mode = "gzip" /\ res' = [res EXCEPT ![r] = g] /\ UNCHANGED pool
      /\ zip' = [zip EXCEPT ![g.gz].holds = @ \o b]
    BY <1>1, <1>4 DEF WritesMore
<1>6. PICK z \in Compressors : z = g.gz /\ z = x.gz
    BY <1>2, <1>5 DEF Records
<1>7. PICK held \in Seq(Bytes) : held = Held(x) /\ held = zip[z].holds
    BY <1>2, <1>6, ResponsesAssumption DEF Held
<1>8. PICK hs \in Seq(Bytes) : hs = held \o b
    BY JoinedIs
<1>9. zip' = [zip EXCEPT ![z].holds = hs]
    <2>1. zip \in [Compressors -> [to : Exchanges \cup {"none"}, holds : Seq(Bytes)]]
        BY DEF RespInv, ZipInv
    <2>2. zip' = [zip EXCEPT ![z] = [@ EXCEPT !.holds = zip[z].holds \o b]]
        BY <1>5, <1>6, <2>1
    <2> QED BY <1>7, <1>8, <2>1, <2>2
<1>10. ~g.early => HeadInv(g) /\ BodyInv(g, r, hs)
    BY <1>2, <1>4, <1>7, <1>8
<1>11. /\ res[r].gz = z /\ res' = [res EXCEPT ![r] = g] /\ zip' = [zip EXCEPT ![z].holds = hs] /\ UNCHANGED pool
       /\ g.gz = z /\ g.mode = "gzip" /\ g.code # "none" /\ g.end = "serving" /\ g.kind = res[r].kind
       /\ g.written <= BodyUnits[r]
    BY <1>1, <1>2, <1>5, <1>6, <1>9
<1>12. g \in Records
    BY <1>2
<1> QED BY <1>10, <1>11, <1>12, HoldsStep

LEMMA WritesFirstStep ==
    ASSUME RespInv, NEW r \in Exchanges, NEW n \in 1 .. BodyUnits[r], Serving(r),
           res[r].written + n <= BodyUnits[r], res[r].kind # "upgrade", WritesFirst(r, n)
    PROVE  RespInv'
<1>1. PICK x, g : x = res[r] /\ g = Grown(res[r], n)
    OBVIOUS
<1>2. /\ Owned(x, r) /\ x \in Records /\ g \in Records /\ Held(x) \in Seq(Bytes)
      /\ g.kind = x.kind /\ g.code # "none" /\ g.buf = x.buf /\ g.gz = x.gz /\ g.wire = x.wire
      /\ g.early = x.early /\ g.end = "serving" /\ g.kind # "upgrade" /\ g.written <= BodyUnits[r]
      /\ g.gz # "none" <=> g.mode = "gzip"
      /\ ~g.early => HeadInv(g) /\ BodyInv(g, r, Held(x) \o Body(r, n))
    BY <1>1, WriteGrows
<1>3. n \in Nat
    BY ResponsesAssumption
<1>4. PICK b \in Seq(Bytes) : b = Body(r, n)
    BY <1>1, <1>2, <1>3, BodyIs
<1>5. PICK hs : hs = x.buf \o b
    OBVIOUS
<1>6. hs \in Seq(Bytes)
    <2>1. x.buf \in Seq(Bytes)
        BY <1>2 DEF Records
    <2> QED BY <1>5, <2>1, JoinedIs
<1>7. PICK z \in pool :
         /\ g.mode = "undecided"
         /\ res' = [res EXCEPT ![r] =
              Commit([g EXCEPT !.mode = "gzip", !.length = FALSE, !.gz = z, !.buf = <<>>], g.code)]
         /\ pool' = pool \ {z}
         /\ zip' = [zip EXCEPT ![z] = [to |-> r, holds |-> hs]]
    BY <1>1, <1>2, <1>4, <1>5 DEF WritesFirst
<1>8. /\ zip \in [Compressors -> [to : Exchanges \cup {"none"}, holds : Seq(Bytes)]] /\ pool \subseteq Compressors
      /\ DOMAIN res = Exchanges
      /\ \A q \in Compressors : /\ zip[q].to = "none" => zip[q].holds = <<>>
                                /\ zip[q].to # "none" => res[zip[q].to].gz = q
                                /\ q \in pool => zip[q].to = "none"
    BY DEF RespInv, ZipInv
<1>9. z \in Compressors /\ z # "none" /\ r # "none" /\ zip[z].to = "none"
    BY <1>7, <1>8, ResponsesAssumption
<1>10. PICK p : p = [g EXCEPT !.mode = "gzip", !.length = FALSE, !.gz = z, !.buf = <<>>]
    OBVIOUS
<1>11. /\ p \in Records /\ p.kind = g.kind /\ p.mode = "gzip" /\ p.code = g.code /\ p.buf = <<>> /\ p.gz = z
       /\ p.length = FALSE /\ p.head = g.head /\ p.wire = g.wire /\ p.asked = g.asked /\ p.written = g.written
       /\ p.flushed = g.flushed /\ p.early = g.early /\ p.end = "serving"
    BY <1>2, <1>9, <1>10, NoBytes DEF Records
<1>12. g.code \in Statuses
    BY <1>2 DEF Records, Statuses
<1>13. PICK y : y = Commit(p, g.code)
    OBVIOUS
<1>14. /\ y \in Records /\ SameBut(y, p) /\ y.wire = p.wire
       /\ p.head.status = "none" /\ g.code # "early" =>
             y.head.status = g.code /\ y.head.length = p.length /\ y.head.gzip = TRUE
    BY <1>11, <1>12, <1>13, CommitIs
<1>15. /\ zip' \in [Compressors -> [to : Exchanges \cup {"none"}, holds : Seq(Bytes)]]
       /\ zip'[z].to = r /\ zip'[z].holds = hs /\ \A q \in Compressors : q # z => zip'[q] = zip[q]
    BY <1>6, <1>7, <1>8, <1>9
<1>16. res' = [res EXCEPT ![r] = y] /\ res'[r] = y /\ \A q \in Exchanges : q # r => res'[q] = res[q]
    BY <1>7, <1>8, <1>10, <1>13
<1>17. x.gz = "none"
    BY <1>2, <1>7
<1>18. ASSUME NEW q \in Compressors, zip[q].to \notin {r, "none"} PROVE zip'[q] = zip[q]
    BY <1>9, <1>15, <1>18
<1>19. ZipInv'
    <2>1. ASSUME NEW q \in Compressors
          PROVE  /\ zip'[q].to = "none" => zip'[q].holds = <<>>
                 /\ zip'[q].to # "none" => res'[zip'[q].to].gz = q
                 /\ q \in pool' => zip'[q].to = "none"
        <3>1. CASE q = z
            BY <1>7, <1>9, <1>11, <1>14, <1>15, <1>16, <3>1 DEF SameBut
        <3>2. CASE q # z
            <4>1. zip'[q] = zip[q] /\ (q \in pool' => q \in pool)
                BY <1>7, <1>15, <3>2
            <4>2. q # "none"
                BY ResponsesAssumption
            <4>3. zip[q].to \in Exchanges \cup {"none"} /\ zip[q].to # r
                BY <1>1, <1>8, <1>9, <1>17, <4>2
            <4>4. zip[q].to # "none" => res'[zip[q].to] = res[zip[q].to]
                BY <1>16, <4>3
            <4> QED BY <1>8, <4>1, <4>4
        <3> QED BY <3>1, <3>2
    <2>2. pool' \subseteq Compressors
        BY <1>7, <1>8
    <2> QED BY <1>15, <2>1, <2>2 DEF ZipInv
<1>20. Owned(y, r)'
    BY <1>2, <1>9, <1>11, <1>14, <1>15 DEF Owned, SameBut
<1>21. Held(y)' = hs
    BY <1>9, <1>11, <1>14, <1>15 DEF Held, SameBut
<1>22. ASSUME ~y.early PROVE HeadInv(y) /\ BodyInv(y, r, hs)
    <2>1. HeadInv(g) /\ BodyInv(g, r, Held(x) \o Body(r, n))
        BY <1>2, <1>11, <1>14, <1>22 DEF SameBut
    <2>2. Held(x) \o Body(r, n) = hs
        BY <1>4, <1>5, <1>17 DEF Held
    <2>3. g.head.status = "none" /\ g.wire = <<>> /\ g.code = g.asked /\ g.code # "early" /\ g.kind \in {"text", "sized"}
        <3>1. g.head.status = "none" /\ g.wire = <<>> /\ g.code = g.asked /\ g.kind # "opaque"
            BY <1>2, <1>7, <2>1 DEF HeadInv, NoHead
        <3> QED BY <1>2, <3>1 DEF Records, ResponseKinds
    <2>4. /\ y.head.status = g.code /\ y.head.length = FALSE /\ y.head.gzip = TRUE
          /\ y.kind = g.kind /\ y.mode = "gzip" /\ y.code = g.code /\ y.buf = <<>> /\ y.wire = <<>>
          /\ y.asked = g.asked /\ y.written = g.written /\ y.flushed = g.flushed
        BY <1>11, <1>14, <2>3 DEF SameBut
    <2>5. HeadInv(y)
        BY <1>2, <1>7, <2>1, <2>3, <2>4 DEF HeadInv
    <2>6. BodyInv(y, r, hs)
        BY <1>2, <2>1, <2>2, <2>3, <2>4, NoBytes DEF BodyInv
    <2> QED BY <2>5, <2>6
<1>23. y.end = "serving"
    BY <1>11, <1>14 DEF SameBut
<1>24. (~y.early => HeadInv(y) /\ BodyInv(y, r, hs))'
    BY <1>22 DEF HeadInv, BodyInv
<1>25. Sound(y, r)'
    BY <1>21, <1>22, <1>23 DEF Sound
<1> QED BY <1>16, <1>18, <1>19, <1>20, <1>25, StepOf

\* All that is held back is sent, in the encoding the head names.
LEMMA SendsAll ==
    \A r \in Exchanges, x \in Records, held \in Seq(Bytes), g \in BOOLEAN : \A y \in {Emit(x, held, g)} :
       /\ y \in Records
       /\ y.kind = x.kind /\ y.mode = x.mode /\ y.code = x.code /\ y.buf = x.buf /\ y.gz = x.gz /\ y.asked = x.asked
       /\ y.written = x.written /\ y.early = x.early /\ y.end = x.end /\ y.flushed = x.flushed
       /\ /\ HeadInv(x) /\ x.mode # "undecided" /\ g = x.head.gzip /\ x.flushed <= x.written
          /\ \A i \in DOMAIN x.wire : x.wire[i] = <<<<r, i>>, g>>
          /\ \A i \in DOMAIN held : held[i] = <<r, Len(x.wire) + i>>
          /\ Len(x.wire) + Len(held) = x.written
          => HeadInv(y) /\ BodyInv(y, r, <<>>)
<1> TAKE r \in Exchanges, x \in Records, held \in Seq(Bytes), g \in BOOLEAN
<1> TAKE y \in {Emit(x, held, g)}
<1>1. y = Emit(x, held, g)
    OBVIOUS
<1>2. y \in Records /\ SameBut(y, x) /\ y.head = Commit(x, "implied").head
    BY <1>1, EmitIs
<1>3. /\ y.kind = x.kind /\ y.mode = x.mode /\ y.code = x.code /\ y.buf = x.buf /\ y.gz = x.gz /\ y.asked = x.asked
      /\ y.written = x.written /\ y.early = x.early /\ y.end = x.end /\ y.flushed = x.flushed
    BY <1>2 DEF SameBut
<1>4. ASSUME /\ HeadInv(x) /\ x.mode # "undecided" /\ g = x.head.gzip /\ x.flushed <= x.written
             /\ \A i \in DOMAIN x.wire : x.wire[i] = <<<<r, i>>, g>>
             /\ \A i \in DOMAIN held : held[i] = <<r, Len(x.wire) + i>>
             /\ Len(x.wire) + Len(held) = x.written
      PROVE  HeadInv(y) /\ BodyInv(y, r, <<>>)
    <2>1. y.head = x.head
        <3>1. "implied" \in Statuses
            BY DEF Statuses
        <3>2. x.head.status # "none"
            BY <1>4 DEF HeadInv
        <3> QED BY <1>2, <3>1, <3>2, CommitIs
    <2>2. HeadInv(y)
        BY <1>3, <1>4, <2>1 DEF HeadInv
    <2>3. (\A i \in DOMAIN y.wire : y.wire[i] = <<<<r, i>>, g>>) /\ Len(y.wire) = Len(x.wire) + Len(held)
        BY <1>1, <1>4, EmitOrdered
    <2>4. PICK d, f \in Nat : d = y.written /\ f = y.flushed
        BY <1>2 DEF Records
    <2>5. Len(y.wire) = d /\ f <= d
        BY <1>3, <1>4, <2>3, <2>4
    <2>6. d + 0 = d /\ d >= f
        BY <2>5
    <2> QED BY <1>4, <2>1, <2>2, <2>3, <2>4, <2>5, <2>6, NoBytes DEF BodyInv
<1> QED BY <1>2, <1>3, <1>4

\* A compressor sends what it holds: a full block, or a flush of it.
LEMMA SendsHeld ==
    ASSUME RespInv, NEW r \in Exchanges, NEW z \in Compressors, NEW f \in Nat,
           res[r].gz = z, ~res[r].early => f <= res[r].written,
           res' = [res EXCEPT ![r] = Emit([res[r] EXCEPT !.flushed = f], zip[z].holds, TRUE)],
           zip' = [zip EXCEPT ![z].holds = <<>>], UNCHANGED pool
    PROVE  RespInv'
<1>1. Owned(res[r], r) /\ Sound(res[r], r) /\ res[r] \in Records /\ z # "none" /\ ZipInv
    BY ResponsesAssumption DEF RespInv, Owned
<1>2. PICK x : x = [res[r] EXCEPT !.flushed = f]
    OBVIOUS
<1>3. /\ x \in Records
      /\ x.kind = res[r].kind /\ x.mode = res[r].mode /\ x.code = res[r].code /\ x.buf = res[r].buf
      /\ x.gz = res[r].gz /\ x.length = res[r].length /\ x.asked = res[r].asked /\ x.head = res[r].head
      /\ x.written = res[r].written /\ x.early = res[r].early /\ x.end = res[r].end
      /\ x.wire = res[r].wire /\ x.flushed = f
    BY <1>1, <1>2 DEF Records
<1>4. res[r].mode = "gzip" /\ res[r].end = "serving" /\ res[r].code # "none" /\ res[r].written <= BodyUnits[r]
    BY <1>1 DEF Owned
<1>5. PICK held \in Seq(Bytes) : held = zip[z].holds
    BY <1>1 DEF ZipInv
<1>6. PICK g \in BOOLEAN : g = TRUE
    OBVIOUS
<1>7. PICK y : y = Emit(x, held, g)
    OBVIOUS
<1>8. res' = [res EXCEPT ![r] = y]
    BY <1>2, <1>5, <1>6, <1>7
<1>9. y \in {Emit(x, held, g)} /\ x \in Records
    BY <1>3, <1>7
<1>10. /\ y \in Records
       /\ y.kind = x.kind /\ y.mode = x.mode /\ y.code = x.code /\ y.gz = x.gz
       /\ y.written = x.written /\ y.early = x.early /\ y.end = x.end
    BY <1>9, SendsAll
<1>11. ASSUME ~y.early PROVE HeadInv(y) /\ BodyInv(y, r, <<>>)
    <2>1. HeadInv(res[r]) /\ BodyInv(res[r], r, held)
        BY <1>1, <1>3, <1>4, <1>5, <1>10, <1>11 DEF Sound, Held
    <2>2. HeadInv(x) /\ x.mode # "undecided" /\ g = x.head.gzip /\ x.flushed <= x.written
        BY <1>3, <1>4, <1>6, <1>10, <1>11, <2>1 DEF HeadInv
    <2>3. /\ \A i \in DOMAIN x.wire : x.wire[i] = <<<<r, i>>, g>>
          /\ \A i \in DOMAIN held : held[i] = <<r, Len(x.wire) + i>>
          /\ Len(x.wire) + Len(held) = x.written
        BY <1>3, <2>1, <2>2 DEF BodyInv
    <2> QED BY <1>9, <2>2, <2>3, SendsAll
<1>12. /\ y.gz = z /\ y.mode = "gzip" /\ y.code # "none" /\ y.end = "serving" /\ y.kind = res[r].kind
       /\ y.written <= BodyUnits[r]
    BY <1>3, <1>4, <1>10
<1>13. <<>> \in Seq(Bytes) /\ y \in Records
    BY <1>10, NoBytes
<1> QED BY <1>8, <1>11, <1>12, <1>13, HoldsStep

LEMMA CompressesStep == ASSUME RespInv, NEW z \in Compressors, Compresses(z) PROVE RespInv'
<1>1. PICK r \in Exchanges : r = zip[z].to /\ res[r].gz = z
    BY ResponsesAssumption DEF RespInv, ZipInv, Compresses
<1>2. Owned(res[r], r) /\ Sound(res[r], r) /\ DOMAIN res = Exchanges
    BY DEF RespInv
<1>3. PICK x \in Records : x = res[r] /\ z # "none" /\ x.gz = z
    BY <1>1, <1>2, ResponsesAssumption DEF Owned
<1>6. PICK f \in Nat : f = x.flushed
    BY DEF Records
<1>4. x = [res[r] EXCEPT !.flushed = f]
    BY <1>3, <1>6 DEF Records
<1>5. /\ res' = [res EXCEPT ![r] = Emit([res[r] EXCEPT !.flushed = f], zip[z].holds, TRUE)]
      /\ zip' = [zip EXCEPT ![z].holds = <<>>] /\ UNCHANGED pool
    BY <1>1, <1>2, <1>3, <1>4 DEF Compresses
<1>7. ASSUME ~x.early PROVE f <= x.written
    <2>1. x.end = "serving" /\ Held(x) = zip[z].holds
        BY <1>2, <1>3 DEF Owned, Held
    <2>2. BodyInv(x, r, Held(x))
        BY <1>2, <1>3, <1>7, <2>1 DEF Sound
    <2>3. PICK l, m \in Nat : l = Len(x.wire) /\ m = Len(Held(x))
        <3>1. Held(x) \in Seq(Bytes)
            BY <1>3, HeldTyped DEF RespInv
        <3> QED BY <3>1 DEF Records
    <2>4. l + m = x.written /\ l >= f
        BY <1>6, <2>2, <2>3 DEF BodyInv
    <2>5. f <= l + m
        BY <2>4
    <2> QED BY <2>4, <2>5
<1>8. res[r].gz = z /\ (~res[r].early => f <= res[r].written)
    BY <1>1, <1>3, <1>7
<1> QED BY <1>5, <1>8, SendsHeld

\* What a response that holds nothing back owes the client at its end.
EndsWell(x, r) ==
    /\ \A i \in DOMAIN x.wire : x.wire[i] = <<<<r, i>>, x.head.gzip>>
    /\ x.head.gzip => ~x.head.length /\ x.kind \in {"text", "sized"}
    /\ x.head.status \in {"none", x.asked}
    /\ x.head.status = "none" => x.asked = "implied" /\ x.mode # "gzip" /\ x.wire = <<>>
    /\ Len(x.wire) = x.written /\ Len(x.wire) >= x.flushed

LEMMA EndsOf ==
    ASSUME NEW r \in Exchanges, NEW x \in Records, HeadInv(x), BodyInv(x, r, <<>>), x.mode # "undecided"
    PROVE  EndsWell(x, r)
<1>1. PICK l \in Nat : l = Len(x.wire)
    BY DEF Records
<1>2. Len(x.wire) = x.written
    <2>1. l + 0 = x.written
        BY <1>1, NoBytes DEF BodyInv
    <2>2. l = x.written
        BY <2>1
    <2> QED BY <1>1, <2>2
<1>3. x.head.gzip => x.mode = "gzip"
    BY DEF HeadInv, Records
<1>4. \A i \in DOMAIN x.wire : x.wire[i] = <<<<r, i>>, x.head.gzip>>
    BY DEF BodyInv
<1>5. Len(x.wire) >= x.flushed
    BY DEF BodyInv
<1>6. /\ x.head.gzip => ~x.head.length /\ x.kind \in {"text", "sized"}
      /\ x.head.status \in {"none", x.asked} /\ x.head.status # "none"
    BY <1>3 DEF HeadInv
<1> QED BY <1>2, <1>4, <1>5, <1>6 DEF EndsWell

LEMMA HeldPlain ==
    ASSUME NEW r \in Exchanges, NEW x \in Records, HeadInv(x), BodyInv(x, r, x.buf), x.mode = "undecided"
    PROVE  /\ x.head = NoHead /\ x.wire = <<>> /\ (\A i \in DOMAIN x.buf : x.buf[i] = <<r, i>>)
           /\ Len(x.buf) = x.written
<1>1. x.head = NoHead /\ x.wire = <<>>
    BY DEF HeadInv
<1>2. Len(x.wire) = 0
    BY <1>1, NoBytes
<1>3. PICK l \in Nat : l = Len(x.buf) /\ DOMAIN x.buf = 1 .. l
    BY DEF Records
<1>4. ASSUME NEW i \in DOMAIN x.buf PROVE x.buf[i] = <<r, i>>
    <2>1. x.buf[i] = <<r, Len(x.wire) + i>>
        BY DEF BodyInv
    <2>2. Len(x.wire) + i = i
        BY <1>2, <1>3
    <2> QED BY <2>1, <2>2
<1>5. Len(x.buf) = x.written
    <2>1. 0 + l = x.written
        BY <1>2, <1>3 DEF BodyInv
    <2>2. l = x.written
        BY <2>1
    <2> QED BY <1>3, <2>2
<1> QED BY <1>1, <1>4, <1>5

\* What was held back goes out uncompressed.
LEMMA PlainNowSound ==
    ASSUME NEW r \in Exchanges, NEW x \in Records, NEW h \in Records, HeadInv(h), BodyInv(h, r, h.buf),
           h.mode = "undecided", h.code # "none", NEW f \in Nat, x = [h EXCEPT !.flushed = f], f <= h.written,
           NEW y, y = PlainNow(x)
    PROVE  HeadInv(y) /\ BodyInv(y, r, <<>>)
<1>1. /\ x.kind = h.kind /\ x.mode = h.mode /\ x.code = h.code /\ x.buf = h.buf /\ x.gz = h.gz
      /\ x.asked = h.asked /\ x.head = h.head /\ x.written = h.written /\ x.wire = h.wire /\ x.flushed = f
    BY DEF Records
<1>2. /\ h.head = NoHead /\ h.wire = <<>> /\ (\A i \in DOMAIN h.buf : h.buf[i] = <<r, i>>)
      /\ Len(h.buf) = h.written
    BY HeldPlain
<1>3. h.code = h.asked /\ h.code # "early"
    BY DEF HeadInv, Records
<1>4. /\ y \in Records
      /\ y.kind = x.kind /\ y.mode = "passthrough" /\ y.code = x.code /\ y.buf = <<>> /\ y.gz = x.gz
      /\ y.asked = x.asked /\ y.written = x.written /\ y.flushed = x.flushed /\ y.early = x.early
      /\ y.head.status = x.code /\ y.head.gzip = FALSE /\ Len(y.wire) = Len(x.buf)
      /\ \A i \in DOMAIN y.wire : y.wire[i] = <<<<r, i>>, FALSE>>
    <2>1. x.code # "none" /\ x.code # "early" /\ x.head = NoHead /\ x.wire = <<>>
        BY <1>1, <1>2, <1>3
    <2>2. \A i \in DOMAIN x.buf : x.buf[i] = <<r, i>>
        BY <1>1, <1>2
    <2>3. y \in {PlainNow(x)}
        OBVIOUS
    <2> QED BY <2>1, <2>2, <2>3, PlainNowIs
<1>5. HeadInv(y)
    BY <1>1, <1>3, <1>4 DEF HeadInv
<1>6. PICK d \in Nat : d = y.written
    BY <1>4 DEF Records
<1>7. Len(y.wire) = d /\ f <= d
    BY <1>1, <1>2, <1>4, <1>6
<1>8. d + 0 = d /\ d >= f
    BY <1>7
<1>9. \A i \in DOMAIN y.wire : y.wire[i] = <<<<r, i>>, y.head.gzip>>
    BY <1>4
<1> QED BY <1>1, <1>4, <1>5, <1>6, <1>7, <1>8, <1>9, NoBytes DEF BodyInv

LEMMA FlushesStep == ASSUME RespInv, NEW r \in Exchanges, Flushes(r) PROVE RespInv'
<1>1. PICK h \in Records : h = res[r] /\ Owned(h, r) /\ Sound(h, r) /\ h.end = "serving" /\ h.code # "none"
    BY DEF RespInv, Owned, Flushes, Serving
<1>2. DOMAIN res = Exchanges
    BY DEF RespInv
<1>3. PICK f \in Nat : f = h.written /\ f <= h.written
    BY DEF Records
<1>4. PICK x : x = [h EXCEPT !.flushed = f]
    OBVIOUS
<1>5. /\ x \in Records /\ x.kind = h.kind /\ x.mode = h.mode /\ x.code = h.code /\ x.buf = h.buf /\ x.gz = h.gz
      /\ x.asked = h.asked /\ x.head = h.head /\ x.written = h.written /\ x.wire = h.wire /\ x.flushed = f
      /\ x.early = h.early /\ x.end = h.end
    BY <1>4 DEF Records
<1>6. CASE x.mode = "gzip"
    <2>1. PICK z \in Compressors : z = h.gz
        BY <1>1, <1>5, <1>6 DEF Owned, Records
    <2>2. x = [res[r] EXCEPT !.flushed = f] /\ x = [res[r] EXCEPT !.flushed = res[r].written]
        BY <1>1, <1>3, <1>4
    <2>3. /\ res' = [res EXCEPT ![r] = Emit([res[r] EXCEPT !.flushed = f], zip[z].holds, TRUE)]
          /\ zip' = [zip EXCEPT ![z].holds = <<>>] /\ UNCHANGED pool
        BY <1>5, <1>6, <2>1, <2>2 DEF Flushes
    <2>4. res[r].gz = z /\ (~res[r].early => f <= res[r].written)
        BY <1>1, <1>3, <2>1
    <2> QED BY <2>3, <2>4, SendsHeld
<1>7. CASE x.mode # "gzip"
    <2>1. PICK p : p = IF x.mode = "undecided" THEN PlainNow(x) ELSE x
        OBVIOUS
    <2>2. PICK y : y = Commit(p, "implied")
        OBVIOUS
    <2>3. res' = [res EXCEPT ![r] = y] /\ UNCHANGED <<pool, zip>>
        <3>1. x = [res[r] EXCEPT !.flushed = res[r].written]
            BY <1>1, <1>3, <1>4
        <3> QED BY <1>7, <2>1, <2>2, <3>1 DEF Flushes
    <2>4. /\ p \in Records /\ p.kind = x.kind /\ p.mode = "passthrough" /\ p.code = x.code /\ p.gz = x.gz
          /\ p.written = x.written /\ p.early = x.early /\ p.end = x.end
        <3>1. CASE x.mode = "undecided"
            <4>1. p \in {PlainNow(x)} /\ x \in Records /\ x.code # "none"
                BY <1>1, <1>5, <2>1, <3>1
            <4> QED BY <4>1, PlainNowIs
        <3>2. CASE x.mode # "undecided"
            BY <1>5, <1>7, <2>1, <3>2 DEF Records
        <3> QED BY <3>1, <3>2
    <2>5. y \in Records /\ SameBut(y, p) /\ y.wire = p.wire /\ (p.head.status # "none" => y.head = p.head)
        <3>1. "implied" \in Statuses
            BY DEF Statuses
        <3> QED BY <2>2, <2>4, <3>1, CommitIs
    <2>6. h.gz = "none" /\ y.gz = "none"
        BY <1>1, <1>5, <1>7, <2>4, <2>5 DEF Owned, SameBut
    <2>7. Owned(y, r)
        BY <1>1, <1>5, <2>4, <2>5, <2>6 DEF Owned, SameBut
    <2>8. ASSUME ~y.early PROVE HeadInv(y) /\ BodyInv(y, r, Held(y))
        <3>1. HeadInv(h) /\ BodyInv(h, r, h.buf)
            BY <1>1, <1>5, <2>4, <2>5, <2>6, <2>8 DEF Sound, Held, SameBut
        <3>2. HeadInv(p) /\ BodyInv(p, r, <<>>)
            <4>1. CASE x.mode = "undecided"
                BY <1>1, <1>3, <1>4, <1>5, <2>1, <3>1, <4>1, PlainNowSound
            <4>2. CASE x.mode # "undecided"
                <5>1. p = x /\ h.mode = "passthrough" /\ h.buf = <<>>
                    BY <1>5, <1>7, <2>1, <3>1, <4>2 DEF HeadInv, Records
                <5>2. HeadInv(p)
                    BY <1>5, <3>1, <5>1 DEF HeadInv
                <5>3. /\ \A i \in DOMAIN x.wire : x.wire[i] = <<<<r, i>>, x.head.gzip>>
                      /\ Len(x.wire) + 0 = x.written
                    BY <1>5, <3>1, <5>1, NoBytes DEF BodyInv
                <5>4. Len(x.wire) >= x.flushed
                    <6>1. PICK l \in Nat : l = Len(x.wire)
                        BY <1>5 DEF Records
                    <6>2. l + 0 = f
                        BY <1>3, <1>5, <5>3, <6>1
                    <6>3. l >= f
                        BY <6>2
                    <6> QED BY <1>5, <6>1, <6>3
                <5> QED BY <5>1, <5>2, <5>3, <5>4, NoBytes DEF BodyInv
            <4> QED BY <4>1, <4>2
        <3>3. y.head = p.head /\ p.buf = <<>>
            BY <2>4, <2>5, <3>2 DEF HeadInv
        <3>4. /\ y.kind = p.kind /\ y.mode = p.mode /\ y.code = p.code /\ y.buf = p.buf /\ y.asked = p.asked
              /\ y.written = p.written /\ y.flushed = p.flushed /\ y.wire = p.wire
            BY <2>5 DEF SameBut
        <3>5. HeadInv(y)
            BY <3>2, <3>3, <3>4 DEF HeadInv
        <3>6. BodyInv(y, r, <<>>)
            BY <3>2, <3>3, <3>4 DEF BodyInv
        <3>7. Held(y) = <<>>
            BY <2>6, <3>3, <3>4 DEF Held
        <3> QED BY <3>5, <3>6, <3>7
    <2>9. Sound(y, r)
        BY <1>1, <1>5, <2>4, <2>5, <2>8 DEF Sound, SameBut
    <2>10. y.gz = res[r].gz
        BY <1>1, <2>6
    <2> QED BY <2>3, <2>7, <2>9, <2>10, RecordStep
<1> QED BY <1>6, <1>7

\* finish leaves nothing held back, and no compressor in use.
LEMMA FinishedIs ==
    ASSUME RespInv, NEW r \in Exchanges, NEW h \in Records, h = res[r], h.end = "serving", NEW y, y = Finished(h)
    PROVE  /\ y \in Records /\ y.kind = h.kind /\ y.gz = "none" /\ y.written = h.written /\ y.early = h.early
           /\ y.written <= BodyUnits[r] /\ (y.kind = "upgrade" => y.mode # "gzip")
           /\ ~y.early => EndsWell(y, r)
<1>1. Owned(h, r) /\ Sound(h, r) /\ ZipInv
    BY DEF RespInv
<1>2. ~h.early => HeadInv(h) /\ BodyInv(h, r, Held(h))
    BY <1>1 DEF Sound
<1>3. CASE h.mode = "gzip"
    <2>1. PICK z \in Compressors : z = h.gz /\ z # "none" /\ h.kind # "upgrade"
        BY <1>1, <1>3, ResponsesAssumption DEF Owned, Records
    <2>2. PICK held \in Seq(Bytes) : held = zip[z].holds /\ held = Held(h)
        BY <1>1, <2>1 DEF ZipInv, Held
    <2>3. PICK g \in BOOLEAN : g = TRUE
        OBVIOUS
    <2>4. PICK x : x = [h EXCEPT !.gz = "none"]
        OBVIOUS
    <2>5. /\ x \in Records /\ x.kind = h.kind /\ x.mode = h.mode /\ x.code = h.code /\ x.buf = h.buf /\ x.gz = "none"
          /\ x.asked = h.asked /\ x.head = h.head /\ x.written = h.written /\ x.wire = h.wire
          /\ x.flushed = h.flushed /\ x.early = h.early /\ x.end = h.end
        BY <2>4 DEF Records
    <2>6. y \in {Emit(x, held, g)} /\ x \in Records
        BY <1>3, <2>1, <2>2, <2>3, <2>4, <2>5 DEF Finished
    <2>7. /\ y \in Records /\ y.kind = x.kind /\ y.mode = x.mode /\ y.gz = x.gz
          /\ y.written = x.written /\ y.early = x.early
        BY <2>6, SendsAll
    <2>8. ASSUME ~y.early PROVE EndsWell(y, r)
        <3>1. HeadInv(h) /\ BodyInv(h, r, held)
            BY <1>2, <2>2, <2>5, <2>7, <2>8
        <3>2. HeadInv(x) /\ x.mode # "undecided" /\ g = x.head.gzip
            BY <1>3, <2>3, <2>5, <3>1 DEF HeadInv
        <3>3. /\ \A i \in DOMAIN x.wire : x.wire[i] = <<<<r, i>>, g>>
              /\ \A i \in DOMAIN held : held[i] = <<r, Len(x.wire) + i>>
              /\ Len(x.wire) + Len(held) = x.written
            BY <2>5, <3>1, <3>2 DEF BodyInv
        <3>4. x.flushed <= x.written
            <4>1. PICK l, m, f \in Nat : l = Len(x.wire) /\ m = Len(held) /\ f = x.flushed
                BY <2>5 DEF Records
            <4>2. l >= f /\ l + m = x.written
                BY <2>5, <3>1, <3>3, <4>1 DEF BodyInv
            <4>3. f <= l + m
                BY <4>2
            <4> QED BY <4>1, <4>2, <4>3
        <3>5. HeadInv(y) /\ BodyInv(y, r, <<>>)
            BY <2>6, <3>2, <3>3, <3>4, SendsAll
        <3>6. y \in Records /\ y.mode # "undecided"
            BY <2>7, <3>2
        <3> QED BY <3>5, <3>6, EndsOf
    <2> QED BY <1>1, <2>1, <2>5, <2>7, <2>8 DEF Owned
<1>4. CASE h.mode = "undecided" /\ h.code # "none"
    <2>1. y \in {PlainNow(h)} /\ h.gz = "none"
        BY <1>1, <1>4 DEF Finished, Owned
    <2>2. /\ y \in Records /\ y.kind = h.kind /\ y.mode = "passthrough" /\ y.gz = h.gz
          /\ y.written = h.written /\ y.early = h.early
        BY <1>4, <2>1, PlainNowIs
    <2>3. ASSUME ~y.early PROVE EndsWell(y, r)
        <3>1. HeadInv(h) /\ BodyInv(h, r, h.buf)
            BY <1>2, <2>1, <2>2, <2>3 DEF Held
        <3>2. Len(h.buf) = h.written /\ h.wire = <<>>
            BY <1>4, <3>1, HeldPlain
        <3>3. PICK f \in Nat : f = h.flushed
            BY DEF Records
        <3>4. h = [h EXCEPT !.flushed = f]
            BY <3>3 DEF Records
        <3>5. f <= h.written
            <4>1. Len(h.wire) >= f /\ Len(h.wire) = 0 /\ h.written \in Nat
                BY <3>1, <3>2, <3>3, NoBytes DEF BodyInv, Records
            <4> QED BY <4>1
        <3>6. y = PlainNow(h)
            BY <2>1
        <3>7. HeadInv(y) /\ BodyInv(y, r, <<>>)
            BY <1>4, <3>1, <3>4, <3>5, <3>6, PlainNowSound
        <3> QED BY <2>2, <3>7, EndsOf
    <2> QED BY <1>1, <2>1, <2>2, <2>3 DEF Owned
<1>5. CASE h.mode = "undecided" /\ h.code = "none"
    <2>1. y = h /\ h.gz = "none"
        BY <1>1, <1>5 DEF Finished, Owned
    <2>2. ASSUME ~h.early PROVE EndsWell(h, r)
        <3>1. HeadInv(h) /\ BodyInv(h, r, h.buf)
            BY <1>2, <2>1, <2>2 DEF Held
        <3>2. /\ h.head.status = "none" /\ h.head.gzip = FALSE /\ h.wire = <<>> /\ h.written = 0
              /\ h.asked = "implied"
            BY <1>5, <3>1 DEF HeadInv, NoHead
        <3>3. Len(h.wire) = h.written /\ Len(h.wire) >= h.flushed
            BY <3>1, <3>2, NoBytes DEF BodyInv
        <3> QED BY <1>5, <3>2, <3>3, NoBytes DEF EndsWell
    <2> QED BY <1>1, <1>5, <2>1, <2>2 DEF Owned
<1>6. CASE h.mode = "passthrough"
    <2>1. y = h /\ h.gz = "none"
        BY <1>1, <1>6 DEF Finished, Owned
    <2>2. ASSUME ~h.early PROVE EndsWell(h, r)
        <3>1. HeadInv(h) /\ BodyInv(h, r, h.buf)
            BY <1>2, <2>1, <2>2 DEF Held
        <3>2. BodyInv(h, r, <<>>)
            BY <1>6, <3>1 DEF HeadInv
        <3>3. h.mode # "undecided"
            BY <1>6
        <3>4. HeadInv(h)
            BY <3>1
        <3> QED BY <3>2, <3>3, <3>4, EndsOf
    <2> QED BY <1>1, <1>6, <2>1, <2>2 DEF Owned
<1> QED BY <1>3, <1>4, <1>5, <1>6 DEF Records

LEMMA HandlerReturnsStep == ASSUME RespInv, NEW r \in Exchanges, HandlerReturns(r) PROVE RespInv'
<1>1. PICK h \in Records : h = res[r] /\ h.end = "serving" /\ DOMAIN res = Exchanges
    BY DEF RespInv, Owned, HandlerReturns, Serving
<1>2. PICK f : f = Finished(h)
    OBVIOUS
<1>3. /\ f \in Records /\ f.kind = h.kind /\ f.gz = "none" /\ f.written = h.written /\ f.early = h.early
      /\ f.written <= BodyUnits[r] /\ (f.kind = "upgrade" => f.mode # "gzip")
      /\ ~f.early => EndsWell(f, r)
    BY <1>1, <1>2, FinishedIs
<1>4. PICK c : c = Commit(f, "implied")
    OBVIOUS
<1>5. /\ c \in Records /\ SameBut(c, f) /\ c.wire = f.wire
      /\ f.head.status # "none" => c.head = f.head
      /\ f.head.status = "none" => /\ c.head.status = "implied"
                                   /\ f.mode # "gzip" => c.head.gzip = FALSE
    <2>1. "implied" \in Statuses
        BY DEF Statuses
    <2> QED BY <1>3, <1>4, <2>1, CommitIs
<1>6. PICK y : y = [c EXCEPT !.end = "returned"]
    OBVIOUS
<1>7. /\ y \in Records /\ y.kind = c.kind /\ y.mode = c.mode /\ y.gz = c.gz /\ y.head = c.head /\ y.wire = c.wire
      /\ y.asked = c.asked /\ y.written = c.written /\ y.flushed = c.flushed /\ y.early = c.early
      /\ y.end = "returned"
    BY <1>5, <1>6 DEF Records
<1>8. res' = [res EXCEPT ![r] = y] /\ Pools(res[r].gz)
    BY <1>1, <1>2, <1>4, <1>6 DEF HandlerReturns
<1>9. ASSUME ~y.early PROVE AllSent(y, r)
    <2>1. EndsWell(f, r)
        BY <1>3, <1>5, <1>7, <1>9 DEF SameBut
    <2>2. CASE f.head.status # "none"
        BY <1>5, <1>7, <2>1, <2>2 DEF EndsWell, AllSent, SameBut
    <2>3. CASE f.head.status = "none"
        <3>1. f.asked = "implied" /\ f.wire = <<>> /\ y.head.status = "implied" /\ y.head.gzip = FALSE
            BY <1>5, <1>7, <2>1, <2>3 DEF EndsWell
        <3>2. y.asked = "implied" /\ y.wire = <<>> /\ y.kind = f.kind /\ y.written = f.written /\ y.flushed = f.flushed
            BY <1>5, <1>7, <3>1 DEF SameBut
        <3>3. Len(y.wire) = y.written /\ Len(y.wire) >= y.flushed
            BY <2>1, <3>1, <3>2 DEF EndsWell
        <3> QED BY <1>7, <3>1, <3>2, <3>3, NoBytes DEF AllSent
    <2> QED BY <2>2, <2>3
<1>10. Sound(y, r)
    BY <1>7, <1>9 DEF Sound
<1>11. /\ y.gz = "none" /\ y.end # "serving" /\ (y.kind = "upgrade" => y.mode # "gzip")
       /\ y.written <= BodyUnits[r]
    BY <1>3, <1>5, <1>7 DEF SameBut
<1>12. y \in Records
    BY <1>7
<1> QED BY <1>8, <1>10, <1>11, <1>12, PoolsStep

LEMMA PanicsStep == ASSUME RespInv, NEW r \in Exchanges, Panics(r) PROVE RespInv'
<1>1. PICK h \in Records : h = res[r] /\ h.end = "serving" /\ DOMAIN res = Exchanges
    BY DEF RespInv, Owned, Panics, Serving
<1>2. PICK f : f = Finished(h)
    OBVIOUS
<1>3. /\ f \in Records /\ f.kind = h.kind /\ f.gz = "none" /\ f.written = h.written
      /\ f.written <= BodyUnits[r] /\ (f.kind = "upgrade" => f.mode # "gzip")
    BY <1>1, <1>2, FinishedIs
<1>4. PICK c : c = Commit(f, "failed")
    OBVIOUS
<1>5. c \in Records /\ SameBut(c, f)
    <2>1. "failed" \in Statuses
        BY DEF Statuses
    <2> QED BY <1>3, <1>4, <2>1, CommitIs
<1>6. PICK g \in BOOLEAN, b \in Seq(Bytes) : g = FALSE /\ b = <<"error text">>
    <2>1. <<"error text">> \in Seq(Bytes)
        BY DEF Bytes
    <2> QED BY <2>1
<1>7. PICK e : e = Emit(c, b, g)
    OBVIOUS
<1>8. e \in Records /\ SameBut(e, c)
    BY <1>5, <1>7, EmitIs
<1>9. PICK y : y = [e EXCEPT !.end = "panicked"]
    OBVIOUS
<1>10. /\ y \in Records /\ y.kind = e.kind /\ y.mode = e.mode /\ y.gz = e.gz
       /\ y.written = e.written /\ y.end = "panicked"
    BY <1>8, <1>9 DEF Records
<1>11. res' = [res EXCEPT ![r] = y] /\ Pools(res[r].gz)
    BY <1>1, <1>2, <1>4, <1>6, <1>7, <1>9 DEF Panics
<1>12. /\ y.gz = "none" /\ y.end # "serving" /\ (y.kind = "upgrade" => y.mode # "gzip")
       /\ y.written <= BodyUnits[r]
    BY <1>3, <1>5, <1>8, <1>10 DEF SameBut
<1>13. Sound(y, r) /\ y \in Records
    BY <1>10 DEF Sound
<1> QED BY <1>11, <1>12, <1>13, PoolsStep

LEMMA WritesStep == ASSUME RespInv, NEW r \in Exchanges, NEW n \in 1 .. BodyUnits[r], Writes(r, n) PROVE RespInv'
<1>1. Serving(r) /\ res[r].written + n <= BodyUnits[r] /\ res[r].kind # "upgrade"
    BY DEF Writes
<1>2. WritesPlain(r, n) \/ WritesHeld(r, n) \/ WritesFirst(r, n) \/ WritesMore(r, n)
    BY DEF Writes
<1> QED BY <1>1, <1>2, WritesPlainStep, WritesHeldStep, WritesFirstStep, WritesMoreStep

LEMMA ResponsesInvariance == RespInv /\ [ResponsesNext]_respVars => RespInv'
<1> SUFFICES ASSUME RespInv, [ResponsesNext]_respVars PROVE RespInv'
    OBVIOUS
<1>1. ASSUME NEW r \in Exchanges, SetsStatus(r) PROVE RespInv'
    BY <1>1, SetsStatusStep
<1>2. ASSUME NEW r \in Exchanges, Informs(r) PROVE RespInv'
    BY <1>2, InformsStep
<1>3. ASSUME NEW r \in Exchanges, Flushes(r) PROVE RespInv'
    BY <1>3, FlushesStep
<1>4. ASSUME NEW r \in Exchanges, Hijacks(r) PROVE RespInv'
    BY <1>4, HijacksStep
<1>5. ASSUME NEW r \in Exchanges, HandlerReturns(r) PROVE RespInv'
    BY <1>5, HandlerReturnsStep
<1>6. ASSUME NEW r \in Exchanges, Panics(r) PROVE RespInv'
    BY <1>6, PanicsStep
<1>7. ASSUME NEW r \in Exchanges, NEW n \in 1 .. BodyUnits[r], Writes(r, n) PROVE RespInv'
    BY <1>7, WritesStep
<1>8. ASSUME NEW z \in Compressors, Compresses(z) PROVE RespInv'
    BY <1>8, CompressesStep
<1>9. CASE UNCHANGED respVars
    BY <1>9 DEF respVars, RespInv, ZipInv, Owned, Sound, Held
<1> QED BY <1>1, <1>2, <1>3, <1>4, <1>5, <1>6, <1>7, <1>8, <1>9 DEF ResponsesNext

LEMMA SoundIsWire ==
    ASSUME NEW r \in Exchanges, NEW x \in Records, Sound(x, r), ~x.early, x.end # "panicked"
    PROVE  /\ \A i \in DOMAIN x.wire : x.wire[i] = <<<<r, i>>, x.head.gzip>>
           /\ x.head.gzip => ~x.head.length /\ x.kind \in {"text", "sized"}
           /\ x.head.status \in {"none", x.asked} /\ Len(x.wire) >= x.flushed
           /\ x.end = "returned" => Len(x.wire) = x.written /\ x.head.status = x.asked
           /\ x.end = "hijacked" => x.head.status = IF x.asked = "switching" THEN x.asked ELSE "none"
<1>1. CASE x.end = "serving"
    <2>1. HeadInv(x) /\ BodyInv(x, r, Held(x))
        BY <1>1 DEF Sound
    <2>2. x.head.gzip => x.mode = "gzip"
        BY <2>1 DEF HeadInv, NoHead, Records
    <2>3. \A i \in DOMAIN x.wire : x.wire[i] = <<<<r, i>>, x.head.gzip>>
        BY <2>1 DEF BodyInv
    <2>4. Len(x.wire) >= x.flushed
        BY <2>1 DEF BodyInv
    <2>5. (x.head.gzip => ~x.head.length /\ x.kind \in {"text", "sized"}) /\ x.head.status \in {"none", x.asked}
        BY <2>1, <2>2 DEF HeadInv
    <2> QED BY <1>1, <2>3, <2>4, <2>5
<1>2. CASE x.end # "serving"
    <2>1. AllSent(x, r)
        BY <1>2 DEF Sound
    <2> QED BY <2>1 DEF AllSent
<1> QED BY <1>1, <1>2

\* Clients get the handler's own status and its bytes in order, in the encoding the
\* headers name, whoever else is answered: see WireIsTheResponse.
THEOREM WireIsSound == ResponsesSpec => []WireIsTheResponse
<1>1. RespInv => WireIsTheResponse
    <2> SUFFICES ASSUME RespInv PROVE WireIsTheResponse
        OBVIOUS
    <2>1. ASSUME NEW r \in Exchanges, ~res[r].early, res[r].end # "panicked"
          PROVE  /\ \A i \in DOMAIN res[r].wire : res[r].wire[i] = <<<<r, i>>, res[r].head.gzip>>
                 /\ res[r].head.gzip => ~res[r].head.length /\ res[r].kind \in {"text", "sized"}
                 /\ res[r].head.status \in {"none", res[r].asked} /\ Len(res[r].wire) >= res[r].flushed
                 /\ res[r].end = "returned" =>
                       Len(res[r].wire) = res[r].written /\ res[r].head.status = res[r].asked
                 /\ res[r].end = "hijacked" =>
                       res[r].head.status = IF res[r].asked = "switching" THEN res[r].asked ELSE "none"
        <3>1. PICK x \in Records : x = res[r] /\ Sound(x, r) /\ ~x.early /\ x.end # "panicked"
            BY <2>1 DEF RespInv, Owned
        <3> QED BY <3>1, SoundIsWire
    <2> QED BY <2>1 DEF WireIsTheResponse
<1> QED BY <1>1, ResponsesStart, ResponsesInvariance, PTL DEF ResponsesSpec

\* Every record keeps to its type, and no more is written than the body has.
THEOREM ResponsesTyped == ResponsesSpec => []ResponsesTypeOK
<1>1. RespInv => ResponsesTypeOK
    <2> SUFFICES ASSUME RespInv PROVE ResponsesTypeOK
        OBVIOUS
    <2>1. pool \subseteq Compressors /\ \A z \in Compressors : zip[z].to \in Exchanges \cup {"none"}
        BY DEF RespInv, ZipInv
    <2>2. ASSUME NEW r \in Exchanges
          PROVE  /\ res[r].mode \in {"undecided", "passthrough", "gzip"} /\ res[r].written \in 0 .. BodyUnits[r]
                 /\ res[r].gz \in Compressors \cup {"none"}
                 /\ res[r].code \in {"none", "early", "own", "implied", "switching"}
        BY ResponsesAssumption DEF RespInv, Owned, Records
    <2> QED BY <2>1, <2>2 DEF ResponsesTypeOK
<1> QED BY <1>1, ResponsesStart, ResponsesInvariance, PTL DEF ResponsesSpec

===============================================================================
