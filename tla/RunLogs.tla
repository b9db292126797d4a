------------------------------- MODULE RunLogs -------------------------------
(***************************************************************************)
(* Following a preview's run log (`preview deploy logs --run --follow`):   *)
(* numbered log files, one per start, on the node that runs the process;   *)
(* the slices a node returns for a cursor; the control node's choice of    *)
(* the node to ask; and the follower's polling loop.                       *)
(*                                                                         *)
(* A file is represented by its length.  Attempts are numbered per node,   *)
(* by the files in the directory, so two nodes use the same numbers.       *)
(***************************************************************************)
EXTENDS Naturals, Sequences

CONSTANTS
    LogNodes,   \* the workers; one of them is a server that supervises itself
    TailBytes,  \* how much of a file a fresh view shows (runLogTailBytes)
    ChunkBytes, \* how much one answer holds (runLogChunkBytes)
    LogStarts,  \* bound: starts of the process
    LogBytes,   \* bound: length of a file
    LogFaults   \* bound: nodes lost and log directories collected

ASSUME RunLogsAssumption ==
    /\ {LogStarts, LogBytes, LogFaults} \subseteq Nat /\ {TailBytes, ChunkBytes} \subseteq Nat \ {0}
    /\ "none" \notin LogNodes

VARIABLES
    files,    \* per node: the length of each attempt's file
    host,     \* the node that runs the process, or last ran it, or "none"
    running,  \* the process runs
    lost,     \* nodes whose heartbeats have stopped
    report,   \* the cached report: the node that holds the key, or "none"
    cursor,   \* the follower's last chunk: attempt and offset
    printed,  \* the last slice it printed, with "process restarted" before it or not
    inOrder,  \* every slice it printed continued the one before
    follower, \* "off", "follows", "left"
    trouble   \* faults and moves to another node so far

logVars == <<files, host, running, lost, report, cursor, printed, inOrder, follower, trouble>>

Nothing == [attempt |-> 0, from |-> 0, to |-> 0, restarted |-> FALSE]

LogInit ==
    /\ files = [n \in LogNodes |-> <<>>] /\ host = "none" /\ running = FALSE
    /\ lost = {} /\ report = "none" /\ follower = "off"
    /\ printed = Nothing /\ inOrder = TRUE
    /\ cursor = [attempt |-> 0, offset |-> 0] /\ trouble = [faults |-> 0, moves |-> 0]

Started == [n \in LogNodes |-> Len(files[n])]

-------------------------------------------------------------------------------
(* The process and its files *)

\* openRunLog names the file by the number of entries in the directory.
OpensLog(n) ==
    /\ ~running /\ n \notin lost /\ \A k \in LogNodes : Started[k] < LogStarts
    /\ running' = TRUE /\ host' = n
    /\ files' = [files EXCEPT ![n] = Append(@, 0)]
    /\ trouble' = [trouble EXCEPT !.moves = IF host \in {"none", n} THEN @ ELSE 1]
    /\ UNCHANGED <<lost, report, cursor, printed, inOrder, follower>>

Logs ==
    /\ running /\ files[host][Len(files[host])] < LogBytes
    /\ files' = [files EXCEPT ![host][Len(files[host])] = @ + 1]
    /\ UNCHANGED <<host, running, lost, report, cursor, printed, inOrder, follower, trouble>>

ProcessEnds ==
    /\ running /\ running' = FALSE
    /\ UNCHANGED <<files, host, lost, report, cursor, printed, inOrder, follower, trouble>>

\* The hash is collected, with its logs; a later deploy may use it again.
LogsRemoved ==
    /\ ~running /\ host # "none" /\ trouble.faults < LogFaults
    /\ files' = [files EXCEPT ![host] = <<>>]
    /\ trouble' = [trouble EXCEPT !.faults = @ + 1]
    /\ UNCHANGED <<host, running, lost, report, cursor, printed, inOrder, follower>>

NodeLost(n) ==
    /\ n \notin lost /\ trouble.faults < LogFaults /\ lost' = lost \cup {n}
    /\ trouble' = [trouble EXCEPT !.faults = @ + 1]
    /\ UNCHANGED <<files, host, running, report, cursor, printed, inOrder, follower>>

NodeBack(n) ==
    /\ n \in lost /\ lost' = lost \ {n}
    /\ UNCHANGED <<files, host, running, report, cursor, printed, inOrder, follower, trouble>>

-------------------------------------------------------------------------------
(* The slices *)

\* A bug to catch: the offset returned is the file's length, whatever was sent.
SliceToTheEnd(n, c) ==
    LET attempt == Len(files[n])
        size == files[n][attempt]
        from == IF c.attempt = attempt /\ c.offset <= size THEN c.offset
                ELSE IF size > TailBytes THEN size - TailBytes ELSE 0
        sent == IF size - from > ChunkBytes THEN ChunkBytes ELSE size - from
    IN IF attempt = 0 THEN [attempt |-> 0, offset |-> 0, from |-> 0, to |-> 0]
       ELSE [attempt |-> attempt, offset |-> size, from |-> from, to |-> from + sent]

\* Manager.RunLog: from the cursor if it is of the latest attempt's file, from
\* the tail otherwise; at most one chunk.
Slice(n, c) ==
    LET attempt == Len(files[n])
        size == files[n][attempt]
        from == IF c.attempt = attempt /\ c.offset <= size THEN c.offset
                ELSE IF size > TailBytes THEN size - TailBytes ELSE 0
        sent == IF size - from > ChunkBytes THEN ChunkBytes ELSE size - from
    IN IF attempt = 0 THEN [attempt |-> 0, offset |-> 0, from |-> 0, to |-> 0]
       ELSE [attempt |-> attempt, offset |-> from + sent, from |-> from, to |-> from + sent]

\* A node reports the keys of its process table, running or crashed.
HeldBy(held) == { n \in LogNodes : held /\ n = host }

\* A report older than its TTL is taken anew, from the nodes that answer: it
\* names the one that holds the key.
NodesReport(held) ==
    /\ report' = IF HeldBy(held) \ lost = {} THEN "none" ELSE host
    /\ held \/ ~running
    /\ UNCHANGED <<files, host, running, lost, cursor, printed, inOrder, follower, trouble>>

\* Registry.RunLog: the node of the report, else the newest attempt anywhere;
\* of two equal ones the first in the list.
Asked ==
    IF report # "none" THEN {report}
    ELSE { n \in LogNodes \ lost :
             Started[n] > 0 /\ \A k \in LogNodes \ lost : Started[k] <= Started[n] }

ChunkAnswers(c) ==
    IF Asked = {} THEN { [attempt |-> 0, offset |-> 0, from |-> 0, to |-> 0] }
    ELSE { Slice(n, c) : n \in Asked }

-------------------------------------------------------------------------------
(* printRunLog *)

\* What is printed of a file continues where it stopped.  A step to another file
\* is announced, never goes back, and begins where the file or its tail begins,
\* size being the file's length.
Continues(next, this, size) ==
    IF next.attempt = this.attempt
    THEN next.from = this.to /\ ~next.restarted
    ELSE /\ next.attempt > this.attempt /\ (this.attempt # 0 => next.restarted)
         /\ next.from = 0 \/ next.from + TailBytes = size

Undisturbed == trouble = [faults |-> 0, moves |-> 0]

\* What the next request carries of the last chunk.
Echo(chunk) == [attempt |-> chunk.attempt, offset |-> chunk.offset]

\* The first chunk, and then the next one every second.  A restart is announced
\* unless the last chunk was of no attempt at all.  What was printed is
\* remembered until something happens to a node or its logs.
Follows ==
    /\ follower \in {"off", "follows"} /\ follower' = "follows" /\ report \notin lost
    /\ \E chunk \in ChunkAnswers(cursor) :
          LET restarted == cursor.attempt # 0 /\ chunk.attempt # cursor.attempt
              next == [attempt |-> chunk.attempt, from |-> chunk.from, to |-> chunk.to,
                       restarted |-> restarted]
              prints == chunk.from < chunk.to \/ restarted
              size == IF host = "none" THEN 0 ELSE files[host][chunk.attempt]
          IN /\ cursor' = Echo(chunk)
             /\ printed' = IF ~Undisturbed THEN Nothing ELSE IF prints THEN next ELSE printed
             /\ inOrder' = (Undisturbed => inOrder /\ (prints => Continues(next, printed, size)))
    /\ UNCHANGED <<files, host, running, lost, report, trouble>>

\* The node of the report does not answer: the command ends with an error.
FollowFails ==
    /\ follower = "follows" /\ report \in lost /\ follower' = "left"
    /\ UNCHANGED <<files, host, running, lost, report, cursor, printed, inOrder, trouble>>

LogNext ==
    \/ Logs \/ ProcessEnds \/ LogsRemoved \/ Follows \/ FollowFails
    \/ \E held \in BOOLEAN : NodesReport(held)
    \/ \E n \in LogNodes : OpensLog(n) \/ NodeLost(n) \/ NodeBack(n)

LogSpec == LogInit /\ [][LogNext]_logVars

-------------------------------------------------------------------------------
LogTypeOK ==
    /\ files \in [LogNodes -> Seq(0 .. LogBytes)] /\ lost \subseteq LogNodes
    /\ host \in LogNodes \cup {"none"} /\ report \in LogNodes \cup {"none"}
    /\ running \in BOOLEAN /\ follower \in {"off", "follows", "left"}
    /\ cursor.attempt \in 0 .. LogStarts /\ cursor.offset \in 0 .. LogBytes
    /\ trouble.faults \in 0 .. LogFaults /\ trouble.moves \in 0 .. 1

\* "Echoing attempt and offset back yields only new bytes, and a restart (new
\* attempt) resets the view to a tail of the new file" (view.go:42): within one
\* attempt nothing is printed twice and, after the first slice, nothing is left
\* out; the next attempt is announced and begins at its start or its tail, never
\* at the old one's offset.  What the follower had not read of the old attempt by
\* then is lost to it: an answer is of the latest attempt only.  It needs the
\* process to stay on its node and its logs to stay there too: an attempt number
\* says nothing of the node, or of the directory, that it counts in.
FollowedInOrder == Undisturbed => inOrder
=============================================================================
