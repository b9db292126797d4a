----------------------------- MODULE ExecSession -----------------------------
(***************************************************************************)
(* One `preview exec` session: the command line, the servers that copy its *)
(* frames, the supervisor that bridges them to the engine's attach stream, *)
(* and the command in the container.                                       *)
(*                                                                         *)
(* Link 1 is the command line's connection; every further link is one more *)
(* hop, to a worker.  The near end of a link is the one towards the        *)
(* command line.  Closing an end throws away what it has not read; the     *)
(* other end still reads what was sent before.  Of the frames, pings and   *)
(* resizes are left out: receivers drop them, or pass them to the engine.  *)
(***************************************************************************)
EXTENDS Naturals, Sequences

CONSTANTS
    Hops,      \* links between the command line and the supervisor: 2 in a fleet,
               \* 1 where the server supervises the previews itself
    Inputs,    \* bound: chunks of stdin
    Outputs    \* bound: chunks of output

ASSUME ExecSessionAssumption == Hops \in 1 .. 2 /\ Inputs \in Nat /\ Outputs \in Nat

VARIABLES
    upward, downward,  \* frames under way on each link
    near, far,         \* links whose ends are open
    hop,       \* the servers that copy: "idle", "dial", "copies", "done"
    cli,       \* "off", "runs", "left", or how it ended: "ok", "fail", "error"
    typed, shown,      \* chunks sent and displayed
    bridge,    \* Manager.Exec: "idle", "setup", "streams", "inspects", "done"
    pump,      \* its input pump: "off", "reads", "writes"
    attach,    \* the engine's stream: our end, the engine's end, what it holds
    command    \* the program in the container

execVars == <<upward, downward, near, far, hop, cli, typed, shown, bridge, pump, attach, command>>
links == <<upward, downward, near, far>>
terminal == <<cli, typed, shown>>
container == <<bridge, pump, attach, command>>

Links == 1 .. Hops
Copiers == 1 .. Hops - 1

ExecInit ==
    /\ upward = [l \in Links |-> <<>>] /\ downward = upward
    /\ near = {} /\ far = {} /\ hop = [n \in Copiers |-> "idle"]
    /\ cli = "off" /\ typed = 0 /\ shown = 0 /\ bridge = "idle"
    /\ pump = "off" /\ attach = [ours |-> FALSE, engine |-> FALSE, in |-> 0, out |-> 0]
    /\ command = [pc |-> "none", made |-> 0, code |-> 0, cut |-> FALSE]

\* The request is upgraded, and goes to the supervisor or to a worker.
Connects ==
    /\ cli = "off" /\ cli' = "runs" /\ near' = {1} /\ far' = {1}
    /\ hop' = [n \in Copiers |-> "dial"]
    /\ bridge' = IF Hops = 1 THEN "setup" ELSE "idle"
    /\ UNCHANGED <<upward, downward, typed, shown, pump, attach, command>>

-------------------------------------------------------------------------------
(* Links *)

\* A write fails once either end is closed; the frame is gone then.
CanSendDown(l) == l \in near /\ l \in far
SendDown(l, f) == IF CanSendDown(l) THEN [downward EXCEPT ![l] = Append(@, f)] ELSE downward
CanSendUp(l) == l \in near /\ l \in far
UpEOF(l) == l \notin far \/ (upward[l] = <<>> /\ l \notin near)
DownEOF(l) == l \notin near \/ (downward[l] = <<>> /\ l \notin far)

-------------------------------------------------------------------------------
(* runExecSession *)

\* Stdin as frames; the last one says that it is closed.
Types(f) ==
    /\ cli = "runs" /\ typed < Inputs /\ typed' = IF f = "eof" THEN Inputs ELSE typed + 1
    /\ CanSendUp(1) /\ upward' = [upward EXCEPT ![1] = Append(@, f)]
    /\ UNCHANGED <<downward, near, far, hop, cli, shown, container>>

CliCloses(as) == cli' = as /\ near' = near \ {1}

Leaves ==
    /\ cli = "runs" /\ CliCloses("left") /\ downward' = [downward EXCEPT ![1] = <<>>]
    /\ UNCHANGED <<upward, far, hop, typed, shown, container>>

Ended(f) == CASE f = "zero" -> "ok" [] f = "nonzero" -> "fail" [] f = "error" -> "error"

CliReads ==
    /\ cli = "runs" /\ downward[1] # <<>>
    /\ downward' = [downward EXCEPT ![1] = Tail(@)]
    /\ LET f == Head(downward[1]) IN
       IF f = "out" THEN shown' = shown + 1 /\ UNCHANGED <<cli, near>>
                    ELSE CliCloses(Ended(f)) /\ UNCHANGED shown
    /\ UNCHANGED <<upward, far, hop, typed, container>>

\* A connection breaks, and what it carried is lost.
Breaks(l) ==
    /\ CanSendUp(l) /\ far' = far \ {l}
    /\ upward' = [upward EXCEPT ![l] = <<>>] /\ downward' = [downward EXCEPT ![l] = <<>>]
    /\ UNCHANGED <<near, hop, terminal, container>>

\* "exec session ended unexpectedly".
CliCutOff ==
    /\ cli = "runs" /\ DownEOF(1) /\ CliCloses("error")
    /\ UNCHANGED <<upward, downward, far, hop, typed, shown, container>>

-------------------------------------------------------------------------------
(* A server that forwards the session: Client.Exec between two connections *)

\* The handshake with the next server.
Dials(n) ==
    /\ hop[n] = "dial" /\ hop' = [hop EXCEPT ![n] = "copies"]
    /\ near' = near \cup {n + 1} /\ far' = far \cup {n + 1} /\ bridge' = "setup"
    /\ UNCHANGED <<upward, downward, terminal, pump, attach, command>>

\* The handler answers an error with a frame, and closes the connection.
HandlerFails(l) == downward' = SendDown(l, "error") /\ far' = far \ {l}

DialFails(n) ==
    /\ hop[n] = "dial" /\ hop' = [hop EXCEPT ![n] = "done"] /\ HandlerFails(n)
    /\ UNCHANGED <<upward, near, terminal, container>>

CopiesUp(n) ==
    /\ hop[n] = "copies" /\ n \in far /\ upward[n] # <<>> /\ CanSendUp(n + 1)
    /\ upward' = [upward EXCEPT ![n] = Tail(@), ![n + 1] = Append(@, Head(upward[n]))]
    /\ UNCHANGED <<downward, near, far, hop, terminal, container>>

\* The copy towards the worker ends: it closes the worker's connection.
UpCopyEnds(n) ==
    /\ hop[n] = "copies" /\ n + 1 \in near
    /\ UpEOF(n) \/ (upward[n] # <<>> /\ ~CanSendUp(n + 1))
    /\ near' = near \ {n + 1} /\ downward' = [downward EXCEPT ![n + 1] = <<>>]
    /\ UNCHANGED <<upward, far, hop, terminal, container>>

CopiesDown(n) ==
    /\ hop[n] = "copies" /\ n + 1 \in near /\ downward[n + 1] # <<>> /\ CanSendDown(n)
    /\ downward' = [downward EXCEPT ![n + 1] = Tail(@), ![n] = Append(@, Head(downward[n + 1]))]
    /\ UNCHANGED <<upward, near, far, hop, terminal, container>>

\* The copy towards the command line ends, and with it the session: cleanly
\* when the worker closed, with an error frame otherwise.
DownCopyEnds(n) ==
    LET clean == n + 1 \in near /\ downward[n + 1] = <<>> IN
    /\ hop[n] = "copies"
    /\ DownEOF(n + 1) \/ (downward[n + 1] # <<>> /\ ~CanSendDown(n))
    /\ hop' = [hop EXCEPT ![n] = "done"] /\ far' = far \ {n}
    /\ near' = near \ {n + 1}
    /\ downward' = [IF clean THEN downward ELSE SendDown(n, "error") EXCEPT ![n + 1] = <<>>]
    /\ UNCHANGED <<upward, terminal, container>>

-------------------------------------------------------------------------------
(* Manager.Exec *)

\* The handler's return: the engine's stream and the connection are closed.
ExecReturns(frame) ==
    /\ bridge' = "done" /\ far' = far \ {Hops}
    /\ downward' = SendDown(Hops, frame)
    /\ attach' = [attach EXCEPT !.ours = FALSE]

\* The process is not running, is no container, or the engine refuses.
SetupFails ==
    /\ bridge = "setup" /\ ExecReturns("error")
    /\ UNCHANGED <<upward, near, hop, terminal, pump, command>>

Setup ==
    /\ bridge = "setup" /\ bridge' = "streams" /\ pump' = "reads"
    /\ attach' = [ours |-> TRUE, engine |-> TRUE, in |-> 0, out |-> 0]
    /\ command' = [command EXCEPT !.pc = "runs"]
    /\ UNCHANGED <<links, hop, terminal>>

\* A stdin frame is written to the command; its EOF half-closes the stream.
PumpReads ==
    /\ pump = "reads" /\ Hops \in far /\ upward[Hops] # <<>>
    /\ pump' = IF Head(upward[Hops]) = "in" THEN "writes" ELSE "reads"
    /\ upward' = [upward EXCEPT ![Hops] = Tail(@)]
    /\ UNCHANGED <<downward, near, far, hop, terminal, bridge, attach, command>>

\* The engine takes a chunk when the command has read the one before.
PumpWrites ==
    /\ pump = "writes" /\ attach.ours /\ attach.engine /\ attach.in = 0
    /\ pump' = "reads" /\ attach' = [attach EXCEPT !.in = 1]
    /\ UNCHANGED <<links, hop, terminal, bridge, command>>

\* A bug to catch: the pump returns and leaves the stream open.
PumpEndsQuietly ==
    /\ \/ pump = "reads" /\ UpEOF(Hops)
       \/ pump = "writes" /\ ~(attach.ours /\ attach.engine)
    /\ pump' = "off"
    /\ UNCHANGED <<links, hop, terminal, bridge, attach, command>>

\* The client has gone, or the stream is closed: the pump closes it for good.
PumpEnds ==
    /\ \/ pump = "reads" /\ UpEOF(Hops)
       \/ pump = "writes" /\ ~(attach.ours /\ attach.engine)
    /\ pump' = "off" /\ attach' = [attach EXCEPT !.ours = FALSE]
    /\ UNCHANGED <<links, hop, terminal, bridge, command>>

OutputCopied ==
    /\ bridge = "streams" /\ attach.ours /\ attach.out > 0 /\ CanSendDown(Hops)
    /\ attach' = [attach EXCEPT !.out = @ - 1] /\ downward' = SendDown(Hops, "out")
    /\ UNCHANGED <<upward, near, far, hop, terminal, bridge, pump, command>>

\* A bug to catch: any read error counts as the end of the output.
OutputEndsAnyhow ==
    /\ bridge = "streams" /\ bridge' = "inspects"
    /\ ~attach.ours \/ (attach.out = 0 /\ ~attach.engine)
    /\ UNCHANGED <<links, hop, terminal, pump, attach, command>>

\* EOF of the attach stream.
OutputEnds ==
    /\ bridge = "streams" /\ attach.ours /\ attach.out = 0 /\ ~attach.engine
    /\ bridge' = "inspects"
    /\ UNCHANGED <<links, hop, terminal, pump, attach, command>>

\* The pump closed the stream under the copy, or the client cannot be written to.
OutputBreaks ==
    /\ bridge = "streams" /\ ExecReturns("error")
    /\ ~attach.ours \/ (attach.out > 0 /\ ~CanSendDown(Hops))
    /\ UNCHANGED <<upward, near, hop, terminal, pump, command>>

\* The exit code, or 0 for a command that is still running two seconds later.
Inspects ==
    /\ bridge = "inspects"
    /\ ExecReturns(IF command.pc = "exited" /\ command.code # 0 THEN "nonzero" ELSE "zero")
    /\ UNCHANGED <<upward, near, hop, terminal, pump, command>>

InspectFails ==
    /\ bridge = "inspects" /\ ExecReturns("error")
    /\ UNCHANGED <<upward, near, hop, terminal, pump, command>>

-------------------------------------------------------------------------------
(* The command *)

Prints ==
    /\ command.pc = "runs" /\ attach.engine /\ command.made < Outputs
    /\ command' = [command EXCEPT !.made = @ + 1] /\ attach' = [attach EXCEPT !.out = @ + 1]
    /\ UNCHANGED <<links, hop, terminal, bridge, pump>>

Consumes ==
    /\ command.pc = "runs" /\ attach.in > 0 /\ attach' = [attach EXCEPT !.in = 0]
    /\ UNCHANGED <<links, hop, terminal, bridge, pump, command>>

\* The stream ends with the command, or before it: a command that closes its
\* output, or an engine that drops the stream.
Exits(code) ==
    /\ command.pc \in {"runs", "detached"} /\ attach' = [attach EXCEPT !.engine = FALSE]
    /\ command' = [command EXCEPT !.pc = "exited", !.code = code]
    /\ UNCHANGED <<links, hop, terminal, bridge, pump>>

Detaches ==
    /\ command.pc = "runs" /\ command' = [command EXCEPT !.pc = "detached", !.cut = TRUE]
    /\ attach' = [attach EXCEPT !.engine = FALSE]
    /\ UNCHANGED <<links, hop, terminal, bridge, pump>>

-------------------------------------------------------------------------------
Streams ==
    \/ CliReads \/ CliCutOff \/ Setup \/ SetupFails
    \/ PumpReads \/ PumpWrites \/ PumpEnds
    \/ OutputCopied \/ OutputEnds \/ OutputBreaks \/ Inspects \/ InspectFails
    \/ \E n \in Copiers : Dials(n) \/ DialFails(n) \/ CopiesUp(n) \/ UpCopyEnds(n)
                          \/ CopiesDown(n) \/ DownCopyEnds(n)

ExecNext ==
    \/ Connects \/ Leaves \/ (\E l \in Links : Breaks(l)) \/ (\E f \in {"in", "eof"} : Types(f)) \/ Streams
    \/ Prints \/ Consumes \/ Detaches \/ \E code \in {0, 1} : Exits(code)

\* Every read, write and call of the servers returns; nothing is asked of the
\* command or of its user.  That is an assumption about the engine and the
\* network: the handshake that starts the exec has no deadline
\* (dockerapi/exec.go:86), and the connections' deadlines are cleared for the
\* session (execstream.go:168, 171), so an engine that never answers, or a peer
\* that stops reading and never closes, holds its session as long as it lasts.
ExecSpec == ExecInit /\ [][ExecNext]_execVars /\ WF_execVars(Streams)

-------------------------------------------------------------------------------
Frames == {"in", "eof"}
Answers == {"out", "zero", "nonzero", "error"}

ExecTypeOK ==
    /\ upward \in [Links -> Seq(Frames)] /\ downward \in [Links -> Seq(Answers)]
    /\ near \cup far \subseteq Links /\ typed \in 0 .. Inputs /\ shown \in 0 .. Outputs
    /\ cli \in {"off", "runs", "left", "ok", "fail", "error"}
    /\ hop \in [Copiers -> {"idle", "dial", "copies", "done"}]
    /\ bridge \in {"idle", "setup", "streams", "inspects", "done"}
    /\ pump \in {"off", "reads", "writes"}
    /\ command.pc \in {"none", "runs", "detached", "exited"}

\* "The command's exit status becomes this command's exit status" (exec.go:44),
\* and its output has been displayed in full by then, whoever else closes what
\* meanwhile; unless the engine's stream ended before the command.
StatusIsTheCommands ==
    cli \in {"ok", "fail"} /\ ~command.cut =>
        /\ command.pc = "exited" /\ (cli = "ok" <=> command.code = 0)
        /\ shown = command.made

\* Nothing is left of a session once its client is gone or its command has
\* ended (exec.go:93), except while the command does not read its stdin.
Over == near = {} /\ far = {} /\ pump = "off" /\ ~attach.ours

SessionEnds ==
    \/ <>[]Over
    \/ <>[](cli = "runs" /\ command.pc = "runs")
    \/ <>[](pump = "writes")
=============================================================================
