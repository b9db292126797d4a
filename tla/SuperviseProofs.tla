--------------------------- MODULE SuperviseProofs ---------------------------
(***************************************************************************)
(* What holds of the process table for every set of keys, processes,       *)
(* callers and stops: an inductive invariant of Supervise, and from it     *)
(* that a key never has two children, that a running child is the tracked  *)
(* process of its key, and that a state directory is copied quiesced.      *)
(***************************************************************************)
EXTENDS Supervise, TLAPS

Fresh(p)    == pc[p] \in BeforeLaunch \cup {"unused"}
HoldsStop   == {"look", "drain", "copy"}
Over(p)     == child[p] = "exited"

(* A process object has a key from the moment it is registered. *)
KeyInv ==
    \A p \in Procs :
        /\ pc[p] = "unused" <=> key[p] = None
        /\ \A k \in Keys : procs[k] = p => key[p] = k

(* The key lock is held by the start or the stop that is past its acquire. *)
LockInv ==
    \A k \in Keys :
        /\ \A p \in Procs : lock[k] = p <=> key[p] = k /\ pc[p] \in Holding
        /\ \A t \in Tasks : lock[k] = t <=> t[2] = k /\ stop[t].pc \in HoldsStop

(* Before its launch an object is in the table and nothing has happened to
   it; nobody but its own start takes it out of the table. *)
FreshInv ==
    \A p \in Procs :
        /\ Fresh(p) => /\ child[p] = "none" /\ watch[p] = "none"
                       /\ p \notin done /\ p \notin failed
        /\ pc[p] \in BeforeLaunch => procs[key[p]] = p

(* Whoever takes an object out of the table knows that its child is over. *)
OverInv ==
    \A p \in Procs :
        /\ p \in done => Over(p)
        /\ p \in failed => Alive(p) = FALSE /\ pc[p] \in {"failforget", "end"}
        /\ watch[p] \in {"forget", "unrecord", "note"} => p \in done
        /\ watch[p] = "end" => ~Alive(p)
        /\ pc[p] \in {"fail", "failclose", "failforget"} => ~Alive(p)

(* A start that waits for its backend is at the one place where it does. *)
CallInv ==
    \A w \in Waiters :
        call[w].pc # "idle" => /\ call[w].key \in Keys
                               /\ w \in Procs => pc[w] = "peer"

(* While a Stop drains or a fork copies, nothing but the process the Stop
   took down runs under that key. *)
DrainInv ==
    \A t \in Tasks :
        stop[t].pc \in {"drain", "copy"} =>
            \A q \in Procs : Alive(q) /\ key[q] = t[2] => q = stop[t].p

(* A row names an object that has been launched, and StopAll's stops only
   begin with StopAll. *)
RowInv  == /\ \A r \in Rows : records[r] # None => child[records[r]] # "none"
           /\ \A p \in Procs : pc[p] = "record" => child[p] # "none"
DownInv == \A t \in Tasks : t[1] = "shutdown" /\ ~stopping => stop[t].pc = "idle"

CopyInv == \A t \in Tasks : stop[t].pc = "copy" => stop[t].p = None

IInv ==
    /\ TypeOK
    /\ KeyInv /\ LockInv /\ FreshInv /\ OverInv /\ CallInv
    /\ LiveChildTracked /\ DrainInv /\ CopyInv /\ RowInv /\ DownInv


-----------------------------------------------------------------------------
(* Types *)

CallSet == [pc : {"idle", "lookup", "wait"}, key : Keys \cup {None},
            p : Procs \cup {None}, misses : {0, 1}]
StopSet == [pc : {"idle", "lock", "look", "drain", "copy"}, p : Procs \cup {None}]

LEMMA CallRecords ==
    /\ Idle \in CallSet
    /\ \A k \in Keys, m \in {0, 1} : Looking(k, m) \in CallSet
    /\ \A k \in Keys, m \in {0, 1}, p \in Procs : Waiting(k, p, m) \in CallSet
  BY DEF CallSet, Idle, Looking, Waiting

LEMMA StopRecords ==
    ASSUME NEW s \in StopSet, NEW x \in {"idle", "lock", "look", "drain", "copy"}
    PROVE  [s EXCEPT !.pc = x] \in StopSet
  BY DEF StopSet

(* What an answer changes of the start it resumes, if it resumes one. *)
AnswerEffect(w, q) ==
    /\ call'[w] = Idle
    /\ \A x \in Waiters : x # w => call'[x] = call[x]
    /\ \A p \in Procs : p # w => pc'[p] = pc[p] /\ peer'[p] = peer[p]
    /\ w \in Procs => pc'[w] = (IF q = None THEN "fail" ELSE "launch") /\ peer'[w] = q

LEMMA AnswerFrame ==
    ASSUME TypeOK, NEW w \in Waiters, NEW q, Answer(w, q) PROVE AnswerEffect(w, q)
<1>1. call' = [call EXCEPT ![w] = Idle]
  BY DEF Answer
<1>2. CASE w \in Procs
  BY <1>1, <1>2 DEF Answer, TypeOK, AnswerEffect
<1>3. CASE w \notin Procs
  BY <1>1, <1>3 DEF Answer, TypeOK, AnswerEffect
<1> QED BY <1>2, <1>3

(* A launch runs the child or fails; beside that, it may remove containers of
   an earlier life. *)
LaunchEffect(p) ==
    /\ child[p] = "none" /\ pc[p] = "launch" /\ key[p] \in Keys
    /\ \A q \in Procs \ {p} :
          child'[q] = child[q] \/ (child[q] = "orphan" /\ child'[q] = "exited")
    /\ \A q \in Procs : q # p => pc'[q] = pc[q] /\ watch'[q] = watch[q]
    /\ \/ pc'[p] = "fail" /\ child'[p] = "none" /\ UNCHANGED <<watch, boxed>>
       \/ pc'[p] = "record" /\ child'[p] = "alive" /\ UNCHANGED <<watch, boxed>>
       \/ /\ pc'[p] = "health" /\ child'[p] = "alive" /\ watch'[p] = "wait"
          /\ boxed' = boxed \cup {p}
          /\ \A q \in boxed : child[q] = "orphan" /\ key[q] = key[p] =>
                child'[q] = "exited"
    /\ UNCHANGED <<world, table, records, key, peer, chans, clean, killed, intentional,
                   call, stop>>

LEMMA LaunchFrame == ASSUME IInv, NEW p \in Procs, Launch(p) PROVE LaunchEffect(p)
<1>1. child[p] = "none" /\ pc[p] = "launch" /\ key[p] \in Keys
  BY DEF Launch, IInv, TypeOK, KeyInv, FreshInv, Fresh, BeforeLaunch
<1>2. /\ \A q \in Procs \ {p} : \/ NamesakeGone(p)[q] = child[q]
                                \/ child[q] = "orphan" /\ NamesakeGone(p)[q] = "exited"
      /\ \A q \in boxed : child[q] = "orphan" /\ key[q] = key[p] =>
            NamesakeGone(p)[q] = "exited"
      /\ NamesakeGone(p)[p] = "none" /\ DOMAIN NamesakeGone(p) = Procs
  BY <1>1 DEF NamesakeGone, IInv, TypeOK
<1>3. UNCHANGED <<world, table, records, key, peer, chans, clean, killed, intentional,
                  call, stop>>
  BY DEF Launch
<1>4. CASE pc' = [pc EXCEPT ![p] = "fail"] /\ child' \in {child, NamesakeGone(p)}
             /\ UNCHANGED <<watch, boxed>>
  BY <1>1, <1>2, <1>3, <1>4 DEF IInv, TypeOK, LaunchEffect
<1>5. CASE pc' = [pc EXCEPT ![p] = "record"] /\ child' = [child EXCEPT ![p] = "alive"]
             /\ UNCHANGED <<watch, boxed>>
  BY <1>1, <1>3, <1>5 DEF IInv, TypeOK, LaunchEffect
<1>6. CASE /\ pc' = [pc EXCEPT ![p] = "health"] /\ watch' = [watch EXCEPT ![p] = "wait"]
           /\ child' = [NamesakeGone(p) EXCEPT ![p] = "alive"]
           /\ boxed' = boxed \cup {p}
  <2>1. child'[p] = "alive" /\ \A q \in Procs : q # p => child'[q] = NamesakeGone(p)[q]
    BY <1>2, <1>6
  <2>2. p \notin boxed \/ child[p] # "orphan"
    BY <1>1
  <2>3. \A q \in boxed : child[q] = "orphan" /\ key[q] = key[p] => child'[q] = "exited"
    BY <1>1, <1>2, <2>1 DEF IInv, TypeOK
  <2> QED BY <1>1, <1>2, <1>3, <1>6, <2>1, <2>3 DEF IInv, TypeOK, LaunchEffect
<1> QED BY <1>4, <1>5, <1>6 DEF Launch, LaunchEffect

LEMMA AnswerType ==
    ASSUME TypeOK, NEW w \in Waiters, NEW q \in Procs \cup {None}, Answer(w, q)
    PROVE  /\ call' \in [Waiters -> CallSet]
           /\ pc' \in [Procs -> StartPC]
           /\ peer' \in [Procs -> Procs \cup {None}]
<1>1. call' \in [Waiters -> CallSet]
  BY CallRecords DEF Answer, TypeOK, CallSet
<1>2. CASE w \in Procs
  BY <1>1, <1>2 DEF Answer, TypeOK, StartPC, Holding
<1>3. CASE w \notin Procs
  BY <1>1, <1>3 DEF Answer, TypeOK
<1> QED BY <1>2, <1>3

LEMMA StoppedType ==
    ASSUME TypeOK, NEW t \in Tasks, Stopped(t)
    PROVE  /\ stop' \in [Tasks -> StopSet]
           /\ lock' \in [Keys -> Procs \cup Tasks \cup {None}]
<1>1. /\ StopIdle \in StopSet
      /\ [pc |-> "copy", p |-> None] \in StopSet
  BY DEF StopIdle, StopSet
<1>2. t[2] \in Keys
  BY SuperviseAssumption
<1>3. CASE t[1] = "fork"
  BY <1>1, <1>3 DEF Stopped, TypeOK, StopSet
<1>4. CASE t[1] # "fork"
  <2>1. stop' = [stop EXCEPT ![t] = StopIdle] /\ lock' = [lock EXCEPT ![t[2]] = None]
    BY <1>4 DEF Stopped
  <2>2. stop' \in [Tasks -> StopSet]
    BY <1>1, <2>1 DEF TypeOK, StopSet
  <2>3. lock' \in [Keys -> Procs \cup Tasks \cup {None}]
    BY <2>1 DEF TypeOK
  <2> QED BY <2>2, <2>3
<1> QED BY <1>3, <1>4

(* Every step keeps the types. *)
LEMMA TypeStep == ASSUME IInv, Next PROVE TypeOK'
<1> USE SuperviseAssumption DEF IInv, TypeOK, StartPC, Holding, WatchPC, Waiters, Rows,
         vars, world, table, chans, marks, starts
<1>1. ASSUME NEW c \in Callers, NEW k \in Keys, Ensure(c, k) PROVE TypeOK'
  BY <1>1 DEF Ensure, Looking
<1>2. ASSUME NEW w \in Waiters, Refuse(w) PROVE TypeOK'
  <2>1. call' \in [Waiters -> CallSet] /\ pc' \in [Procs -> StartPC]
            /\ peer' \in [Procs -> Procs \cup {None}]
    BY <1>2, AnswerType DEF Refuse
  <2> QED BY <1>2, <2>1 DEF Refuse, CallSet
<1>3. ASSUME NEW w \in Waiters, Join(w) PROVE TypeOK'
  <2>1. call[w].key \in Keys
    BY <1>3 DEF Join, CallInv
  <2>2. call' \in [Waiters -> CallSet]
    <3>1. procs[call[w].key] \in Procs /\ call[w].misses \in {0, 1}
      BY <1>3, <2>1 DEF Join
    <3>2. Waiting(call[w].key, procs[call[w].key], call[w].misses) \in CallSet
      BY <2>1, <3>1, CallRecords
    <3>3. call' = [call EXCEPT ![w] = Waiting(call[w].key, procs[call[w].key], call[w].misses)]
      BY <1>3 DEF Join
    <3> QED BY <3>2, <3>3 DEF CallSet
  <2> QED BY <1>3, <2>2 DEF Join, CallSet
<1>4. ASSUME NEW w \in Waiters, GotReady(w) PROVE TypeOK'
  <2>1. call[w].p \in Procs
    BY <1>4 DEF GotReady
  <2>2. call' \in [Waiters -> CallSet] /\ pc' \in [Procs -> StartPC]
            /\ peer' \in [Procs -> Procs \cup {None}]
    BY <1>4, <2>1, AnswerType DEF GotReady
  <2> QED BY <1>4, <2>2 DEF GotReady, CallSet
<1>5. ASSUME NEW w \in Waiters, GotDead(w) PROVE TypeOK'
  <2>1. call[w].p \in Procs
    BY <1>5 DEF GotDead
  <2>2. call[w].key \in Keys
    BY <1>5 DEF GotDead, CallInv
  <2>3. CASE call[w].misses = 0
    <3>0. Looking(call[w].key, call[w].misses + 1) \in CallSet
      BY <2>2, <2>3, CallRecords
    <3>1. call \in [Waiters -> CallSet]
      BY DEF CallSet
    <3>2. call' = [call EXCEPT ![w] = Looking(call[w].key, call[w].misses + 1)]
      BY <1>5, <2>3 DEF GotDead, MayRetry
    <3>3. call' \in [Waiters -> CallSet]
      BY <3>0, <3>1, <3>2 DEF Waiters
    <3> QED BY <1>5, <2>3, <3>3 DEF GotDead, MayRetry, Forget, CallSet
  <2>4. CASE call[w].misses # 0
    <3>1. Answer(w, None)
      BY <1>5, <2>4 DEF GotDead, MayRetry
    <3>2. call' \in [Waiters -> CallSet] /\ pc' \in [Procs -> StartPC]
            /\ peer' \in [Procs -> Procs \cup {None}]
      BY <3>1, AnswerType
    <3> QED BY <1>5, <3>2 DEF GotDead, Forget, CallSet
  <2> QED BY <2>3, <2>4
<1>6. ASSUME NEW w \in Waiters, GotFailed(w) PROVE TypeOK'
  <2>1. call' \in [Waiters -> CallSet] /\ pc' \in [Procs -> StartPC]
            /\ peer' \in [Procs -> Procs \cup {None}]
    BY <1>6, AnswerType DEF GotFailed
  <2> QED BY <1>6, <2>1 DEF GotFailed, Forget, CallSet
<1>7. ASSUME NEW w \in Waiters, NEW p \in Procs, Register(w, p) PROVE TypeOK'
  BY <1>7 DEF Register, Waiting
<1>8. ASSUME NEW c \in Callers, GiveUp(c) PROVE TypeOK'
  BY <1>8 DEF GiveUp, Answer, Idle
<1>9. ASSUME NEW p \in Procs, StartAcquire(p) PROVE TypeOK'
  BY <1>9 DEF StartAcquire, LockFree
<1>10. ASSUME NEW p \in Procs, Load(p) PROVE TypeOK'
  <2>1. key[p] \in Keys
    BY <1>10 DEF Load, KeyInv
  <2>2. call' \in [Waiters -> CallSet]
    BY <1>10, <2>1, CallRecords DEF Load, CallSet
  <2>3. pc' \in [Procs -> StartPC]
    BY <1>10 DEF Load
  <2> QED BY <1>10, <2>2, <2>3 DEF Load, CallSet
<1>11. ASSUME NEW p \in Procs, Launch(p) PROVE TypeOK'
  <2>1. child' \in [Procs -> {"none", "alive", "orphan", "exited"}]
    <3>1. NamesakeGone(p) \in [Procs -> {"none", "alive", "orphan", "exited"}]
      BY DEF NamesakeGone
    <3>2. child' \in {child, NamesakeGone(p), [child EXCEPT ![p] = "alive"],
                      [NamesakeGone(p) EXCEPT ![p] = "alive"]}
      BY <1>11 DEF Launch
    <3> QED BY <3>1, <3>2
  <2>2. watch' \in [Procs -> WatchPC] /\ boxed' \subseteq Procs
    BY <1>11 DEF Launch, NamesakeGone
  <2>3. pc' \in [Procs -> StartPC]
    <3>1. PICK x \in {"fail", "record", "health"} : pc' = [pc EXCEPT ![p] = x]
      BY <1>11 DEF Launch, NamesakeGone
    <3> QED BY <3>1
  <2> QED BY <1>11, <2>1, <2>2, <2>3 DEF Launch, NamesakeGone
<1>12. ASSUME NEW p \in Procs, Record(p) PROVE TypeOK'
  BY <1>12 DEF Record
<1>13. ASSUME NEW p \in Procs, HealthOK(p) PROVE TypeOK'
  BY <1>13 DEF HealthOK
<1>14. ASSUME NEW p \in Procs, HealthFail(p) PROVE TypeOK'
  BY <1>14 DEF HealthFail
<1>15. ASSUME NEW p \in Procs, Drained(p) PROVE TypeOK'
  BY <1>15 DEF Drained
<1>16. ASSUME NEW p \in Procs, FailNote(p) PROVE TypeOK'
  BY <1>16 DEF FailNote
<1>17. ASSUME NEW p \in Procs, FailClose(p) PROVE TypeOK'
  BY <1>17 DEF FailClose
<1>18. ASSUME NEW p \in Procs, FailForget(p) PROVE TypeOK'
  BY <1>18 DEF FailForget, Forget
<1>19. ASSUME NEW p \in Procs, Publish(p) PROVE TypeOK'
  BY <1>19 DEF Publish
<1>20. ASSUME NEW p \in Procs, ChildExit(p) PROVE TypeOK'
  BY <1>20 DEF ChildExit
<1>21. ASSUME NEW p \in Procs, CloseDone(p) PROVE TypeOK'
  BY <1>21 DEF CloseDone
<1>22. ASSUME NEW p \in Procs, WatchForget(p) PROVE TypeOK'
  BY <1>22 DEF WatchForget, Forget, AfterForget
<1>23. ASSUME NEW p \in Procs, Unrecord(p) PROVE TypeOK'
  BY <1>23 DEF Unrecord
<1>24. ASSUME NEW p \in Procs, NoteExit(p) PROVE TypeOK'
  BY <1>24 DEF NoteExit, Crashed
<1>25. ASSUME NEW t \in Tasks, BeginStop(t) PROVE TypeOK'
  <2>1. stop' \in [Tasks -> StopSet]
    <3>1. stop \in [Tasks -> StopSet]
      BY DEF StopSet
    <3>2. [stop[t] EXCEPT !.pc = "lock"] \in StopSet
      BY <3>1, StopRecords
    <3>3. stop' = [stop EXCEPT ![t] = [stop[t] EXCEPT !.pc = "lock"]]
      BY <1>25 DEF BeginStop
    <3> QED BY <3>1, <3>2, <3>3
  <2> QED BY <1>25, <2>1 DEF BeginStop, StopSet
<1>26. ASSUME NEW t \in Tasks, StopAcquire(t) PROVE TypeOK'
  <2>. stop \in [Tasks -> StopSet]
    BY DEF StopSet
  <2>0. [stop[t] EXCEPT !.pc = "look"] \in StopSet
    BY StopRecords
  <2>1. stop' \in [Tasks -> StopSet]
    BY <1>26, <2>0 DEF StopAcquire
  <2> QED BY <1>26, <2>1 DEF StopAcquire, StopSet
<1>27. ASSUME NEW t \in Tasks, NothingToStop(t) PROVE TypeOK'
  <2>1. stop' \in [Tasks -> StopSet] /\ lock' \in [Keys -> Procs \cup Tasks \cup {None}]
    BY <1>27, StoppedType DEF NothingToStop
  <2> QED BY <1>27, <2>1 DEF NothingToStop, StopSet
<1>28. ASSUME NEW t \in Tasks, Terminate(t) PROVE TypeOK'
  BY <1>28 DEF Terminate
<1>29. ASSUME NEW t \in Tasks, StopDrained(t) PROVE TypeOK'
  <2>1. stop' \in [Tasks -> StopSet] /\ lock' \in [Keys -> Procs \cup Tasks \cup {None}]
    BY <1>29, StoppedType DEF StopDrained
  <2> QED BY <1>29, <2>1 DEF StopDrained, Forget, StopSet
<1>30. ASSUME NEW t \in Tasks, CopyDone(t) PROVE TypeOK'
  BY <1>30 DEF CopyDone, StopIdle
<1>31. ASSUME StopAll PROVE TypeOK'
  <2>. stop \in [Tasks -> StopSet]
    BY DEF StopSet
  <2>1. \A t \in Tasks : [stop[t] EXCEPT !.pc = "lock"] \in StopSet
    BY StopRecords
  <2>2. stop' \in [Tasks -> StopSet]
    BY <1>31, <2>1 DEF StopAll, StopSet
  <2> QED BY <1>31, <2>2 DEF StopAll, StopSet
<1>32. ASSUME Exit PROVE TypeOK'
  BY <1>32 DEF Exit, LoseMemory, Idle, StopIdle
<1>33. ASSUME Crash PROVE TypeOK'
  BY <1>33 DEF Crash, LoseMemory, Idle, StopIdle
<1>34. ASSUME Boot PROVE TypeOK'
  BY <1>34 DEF Boot
<1>35. ASSUME NEW r \in Rows, ReclaimRow(r) PROVE TypeOK'
  BY <1>35 DEF ReclaimRow
<1> QED BY <1>1, <1>2, <1>3, <1>4, <1>5, <1>6, <1>7, <1>8, <1>9, <1>10, <1>11, <1>12, <1>13, <1>14, <1>15, <1>16, <1>17, <1>18, <1>19, <1>20, <1>21, <1>22, <1>23, <1>24, <1>25, <1>26, <1>27, <1>28, <1>29, <1>30, <1>31, <1>32, <1>33, <1>34, <1>35
       DEF Next, Caller, StartStep, Watcher, StopStep

(* An object keeps its key, and the table never files it under another. *)
LEMMA KeyStep == ASSUME IInv, Next PROVE KeyInv'
<1>a. ASSUME NEW p \in Procs, Launch(p) PROVE LaunchEffect(p)
  BY <1>a, LaunchFrame
<1> USE SuperviseAssumption DEF IInv, TypeOK, StartPC, Holding, KeyInv, CallInv,
         Waiters, vars, world, table, chans, marks, starts
<1>1. ASSUME NEW c \in Callers, NEW k \in Keys, Ensure(c, k) PROVE KeyInv'
  BY <1>1 DEF Ensure, Looking
<1>2. ASSUME NEW w \in Waiters, Refuse(w) PROVE KeyInv'
  BY <1>2 DEF Refuse, Answer, Idle
<1>3. ASSUME NEW w \in Waiters, Join(w) PROVE KeyInv'
  BY <1>3 DEF Join, Waiting
<1>4. ASSUME NEW w \in Waiters, GotReady(w) PROVE KeyInv'
  BY <1>4 DEF GotReady, Answer, Idle
<1>5. ASSUME NEW w \in Waiters, GotDead(w) PROVE KeyInv'
  BY <1>5 DEF GotDead, Answer, Idle, Looking, MayRetry, Forget
<1>6. ASSUME NEW w \in Waiters, GotFailed(w) PROVE KeyInv'
  BY <1>6 DEF GotFailed, Answer, Idle, Forget
<1>7. ASSUME NEW w \in Waiters, NEW p \in Procs, Register(w, p) PROVE KeyInv'
  BY <1>7 DEF Register, Waiting
<1>8. ASSUME NEW c \in Callers, GiveUp(c) PROVE KeyInv'
  BY <1>8 DEF GiveUp, Answer, Idle
<1>9. ASSUME NEW p \in Procs, StartAcquire(p) PROVE KeyInv'
  BY <1>9 DEF StartAcquire, LockFree
<1>10. ASSUME NEW p \in Procs, Load(p) PROVE KeyInv'
  BY <1>10 DEF Load, Looking
<1>11. ASSUME NEW p \in Procs, Launch(p) PROVE KeyInv'
  BY <1>11, <1>a DEF LaunchEffect
<1>12. ASSUME NEW p \in Procs, Record(p) PROVE KeyInv'
  BY <1>12 DEF Record
<1>13. ASSUME NEW p \in Procs, HealthOK(p) PROVE KeyInv'
  BY <1>13 DEF HealthOK
<1>14. ASSUME NEW p \in Procs, HealthFail(p) PROVE KeyInv'
  BY <1>14 DEF HealthFail
<1>15. ASSUME NEW p \in Procs, Drained(p) PROVE KeyInv'
  BY <1>15 DEF Drained
<1>16. ASSUME NEW p \in Procs, FailNote(p) PROVE KeyInv'
  BY <1>16 DEF FailNote
<1>17. ASSUME NEW p \in Procs, FailClose(p) PROVE KeyInv'
  BY <1>17 DEF FailClose
<1>18. ASSUME NEW p \in Procs, FailForget(p) PROVE KeyInv'
  BY <1>18 DEF FailForget, Forget
<1>19. ASSUME NEW p \in Procs, Publish(p) PROVE KeyInv'
  BY <1>19 DEF Publish
<1>20. ASSUME NEW p \in Procs, ChildExit(p) PROVE KeyInv'
  BY <1>20 DEF ChildExit
<1>21. ASSUME NEW p \in Procs, CloseDone(p) PROVE KeyInv'
  BY <1>21 DEF CloseDone
<1>22. ASSUME NEW p \in Procs, WatchForget(p) PROVE KeyInv'
  BY <1>22 DEF WatchForget, Forget, AfterForget
<1>23. ASSUME NEW p \in Procs, Unrecord(p) PROVE KeyInv'
  BY <1>23 DEF Unrecord
<1>24. ASSUME NEW p \in Procs, NoteExit(p) PROVE KeyInv'
  BY <1>24 DEF NoteExit, Crashed
<1>25. ASSUME NEW t \in Tasks, BeginStop(t) PROVE KeyInv'
  BY <1>25 DEF BeginStop
<1>26. ASSUME NEW t \in Tasks, StopAcquire(t) PROVE KeyInv'
  BY <1>26 DEF StopAcquire, LockFree
<1>27. ASSUME NEW t \in Tasks, NothingToStop(t) PROVE KeyInv'
  BY <1>27 DEF NothingToStop, Stopped, StopIdle
<1>28. ASSUME NEW t \in Tasks, Terminate(t) PROVE KeyInv'
  BY <1>28 DEF Terminate
<1>29. ASSUME NEW t \in Tasks, StopDrained(t) PROVE KeyInv'
  BY <1>29 DEF StopDrained, Stopped, StopIdle, Forget
<1>30. ASSUME NEW t \in Tasks, CopyDone(t) PROVE KeyInv'
  BY <1>30 DEF CopyDone, StopIdle
<1>31. ASSUME StopAll PROVE KeyInv'
  BY <1>31 DEF StopAll
<1>32. ASSUME Exit PROVE KeyInv'
  BY <1>32 DEF Exit, LoseMemory, Idle, StopIdle
<1>33. ASSUME Crash PROVE KeyInv'
  BY <1>33 DEF Crash, LoseMemory, Idle, StopIdle
<1>34. ASSUME Boot PROVE KeyInv'
  BY <1>34 DEF Boot
<1>35. ASSUME NEW r \in Rows, ReclaimRow(r) PROVE KeyInv'
  BY <1>35 DEF ReclaimRow
<1> QED BY <1>1, <1>2, <1>3, <1>4, <1>5, <1>6, <1>7, <1>8, <1>9, <1>10, <1>11, <1>12, <1>13, <1>14, <1>15, <1>16, <1>17, <1>18, <1>19, <1>20, <1>21, <1>22, <1>23, <1>24, <1>25, <1>26, <1>27, <1>28, <1>29, <1>30, <1>31, <1>32, <1>33, <1>34, <1>35
       DEF Next, Caller, StartStep, Watcher, StopStep

(* Whoever takes or passes the key lock says so in its location. *)
LEMMA LockStep == ASSUME IInv, Next PROVE LockInv'
<1>a. ASSUME NEW p \in Procs, Launch(p) PROVE LaunchEffect(p)
  BY <1>a, LaunchFrame
<1> USE SuperviseAssumption DEF IInv, TypeOK, StartPC, Holding, HoldsStop, KeyInv, LockInv, CallInv, DownInv,
         Waiters, vars, world, table, chans, marks, starts
<1>1. ASSUME NEW c \in Callers, NEW k \in Keys, Ensure(c, k) PROVE LockInv'
  BY <1>1 DEF Ensure, Looking
<1>2. ASSUME NEW w \in Waiters, Refuse(w) PROVE LockInv'
  BY <1>2 DEF Refuse, Answer, Idle
<1>3. ASSUME NEW w \in Waiters, Join(w) PROVE LockInv'
  BY <1>3 DEF Join, Waiting
<1>4. ASSUME NEW w \in Waiters, GotReady(w) PROVE LockInv'
  BY <1>4 DEF GotReady, Answer, Idle
<1>5. ASSUME NEW w \in Waiters, GotDead(w) PROVE LockInv'
  BY <1>5 DEF GotDead, Answer, Idle, Looking, MayRetry, Forget
<1>6. ASSUME NEW w \in Waiters, GotFailed(w) PROVE LockInv'
  BY <1>6 DEF GotFailed, Answer, Idle, Forget
<1>7. ASSUME NEW w \in Waiters, NEW p \in Procs, Register(w, p) PROVE LockInv'
  BY <1>7 DEF Register, Waiting
<1>8. ASSUME NEW c \in Callers, GiveUp(c) PROVE LockInv'
  BY <1>8 DEF GiveUp, Answer, Idle
<1>9. ASSUME NEW p \in Procs, StartAcquire(p) PROVE LockInv'
  BY <1>9 DEF StartAcquire, LockFree
<1>10. ASSUME NEW p \in Procs, Load(p) PROVE LockInv'
  BY <1>10 DEF Load, Looking
<1>11. ASSUME NEW p \in Procs, Launch(p) PROVE LockInv'
  BY <1>11, <1>a DEF LaunchEffect
<1>12. ASSUME NEW p \in Procs, Record(p) PROVE LockInv'
  BY <1>12 DEF Record
<1>13. ASSUME NEW p \in Procs, HealthOK(p) PROVE LockInv'
  BY <1>13 DEF HealthOK
<1>14. ASSUME NEW p \in Procs, HealthFail(p) PROVE LockInv'
  BY <1>14 DEF HealthFail
<1>15. ASSUME NEW p \in Procs, Drained(p) PROVE LockInv'
  BY <1>15 DEF Drained
<1>16. ASSUME NEW p \in Procs, FailNote(p) PROVE LockInv'
  BY <1>16 DEF FailNote
<1>17. ASSUME NEW p \in Procs, FailClose(p) PROVE LockInv'
  BY <1>17 DEF FailClose
<1>18. ASSUME NEW p \in Procs, FailForget(p) PROVE LockInv'
  BY <1>18 DEF FailForget, Forget
<1>19. ASSUME NEW p \in Procs, Publish(p) PROVE LockInv'
  BY <1>19 DEF Publish
<1>20. ASSUME NEW p \in Procs, ChildExit(p) PROVE LockInv'
  BY <1>20 DEF ChildExit
<1>21. ASSUME NEW p \in Procs, CloseDone(p) PROVE LockInv'
  BY <1>21 DEF CloseDone
<1>22. ASSUME NEW p \in Procs, WatchForget(p) PROVE LockInv'
  BY <1>22 DEF WatchForget, Forget, AfterForget
<1>23. ASSUME NEW p \in Procs, Unrecord(p) PROVE LockInv'
  BY <1>23 DEF Unrecord
<1>24. ASSUME NEW p \in Procs, NoteExit(p) PROVE LockInv'
  BY <1>24 DEF NoteExit, Crashed
<1>25. ASSUME NEW t \in Tasks, BeginStop(t) PROVE LockInv'
  BY <1>25 DEF BeginStop
<1>26. ASSUME NEW t \in Tasks, StopAcquire(t) PROVE LockInv'
  BY <1>26 DEF StopAcquire, LockFree
<1>27. ASSUME NEW t \in Tasks, NothingToStop(t) PROVE LockInv'
  <2>1. CASE t[1] = "fork"
    BY <1>27, <2>1 DEF NothingToStop, Stopped, Forget
  <2>2. CASE t[1] # "fork"
    <3>1. /\ stop' = [stop EXCEPT ![t] = StopIdle] /\ lock' = [lock EXCEPT ![t[2]] = None]
          /\ UNCHANGED <<pc, key>> /\ stop[t].pc = "look" /\ StopIdle.pc = "idle"
      BY <1>27, <2>2 DEF NothingToStop, Stopped, StopIdle
    <3>2. t[2] \in Keys /\ lock[t[2]] = t
      BY <3>1
    <3> QED BY <3>1, <3>2
  <2> QED BY <2>1, <2>2
<1>28. ASSUME NEW t \in Tasks, Terminate(t) PROVE LockInv'
  BY <1>28 DEF Terminate
<1>29. ASSUME NEW t \in Tasks, StopDrained(t) PROVE LockInv'
  <2>1. CASE t[1] = "fork"
    BY <1>29, <2>1 DEF StopDrained, Stopped, Forget
  <2>2. CASE t[1] # "fork"
    BY <1>29, <2>2 DEF StopDrained, Stopped, StopIdle, Forget
  <2> QED BY <2>1, <2>2
<1>30. ASSUME NEW t \in Tasks, CopyDone(t) PROVE LockInv'
  BY <1>30 DEF CopyDone, StopIdle
<1>31. ASSUME StopAll PROVE LockInv'
  BY <1>31 DEF StopAll
<1>32. ASSUME Exit PROVE LockInv'
  BY <1>32 DEF Exit, LoseMemory, Idle, StopIdle
<1>33. ASSUME Crash PROVE LockInv'
  BY <1>33 DEF Crash, LoseMemory, Idle, StopIdle
<1>34. ASSUME Boot PROVE LockInv'
  BY <1>34 DEF Boot
<1>35. ASSUME NEW r \in Rows, ReclaimRow(r) PROVE LockInv'
  BY <1>35 DEF ReclaimRow
<1> QED BY <1>1, <1>2, <1>3, <1>4, <1>5, <1>6, <1>7, <1>8, <1>9, <1>10, <1>11, <1>12, <1>13, <1>14, <1>15, <1>16, <1>17, <1>18, <1>19, <1>20, <1>21, <1>22, <1>23, <1>24, <1>25, <1>26, <1>27, <1>28, <1>29, <1>30, <1>31, <1>32, <1>33, <1>34, <1>35
       DEF Next, Caller, StartStep, Watcher, StopStep

(* Nothing happens to an object before its launch, and it stays filed. *)
LEMMA FreshStep == ASSUME IInv, Next PROVE FreshInv'
<1>a. ASSUME NEW p \in Procs, Launch(p) PROVE LaunchEffect(p)
  BY <1>a, LaunchFrame
<1> USE SuperviseAssumption DEF IInv, TypeOK, StartPC, Holding, BeforeLaunch, Fresh, Over, Alive, KeyInv, FreshInv, OverInv, CallInv, RowInv,
         Waiters, vars, world, table, chans, marks, starts
<1>1. ASSUME NEW c \in Callers, NEW k \in Keys, Ensure(c, k) PROVE FreshInv'
  BY <1>1 DEF Ensure, Looking
<1>2. ASSUME NEW w \in Waiters, Refuse(w) PROVE FreshInv'
  BY <1>2 DEF Refuse, Answer, Idle
<1>3. ASSUME NEW w \in Waiters, Join(w) PROVE FreshInv'
  BY <1>3 DEF Join, Waiting
<1>4. ASSUME NEW w \in Waiters, GotReady(w) PROVE FreshInv'
  BY <1>4 DEF GotReady, Answer, Idle
<1>5. ASSUME NEW w \in Waiters, GotDead(w) PROVE FreshInv'
  BY <1>5 DEF GotDead, Answer, Idle, Looking, MayRetry, Forget
<1>6. ASSUME NEW w \in Waiters, GotFailed(w) PROVE FreshInv'
  BY <1>6 DEF GotFailed, Answer, Idle, Forget
<1>7. ASSUME NEW w \in Waiters, NEW p \in Procs, Register(w, p) PROVE FreshInv'
  BY <1>7 DEF Register, Waiting
<1>8. ASSUME NEW c \in Callers, GiveUp(c) PROVE FreshInv'
  BY <1>8 DEF GiveUp, Answer, Idle
<1>9. ASSUME NEW p \in Procs, StartAcquire(p) PROVE FreshInv'
  BY <1>9 DEF StartAcquire, LockFree
<1>10. ASSUME NEW p \in Procs, Load(p) PROVE FreshInv'
  BY <1>10 DEF Load, Looking
<1>11. ASSUME NEW p \in Procs, Launch(p) PROVE FreshInv'
  BY <1>11, <1>a DEF LaunchEffect
<1>12. ASSUME NEW p \in Procs, Record(p) PROVE FreshInv'
  BY <1>12 DEF Record
<1>13. ASSUME NEW p \in Procs, HealthOK(p) PROVE FreshInv'
  BY <1>13 DEF HealthOK
<1>14. ASSUME NEW p \in Procs, HealthFail(p) PROVE FreshInv'
  BY <1>14 DEF HealthFail
<1>15. ASSUME NEW p \in Procs, Drained(p) PROVE FreshInv'
  BY <1>15 DEF Drained
<1>16. ASSUME NEW p \in Procs, FailNote(p) PROVE FreshInv'
  BY <1>16 DEF FailNote
<1>17. ASSUME NEW p \in Procs, FailClose(p) PROVE FreshInv'
  BY <1>17 DEF FailClose
<1>18. ASSUME NEW p \in Procs, FailForget(p) PROVE FreshInv'
  BY <1>18 DEF FailForget, Forget
<1>19. ASSUME NEW p \in Procs, Publish(p) PROVE FreshInv'
  BY <1>19 DEF Publish
<1>20. ASSUME NEW p \in Procs, ChildExit(p) PROVE FreshInv'
  BY <1>20 DEF ChildExit
<1>21. ASSUME NEW p \in Procs, CloseDone(p) PROVE FreshInv'
  BY <1>21 DEF CloseDone
<1>22. ASSUME NEW p \in Procs, WatchForget(p) PROVE FreshInv'
  BY <1>22 DEF WatchForget, Forget, AfterForget
<1>23. ASSUME NEW p \in Procs, Unrecord(p) PROVE FreshInv'
  BY <1>23 DEF Unrecord
<1>24. ASSUME NEW p \in Procs, NoteExit(p) PROVE FreshInv'
  BY <1>24 DEF NoteExit, Crashed
<1>25. ASSUME NEW t \in Tasks, BeginStop(t) PROVE FreshInv'
  BY <1>25 DEF BeginStop
<1>26. ASSUME NEW t \in Tasks, StopAcquire(t) PROVE FreshInv'
  BY <1>26 DEF StopAcquire, LockFree
<1>27. ASSUME NEW t \in Tasks, NothingToStop(t) PROVE FreshInv'
  BY <1>27 DEF NothingToStop, Stopped, StopIdle
<1>28. ASSUME NEW t \in Tasks, Terminate(t) PROVE FreshInv'
  BY <1>28 DEF Terminate
<1>29. ASSUME NEW t \in Tasks, StopDrained(t) PROVE FreshInv'
  BY <1>29 DEF StopDrained, Stopped, StopIdle, Forget
<1>30. ASSUME NEW t \in Tasks, CopyDone(t) PROVE FreshInv'
  BY <1>30 DEF CopyDone, StopIdle
<1>31. ASSUME StopAll PROVE FreshInv'
  BY <1>31 DEF StopAll
<1>32. ASSUME Exit PROVE FreshInv'
  BY <1>32 DEF Exit, LoseMemory, Idle, StopIdle
<1>33. ASSUME Crash PROVE FreshInv'
  BY <1>33 DEF Crash, LoseMemory, Idle, StopIdle
<1>34. ASSUME Boot PROVE FreshInv'
  BY <1>34 DEF Boot
<1>35. ASSUME NEW r \in Rows, ReclaimRow(r) PROVE FreshInv'
  BY <1>35 DEF ReclaimRow
<1> QED BY <1>1, <1>2, <1>3, <1>4, <1>5, <1>6, <1>7, <1>8, <1>9, <1>10, <1>11, <1>12, <1>13, <1>14, <1>15, <1>16, <1>17, <1>18, <1>19, <1>20, <1>21, <1>22, <1>23, <1>24, <1>25, <1>26, <1>27, <1>28, <1>29, <1>30, <1>31, <1>32, <1>33, <1>34, <1>35
       DEF Next, Caller, StartStep, Watcher, StopStep

(* What is closed or forgotten is over. *)
LEMMA OverStep == ASSUME IInv, Next PROVE OverInv'
<1>a. ASSUME NEW p \in Procs, Launch(p) PROVE LaunchEffect(p)
  BY <1>a, LaunchFrame
<1> USE SuperviseAssumption DEF IInv, TypeOK, StartPC, Holding, BeforeLaunch, Fresh, Over, Alive, KeyInv, FreshInv, OverInv, CallInv, RowInv,
         Waiters, vars, world, table, chans, marks, starts
<1>1. ASSUME NEW c \in Callers, NEW k \in Keys, Ensure(c, k) PROVE OverInv'
  BY <1>1 DEF Ensure, Looking
<1>2. ASSUME NEW w \in Waiters, Refuse(w) PROVE OverInv'
  BY <1>2 DEF Refuse, Answer, Idle
<1>3. ASSUME NEW w \in Waiters, Join(w) PROVE OverInv'
  BY <1>3 DEF Join, Waiting
<1>4. ASSUME NEW w \in Waiters, GotReady(w) PROVE OverInv'
  BY <1>4 DEF GotReady, Answer, Idle
<1>5. ASSUME NEW w \in Waiters, GotDead(w) PROVE OverInv'
  BY <1>5 DEF GotDead, Answer, Idle, Looking, MayRetry, Forget
<1>6. ASSUME NEW w \in Waiters, GotFailed(w) PROVE OverInv'
  BY <1>6 DEF GotFailed, Answer, Idle, Forget
<1>7. ASSUME NEW w \in Waiters, NEW p \in Procs, Register(w, p) PROVE OverInv'
  BY <1>7 DEF Register, Waiting
<1>8. ASSUME NEW c \in Callers, GiveUp(c) PROVE OverInv'
  BY <1>8 DEF GiveUp, Answer, Idle
<1>9. ASSUME NEW p \in Procs, StartAcquire(p) PROVE OverInv'
  BY <1>9 DEF StartAcquire, LockFree
<1>10. ASSUME NEW p \in Procs, Load(p) PROVE OverInv'
  BY <1>10 DEF Load, Looking
<1>11. ASSUME NEW p \in Procs, Launch(p) PROVE OverInv'
  BY <1>11, <1>a DEF LaunchEffect
<1>12. ASSUME NEW p \in Procs, Record(p) PROVE OverInv'
  BY <1>12 DEF Record
<1>13. ASSUME NEW p \in Procs, HealthOK(p) PROVE OverInv'
  BY <1>13 DEF HealthOK
<1>14. ASSUME NEW p \in Procs, HealthFail(p) PROVE OverInv'
  BY <1>14 DEF HealthFail
<1>15. ASSUME NEW p \in Procs, Drained(p) PROVE OverInv'
  BY <1>15 DEF Drained
<1>16. ASSUME NEW p \in Procs, FailNote(p) PROVE OverInv'
  BY <1>16 DEF FailNote
<1>17. ASSUME NEW p \in Procs, FailClose(p) PROVE OverInv'
  BY <1>17 DEF FailClose
<1>18. ASSUME NEW p \in Procs, FailForget(p) PROVE OverInv'
  BY <1>18 DEF FailForget, Forget
<1>19. ASSUME NEW p \in Procs, Publish(p) PROVE OverInv'
  BY <1>19 DEF Publish
<1>20. ASSUME NEW p \in Procs, ChildExit(p) PROVE OverInv'
  BY <1>20 DEF ChildExit
<1>21. ASSUME NEW p \in Procs, CloseDone(p) PROVE OverInv'
  BY <1>21 DEF CloseDone
<1>22. ASSUME NEW p \in Procs, WatchForget(p) PROVE OverInv'
  BY <1>22 DEF WatchForget, Forget, AfterForget
<1>23. ASSUME NEW p \in Procs, Unrecord(p) PROVE OverInv'
  BY <1>23 DEF Unrecord
<1>24. ASSUME NEW p \in Procs, NoteExit(p) PROVE OverInv'
  BY <1>24 DEF NoteExit, Crashed
<1>25. ASSUME NEW t \in Tasks, BeginStop(t) PROVE OverInv'
  BY <1>25 DEF BeginStop
<1>26. ASSUME NEW t \in Tasks, StopAcquire(t) PROVE OverInv'
  BY <1>26 DEF StopAcquire, LockFree
<1>27. ASSUME NEW t \in Tasks, NothingToStop(t) PROVE OverInv'
  BY <1>27 DEF NothingToStop, Stopped, StopIdle
<1>28. ASSUME NEW t \in Tasks, Terminate(t) PROVE OverInv'
  BY <1>28 DEF Terminate
<1>29. ASSUME NEW t \in Tasks, StopDrained(t) PROVE OverInv'
  BY <1>29 DEF StopDrained, Stopped, StopIdle, Forget
<1>30. ASSUME NEW t \in Tasks, CopyDone(t) PROVE OverInv'
  BY <1>30 DEF CopyDone, StopIdle
<1>31. ASSUME StopAll PROVE OverInv'
  BY <1>31 DEF StopAll
<1>32. ASSUME Exit PROVE OverInv'
  BY <1>32 DEF Exit, LoseMemory, Idle, StopIdle
<1>33. ASSUME Crash PROVE OverInv'
  BY <1>33 DEF Crash, LoseMemory, Idle, StopIdle
<1>34. ASSUME Boot PROVE OverInv'
  BY <1>34 DEF Boot
<1>35. ASSUME NEW r \in Rows, ReclaimRow(r) PROVE OverInv'
  BY <1>35 DEF ReclaimRow
<1> QED BY <1>1, <1>2, <1>3, <1>4, <1>5, <1>6, <1>7, <1>8, <1>9, <1>10, <1>11, <1>12, <1>13, <1>14, <1>15, <1>16, <1>17, <1>18, <1>19, <1>20, <1>21, <1>22, <1>23, <1>24, <1>25, <1>26, <1>27, <1>28, <1>29, <1>30, <1>31, <1>32, <1>33, <1>34, <1>35
       DEF Next, Caller, StartStep, Watcher, StopStep

(* Only a start at its peer is in EnsureRunning. *)
LEMMA CallStep == ASSUME IInv, Next PROVE CallInv'
<1>a. ASSUME NEW p \in Procs, Launch(p) PROVE LaunchEffect(p)
  BY <1>a, LaunchFrame
<1>b. ASSUME NEW w \in Waiters, NEW q, Answer(w, q) PROVE AnswerEffect(w, q)
  BY <1>b, AnswerFrame DEF IInv
<1> USE SuperviseAssumption DEF IInv, TypeOK, KeyInv, CallInv, FreshInv, BeforeLaunch,
         Waiters, vars, world, table, chans, marks, starts
<1>1. ASSUME NEW c \in Callers, NEW k \in Keys, Ensure(c, k) PROVE CallInv'
  BY <1>1 DEF Ensure, Looking
<1>2. ASSUME NEW w \in Waiters, Refuse(w) PROVE CallInv'
  BY <1>2 DEF Refuse, Answer, Idle
<1>3. ASSUME NEW w \in Waiters, Join(w) PROVE CallInv'
  BY <1>3 DEF Join, Waiting
<1>4. ASSUME NEW w \in Waiters, GotReady(w) PROVE CallInv'
  BY <1>4 DEF GotReady, Answer, Idle
<1>5. ASSUME NEW w \in Waiters, GotDead(w) PROVE CallInv'
  <2>1. CASE MayRetry(w)
    <3>1. call' = [call EXCEPT ![w] = Looking(call[w].key, call[w].misses + 1)] /\ pc' = pc
      BY <1>5, <2>1 DEF GotDead
    <3>2. Looking(call[w].key, call[w].misses + 1).key = call[w].key
      BY DEF Looking
    <3> QED BY <1>5, <3>1, <3>2 DEF GotDead
  <2>2. CASE ~MayRetry(w)
    <3>1. Answer(w, None) /\ UNCHANGED key
      BY <1>5, <2>2 DEF GotDead
    <3>2. AnswerEffect(w, None)
      BY <3>1, <1>b
    <3>3. Idle.pc = "idle"
      BY DEF Idle
    <3> QED BY <3>1, <3>2, <3>3 DEF AnswerEffect
  <2> QED BY <2>1, <2>2
<1>6. ASSUME NEW w \in Waiters, GotFailed(w) PROVE CallInv'
  BY <1>6 DEF GotFailed, Answer, Idle, Forget
<1>7. ASSUME NEW w \in Waiters, NEW p \in Procs, Register(w, p) PROVE CallInv'
  BY <1>7 DEF Register, Waiting
<1>8. ASSUME NEW c \in Callers, GiveUp(c) PROVE CallInv'
  BY <1>8 DEF GiveUp, Answer, Idle
<1>9. ASSUME NEW p \in Procs, StartAcquire(p) PROVE CallInv'
  BY <1>9 DEF StartAcquire, LockFree
<1>10. ASSUME NEW p \in Procs, Load(p) PROVE CallInv'
  <2>1. pc[p] = "load" /\ key[p] \in Keys
    BY <1>10 DEF Load
  <2>2. CASE Peer[key[p]] # None
    <3>1. Looking(Peer[key[p]], 0).key \in Keys
      BY <2>1, <2>2 DEF Looking
    <3>2. CASE pc' = [pc EXCEPT ![p] = "fail"] /\ call' = call
      BY <1>10, <2>1, <3>2 DEF Load
    <3>3. CASE /\ pc' = [pc EXCEPT ![p] = "peer"]
               /\ call' = [call EXCEPT ![p] = Looking(Peer[key[p]], 0)]
      BY <3>1, <3>3
    <3> QED BY <1>10, <2>2, <3>2, <3>3 DEF Load
  <2>3. CASE Peer[key[p]] = None
    BY <1>10, <2>1, <2>3 DEF Load
  <2> QED BY <2>2, <2>3
<1>11. ASSUME NEW p \in Procs, Launch(p) PROVE CallInv'
  BY <1>11, <1>a DEF LaunchEffect
<1>12. ASSUME NEW p \in Procs, Record(p) PROVE CallInv'
  BY <1>12 DEF Record
<1>13. ASSUME NEW p \in Procs, HealthOK(p) PROVE CallInv'
  BY <1>13 DEF HealthOK
<1>14. ASSUME NEW p \in Procs, HealthFail(p) PROVE CallInv'
  BY <1>14 DEF HealthFail
<1>15. ASSUME NEW p \in Procs, Drained(p) PROVE CallInv'
  BY <1>15 DEF Drained
<1>16. ASSUME NEW p \in Procs, FailNote(p) PROVE CallInv'
  BY <1>16 DEF FailNote
<1>17. ASSUME NEW p \in Procs, FailClose(p) PROVE CallInv'
  BY <1>17 DEF FailClose
<1>18. ASSUME NEW p \in Procs, FailForget(p) PROVE CallInv'
  BY <1>18 DEF FailForget, Forget
<1>19. ASSUME NEW p \in Procs, Publish(p) PROVE CallInv'
  BY <1>19 DEF Publish
<1>20. ASSUME NEW p \in Procs, ChildExit(p) PROVE CallInv'
  BY <1>20 DEF ChildExit
<1>21. ASSUME NEW p \in Procs, CloseDone(p) PROVE CallInv'
  BY <1>21 DEF CloseDone
<1>22. ASSUME NEW p \in Procs, WatchForget(p) PROVE CallInv'
  BY <1>22 DEF WatchForget, Forget, AfterForget
<1>23. ASSUME NEW p \in Procs, Unrecord(p) PROVE CallInv'
  BY <1>23 DEF Unrecord
<1>24. ASSUME NEW p \in Procs, NoteExit(p) PROVE CallInv'
  BY <1>24 DEF NoteExit, Crashed
<1>25. ASSUME NEW t \in Tasks, BeginStop(t) PROVE CallInv'
  BY <1>25 DEF BeginStop
<1>26. ASSUME NEW t \in Tasks, StopAcquire(t) PROVE CallInv'
  BY <1>26 DEF StopAcquire, LockFree
<1>27. ASSUME NEW t \in Tasks, NothingToStop(t) PROVE CallInv'
  BY <1>27 DEF NothingToStop, Stopped, StopIdle
<1>28. ASSUME NEW t \in Tasks, Terminate(t) PROVE CallInv'
  BY <1>28 DEF Terminate
<1>29. ASSUME NEW t \in Tasks, StopDrained(t) PROVE CallInv'
  BY <1>29 DEF StopDrained, Stopped, StopIdle, Forget
<1>30. ASSUME NEW t \in Tasks, CopyDone(t) PROVE CallInv'
  BY <1>30 DEF CopyDone, StopIdle
<1>31. ASSUME StopAll PROVE CallInv'
  BY <1>31 DEF StopAll
<1>32. ASSUME Exit PROVE CallInv'
  BY <1>32 DEF Exit, LoseMemory, Idle, StopIdle
<1>33. ASSUME Crash PROVE CallInv'
  BY <1>33 DEF Crash, LoseMemory, Idle, StopIdle
<1>34. ASSUME Boot PROVE CallInv'
  BY <1>34 DEF Boot
<1>35. ASSUME NEW r \in Rows, ReclaimRow(r) PROVE CallInv'
  BY <1>35 DEF ReclaimRow
<1> QED BY <1>1, <1>2, <1>3, <1>4, <1>5, <1>6, <1>7, <1>8, <1>9, <1>10, <1>11, <1>12, <1>13, <1>14, <1>15, <1>16, <1>17, <1>18, <1>19, <1>20, <1>21, <1>22, <1>23, <1>24, <1>25, <1>26, <1>27, <1>28, <1>29, <1>30, <1>31, <1>32, <1>33, <1>34, <1>35
       DEF Next, Caller, StartStep, Watcher, StopStep

(* A running child stays in the table: each Forget is of one that is over. *)
LEMMA TrackedStep == ASSUME IInv, Next PROVE LiveChildTracked'
<1>a. ASSUME NEW p \in Procs, Launch(p) PROVE LaunchEffect(p)
  BY <1>a, LaunchFrame
<1> USE SuperviseAssumption DEF IInv, TypeOK, StartPC, Holding, BeforeLaunch, Fresh, Over, Alive, KeyInv, FreshInv, OverInv, CallInv, LiveChildTracked, DrainInv,
         Waiters, vars, world, table, chans, marks, starts
<1>1. ASSUME NEW c \in Callers, NEW k \in Keys, Ensure(c, k) PROVE LiveChildTracked'
  BY <1>1 DEF Ensure, Looking
<1>2. ASSUME NEW w \in Waiters, Refuse(w) PROVE LiveChildTracked'
  BY <1>2 DEF Refuse, Answer, Idle
<1>3. ASSUME NEW w \in Waiters, Join(w) PROVE LiveChildTracked'
  BY <1>3 DEF Join, Waiting
<1>4. ASSUME NEW w \in Waiters, GotReady(w) PROVE LiveChildTracked'
  BY <1>4 DEF GotReady, Answer, Idle
<1>5. ASSUME NEW w \in Waiters, GotDead(w) PROVE LiveChildTracked'
  BY <1>5 DEF GotDead, Answer, Idle, Looking, MayRetry, Forget
<1>6. ASSUME NEW w \in Waiters, GotFailed(w) PROVE LiveChildTracked'
  BY <1>6 DEF GotFailed, Answer, Idle, Forget
<1>7. ASSUME NEW w \in Waiters, NEW p \in Procs, Register(w, p) PROVE LiveChildTracked'
  BY <1>7 DEF Register, Waiting
<1>8. ASSUME NEW c \in Callers, GiveUp(c) PROVE LiveChildTracked'
  BY <1>8 DEF GiveUp, Answer, Idle
<1>9. ASSUME NEW p \in Procs, StartAcquire(p) PROVE LiveChildTracked'
  BY <1>9 DEF StartAcquire, LockFree
<1>10. ASSUME NEW p \in Procs, Load(p) PROVE LiveChildTracked'
  BY <1>10 DEF Load, Looking
<1>11. ASSUME NEW p \in Procs, Launch(p) PROVE LiveChildTracked'
  BY <1>11, <1>a DEF LaunchEffect
<1>12. ASSUME NEW p \in Procs, Record(p) PROVE LiveChildTracked'
  BY <1>12 DEF Record
<1>13. ASSUME NEW p \in Procs, HealthOK(p) PROVE LiveChildTracked'
  BY <1>13 DEF HealthOK
<1>14. ASSUME NEW p \in Procs, HealthFail(p) PROVE LiveChildTracked'
  BY <1>14 DEF HealthFail
<1>15. ASSUME NEW p \in Procs, Drained(p) PROVE LiveChildTracked'
  BY <1>15 DEF Drained
<1>16. ASSUME NEW p \in Procs, FailNote(p) PROVE LiveChildTracked'
  BY <1>16 DEF FailNote
<1>17. ASSUME NEW p \in Procs, FailClose(p) PROVE LiveChildTracked'
  BY <1>17 DEF FailClose
<1>18. ASSUME NEW p \in Procs, FailForget(p) PROVE LiveChildTracked'
  BY <1>18 DEF FailForget, Forget
<1>19. ASSUME NEW p \in Procs, Publish(p) PROVE LiveChildTracked'
  BY <1>19 DEF Publish
<1>20. ASSUME NEW p \in Procs, ChildExit(p) PROVE LiveChildTracked'
  BY <1>20 DEF ChildExit
<1>21. ASSUME NEW p \in Procs, CloseDone(p) PROVE LiveChildTracked'
  BY <1>21 DEF CloseDone
<1>22. ASSUME NEW p \in Procs, WatchForget(p) PROVE LiveChildTracked'
  BY <1>22 DEF WatchForget, Forget, AfterForget
<1>23. ASSUME NEW p \in Procs, Unrecord(p) PROVE LiveChildTracked'
  BY <1>23 DEF Unrecord
<1>24. ASSUME NEW p \in Procs, NoteExit(p) PROVE LiveChildTracked'
  BY <1>24 DEF NoteExit, Crashed
<1>25. ASSUME NEW t \in Tasks, BeginStop(t) PROVE LiveChildTracked'
  BY <1>25 DEF BeginStop
<1>26. ASSUME NEW t \in Tasks, StopAcquire(t) PROVE LiveChildTracked'
  BY <1>26 DEF StopAcquire, LockFree
<1>27. ASSUME NEW t \in Tasks, NothingToStop(t) PROVE LiveChildTracked'
  BY <1>27 DEF NothingToStop, Stopped, StopIdle
<1>28. ASSUME NEW t \in Tasks, Terminate(t) PROVE LiveChildTracked'
  BY <1>28 DEF Terminate
<1>29. ASSUME NEW t \in Tasks, StopDrained(t) PROVE LiveChildTracked'
  BY <1>29 DEF StopDrained, Stopped, StopIdle, Forget
<1>30. ASSUME NEW t \in Tasks, CopyDone(t) PROVE LiveChildTracked'
  BY <1>30 DEF CopyDone, StopIdle
<1>31. ASSUME StopAll PROVE LiveChildTracked'
  BY <1>31 DEF StopAll
<1>32. ASSUME Exit PROVE LiveChildTracked'
  BY <1>32 DEF Exit, LoseMemory, Idle, StopIdle
<1>33. ASSUME Crash PROVE LiveChildTracked'
  BY <1>33 DEF Crash, LoseMemory, Idle, StopIdle
<1>34. ASSUME Boot PROVE LiveChildTracked'
  BY <1>34 DEF Boot
<1>35. ASSUME NEW r \in Rows, ReclaimRow(r) PROVE LiveChildTracked'
  BY <1>35 DEF ReclaimRow
<1> QED BY <1>1, <1>2, <1>3, <1>4, <1>5, <1>6, <1>7, <1>8, <1>9, <1>10, <1>11, <1>12, <1>13, <1>14, <1>15, <1>16, <1>17, <1>18, <1>19, <1>20, <1>21, <1>22, <1>23, <1>24, <1>25, <1>26, <1>27, <1>28, <1>29, <1>30, <1>31, <1>32, <1>33, <1>34, <1>35
       DEF Next, Caller, StartStep, Watcher, StopStep

(* Nothing is launched under a key whose lock a stop holds. *)
LEMMA DrainStep == ASSUME IInv, Next PROVE DrainInv'
<1>a. ASSUME NEW p \in Procs, Launch(p) PROVE LaunchEffect(p)
  BY <1>a, LaunchFrame
<1> USE SuperviseAssumption DEF IInv, TypeOK, StartPC, Holding, HoldsStop, BeforeLaunch, Fresh, Over, Alive, KeyInv, LockInv, FreshInv, OverInv, LiveChildTracked, DrainInv, CopyInv,
         Waiters, vars, world, table, chans, marks, starts
<1>1. ASSUME NEW c \in Callers, NEW k \in Keys, Ensure(c, k) PROVE DrainInv'
  BY <1>1 DEF Ensure, Looking
<1>2. ASSUME NEW w \in Waiters, Refuse(w) PROVE DrainInv'
  BY <1>2 DEF Refuse, Answer, Idle
<1>3. ASSUME NEW w \in Waiters, Join(w) PROVE DrainInv'
  BY <1>3 DEF Join, Waiting
<1>4. ASSUME NEW w \in Waiters, GotReady(w) PROVE DrainInv'
  BY <1>4 DEF GotReady, Answer, Idle
<1>5. ASSUME NEW w \in Waiters, GotDead(w) PROVE DrainInv'
  BY <1>5 DEF GotDead, Answer, Idle, Looking, MayRetry, Forget
<1>6. ASSUME NEW w \in Waiters, GotFailed(w) PROVE DrainInv'
  BY <1>6 DEF GotFailed, Answer, Idle, Forget
<1>7. ASSUME NEW w \in Waiters, NEW p \in Procs, Register(w, p) PROVE DrainInv'
  BY <1>7 DEF Register, Waiting
<1>8. ASSUME NEW c \in Callers, GiveUp(c) PROVE DrainInv'
  BY <1>8 DEF GiveUp, Answer, Idle
<1>9. ASSUME NEW p \in Procs, StartAcquire(p) PROVE DrainInv'
  BY <1>9 DEF StartAcquire, LockFree
<1>10. ASSUME NEW p \in Procs, Load(p) PROVE DrainInv'
  BY <1>10 DEF Load, Looking
<1>11. ASSUME NEW p \in Procs, Launch(p) PROVE DrainInv'
  BY <1>11, <1>a DEF LaunchEffect
<1>12. ASSUME NEW p \in Procs, Record(p) PROVE DrainInv'
  BY <1>12 DEF Record
<1>13. ASSUME NEW p \in Procs, HealthOK(p) PROVE DrainInv'
  BY <1>13 DEF HealthOK
<1>14. ASSUME NEW p \in Procs, HealthFail(p) PROVE DrainInv'
  BY <1>14 DEF HealthFail
<1>15. ASSUME NEW p \in Procs, Drained(p) PROVE DrainInv'
  BY <1>15 DEF Drained
<1>16. ASSUME NEW p \in Procs, FailNote(p) PROVE DrainInv'
  BY <1>16 DEF FailNote
<1>17. ASSUME NEW p \in Procs, FailClose(p) PROVE DrainInv'
  BY <1>17 DEF FailClose
<1>18. ASSUME NEW p \in Procs, FailForget(p) PROVE DrainInv'
  BY <1>18 DEF FailForget, Forget
<1>19. ASSUME NEW p \in Procs, Publish(p) PROVE DrainInv'
  BY <1>19 DEF Publish
<1>20. ASSUME NEW p \in Procs, ChildExit(p) PROVE DrainInv'
  BY <1>20 DEF ChildExit
<1>21. ASSUME NEW p \in Procs, CloseDone(p) PROVE DrainInv'
  BY <1>21 DEF CloseDone
<1>22. ASSUME NEW p \in Procs, WatchForget(p) PROVE DrainInv'
  BY <1>22 DEF WatchForget, Forget, AfterForget
<1>23. ASSUME NEW p \in Procs, Unrecord(p) PROVE DrainInv'
  BY <1>23 DEF Unrecord
<1>24. ASSUME NEW p \in Procs, NoteExit(p) PROVE DrainInv'
  BY <1>24 DEF NoteExit, Crashed
<1>25. ASSUME NEW t \in Tasks, BeginStop(t) PROVE DrainInv'
  BY <1>25 DEF BeginStop
<1>26. ASSUME NEW t \in Tasks, StopAcquire(t) PROVE DrainInv'
  BY <1>26 DEF StopAcquire, LockFree
<1>27. ASSUME NEW t \in Tasks, NothingToStop(t) PROVE DrainInv'
  <2>1. CASE t[1] = "fork"
    BY <1>27, <2>1 DEF NothingToStop, Stopped, Forget
  <2>2. CASE t[1] # "fork"
    BY <1>27, <2>2 DEF NothingToStop, Stopped, StopIdle, Forget
  <2> QED BY <2>1, <2>2
<1>28. ASSUME NEW t \in Tasks, Terminate(t) PROVE DrainInv'
  BY <1>28 DEF Terminate
<1>29. ASSUME NEW t \in Tasks, StopDrained(t) PROVE DrainInv'
  <2>1. CASE t[1] = "fork"
    BY <1>29, <2>1 DEF StopDrained, Stopped, Forget
  <2>2. CASE t[1] # "fork"
    BY <1>29, <2>2 DEF StopDrained, Stopped, StopIdle, Forget
  <2> QED BY <2>1, <2>2
<1>30. ASSUME NEW t \in Tasks, CopyDone(t) PROVE DrainInv'
  BY <1>30 DEF CopyDone, StopIdle
<1>31. ASSUME StopAll PROVE DrainInv'
  BY <1>31 DEF StopAll
<1>32. ASSUME Exit PROVE DrainInv'
  BY <1>32 DEF Exit, LoseMemory, Idle, StopIdle
<1>33. ASSUME Crash PROVE DrainInv'
  BY <1>33 DEF Crash, LoseMemory, Idle, StopIdle
<1>34. ASSUME Boot PROVE DrainInv'
  BY <1>34 DEF Boot
<1>35. ASSUME NEW r \in Rows, ReclaimRow(r) PROVE DrainInv'
  BY <1>35 DEF ReclaimRow
<1> QED BY <1>1, <1>2, <1>3, <1>4, <1>5, <1>6, <1>7, <1>8, <1>9, <1>10, <1>11, <1>12, <1>13, <1>14, <1>15, <1>16, <1>17, <1>18, <1>19, <1>20, <1>21, <1>22, <1>23, <1>24, <1>25, <1>26, <1>27, <1>28, <1>29, <1>30, <1>31, <1>32, <1>33, <1>34, <1>35
       DEF Next, Caller, StartStep, Watcher, StopStep

(* Only a launched child is recorded. *)
LEMMA RowStep == ASSUME IInv, Next PROVE RowInv'
<1>a. ASSUME NEW p \in Procs, Launch(p) PROVE LaunchEffect(p)
  BY <1>a, LaunchFrame
<1> USE SuperviseAssumption DEF IInv, TypeOK, StartPC, Holding, BeforeLaunch, Fresh, KeyInv, CallInv, RowInv,
         Waiters, vars, world, table, chans, marks, starts
<1>1. ASSUME NEW c \in Callers, NEW k \in Keys, Ensure(c, k) PROVE RowInv'
  BY <1>1 DEF Ensure, Looking
<1>2. ASSUME NEW w \in Waiters, Refuse(w) PROVE RowInv'
  BY <1>2 DEF Refuse, Answer, Idle
<1>3. ASSUME NEW w \in Waiters, Join(w) PROVE RowInv'
  BY <1>3 DEF Join, Waiting
<1>4. ASSUME NEW w \in Waiters, GotReady(w) PROVE RowInv'
  BY <1>4 DEF GotReady, Answer, Idle
<1>5. ASSUME NEW w \in Waiters, GotDead(w) PROVE RowInv'
  BY <1>5 DEF GotDead, Answer, Idle, Looking, MayRetry, Forget
<1>6. ASSUME NEW w \in Waiters, GotFailed(w) PROVE RowInv'
  BY <1>6 DEF GotFailed, Answer, Idle, Forget
<1>7. ASSUME NEW w \in Waiters, NEW p \in Procs, Register(w, p) PROVE RowInv'
  BY <1>7 DEF Register, Waiting
<1>8. ASSUME NEW c \in Callers, GiveUp(c) PROVE RowInv'
  BY <1>8 DEF GiveUp, Answer, Idle
<1>9. ASSUME NEW p \in Procs, StartAcquire(p) PROVE RowInv'
  BY <1>9 DEF StartAcquire, LockFree
<1>10. ASSUME NEW p \in Procs, Load(p) PROVE RowInv'
  BY <1>10 DEF Load, Looking
<1>11. ASSUME NEW p \in Procs, Launch(p) PROVE RowInv'
  <2>1. \A q \in Procs : child[q] # "none" => child'[q] # "none"
    BY <1>11, <1>a DEF LaunchEffect
  <2>2. \A q \in Procs : pc'[q] = "record" => child'[q] # "none"
    BY <1>11, <1>a, <2>1 DEF LaunchEffect
  <2>3. UNCHANGED records
    BY <1>11, <1>a DEF LaunchEffect
  <2> QED BY <2>1, <2>2, <2>3
<1>12. ASSUME NEW p \in Procs, Record(p) PROVE RowInv'
  BY <1>12 DEF Record
<1>13. ASSUME NEW p \in Procs, HealthOK(p) PROVE RowInv'
  BY <1>13 DEF HealthOK
<1>14. ASSUME NEW p \in Procs, HealthFail(p) PROVE RowInv'
  BY <1>14 DEF HealthFail
<1>15. ASSUME NEW p \in Procs, Drained(p) PROVE RowInv'
  BY <1>15 DEF Drained
<1>16. ASSUME NEW p \in Procs, FailNote(p) PROVE RowInv'
  BY <1>16 DEF FailNote
<1>17. ASSUME NEW p \in Procs, FailClose(p) PROVE RowInv'
  BY <1>17 DEF FailClose
<1>18. ASSUME NEW p \in Procs, FailForget(p) PROVE RowInv'
  BY <1>18 DEF FailForget, Forget
<1>19. ASSUME NEW p \in Procs, Publish(p) PROVE RowInv'
  BY <1>19 DEF Publish
<1>20. ASSUME NEW p \in Procs, ChildExit(p) PROVE RowInv'
  BY <1>20 DEF ChildExit
<1>21. ASSUME NEW p \in Procs, CloseDone(p) PROVE RowInv'
  BY <1>21 DEF CloseDone
<1>22. ASSUME NEW p \in Procs, WatchForget(p) PROVE RowInv'
  BY <1>22 DEF WatchForget, Forget, AfterForget
<1>23. ASSUME NEW p \in Procs, Unrecord(p) PROVE RowInv'
  BY <1>23 DEF Unrecord
<1>24. ASSUME NEW p \in Procs, NoteExit(p) PROVE RowInv'
  BY <1>24 DEF NoteExit, Crashed
<1>25. ASSUME NEW t \in Tasks, BeginStop(t) PROVE RowInv'
  BY <1>25 DEF BeginStop
<1>26. ASSUME NEW t \in Tasks, StopAcquire(t) PROVE RowInv'
  BY <1>26 DEF StopAcquire, LockFree
<1>27. ASSUME NEW t \in Tasks, NothingToStop(t) PROVE RowInv'
  BY <1>27 DEF NothingToStop, Stopped, StopIdle
<1>28. ASSUME NEW t \in Tasks, Terminate(t) PROVE RowInv'
  BY <1>28 DEF Terminate
<1>29. ASSUME NEW t \in Tasks, StopDrained(t) PROVE RowInv'
  BY <1>29 DEF StopDrained, Stopped, StopIdle, Forget
<1>30. ASSUME NEW t \in Tasks, CopyDone(t) PROVE RowInv'
  BY <1>30 DEF CopyDone, StopIdle
<1>31. ASSUME StopAll PROVE RowInv'
  BY <1>31 DEF StopAll
<1>32. ASSUME Exit PROVE RowInv'
  BY <1>32 DEF Exit, LoseMemory, Idle, StopIdle
<1>33. ASSUME Crash PROVE RowInv'
  BY <1>33 DEF Crash, LoseMemory, Idle, StopIdle
<1>34. ASSUME Boot PROVE RowInv'
  BY <1>34 DEF Boot
<1>35. ASSUME NEW r \in Rows, ReclaimRow(r) PROVE RowInv'
  BY <1>35 DEF ReclaimRow
<1> QED BY <1>1, <1>2, <1>3, <1>4, <1>5, <1>6, <1>7, <1>8, <1>9, <1>10, <1>11, <1>12, <1>13, <1>14, <1>15, <1>16, <1>17, <1>18, <1>19, <1>20, <1>21, <1>22, <1>23, <1>24, <1>25, <1>26, <1>27, <1>28, <1>29, <1>30, <1>31, <1>32, <1>33, <1>34, <1>35
       DEF Next, Caller, StartStep, Watcher, StopStep

(* The stops of StopAll start with it. *)
LEMMA DownStep == ASSUME IInv, Next PROVE DownInv'
<1>a. ASSUME NEW p \in Procs, Launch(p) PROVE LaunchEffect(p)
  BY <1>a, LaunchFrame
<1> USE SuperviseAssumption DEF IInv, TypeOK, DownInv,
         Waiters, vars, world, table, chans, marks, starts
<1>1. ASSUME NEW c \in Callers, NEW k \in Keys, Ensure(c, k) PROVE DownInv'
  BY <1>1 DEF Ensure, Looking
<1>2. ASSUME NEW w \in Waiters, Refuse(w) PROVE DownInv'
  BY <1>2 DEF Refuse, Answer, Idle
<1>3. ASSUME NEW w \in Waiters, Join(w) PROVE DownInv'
  BY <1>3 DEF Join, Waiting
<1>4. ASSUME NEW w \in Waiters, GotReady(w) PROVE DownInv'
  BY <1>4 DEF GotReady, Answer, Idle
<1>5. ASSUME NEW w \in Waiters, GotDead(w) PROVE DownInv'
  BY <1>5 DEF GotDead, Answer, Idle, Looking, MayRetry, Forget
<1>6. ASSUME NEW w \in Waiters, GotFailed(w) PROVE DownInv'
  BY <1>6 DEF GotFailed, Answer, Idle, Forget
<1>7. ASSUME NEW w \in Waiters, NEW p \in Procs, Register(w, p) PROVE DownInv'
  BY <1>7 DEF Register, Waiting
<1>8. ASSUME NEW c \in Callers, GiveUp(c) PROVE DownInv'
  BY <1>8 DEF GiveUp, Answer, Idle
<1>9. ASSUME NEW p \in Procs, StartAcquire(p) PROVE DownInv'
  BY <1>9 DEF StartAcquire, LockFree
<1>10. ASSUME NEW p \in Procs, Load(p) PROVE DownInv'
  BY <1>10 DEF Load, Looking
<1>11. ASSUME NEW p \in Procs, Launch(p) PROVE DownInv'
  BY <1>11, <1>a DEF LaunchEffect
<1>12. ASSUME NEW p \in Procs, Record(p) PROVE DownInv'
  BY <1>12 DEF Record
<1>13. ASSUME NEW p \in Procs, HealthOK(p) PROVE DownInv'
  BY <1>13 DEF HealthOK
<1>14. ASSUME NEW p \in Procs, HealthFail(p) PROVE DownInv'
  BY <1>14 DEF HealthFail
<1>15. ASSUME NEW p \in Procs, Drained(p) PROVE DownInv'
  BY <1>15 DEF Drained
<1>16. ASSUME NEW p \in Procs, FailNote(p) PROVE DownInv'
  BY <1>16 DEF FailNote
<1>17. ASSUME NEW p \in Procs, FailClose(p) PROVE DownInv'
  BY <1>17 DEF FailClose
<1>18. ASSUME NEW p \in Procs, FailForget(p) PROVE DownInv'
  BY <1>18 DEF FailForget, Forget
<1>19. ASSUME NEW p \in Procs, Publish(p) PROVE DownInv'
  BY <1>19 DEF Publish
<1>20. ASSUME NEW p \in Procs, ChildExit(p) PROVE DownInv'
  BY <1>20 DEF ChildExit
<1>21. ASSUME NEW p \in Procs, CloseDone(p) PROVE DownInv'
  BY <1>21 DEF CloseDone
<1>22. ASSUME NEW p \in Procs, WatchForget(p) PROVE DownInv'
  BY <1>22 DEF WatchForget, Forget, AfterForget
<1>23. ASSUME NEW p \in Procs, Unrecord(p) PROVE DownInv'
  BY <1>23 DEF Unrecord
<1>24. ASSUME NEW p \in Procs, NoteExit(p) PROVE DownInv'
  BY <1>24 DEF NoteExit, Crashed
<1>25. ASSUME NEW t \in Tasks, BeginStop(t) PROVE DownInv'
  BY <1>25 DEF BeginStop
<1>26. ASSUME NEW t \in Tasks, StopAcquire(t) PROVE DownInv'
  BY <1>26 DEF StopAcquire, LockFree
<1>27. ASSUME NEW t \in Tasks, NothingToStop(t) PROVE DownInv'
  <2>1. CASE t[1] = "fork"
    BY <1>27, <2>1 DEF NothingToStop, Stopped, Forget
  <2>2. CASE t[1] # "fork"
    BY <1>27, <2>2 DEF NothingToStop, Stopped, StopIdle, Forget
  <2> QED BY <2>1, <2>2
<1>28. ASSUME NEW t \in Tasks, Terminate(t) PROVE DownInv'
  BY <1>28 DEF Terminate
<1>29. ASSUME NEW t \in Tasks, StopDrained(t) PROVE DownInv'
  <2>1. CASE t[1] = "fork"
    BY <1>29, <2>1 DEF StopDrained, Stopped, Forget
  <2>2. CASE t[1] # "fork"
    BY <1>29, <2>2 DEF StopDrained, Stopped, StopIdle, Forget
  <2> QED BY <2>1, <2>2
<1>30. ASSUME NEW t \in Tasks, CopyDone(t) PROVE DownInv'
  BY <1>30 DEF CopyDone, StopIdle
<1>31. ASSUME StopAll PROVE DownInv'
  BY <1>31 DEF StopAll
<1>32. ASSUME Exit PROVE DownInv'
  BY <1>32 DEF Exit, LoseMemory, Idle, StopIdle
<1>33. ASSUME Crash PROVE DownInv'
  BY <1>33 DEF Crash, LoseMemory, Idle, StopIdle
<1>34. ASSUME Boot PROVE DownInv'
  BY <1>34 DEF Boot
<1>35. ASSUME NEW r \in Rows, ReclaimRow(r) PROVE DownInv'
  BY <1>35 DEF ReclaimRow
<1> QED BY <1>1, <1>2, <1>3, <1>4, <1>5, <1>6, <1>7, <1>8, <1>9, <1>10, <1>11, <1>12, <1>13, <1>14, <1>15, <1>16, <1>17, <1>18, <1>19, <1>20, <1>21, <1>22, <1>23, <1>24, <1>25, <1>26, <1>27, <1>28, <1>29, <1>30, <1>31, <1>32, <1>33, <1>34, <1>35
       DEF Next, Caller, StartStep, Watcher, StopStep

(* A copy is nobody's drain. *)
LEMMA CopyStep == ASSUME IInv, Next PROVE CopyInv'
<1>a. ASSUME NEW p \in Procs, Launch(p) PROVE LaunchEffect(p)
  BY <1>a, LaunchFrame
<1> USE SuperviseAssumption DEF IInv, TypeOK, CopyInv,
         Waiters, vars, world, table, chans, marks, starts
<1>1. ASSUME NEW c \in Callers, NEW k \in Keys, Ensure(c, k) PROVE CopyInv'
  BY <1>1 DEF Ensure, Looking
<1>2. ASSUME NEW w \in Waiters, Refuse(w) PROVE CopyInv'
  BY <1>2 DEF Refuse, Answer, Idle
<1>3. ASSUME NEW w \in Waiters, Join(w) PROVE CopyInv'
  BY <1>3 DEF Join, Waiting
<1>4. ASSUME NEW w \in Waiters, GotReady(w) PROVE CopyInv'
  BY <1>4 DEF GotReady, Answer, Idle
<1>5. ASSUME NEW w \in Waiters, GotDead(w) PROVE CopyInv'
  BY <1>5 DEF GotDead, Answer, Idle, Looking, MayRetry, Forget
<1>6. ASSUME NEW w \in Waiters, GotFailed(w) PROVE CopyInv'
  BY <1>6 DEF GotFailed, Answer, Idle, Forget
<1>7. ASSUME NEW w \in Waiters, NEW p \in Procs, Register(w, p) PROVE CopyInv'
  BY <1>7 DEF Register, Waiting
<1>8. ASSUME NEW c \in Callers, GiveUp(c) PROVE CopyInv'
  BY <1>8 DEF GiveUp, Answer, Idle
<1>9. ASSUME NEW p \in Procs, StartAcquire(p) PROVE CopyInv'
  BY <1>9 DEF StartAcquire, LockFree
<1>10. ASSUME NEW p \in Procs, Load(p) PROVE CopyInv'
  BY <1>10 DEF Load, Looking
<1>11. ASSUME NEW p \in Procs, Launch(p) PROVE CopyInv'
  BY <1>11, <1>a DEF LaunchEffect
<1>12. ASSUME NEW p \in Procs, Record(p) PROVE CopyInv'
  BY <1>12 DEF Record
<1>13. ASSUME NEW p \in Procs, HealthOK(p) PROVE CopyInv'
  BY <1>13 DEF HealthOK
<1>14. ASSUME NEW p \in Procs, HealthFail(p) PROVE CopyInv'
  BY <1>14 DEF HealthFail
<1>15. ASSUME NEW p \in Procs, Drained(p) PROVE CopyInv'
  BY <1>15 DEF Drained
<1>16. ASSUME NEW p \in Procs, FailNote(p) PROVE CopyInv'
  BY <1>16 DEF FailNote
<1>17. ASSUME NEW p \in Procs, FailClose(p) PROVE CopyInv'
  BY <1>17 DEF FailClose
<1>18. ASSUME NEW p \in Procs, FailForget(p) PROVE CopyInv'
  BY <1>18 DEF FailForget, Forget
<1>19. ASSUME NEW p \in Procs, Publish(p) PROVE CopyInv'
  BY <1>19 DEF Publish
<1>20. ASSUME NEW p \in Procs, ChildExit(p) PROVE CopyInv'
  BY <1>20 DEF ChildExit
<1>21. ASSUME NEW p \in Procs, CloseDone(p) PROVE CopyInv'
  BY <1>21 DEF CloseDone
<1>22. ASSUME NEW p \in Procs, WatchForget(p) PROVE CopyInv'
  BY <1>22 DEF WatchForget, Forget, AfterForget
<1>23. ASSUME NEW p \in Procs, Unrecord(p) PROVE CopyInv'
  BY <1>23 DEF Unrecord
<1>24. ASSUME NEW p \in Procs, NoteExit(p) PROVE CopyInv'
  BY <1>24 DEF NoteExit, Crashed
<1>25. ASSUME NEW t \in Tasks, BeginStop(t) PROVE CopyInv'
  BY <1>25 DEF BeginStop
<1>26. ASSUME NEW t \in Tasks, StopAcquire(t) PROVE CopyInv'
  BY <1>26 DEF StopAcquire, LockFree
<1>27. ASSUME NEW t \in Tasks, NothingToStop(t) PROVE CopyInv'
  BY <1>27 DEF NothingToStop, Stopped, StopIdle
<1>28. ASSUME NEW t \in Tasks, Terminate(t) PROVE CopyInv'
  BY <1>28 DEF Terminate
<1>29. ASSUME NEW t \in Tasks, StopDrained(t) PROVE CopyInv'
  BY <1>29 DEF StopDrained, Stopped, StopIdle, Forget
<1>30. ASSUME NEW t \in Tasks, CopyDone(t) PROVE CopyInv'
  BY <1>30 DEF CopyDone, StopIdle
<1>31. ASSUME StopAll PROVE CopyInv'
  BY <1>31 DEF StopAll
<1>32. ASSUME Exit PROVE CopyInv'
  BY <1>32 DEF Exit, LoseMemory, Idle, StopIdle
<1>33. ASSUME Crash PROVE CopyInv'
  BY <1>33 DEF Crash, LoseMemory, Idle, StopIdle
<1>34. ASSUME Boot PROVE CopyInv'
  BY <1>34 DEF Boot
<1>35. ASSUME NEW r \in Rows, ReclaimRow(r) PROVE CopyInv'
  BY <1>35 DEF ReclaimRow
<1> QED BY <1>1, <1>2, <1>3, <1>4, <1>5, <1>6, <1>7, <1>8, <1>9, <1>10, <1>11, <1>12, <1>13, <1>14, <1>15, <1>16, <1>17, <1>18, <1>19, <1>20, <1>21, <1>22, <1>23, <1>24, <1>25, <1>26, <1>27, <1>28, <1>29, <1>30, <1>31, <1>32, <1>33, <1>34, <1>35
       DEF Next, Caller, StartStep, Watcher, StopStep

(* Nothing has happened initially. *)
LEMMA InitIInv == ASSUME Init PROVE IInv
<1> USE SuperviseAssumption DEF Init, TypeOK, Waiters, Rows
<1>1. TypeOK
  <2>1. call \in [Waiters -> CallSet]
    BY CallRecords
  <2>2. stop \in [Tasks -> StopSet]
    BY DEF StopIdle, StopSet
  <2> QED BY <2>1, <2>2 DEF CallSet, StopSet, StartPC, WatchPC
<1>2. KeyInv
  BY DEF KeyInv
<1>3. LockInv
  BY DEF LockInv, Holding, HoldsStop, StopIdle
<1>4. FreshInv /\ OverInv
  BY DEF FreshInv, OverInv, Fresh, BeforeLaunch, Alive
<1>5. CallInv
  BY DEF CallInv, Idle
<1>6. LiveChildTracked
  BY DEF LiveChildTracked, Alive
<1>7. DrainInv /\ CopyInv /\ DownInv
  BY DEF DrainInv, CopyInv, DownInv, StopIdle
<1>8. RowInv
  BY DEF RowInv
<1> QED BY <1>1, <1>2, <1>3, <1>4, <1>5, <1>6, <1>7, <1>8 DEF IInv

LEMMA StutterIInv == ASSUME IInv, UNCHANGED vars PROVE IInv'
BY DEF IInv, vars, TypeOK, KeyInv, LockInv, FreshInv, OverInv, CallInv, DrainInv, CopyInv,
       RowInv, DownInv, LiveChildTracked, Alive, Over, Fresh

(* The inductive invariant holds of every behaviour. *)
THEOREM Inductive == Spec => []IInv
<1>1. IInv /\ [Next]_vars => IInv'
  <2>1. ASSUME IInv, Next PROVE IInv'
    BY <2>1, TypeStep, KeyStep, LockStep, FreshStep, OverStep, CallStep, TrackedStep,
       DrainStep, CopyStep, RowStep, DownStep DEF IInv
  <2> QED BY <2>1, StutterIInv
<1> QED BY InitIInv, <1>1, PTL DEF Spec

(* Every variable keeps its type, so every key that is locked, filed or
   recorded is a key and every process that is named is one. *)
THEOREM TypeCorrect == Spec => []TypeOK
BY Inductive, PTL DEF IInv

(* A running child is the tracked process of its key (EnsureRunning, forget
   and the exit watcher of start): Stop and the reaper can reach it. *)
THEOREM LiveChildIsTracked == Spec => []LiveChildTracked
BY Inductive, PTL DEF IInv

(* A key never has two running children, whatever starts, stops, dies or
   restarts around it (EnsureRunning, start, stopLocked). *)
THEOREM AtMostOneChild == Spec => []OneChildPerKey
<1>1. IInv => OneChildPerKey
  BY DEF IInv, LiveChildTracked, OneChildPerKey
<1> QED BY <1>1, Inductive, PTL

(* While ForkOrInitStateDir copies a state directory no child of its backend
   runs. *)
THEOREM CopyIsQuiesced == Spec => []QuiescedCopy
<1>1. IInv => QuiescedCopy
  BY SuperviseAssumption DEF IInv, TypeOK, DrainInv, CopyInv, QuiescedCopy, InCopy
<1> QED BY <1>1, Inductive, PTL

-----------------------------------------------------------------------------
(* The refinement of KeyLife *)

RunOf(k)   == IF Served(k) = {} THEN None ELSE CHOOSE p \in Served(k) : TRUE
Copying    == {k \in Keys : InCopy(k)}
Spent      == {p \in Procs : child[p] # "none"}

(* Under the invariant RunOf(k) is the running child of k. *)
LEMMA RunOfIsChild ==
    ASSUME IInv, NEW k \in Keys
    PROVE  /\ \A p \in Procs : Alive(p) /\ key[p] = k => RunOf(k) = p
           /\ (\A p \in Procs : ~(Alive(p) /\ key[p] = k)) => RunOf(k) = None
<1>1. \A p \in Served(k) : Served(k) = {p}
  BY DEF IInv, LiveChildTracked, Served
<1>2. ASSUME NEW p \in Procs, Alive(p), key[p] = k PROVE RunOf(k) = p
  <2>1. p \in Served(k)
    BY <1>2 DEF Served
  <2>2. Served(k) = {p}
    BY <1>1, <2>1
  <2>3. (CHOOSE q \in {p} : TRUE) = p
    OBVIOUS
  <2> QED BY <2>2, <2>3 DEF RunOf
<1>3. (\A p \in Procs : ~(Alive(p) /\ key[p] = k)) => RunOf(k) = None
  BY DEF RunOf, Served
<1> QED BY <1>2, <1>3

LEMMA RunOfPrime ==
    ASSUME IInv', NEW k \in Keys
    PROVE  /\ \A p \in Procs : Alive(p)' /\ key'[p] = k => RunOf(k)' = p
           /\ (\A p \in Procs : ~(Alive(p)' /\ key'[p] = k)) => RunOf(k)' = None
<1>1. \A p \in Served(k)' : Served(k)' = {p}
  BY DEF IInv, LiveChildTracked, Served
<1>2. ASSUME NEW p \in Procs, Alive(p)', key'[p] = k PROVE RunOf(k)' = p
  <2>1. p \in Served(k)'
    BY <1>2 DEF Served
  <2>2. Served(k)' = {p}
    BY <1>1, <2>1
  <2>3. (CHOOSE q \in {p} : TRUE) = p
    OBVIOUS
  <2> QED BY <2>2, <2>3 DEF RunOf
<1>3. (\A p \in Procs : ~(Alive(p)' /\ key'[p] = k)) => RunOf(k)' = None
  BY DEF RunOf, Served
<1> QED BY <1>2, <1>3

(* What a step that neither starts nor ends a child, nor a copy, shows of
   KeyLife: nothing. *)
LEMMA Invisible ==
    ASSUME IInv, IInv',
           \A p \in Procs : /\ Alive(p)' <=> Alive(p)
                            /\ Alive(p) => key'[p] = key[p]
                            /\ child'[p] = "none" <=> child[p] = "none",
           \A t \in Tasks : stop'[t].pc = "copy" <=> stop[t].pc = "copy"
    PROVE  UNCHANGED KL!vars
<1>1. ASSUME NEW k \in Keys PROVE RunOf(k)' = RunOf(k)
  <2>1. CASE \E p \in Procs : Alive(p) /\ key[p] = k
    BY <2>1, RunOfIsChild, RunOfPrime
  <2>2. CASE \A p \in Procs : ~(Alive(p) /\ key[p] = k)
    BY <2>2, RunOfIsChild, RunOfPrime
  <2> QED BY <2>1, <2>2
<1>2. [k \in Keys |-> RunOf(k)]' = [k \in Keys |-> RunOf(k)]
  BY <1>1
<1>3. Copying' = Copying
  BY DEF Copying, InCopy
<1>4. Spent' = Spent
  BY DEF Spent
<1> QED BY <1>2, <1>3, <1>4 DEF KL!vars, RunOf, Copying, Spent

LEMMA KLInit == Init => KL!Init
<1> SUFFICES ASSUME Init PROVE KL!Init
  OBVIOUS
<1>1. \A k \in Keys : RunOf(k) = None
  BY DEF Init, RunOf, Served, Alive
<1>2. Copying = {} /\ Spent = {}
  BY DEF Init, Copying, Spent, InCopy, StopIdle
<1> QED BY <1>1, <1>2 DEF KL!Init, RunOf, Copying, Spent

(* A launch is a launch. *)
LEMMA KLLaunch ==
    ASSUME IInv, IInv', NEW p \in Procs, Launch(p) PROVE [KL!Next]_(KL!vars)
<1>a. LaunchEffect(p)
  BY LaunchFrame
<1> USE SuperviseAssumption DEF IInv, TypeOK, KeyInv
<1>1. pc[p] = "launch" /\ key[p] \in Keys /\ child[p] = "none"
  BY <1>a DEF LaunchEffect
<1>2. key' = key /\ stop' = stop
  BY <1>a DEF LaunchEffect
<1>3. ASSUME NEW q \in Procs, q # p
      PROVE  (Alive(q)' <=> Alive(q)) /\ (child'[q] = "none" <=> child[q] = "none")
  BY <1>a, <1>3 DEF LaunchEffect, Alive
<1>4. child'[p] \in {"none", "alive"}
  BY <1>a DEF LaunchEffect
<1>5. CASE child'[p] = "none"
  <2>1. \A q \in Procs : Alive(q)' <=> Alive(q)
    BY <1>1, <1>3, <1>5 DEF Alive
  <2>2. \A q \in Procs : child'[q] = "none" <=> child[q] = "none"
    BY <1>1, <1>3, <1>5
  <2> QED BY <1>2, <2>1, <2>2, Invisible
<1>6. CASE child'[p] = "alive"
  <2>0. PICK k \in Keys : k = key[p]
    BY <1>1
  <2>1. \A q \in Procs : ~(Alive(q) /\ key[q] = k)
    BY <1>1, <2>0 DEF FreshInv, BeforeLaunch, LiveChildTracked, Alive
  <2>2. RunOf(k) = None
    BY <2>0, <2>1, RunOfIsChild
  <2>4. RunOf(k)' = p
    BY <1>1, <1>2, <1>6, <2>0, RunOfPrime DEF Alive
  <2>5. ASSUME NEW j \in Keys, j # k PROVE RunOf(j)' = RunOf(j)
    <3>1. CASE \E q \in Procs : Alive(q) /\ key[q] = j
      <4>1. PICK q \in Procs : Alive(q) /\ key[q] = j
        BY <3>1
      <4>2. q # p /\ key'[q] = j
        BY <1>2, <2>0, <2>5, <4>1
      <4>3. Alive(q)'
        BY <1>3, <4>1, <4>2
      <4> QED BY <4>1, <4>2, <4>3, RunOfIsChild, RunOfPrime
    <3>2. CASE \A q \in Procs : ~(Alive(q) /\ key[q] = j)
      <4>1. \A q \in Procs : ~(Alive(q)' /\ key'[q] = j)
        BY <1>2, <1>3, <2>0, <2>5, <3>2
      <4> QED BY <3>2, <4>1, RunOfIsChild, RunOfPrime
    <3> QED BY <3>1, <3>2
  <2>6. [j \in Keys |-> RunOf(j)]' = [[j \in Keys |-> RunOf(j)] EXCEPT ![k] = p]
    <3>1. \A j \in Keys : RunOf(j)' = IF j = k THEN p ELSE RunOf(j)
      BY <2>0, <2>4, <2>5
    <3>2. [[j \in Keys |-> RunOf(j)] EXCEPT ![k] = p]
          = [j \in Keys |-> IF j = k THEN p ELSE RunOf(j)]
      OBVIOUS
    <3> QED BY <3>1, <3>2
  <2>7. Copying' = Copying
    BY <1>2 DEF Copying, InCopy
  <2>8. Spent' = Spent \cup {p} /\ p \notin Spent
    BY <1>1, <1>3, <1>6 DEF Spent
  <2>9. k \notin Copying
    BY <1>1, <2>0 DEF Copying, InCopy, LockInv, Holding, HoldsStop
  <2>10. KL!Launch(k, p)
    BY <1>1, <2>0, <2>2, <2>6, <2>7, <2>8, <2>9 DEF KL!Launch, RunOf, Copying, Spent
  <2> QED BY <1>1, <2>10 DEF KL!Next
<1> QED BY <1>4, <1>5, <1>6

(* The end of a child is its death. *)
LEMMA KLDie ==
    ASSUME IInv, IInv', NEW p \in Procs, child[p] # "none",
           child' = [child EXCEPT ![p] = "exited"], key' = key, stop' = stop
    PROVE  [KL!Next]_(KL!vars)
<1> USE SuperviseAssumption DEF IInv, TypeOK, KeyInv
<1>1. CASE ~Alive(p)
  BY <1>1, Invisible DEF Alive
<1>2. CASE Alive(p)
  <2>1. PICK k \in Keys : k = key[p]
    BY <1>2 DEF LiveChildTracked, FreshInv, Fresh, Alive
  <2>2. \A q \in Procs : Alive(q) /\ key[q] = k => q = p
    BY <1>2, <2>1 DEF LiveChildTracked
  <2>3. RunOf(k)' = None
    BY <2>1, <2>2, RunOfPrime DEF Alive
  <2>4. ASSUME NEW j \in Keys, j # k PROVE RunOf(j)' = RunOf(j)
    <3>1. CASE \E q \in Procs : Alive(q) /\ key[q] = j
      BY <2>1, <2>4, <3>1, RunOfIsChild, RunOfPrime DEF Alive
    <3>2. CASE \A q \in Procs : ~(Alive(q) /\ key[q] = j)
      BY <2>1, <2>4, <3>2, RunOfIsChild, RunOfPrime DEF Alive
    <3> QED BY <3>1, <3>2
  <2>5. [j \in Keys |-> RunOf(j)]' = [[j \in Keys |-> RunOf(j)] EXCEPT ![k] = None]
    <3>1. \A j \in Keys : RunOf(j)' = IF j = k THEN None ELSE RunOf(j)
      BY <2>1, <2>3, <2>4
    <3>2. [[j \in Keys |-> RunOf(j)] EXCEPT ![k] = None]
          = [j \in Keys |-> IF j = k THEN None ELSE RunOf(j)]
      OBVIOUS
    <3> QED BY <3>1, <3>2
  <2>6. Copying' = Copying /\ Spent' = Spent
    BY DEF Copying, InCopy, Spent
  <2>7. KL!Die(k)
    BY <2>1, <2>5, <2>6 DEF KL!Die, RunOf, Copying, Spent
  <2> QED BY <2>1, <2>7 DEF KL!Next
<1> QED BY <1>1, <1>2

(* A stop that is over releases the key, or begins the copy of a fork. *)
LEMMA KLStopped ==
    ASSUME IInv, IInv', NEW t \in Tasks, Stopped(t), child' = child, key' = key,
           stop[t].pc # "copy"
    PROVE  [KL!Next]_(KL!vars)
<1> USE SuperviseAssumption DEF IInv, TypeOK
<1>1. CASE t[1] = "fork"
  <2> DEFINE k == t[2]
  <2>1. stop' = [stop EXCEPT ![t] = [pc |-> "copy", p |-> None]] /\ k \in Keys
    BY <1>1 DEF Stopped
  <2>2. Copying' = Copying \cup {k}
    BY <2>1 DEF Copying, InCopy
  <2>3. \A q \in Procs : ~(Alive(q)' /\ key'[q] = k)
    BY <2>1 DEF DrainInv, CopyInv
  <2>4. \A q \in Procs : ~(Alive(q) /\ key[q] = k)
    BY <2>3 DEF Alive
  <2>5. RunOf(k) = None
    BY <2>1, <2>4, RunOfIsChild
  <2>6. ASSUME NEW j \in Keys PROVE RunOf(j)' = RunOf(j)
    <3>1. CASE \E q \in Procs : Alive(q) /\ key[q] = j
      BY <3>1, RunOfIsChild, RunOfPrime DEF Alive
    <3>2. CASE \A q \in Procs : ~(Alive(q) /\ key[q] = j)
      <4>1. \A q \in Procs : ~(Alive(q)' /\ key'[q] = j)
        BY <3>2 DEF Alive
      <4> QED BY <3>2, <4>1, RunOfIsChild, RunOfPrime
    <3> QED BY <3>1, <3>2
  <2>7. [j \in Keys |-> RunOf(j)]' = [j \in Keys |-> RunOf(j)] /\ Spent' = Spent
    BY <2>6 DEF Spent
  <2>8. KL!BeginCopy(k)
    BY <2>1, <2>2, <2>5, <2>7 DEF KL!BeginCopy, RunOf, Copying, Spent
  <2> QED BY <2>1, <2>8 DEF KL!Next
<1>2. CASE t[1] # "fork"
  <2>1. stop' = [stop EXCEPT ![t] = StopIdle]
    BY <1>2 DEF Stopped
  <2>2. \A u \in Tasks : stop'[u].pc = "copy" <=> stop[u].pc = "copy"
    BY <2>1 DEF StopIdle
  <2> QED BY <2>2, Invisible DEF Alive
<1> QED BY <1>1, <1>2

(* The end of a copy. *)
LEMMA KLCopied ==
    ASSUME IInv, IInv', NEW t \in Tasks, CopyDone(t) PROVE [KL!Next]_(KL!vars)
<1> USE SuperviseAssumption DEF IInv, TypeOK, world, table, chans, marks, starts
<1> DEFINE k == t[2]
<1>1. stop[t].pc = "copy" /\ k \in Keys /\ stop' = [stop EXCEPT ![t] = StopIdle]
        /\ child' = child /\ key' = key
  BY DEF CopyDone
<1>2. \A u \in Tasks : u[2] = k /\ stop[u].pc = "copy" => u = t
  BY <1>1 DEF LockInv, HoldsStop
<1>3. Copying' = Copying \ {k}
  <2>1. \A u \in Tasks : stop'[u].pc = "copy" <=> stop[u].pc = "copy" /\ u # t
    BY <1>1 DEF StopIdle
  <2> QED BY <1>1, <1>2, <2>1 DEF Copying, InCopy
<1>4. ASSUME NEW j \in Keys PROVE RunOf(j)' = RunOf(j)
  <2>1. CASE \E q \in Procs : Alive(q) /\ key[q] = j
    BY <1>1, <2>1, RunOfIsChild, RunOfPrime DEF Alive
  <2>2. CASE \A q \in Procs : ~(Alive(q) /\ key[q] = j)
    <3>1. \A q \in Procs : ~(Alive(q)' /\ key'[q] = j)
      BY <1>1, <2>2 DEF Alive
    <3> QED BY <2>2, <3>1, RunOfIsChild, RunOfPrime
  <2> QED BY <2>1, <2>2
<1>5. [j \in Keys |-> RunOf(j)]' = [j \in Keys |-> RunOf(j)] /\ Spent' = Spent
  BY <1>1, <1>4 DEF Spent
<1>6. KL!EndCopy(k)
  BY <1>3, <1>5 DEF KL!EndCopy, RunOf, Copying, Spent
<1> QED BY <1>1, <1>6 DEF KL!Next

(* The end of the program is the end of every child it served. *)
LEMMA KLLose ==
    ASSUME IInv, IInv', LoseMemory PROVE [KL!Next]_(KL!vars)
<1> USE SuperviseAssumption DEF IInv, TypeOK
<1>1. child' = [p \in Procs |-> IF child[p] = "alive" THEN "orphan" ELSE child[p]]
        /\ key' = key /\ stop' = [t \in Tasks |-> StopIdle]
  BY DEF LoseMemory
<1>2. \A k \in Keys : RunOf(k)' = None
  BY <1>1, RunOfPrime DEF Alive
<1>3. Copying' = {}
  BY <1>1 DEF Copying, InCopy, StopIdle
<1>4. Spent' = Spent
  BY <1>1 DEF Spent
<1>5. KL!Lose
  <2>1. [k \in Keys |-> RunOf(k)]' = [k \in Keys |-> None]
    BY <1>2
  <2> QED BY <1>3, <1>4, <2>1 DEF KL!Lose, RunOf, Copying, Spent
<1> QED BY <1>5 DEF KL!Next

(* Every step of the manager is a step of KeyLife or none. *)
LEMMA KLStep == ASSUME IInv, IInv', [Next]_vars PROVE [KL!Next]_(KL!vars)
<1> USE SuperviseAssumption DEF vars, world, table, chans, marks, starts
<1>1. ASSUME NEW c \in Callers, NEW k \in Keys, Ensure(c, k) PROVE [KL!Next]_(KL!vars)
  BY <1>1, Invisible DEF Ensure, Alive, IInv, TypeOK
<1>2. ASSUME NEW w \in Waiters, Refuse(w) PROVE [KL!Next]_(KL!vars)
  BY <1>2, Invisible DEF Refuse, Alive, IInv, TypeOK
<1>3. ASSUME NEW w \in Waiters, Join(w) PROVE [KL!Next]_(KL!vars)
  BY <1>3, Invisible DEF Join, Alive, IInv, TypeOK
<1>4. ASSUME NEW w \in Waiters, GotReady(w) PROVE [KL!Next]_(KL!vars)
  BY <1>4, Invisible DEF GotReady, Alive, IInv, TypeOK
<1>5. ASSUME NEW w \in Waiters, GotDead(w) PROVE [KL!Next]_(KL!vars)
  BY <1>5, Invisible DEF GotDead, Alive, IInv, TypeOK
<1>6. ASSUME NEW w \in Waiters, GotFailed(w) PROVE [KL!Next]_(KL!vars)
  BY <1>6, Invisible DEF GotFailed, Alive, IInv, TypeOK
<1>7. ASSUME NEW w \in Waiters, NEW p \in Procs, Register(w, p) PROVE [KL!Next]_(KL!vars)
  <2>1. /\ \A q \in Procs : Alive(q) => q # p
        /\ child' = child /\ stop' = stop /\ key' = [key EXCEPT ![p] = call[w].key]
    BY <1>7 DEF Register, IInv, TypeOK, FreshInv, Fresh, Alive
  <2> QED BY <2>1, Invisible DEF Alive, IInv, TypeOK
<1>8. ASSUME NEW c \in Callers, GiveUp(c) PROVE [KL!Next]_(KL!vars)
  BY <1>8, Invisible DEF GiveUp, Alive, IInv, TypeOK
<1>9. ASSUME NEW p \in Procs, StartAcquire(p) PROVE [KL!Next]_(KL!vars)
  BY <1>9, Invisible DEF StartAcquire, Alive, IInv, TypeOK
<1>10. ASSUME NEW p \in Procs, Load(p) PROVE [KL!Next]_(KL!vars)
  BY <1>10, Invisible DEF Load, Alive, IInv, TypeOK
<1>11. ASSUME NEW p \in Procs, Launch(p) PROVE [KL!Next]_(KL!vars)
  BY <1>11, KLLaunch
<1>12. ASSUME NEW p \in Procs, Record(p) PROVE [KL!Next]_(KL!vars)
  BY <1>12, Invisible DEF Record, Alive, IInv, TypeOK
<1>13. ASSUME NEW p \in Procs, HealthOK(p) PROVE [KL!Next]_(KL!vars)
  BY <1>13, Invisible DEF HealthOK, Alive, IInv, TypeOK
<1>14. ASSUME NEW p \in Procs, HealthFail(p) PROVE [KL!Next]_(KL!vars)
  BY <1>14, Invisible DEF HealthFail, Alive, IInv, TypeOK
<1>15. ASSUME NEW p \in Procs, Drained(p) PROVE [KL!Next]_(KL!vars)
  BY <1>15, Invisible DEF Drained, Alive, IInv, TypeOK
<1>16. ASSUME NEW p \in Procs, FailNote(p) PROVE [KL!Next]_(KL!vars)
  BY <1>16, Invisible DEF FailNote, Alive, IInv, TypeOK
<1>17. ASSUME NEW p \in Procs, FailClose(p) PROVE [KL!Next]_(KL!vars)
  BY <1>17, Invisible DEF FailClose, Alive, IInv, TypeOK
<1>18. ASSUME NEW p \in Procs, FailForget(p) PROVE [KL!Next]_(KL!vars)
  BY <1>18, Invisible DEF FailForget, Alive, IInv, TypeOK
<1>19. ASSUME NEW p \in Procs, Publish(p) PROVE [KL!Next]_(KL!vars)
  BY <1>19, Invisible DEF Publish, Alive, IInv, TypeOK
<1>20. ASSUME NEW p \in Procs, ChildExit(p) PROVE [KL!Next]_(KL!vars)
  BY <1>20, KLDie DEF ChildExit
<1>21. ASSUME NEW p \in Procs, CloseDone(p) PROVE [KL!Next]_(KL!vars)
  BY <1>21, Invisible DEF CloseDone, Alive, IInv, TypeOK
<1>22. ASSUME NEW p \in Procs, WatchForget(p) PROVE [KL!Next]_(KL!vars)
  BY <1>22, Invisible DEF WatchForget, Alive, IInv, TypeOK
<1>23. ASSUME NEW p \in Procs, Unrecord(p) PROVE [KL!Next]_(KL!vars)
  BY <1>23, Invisible DEF Unrecord, Alive, IInv, TypeOK
<1>24. ASSUME NEW p \in Procs, NoteExit(p) PROVE [KL!Next]_(KL!vars)
  BY <1>24, Invisible DEF NoteExit, Alive, IInv, TypeOK
<1>25. ASSUME NEW t \in Tasks, BeginStop(t) PROVE [KL!Next]_(KL!vars)
  BY <1>25, Invisible DEF BeginStop, Alive, IInv, TypeOK
<1>26. ASSUME NEW t \in Tasks, StopAcquire(t) PROVE [KL!Next]_(KL!vars)
  BY <1>26, Invisible DEF StopAcquire, Alive, IInv, TypeOK
<1>27. ASSUME NEW t \in Tasks, NothingToStop(t) PROVE [KL!Next]_(KL!vars)
  BY <1>27, KLStopped DEF NothingToStop
<1>28. ASSUME NEW t \in Tasks, Terminate(t) PROVE [KL!Next]_(KL!vars)
  BY <1>28, Invisible DEF Terminate, Alive, IInv, TypeOK
<1>29. ASSUME NEW t \in Tasks, StopDrained(t) PROVE [KL!Next]_(KL!vars)
  BY <1>29, KLStopped DEF StopDrained
<1>30. ASSUME NEW t \in Tasks, CopyDone(t) PROVE [KL!Next]_(KL!vars)
  BY <1>30, KLCopied
<1>31. ASSUME StopAll PROVE [KL!Next]_(KL!vars)
  BY <1>31, Invisible DEF StopAll, Alive, IInv, TypeOK, DownInv
<1>32. ASSUME Exit PROVE [KL!Next]_(KL!vars)
  BY <1>32, KLLose DEF Exit
<1>33. ASSUME Crash PROVE [KL!Next]_(KL!vars)
  BY <1>33, KLLose DEF Crash
<1>34. ASSUME Boot PROVE [KL!Next]_(KL!vars)
  BY <1>34, Invisible DEF Boot, Alive, IInv, TypeOK
<1>35. ASSUME NEW r \in Rows, ReclaimRow(r) PROVE [KL!Next]_(KL!vars)
  <2>1. records[r] \in Procs /\ child[records[r]] # "none"
    BY <1>35 DEF ReclaimRow, IInv, TypeOK, RowInv
  <2> QED BY <1>35, <2>1, KLDie DEF ReclaimRow
<1>36. CASE UNCHANGED vars
  BY <1>36, Invisible DEF Alive
<1> QED BY <1>1, <1>2, <1>3, <1>4, <1>5, <1>6, <1>7, <1>8, <1>9, <1>10, <1>11, <1>12, <1>13, <1>14, <1>15, <1>16, <1>17, <1>18, <1>19, <1>20, <1>21, <1>22, <1>23, <1>24, <1>25, <1>26, <1>27, <1>28, <1>29, <1>30, <1>31, <1>32, <1>33, <1>34, <1>35, <1>36
       DEF Next, Caller, StartStep, Watcher, StopStep

(* supervise.Manager keeps the promise of KeyLife: one child per key, one
   launch per process object, and no copy beside a running child. *)
THEOREM KeyLifeImplemented == Spec => ImplementsKeyLife
<1>1. Spec => []IInv
  BY Inductive
<1>2. IInv /\ IInv' /\ [Next]_vars => [KL!Next]_(KL!vars)
  BY KLStep
<1> QED BY <1>1, <1>2, KLInit, PTL DEF Spec, ImplementsKeyLife, KL!Spec

--------------------------------------------------------------------------------
(***************************************************************************)
(* What else holds of the process table: its entries are decided,          *)
(* process_records rows name a child somebody still watches, what outlived *)
(* an earlier life has no rival, a frontend runs only with a backend that  *)
(* was healthy, and a Stop leaves nothing running.                         *)
(***************************************************************************)

(* A host child has no container, whether recorded yet or still unlaunched. *)
BoxInv ==
    \A p \in Procs : Fresh(p) \/ pc[p] = "record" => p \notin boxed

(* A caller waits on a process of the key it asked for; a start waits for
   its own peer, and once it is past its peer it has that backend's port. *)
PeerInv ==
    /\ \A w \in Waiters : call[w].pc = "wait" => call[w].p \in Procs /\ key[call[w].p] = call[w].key
    /\ \A w \in Procs : call[w].pc # "idle" => call[w].key = Peer[key[w]]
    /\ \A p \in Procs : (pc[p] = "launch" \/ Alive(p)) /\ Peer[key[p]] # None =>
            peer[p] \in ready /\ key[peer[p]] = Peer[key[p]]

(* While the manager serves, a row names a host child whose watcher has yet to
   delete it. *)
RecordNotStale ==
    \A r \in Rows : life = "serving" /\ records[r] # None =>
        /\ Row[key[records[r]]] = r /\ records[r] \notin boxed
        /\ watch[records[r]] \in {"wait", "forget", "unrecord"}

(* Between two lives of the program nothing of it runs.  A host child that
   outlived its own is unnamed or, until the manager serves again, named by its
   row; a container that did has no other of its key beside it. *)
OrphanInv ==
    /\ life # "serving" =>
          /\ \A w \in Waiters : call[w].pc = "idle"
          /\ \A p \in Procs : /\ pc[p] \in {"unused", "end"} /\ watch[p] \in {"none", "end"}
                               /\ child[p] # "alive"
    /\ \A q \in Procs \ boxed : child[q] = "orphan" =>
          q \in unnamed \/ (life # "serving" /\ records[Row[key[q]]] = q)
    /\ \A p, q \in boxed : child[p] = "alive" /\ child[q] = "orphan" => key[p] # key[q]

Books ==
    /\ BoxInv /\ RecordNotStale /\ PeerInv /\ TrackedHasOutcome /\ OrphanInv


(* A row names an object whose watcher has yet to delete it. *)
LEMMA RowOwner ==
    ASSUME TypeOK, RecordNotStale, life = "serving", NEW r \in Rows, records[r] # None
    PROVE  records[r] \in Procs /\ watch[records[r]] \in {"wait", "forget", "unrecord"}
BY DEF TypeOK, RecordNotStale

(* An EnsureRunning that fails hands no port to a start. *)
LEMMA NoAnswer ==
    ASSUME IInv, PeerInv, NEW w \in Waiters, call[w].pc # "idle", Answer(w, None),
           UNCHANGED <<key, child, ready>>
    PROVE  PeerInv'
<1> USE SuperviseAssumption DEF IInv, TypeOK, Waiters
<1>1. call' = [call EXCEPT ![w] = Idle] /\ Idle.pc = "idle"
  BY DEF Answer, Idle
<1>2. \A x \in Waiters : x # w => call'[x] = call[x]
  BY <1>1
<1>3. CASE w \in Procs
  <2>1. ~Alive(w) /\ pc' = [pc EXCEPT ![w] = "fail"] /\ peer' = [peer EXCEPT ![w] = None]
    BY <1>3 DEF CallInv, FreshInv, Fresh, BeforeLaunch, Alive, Answer
  <2>2. \A p \in Procs : p # w => pc'[p] = pc[p] /\ peer'[p] = peer[p]
    BY <2>1
  <2>3. pc'[w] # "launch"
    BY <1>3, <2>1
  <2> QED BY <1>1, <1>2, <2>1, <2>2, <2>3 DEF PeerInv, Alive
<1>4. CASE w \notin Procs
  <2>1. UNCHANGED <<pc, peer>>
    BY <1>4 DEF Answer
  <2> QED BY <1>1, <1>2, <2>1 DEF PeerInv, Alive
<1> QED BY <1>3, <1>4

(* Only a launch in a container puts an object in a box. *)
LEMMA BoxStep == ASSUME IInv, Books, Next PROVE BoxInv'
<1>a. ASSUME NEW p \in Procs, Launch(p) PROVE LaunchEffect(p)
  BY <1>a, LaunchFrame
<1> USE SuperviseAssumption DEF IInv, Books, TypeOK, StartPC, Holding, BeforeLaunch, Fresh, KeyInv, CallInv, BoxInv,
         Waiters, vars, world, table, chans, marks, starts
<1>1. ASSUME NEW c \in Callers, NEW k \in Keys, Ensure(c, k) PROVE BoxInv'
  BY <1>1 DEF Ensure, Looking
<1>2. ASSUME NEW w \in Waiters, Refuse(w) PROVE BoxInv'
  BY <1>2 DEF Refuse, Answer, Idle
<1>3. ASSUME NEW w \in Waiters, Join(w) PROVE BoxInv'
  BY <1>3 DEF Join, Waiting
<1>4. ASSUME NEW w \in Waiters, GotReady(w) PROVE BoxInv'
  BY <1>4 DEF GotReady, Answer, Idle
<1>5. ASSUME NEW w \in Waiters, GotDead(w) PROVE BoxInv'
  BY <1>5 DEF GotDead, Answer, Idle, Looking, MayRetry, Forget
<1>6. ASSUME NEW w \in Waiters, GotFailed(w) PROVE BoxInv'
  BY <1>6 DEF GotFailed, Answer, Idle, Forget
<1>7. ASSUME NEW w \in Waiters, NEW p \in Procs, Register(w, p) PROVE BoxInv'
  BY <1>7 DEF Register, Waiting
<1>8. ASSUME NEW c \in Callers, GiveUp(c) PROVE BoxInv'
  BY <1>8 DEF GiveUp, Answer, Idle
<1>9. ASSUME NEW p \in Procs, StartAcquire(p) PROVE BoxInv'
  BY <1>9 DEF StartAcquire, LockFree
<1>10. ASSUME NEW p \in Procs, Load(p) PROVE BoxInv'
  BY <1>10 DEF Load, Looking
<1>11. ASSUME NEW p \in Procs, Launch(p) PROVE BoxInv'
  BY <1>11, <1>a DEF LaunchEffect
<1>12. ASSUME NEW p \in Procs, Record(p) PROVE BoxInv'
  BY <1>12 DEF Record
<1>13. ASSUME NEW p \in Procs, HealthOK(p) PROVE BoxInv'
  BY <1>13 DEF HealthOK
<1>14. ASSUME NEW p \in Procs, HealthFail(p) PROVE BoxInv'
  BY <1>14 DEF HealthFail
<1>15. ASSUME NEW p \in Procs, Drained(p) PROVE BoxInv'
  BY <1>15 DEF Drained
<1>16. ASSUME NEW p \in Procs, FailNote(p) PROVE BoxInv'
  BY <1>16 DEF FailNote
<1>17. ASSUME NEW p \in Procs, FailClose(p) PROVE BoxInv'
  BY <1>17 DEF FailClose
<1>18. ASSUME NEW p \in Procs, FailForget(p) PROVE BoxInv'
  BY <1>18 DEF FailForget, Forget
<1>19. ASSUME NEW p \in Procs, Publish(p) PROVE BoxInv'
  BY <1>19 DEF Publish
<1>20. ASSUME NEW p \in Procs, ChildExit(p) PROVE BoxInv'
  BY <1>20 DEF ChildExit
<1>21. ASSUME NEW p \in Procs, CloseDone(p) PROVE BoxInv'
  BY <1>21 DEF CloseDone
<1>22. ASSUME NEW p \in Procs, WatchForget(p) PROVE BoxInv'
  BY <1>22 DEF WatchForget, Forget, AfterForget
<1>23. ASSUME NEW p \in Procs, Unrecord(p) PROVE BoxInv'
  BY <1>23 DEF Unrecord
<1>24. ASSUME NEW p \in Procs, NoteExit(p) PROVE BoxInv'
  BY <1>24 DEF NoteExit, Crashed
<1>25. ASSUME NEW t \in Tasks, BeginStop(t) PROVE BoxInv'
  BY <1>25 DEF BeginStop
<1>26. ASSUME NEW t \in Tasks, StopAcquire(t) PROVE BoxInv'
  BY <1>26 DEF StopAcquire, LockFree
<1>27. ASSUME NEW t \in Tasks, NothingToStop(t) PROVE BoxInv'
  BY <1>27 DEF NothingToStop, Stopped, StopIdle
<1>28. ASSUME NEW t \in Tasks, Terminate(t) PROVE BoxInv'
  BY <1>28 DEF Terminate
<1>29. ASSUME NEW t \in Tasks, StopDrained(t) PROVE BoxInv'
  BY <1>29 DEF StopDrained, Stopped, StopIdle, Forget
<1>30. ASSUME NEW t \in Tasks, CopyDone(t) PROVE BoxInv'
  BY <1>30 DEF CopyDone, StopIdle
<1>31. ASSUME StopAll PROVE BoxInv'
  BY <1>31 DEF StopAll
<1>32. ASSUME Exit PROVE BoxInv'
  BY <1>32 DEF Exit, LoseMemory, Idle, StopIdle
<1>33. ASSUME Crash PROVE BoxInv'
  BY <1>33 DEF Crash, LoseMemory, Idle, StopIdle
<1>34. ASSUME Boot PROVE BoxInv'
  BY <1>34 DEF Boot
<1>35. ASSUME NEW r \in Rows, ReclaimRow(r) PROVE BoxInv'
  BY <1>35 DEF ReclaimRow
<1> QED BY <1>1, <1>2, <1>3, <1>4, <1>5, <1>6, <1>7, <1>8, <1>9, <1>10, <1>11, <1>12, <1>13, <1>14, <1>15, <1>16, <1>17, <1>18, <1>19, <1>20, <1>21, <1>22, <1>23, <1>24, <1>25, <1>26, <1>27, <1>28, <1>29, <1>30, <1>31, <1>32, <1>33, <1>34, <1>35
       DEF Next, Caller, StartStep, Watcher, StopStep

(* A row goes before its watcher does. *)
LEMMA RecordStep == ASSUME IInv, Books, Next PROVE RecordNotStale'
<1>a. ASSUME NEW p \in Procs, Launch(p) PROVE LaunchEffect(p)
  BY <1>a, LaunchFrame
<1> USE SuperviseAssumption DEF IInv, Books, TypeOK, StartPC, Holding, BeforeLaunch, Fresh, KeyInv, FreshInv, OverInv, CallInv, RowInv, BoxInv, RecordNotStale,
         Waiters, vars, world, table, chans, marks, starts
<1>1. ASSUME NEW c \in Callers, NEW k \in Keys, Ensure(c, k) PROVE RecordNotStale'
  BY <1>1 DEF Ensure, Looking
<1>2. ASSUME NEW w \in Waiters, Refuse(w) PROVE RecordNotStale'
  BY <1>2 DEF Refuse, Answer, Idle
<1>3. ASSUME NEW w \in Waiters, Join(w) PROVE RecordNotStale'
  BY <1>3 DEF Join, Waiting
<1>4. ASSUME NEW w \in Waiters, GotReady(w) PROVE RecordNotStale'
  BY <1>4 DEF GotReady, Answer, Idle
<1>5. ASSUME NEW w \in Waiters, GotDead(w) PROVE RecordNotStale'
  BY <1>5 DEF GotDead, Answer, Idle, Looking, MayRetry, Forget
<1>6. ASSUME NEW w \in Waiters, GotFailed(w) PROVE RecordNotStale'
  BY <1>6 DEF GotFailed, Answer, Idle, Forget
<1>7. ASSUME NEW w \in Waiters, NEW p \in Procs, Register(w, p) PROVE RecordNotStale'
  <2>1. \A r \in Rows : records[r] # p
    BY <1>7 DEF Register
  <2>2. \A q \in Procs : q # p => key'[q] = key[q]
    BY <1>7 DEF Register
  <2> QED BY <1>7, <2>1, <2>2 DEF Register
<1>8. ASSUME NEW c \in Callers, GiveUp(c) PROVE RecordNotStale'
  BY <1>8 DEF GiveUp, Answer, Idle
<1>9. ASSUME NEW p \in Procs, StartAcquire(p) PROVE RecordNotStale'
  BY <1>9 DEF StartAcquire, LockFree
<1>10. ASSUME NEW p \in Procs, Load(p) PROVE RecordNotStale'
  BY <1>10 DEF Load, Looking
<1>11. ASSUME NEW p \in Procs, Launch(p) PROVE RecordNotStale'
  BY <1>11, <1>a DEF LaunchEffect
<1>12. ASSUME NEW p \in Procs, Record(p) PROVE RecordNotStale'
  <2>1. p \notin boxed /\ watch'[p] = "wait" /\ key[p] \in Keys
    BY <1>12 DEF Record
  <2>2. ASSUME NEW r \in Rows, life = "serving", records'[r] # None
        PROVE  /\ Row[key[records'[r]]] = r /\ records'[r] \notin boxed
               /\ watch'[records'[r]] \in {"wait", "forget", "unrecord"}
    <3>1. CASE r = Row[key[p]]
      BY <1>12, <2>1, <3>1 DEF Record
    <3>2. CASE r # Row[key[p]]
      <4>1. records'[r] = records[r] /\ UNCHANGED <<key, boxed>> /\ watch' = [watch EXCEPT ![p] = "wait"]
        BY <1>12, <3>2 DEF Record
      <4> QED BY <2>2, <4>1
    <3> QED BY <3>1, <3>2
  <2> QED BY <1>12, <2>2 DEF Record
<1>13. ASSUME NEW p \in Procs, HealthOK(p) PROVE RecordNotStale'
  BY <1>13 DEF HealthOK
<1>14. ASSUME NEW p \in Procs, HealthFail(p) PROVE RecordNotStale'
  BY <1>14 DEF HealthFail
<1>15. ASSUME NEW p \in Procs, Drained(p) PROVE RecordNotStale'
  BY <1>15 DEF Drained
<1>16. ASSUME NEW p \in Procs, FailNote(p) PROVE RecordNotStale'
  BY <1>16 DEF FailNote
<1>17. ASSUME NEW p \in Procs, FailClose(p) PROVE RecordNotStale'
  BY <1>17 DEF FailClose
<1>18. ASSUME NEW p \in Procs, FailForget(p) PROVE RecordNotStale'
  BY <1>18 DEF FailForget, Forget
<1>19. ASSUME NEW p \in Procs, Publish(p) PROVE RecordNotStale'
  BY <1>19 DEF Publish
<1>20. ASSUME NEW p \in Procs, ChildExit(p) PROVE RecordNotStale'
  BY <1>20 DEF ChildExit
<1>21. ASSUME NEW p \in Procs, CloseDone(p) PROVE RecordNotStale'
  BY <1>21 DEF CloseDone
<1>22. ASSUME NEW p \in Procs, WatchForget(p) PROVE RecordNotStale'
  BY <1>22 DEF WatchForget, Forget, AfterForget
<1>23. ASSUME NEW p \in Procs, Unrecord(p) PROVE RecordNotStale'
  BY <1>23 DEF Unrecord
<1>24. ASSUME NEW p \in Procs, NoteExit(p) PROVE RecordNotStale'
  <2>1. watch[p] = "note" /\ UNCHANGED <<life, records, key, boxed>> /\ watch' = [watch EXCEPT ![p] = "end"]
    BY <1>24 DEF NoteExit
  <2>2. ASSUME NEW r \in Rows, life = "serving", records[r] # None
        PROVE  records[r] # p /\ records[r] \in Procs
    BY <2>1, <2>2, RowOwner
  <2> QED BY <2>1, <2>2
<1>25. ASSUME NEW t \in Tasks, BeginStop(t) PROVE RecordNotStale'
  BY <1>25 DEF BeginStop
<1>26. ASSUME NEW t \in Tasks, StopAcquire(t) PROVE RecordNotStale'
  BY <1>26 DEF StopAcquire, LockFree
<1>27. ASSUME NEW t \in Tasks, NothingToStop(t) PROVE RecordNotStale'
  BY <1>27 DEF NothingToStop, Stopped, StopIdle
<1>28. ASSUME NEW t \in Tasks, Terminate(t) PROVE RecordNotStale'
  BY <1>28 DEF Terminate
<1>29. ASSUME NEW t \in Tasks, StopDrained(t) PROVE RecordNotStale'
  BY <1>29 DEF StopDrained, Stopped, StopIdle, Forget
<1>30. ASSUME NEW t \in Tasks, CopyDone(t) PROVE RecordNotStale'
  BY <1>30 DEF CopyDone, StopIdle
<1>31. ASSUME StopAll PROVE RecordNotStale'
  BY <1>31 DEF StopAll
<1>32. ASSUME Exit PROVE RecordNotStale'
  BY <1>32 DEF Exit, LoseMemory, Idle, StopIdle
<1>33. ASSUME Crash PROVE RecordNotStale'
  BY <1>33 DEF Crash, LoseMemory, Idle, StopIdle
<1>34. ASSUME Boot PROVE RecordNotStale'
  BY <1>34 DEF Boot
<1>35. ASSUME NEW r \in Rows, ReclaimRow(r) PROVE RecordNotStale'
  BY <1>35 DEF ReclaimRow
<1> QED BY <1>1, <1>2, <1>3, <1>4, <1>5, <1>6, <1>7, <1>8, <1>9, <1>10, <1>11, <1>12, <1>13, <1>14, <1>15, <1>16, <1>17, <1>18, <1>19, <1>20, <1>21, <1>22, <1>23, <1>24, <1>25, <1>26, <1>27, <1>28, <1>29, <1>30, <1>31, <1>32, <1>33, <1>34, <1>35
       DEF Next, Caller, StartStep, Watcher, StopStep

(* A port is passed on only from a process that was healthy. *)
LEMMA PeerStep == ASSUME IInv, Books, Next PROVE PeerInv'
<1>a. ASSUME NEW p \in Procs, Launch(p) PROVE LaunchEffect(p)
  BY <1>a, LaunchFrame
<1> USE SuperviseAssumption DEF IInv, Books, TypeOK, StartPC, Holding, BeforeLaunch, Fresh, Alive, KeyInv, FreshInv, CallInv, PeerInv,
         Waiters, vars, world, table, chans, marks, starts
<1>1. ASSUME NEW c \in Callers, NEW k \in Keys, Ensure(c, k) PROVE PeerInv'
  BY <1>1 DEF Ensure, Looking
<1>2. ASSUME NEW w \in Waiters, Refuse(w) PROVE PeerInv'
  <2>1. Answer(w, None) /\ UNCHANGED <<key, child, ready>> /\ call[w].pc # "idle"
    BY <1>2 DEF Refuse
  <2> QED BY <2>1, NoAnswer
<1>3. ASSUME NEW w \in Waiters, Join(w) PROVE PeerInv'
  BY <1>3 DEF Join, Waiting
<1>4. ASSUME NEW w \in Waiters, GotReady(w) PROVE PeerInv'
  <2> DEFINE q == call[w].p
  <2>1. q \in ready /\ q \in Procs /\ key[q] = call[w].key /\ Answer(w, q)
          /\ UNCHANGED <<key, child, ready>>
    BY <1>4 DEF GotReady
  <2>2. call' = [call EXCEPT ![w] = Idle] /\ Idle.pc = "idle"
    BY <2>1 DEF Answer, Idle
  <2>3. CASE w \in Procs
    <3>1. peer' = [peer EXCEPT ![w] = q] /\ pc' = [pc EXCEPT ![w] = "launch"] /\ q # None
      BY <2>1, <2>3 DEF Answer
    <3>2. key[q] = Peer[key[w]]
      BY <1>4, <2>1, <2>3 DEF GotReady
    <3> QED BY <2>1, <2>2, <3>1, <3>2
  <2>4. CASE w \notin Procs
    <3>1. UNCHANGED <<pc, peer>>
      BY <2>1, <2>4 DEF Answer
    <3> QED BY <2>1, <2>2, <3>1
  <2> QED BY <2>3, <2>4
<1>5. ASSUME NEW w \in Waiters, GotDead(w) PROVE PeerInv'
  <2>1. CASE MayRetry(w)
    <3>1. /\ call' = [call EXCEPT ![w] = Looking(call[w].key, call[w].misses + 1)]
          /\ UNCHANGED <<pc, peer, key, child, ready>>
      BY <1>5, <2>1 DEF GotDead
    <3>2. /\ Looking(call[w].key, call[w].misses + 1).key = call[w].key
          /\ Looking(call[w].key, call[w].misses + 1).pc = "lookup"
      BY DEF Looking
    <3> QED BY <1>5, <3>1, <3>2 DEF GotDead
  <2>2. CASE ~MayRetry(w)
    <3>1. Answer(w, None) /\ UNCHANGED <<key, child, ready>>
      BY <1>5, <2>2 DEF GotDead
    <3> QED BY <1>5, <3>1, NoAnswer DEF GotDead
  <2> QED BY <2>1, <2>2
<1>6. ASSUME NEW w \in Waiters, GotFailed(w) PROVE PeerInv'
  <2>1. Answer(w, None) /\ UNCHANGED <<key, child, ready>>
    BY <1>6 DEF GotFailed
  <2> QED BY <1>6, <2>1, NoAnswer DEF GotFailed
<1>7. ASSUME NEW w \in Waiters, NEW p \in Procs, Register(w, p) PROVE PeerInv'
  BY <1>7 DEF Register, Waiting
<1>8. ASSUME NEW c \in Callers, GiveUp(c) PROVE PeerInv'
  BY <1>8 DEF GiveUp, Answer, Idle
<1>9. ASSUME NEW p \in Procs, StartAcquire(p) PROVE PeerInv'
  BY <1>9 DEF StartAcquire, LockFree
<1>10. ASSUME NEW p \in Procs, Load(p) PROVE PeerInv'
  <2>1. key[p] \in Keys /\ ~Alive(p) /\ call[p].pc = "idle"
    BY <1>10 DEF Load
  <2>2. CASE pc' = [pc EXCEPT ![p] = "fail"] /\ call' = call
    BY <1>10, <2>1, <2>2 DEF Load
  <2>3. CASE Peer[key[p]] = None /\ pc' = [pc EXCEPT ![p] = "launch"] /\ call' = call
    BY <1>10, <2>1, <2>3 DEF Load
  <2>4. CASE /\ pc' = [pc EXCEPT ![p] = "peer"]
             /\ call' = [call EXCEPT ![p] = Looking(Peer[key[p]], 0)]
    <3>1. Looking(Peer[key[p]], 0).key = Peer[key[p]] /\ Looking(Peer[key[p]], 0).pc = "lookup"
      BY DEF Looking
    <3> QED BY <1>10, <2>1, <2>4, <3>1 DEF Load
  <2> QED BY <1>10, <2>2, <2>3, <2>4 DEF Load
<1>11. ASSUME NEW p \in Procs, Launch(p) PROVE PeerInv'
  BY <1>11, <1>a DEF LaunchEffect
<1>12. ASSUME NEW p \in Procs, Record(p) PROVE PeerInv'
  BY <1>12 DEF Record
<1>13. ASSUME NEW p \in Procs, HealthOK(p) PROVE PeerInv'
  BY <1>13 DEF HealthOK
<1>14. ASSUME NEW p \in Procs, HealthFail(p) PROVE PeerInv'
  BY <1>14 DEF HealthFail
<1>15. ASSUME NEW p \in Procs, Drained(p) PROVE PeerInv'
  BY <1>15 DEF Drained
<1>16. ASSUME NEW p \in Procs, FailNote(p) PROVE PeerInv'
  BY <1>16 DEF FailNote
<1>17. ASSUME NEW p \in Procs, FailClose(p) PROVE PeerInv'
  BY <1>17 DEF FailClose
<1>18. ASSUME NEW p \in Procs, FailForget(p) PROVE PeerInv'
  BY <1>18 DEF FailForget, Forget
<1>19. ASSUME NEW p \in Procs, Publish(p) PROVE PeerInv'
  BY <1>19 DEF Publish
<1>20. ASSUME NEW p \in Procs, ChildExit(p) PROVE PeerInv'
  BY <1>20 DEF ChildExit
<1>21. ASSUME NEW p \in Procs, CloseDone(p) PROVE PeerInv'
  BY <1>21 DEF CloseDone
<1>22. ASSUME NEW p \in Procs, WatchForget(p) PROVE PeerInv'
  BY <1>22 DEF WatchForget, Forget, AfterForget
<1>23. ASSUME NEW p \in Procs, Unrecord(p) PROVE PeerInv'
  BY <1>23 DEF Unrecord
<1>24. ASSUME NEW p \in Procs, NoteExit(p) PROVE PeerInv'
  BY <1>24 DEF NoteExit, Crashed
<1>25. ASSUME NEW t \in Tasks, BeginStop(t) PROVE PeerInv'
  BY <1>25 DEF BeginStop
<1>26. ASSUME NEW t \in Tasks, StopAcquire(t) PROVE PeerInv'
  BY <1>26 DEF StopAcquire, LockFree
<1>27. ASSUME NEW t \in Tasks, NothingToStop(t) PROVE PeerInv'
  BY <1>27 DEF NothingToStop, Stopped, StopIdle
<1>28. ASSUME NEW t \in Tasks, Terminate(t) PROVE PeerInv'
  BY <1>28 DEF Terminate
<1>29. ASSUME NEW t \in Tasks, StopDrained(t) PROVE PeerInv'
  BY <1>29 DEF StopDrained, Stopped, StopIdle, Forget
<1>30. ASSUME NEW t \in Tasks, CopyDone(t) PROVE PeerInv'
  BY <1>30 DEF CopyDone, StopIdle
<1>31. ASSUME StopAll PROVE PeerInv'
  BY <1>31 DEF StopAll
<1>32. ASSUME Exit PROVE PeerInv'
  BY <1>32 DEF Exit, LoseMemory, Idle, StopIdle
<1>33. ASSUME Crash PROVE PeerInv'
  BY <1>33 DEF Crash, LoseMemory, Idle, StopIdle
<1>34. ASSUME Boot PROVE PeerInv'
  BY <1>34 DEF Boot
<1>35. ASSUME NEW r \in Rows, ReclaimRow(r) PROVE PeerInv'
  BY <1>35 DEF ReclaimRow
<1> QED BY <1>1, <1>2, <1>3, <1>4, <1>5, <1>6, <1>7, <1>8, <1>9, <1>10, <1>11, <1>12, <1>13, <1>14, <1>15, <1>16, <1>17, <1>18, <1>19, <1>20, <1>21, <1>22, <1>23, <1>24, <1>25, <1>26, <1>27, <1>28, <1>29, <1>30, <1>31, <1>32, <1>33, <1>34, <1>35
       DEF Next, Caller, StartStep, Watcher, StopStep

(* A start leaves the table or decides its object. *)
LEMMA OutcomeStep == ASSUME IInv, Books, Next PROVE TrackedHasOutcome'
<1>b. ASSUME NEW w \in Waiters, NEW q, Answer(w, q) PROVE AnswerEffect(w, q)
  BY <1>b, AnswerFrame DEF IInv
<1> USE SuperviseAssumption DEF IInv, Books, TypeOK, StartPC, Holding, KeyInv, CallInv, TrackedHasOutcome,
         Waiters, vars, world, table, chans, marks, starts
<1>1. ASSUME NEW c \in Callers, NEW k \in Keys, Ensure(c, k) PROVE TrackedHasOutcome'
  BY <1>1 DEF Ensure, Looking
<1>2. ASSUME NEW w \in Waiters, Refuse(w) PROVE TrackedHasOutcome'
  BY <1>2 DEF Refuse, Answer, Idle
<1>3. ASSUME NEW w \in Waiters, Join(w) PROVE TrackedHasOutcome'
  BY <1>3 DEF Join, Waiting
<1>4. ASSUME NEW w \in Waiters, GotReady(w) PROVE TrackedHasOutcome'
  <2>1. Answer(w, call[w].p) /\ UNCHANGED <<procs, ready, failed>> /\ call[w].pc = "wait"
    BY <1>4 DEF GotReady
  <2>2. AnswerEffect(w, call[w].p)
    BY <2>1, <1>b
  <2>3. w \in Procs => pc[w] = "peer"
    BY <2>1
  <2> QED BY <2>1, <2>2, <2>3 DEF AnswerEffect
<1>5. ASSUME NEW w \in Waiters, GotDead(w) PROVE TrackedHasOutcome'
  BY <1>5 DEF GotDead, Answer, Idle, Looking, MayRetry, Forget
<1>6. ASSUME NEW w \in Waiters, GotFailed(w) PROVE TrackedHasOutcome'
  <2>1. Answer(w, None) /\ UNCHANGED <<ready, failed>> /\ call[w].pc = "wait"
            /\ procs' = Forget(call[w].key, call[w].p)
    BY <1>6 DEF GotFailed
  <2>2. AnswerEffect(w, None)
    BY <2>1, <1>b
  <2>3. w \in Procs => pc[w] = "peer"
    BY <2>1
  <2>4. \A k \in Keys : procs'[k] \in {None, procs[k]}
    BY <2>1 DEF Forget
  <2> QED BY <2>1, <2>2, <2>3, <2>4 DEF AnswerEffect
<1>7. ASSUME NEW w \in Waiters, NEW p \in Procs, Register(w, p) PROVE TrackedHasOutcome'
  BY <1>7 DEF Register, Waiting
<1>8. ASSUME NEW c \in Callers, GiveUp(c) PROVE TrackedHasOutcome'
  BY <1>8 DEF GiveUp, Answer, Idle
<1>9. ASSUME NEW p \in Procs, StartAcquire(p) PROVE TrackedHasOutcome'
  BY <1>9 DEF StartAcquire, LockFree
<1>10. ASSUME NEW p \in Procs, Load(p) PROVE TrackedHasOutcome'
  BY <1>10 DEF Load, Looking
<1>11. ASSUME NEW p \in Procs, Launch(p) PROVE TrackedHasOutcome'
  <2>1. \A q \in Procs : pc[q] \in Holding \cup {"lock"} => pc'[q] \in Holding \cup {"lock"}
    BY <1>11 DEF Launch, NamesakeGone
  <2> QED BY <1>11, <2>1 DEF Launch, NamesakeGone
<1>12. ASSUME NEW p \in Procs, Record(p) PROVE TrackedHasOutcome'
  BY <1>12 DEF Record
<1>13. ASSUME NEW p \in Procs, HealthOK(p) PROVE TrackedHasOutcome'
  BY <1>13 DEF HealthOK
<1>14. ASSUME NEW p \in Procs, HealthFail(p) PROVE TrackedHasOutcome'
  BY <1>14 DEF HealthFail
<1>15. ASSUME NEW p \in Procs, Drained(p) PROVE TrackedHasOutcome'
  BY <1>15 DEF Drained
<1>16. ASSUME NEW p \in Procs, FailNote(p) PROVE TrackedHasOutcome'
  BY <1>16 DEF FailNote
<1>17. ASSUME NEW p \in Procs, FailClose(p) PROVE TrackedHasOutcome'
  BY <1>17 DEF FailClose
<1>18. ASSUME NEW p \in Procs, FailForget(p) PROVE TrackedHasOutcome'
  BY <1>18 DEF FailForget, Forget
<1>19. ASSUME NEW p \in Procs, Publish(p) PROVE TrackedHasOutcome'
  BY <1>19 DEF Publish
<1>20. ASSUME NEW p \in Procs, ChildExit(p) PROVE TrackedHasOutcome'
  BY <1>20 DEF ChildExit
<1>21. ASSUME NEW p \in Procs, CloseDone(p) PROVE TrackedHasOutcome'
  BY <1>21 DEF CloseDone
<1>22. ASSUME NEW p \in Procs, WatchForget(p) PROVE TrackedHasOutcome'
  BY <1>22 DEF WatchForget, Forget, AfterForget
<1>23. ASSUME NEW p \in Procs, Unrecord(p) PROVE TrackedHasOutcome'
  BY <1>23 DEF Unrecord
<1>24. ASSUME NEW p \in Procs, NoteExit(p) PROVE TrackedHasOutcome'
  BY <1>24 DEF NoteExit, Crashed
<1>25. ASSUME NEW t \in Tasks, BeginStop(t) PROVE TrackedHasOutcome'
  BY <1>25 DEF BeginStop
<1>26. ASSUME NEW t \in Tasks, StopAcquire(t) PROVE TrackedHasOutcome'
  BY <1>26 DEF StopAcquire, LockFree
<1>27. ASSUME NEW t \in Tasks, NothingToStop(t) PROVE TrackedHasOutcome'
  BY <1>27 DEF NothingToStop, Stopped, StopIdle
<1>28. ASSUME NEW t \in Tasks, Terminate(t) PROVE TrackedHasOutcome'
  BY <1>28 DEF Terminate
<1>29. ASSUME NEW t \in Tasks, StopDrained(t) PROVE TrackedHasOutcome'
  BY <1>29 DEF StopDrained, Stopped, StopIdle, Forget
<1>30. ASSUME NEW t \in Tasks, CopyDone(t) PROVE TrackedHasOutcome'
  BY <1>30 DEF CopyDone, StopIdle
<1>31. ASSUME StopAll PROVE TrackedHasOutcome'
  BY <1>31 DEF StopAll
<1>32. ASSUME Exit PROVE TrackedHasOutcome'
  BY <1>32 DEF Exit, LoseMemory, Idle, StopIdle
<1>33. ASSUME Crash PROVE TrackedHasOutcome'
  BY <1>33 DEF Crash, LoseMemory, Idle, StopIdle
<1>34. ASSUME Boot PROVE TrackedHasOutcome'
  BY <1>34 DEF Boot
<1>35. ASSUME NEW r \in Rows, ReclaimRow(r) PROVE TrackedHasOutcome'
  BY <1>35 DEF ReclaimRow
<1> QED BY <1>1, <1>2, <1>3, <1>4, <1>5, <1>6, <1>7, <1>8, <1>9, <1>10, <1>11, <1>12, <1>13, <1>14, <1>15, <1>16, <1>17, <1>18, <1>19, <1>20, <1>21, <1>22, <1>23, <1>24, <1>25, <1>26, <1>27, <1>28, <1>29, <1>30, <1>31, <1>32, <1>33, <1>34, <1>35
       DEF Next, Caller, StartStep, Watcher, StopStep

(* Only the end of the program makes an orphan, and the next start sweeps. *)
LEMMA OrphanStep == ASSUME IInv, Books, Next PROVE OrphanInv'
<1>a. ASSUME NEW p \in Procs, Launch(p) PROVE LaunchEffect(p)
  BY <1>a, LaunchFrame
<1> USE SuperviseAssumption DEF IInv, Books, TypeOK, KeyInv, FreshInv, Fresh, BeforeLaunch, BoxInv, OrphanInv, Rows,
         Waiters, vars, world, table, chans, marks, starts
<1>1. ASSUME NEW c \in Callers, NEW k \in Keys, Ensure(c, k) PROVE OrphanInv'
  BY <1>1 DEF Ensure, Looking
<1>2. ASSUME NEW w \in Waiters, Refuse(w) PROVE OrphanInv'
  BY <1>2 DEF Refuse, Answer, Idle
<1>3. ASSUME NEW w \in Waiters, Join(w) PROVE OrphanInv'
  BY <1>3 DEF Join, Waiting
<1>4. ASSUME NEW w \in Waiters, GotReady(w) PROVE OrphanInv'
  BY <1>4 DEF GotReady, Answer, Idle
<1>5. ASSUME NEW w \in Waiters, GotDead(w) PROVE OrphanInv'
  BY <1>5 DEF GotDead, Answer, Idle, Looking, MayRetry, Forget
<1>6. ASSUME NEW w \in Waiters, GotFailed(w) PROVE OrphanInv'
  BY <1>6 DEF GotFailed, Answer, Idle, Forget
<1>7. ASSUME NEW w \in Waiters, NEW p \in Procs, Register(w, p) PROVE OrphanInv'
  BY <1>7 DEF Register, Waiting
<1>8. ASSUME NEW c \in Callers, GiveUp(c) PROVE OrphanInv'
  BY <1>8 DEF GiveUp, Answer, Idle
<1>9. ASSUME NEW p \in Procs, StartAcquire(p) PROVE OrphanInv'
  BY <1>9 DEF StartAcquire, LockFree
<1>10. ASSUME NEW p \in Procs, Load(p) PROVE OrphanInv'
  BY <1>10 DEF Load, Looking
<1>11. ASSUME NEW p \in Procs, Launch(p) PROVE OrphanInv'
  <2>1. life = "serving" /\ UNCHANGED <<life, records, key, call, unnamed>>
    BY <1>11, <1>a DEF LaunchEffect
  <2>2. \A q \in Procs : child'[q] = "orphan" => q # p /\ child[q] = "orphan"
    BY <1>11, <1>a DEF LaunchEffect
  <2>3. \A q \in Procs : child'[q] = "alive" => q = p \/ child[q] = "alive"
    BY <1>11, <1>a DEF LaunchEffect
  <2>4. CASE boxed' = boxed
    <3>1. p \notin boxed
      BY <1>11, <1>a DEF LaunchEffect
    <3> QED BY <2>1, <2>2, <2>3, <2>4, <3>1
  <2>5. CASE boxed' = boxed \cup {p} /\ \A q \in boxed :
                child[q] = "orphan" /\ key[q] = key[p] => child'[q] = "exited"
    BY <2>1, <2>2, <2>3, <2>5
  <2> QED BY <1>11, <1>a, <2>4, <2>5 DEF LaunchEffect
<1>12. ASSUME NEW p \in Procs, Record(p) PROVE OrphanInv'
  BY <1>12 DEF Record
<1>13. ASSUME NEW p \in Procs, HealthOK(p) PROVE OrphanInv'
  BY <1>13 DEF HealthOK
<1>14. ASSUME NEW p \in Procs, HealthFail(p) PROVE OrphanInv'
  BY <1>14 DEF HealthFail
<1>15. ASSUME NEW p \in Procs, Drained(p) PROVE OrphanInv'
  BY <1>15 DEF Drained
<1>16. ASSUME NEW p \in Procs, FailNote(p) PROVE OrphanInv'
  BY <1>16 DEF FailNote
<1>17. ASSUME NEW p \in Procs, FailClose(p) PROVE OrphanInv'
  BY <1>17 DEF FailClose
<1>18. ASSUME NEW p \in Procs, FailForget(p) PROVE OrphanInv'
  BY <1>18 DEF FailForget, Forget
<1>19. ASSUME NEW p \in Procs, Publish(p) PROVE OrphanInv'
  BY <1>19 DEF Publish
<1>20. ASSUME NEW p \in Procs, ChildExit(p) PROVE OrphanInv'
  BY <1>20 DEF ChildExit
<1>21. ASSUME NEW p \in Procs, CloseDone(p) PROVE OrphanInv'
  BY <1>21 DEF CloseDone
<1>22. ASSUME NEW p \in Procs, WatchForget(p) PROVE OrphanInv'
  BY <1>22 DEF WatchForget, Forget, AfterForget
<1>23. ASSUME NEW p \in Procs, Unrecord(p) PROVE OrphanInv'
  BY <1>23 DEF Unrecord
<1>24. ASSUME NEW p \in Procs, NoteExit(p) PROVE OrphanInv'
  BY <1>24 DEF NoteExit, Crashed
<1>25. ASSUME NEW t \in Tasks, BeginStop(t) PROVE OrphanInv'
  BY <1>25 DEF BeginStop
<1>26. ASSUME NEW t \in Tasks, StopAcquire(t) PROVE OrphanInv'
  BY <1>26 DEF StopAcquire, LockFree
<1>27. ASSUME NEW t \in Tasks, NothingToStop(t) PROVE OrphanInv'
  BY <1>27 DEF NothingToStop, Stopped, StopIdle
<1>28. ASSUME NEW t \in Tasks, Terminate(t) PROVE OrphanInv'
  BY <1>28 DEF Terminate
<1>29. ASSUME NEW t \in Tasks, StopDrained(t) PROVE OrphanInv'
  BY <1>29 DEF StopDrained, Stopped, StopIdle, Forget
<1>30. ASSUME NEW t \in Tasks, CopyDone(t) PROVE OrphanInv'
  BY <1>30 DEF CopyDone, StopIdle
<1>31. ASSUME StopAll PROVE OrphanInv'
  BY <1>31 DEF StopAll
<1>32. ASSUME Exit PROVE OrphanInv'
  BY <1>32 DEF Exit, LoseMemory, Idle, StopIdle
<1>33. ASSUME Crash PROVE OrphanInv'
  BY <1>33 DEF Crash, LoseMemory, Idle, StopIdle
<1>34. ASSUME Boot PROVE OrphanInv'
  <2>1. /\ life # "serving" /\ life' = "serving" /\ \A r \in Rows : records[r] = None
        /\ UNCHANGED <<records, key, unnamed, boxed>>
        /\ \E swept \in SUBSET {p \in boxed : child[p] = "orphan"} :
              child' = [p \in Procs |-> IF p \in swept THEN "exited" ELSE child[p]]
    BY <1>34 DEF Boot
  <2>2. \A q \in Procs : child'[q] = "orphan" => child[q] = "orphan"
    BY <2>1
  <2>3. \A q \in Procs : child'[q] # "alive"
    BY <2>1
  <2>4. ASSUME NEW q \in Procs \ boxed, child[q] = "orphan" PROVE q \in unnamed
    <3>1. records[Row[key[q]]] # q
      <4>1. pc[q] # "unused"
        BY <2>4
      <4>2. key[q] \in Keys
        BY <4>1
      <4>3. Row[key[q]] \in Rows
        BY <4>2
      <4>4. records[Row[key[q]]] = None
        BY <2>1, <4>3
      <4>5. q # None
        BY <2>4
      <4> QED BY <4>4, <4>5
    <3> QED BY <2>4, <3>1
  <2> QED BY <2>1, <2>2, <2>3, <2>4
<1>35. ASSUME NEW r \in Rows, ReclaimRow(r) PROVE OrphanInv'
  BY <1>35 DEF ReclaimRow
<1> QED BY <1>1, <1>2, <1>3, <1>4, <1>5, <1>6, <1>7, <1>8, <1>9, <1>10, <1>11, <1>12, <1>13, <1>14, <1>15, <1>16, <1>17, <1>18, <1>19, <1>20, <1>21, <1>22, <1>23, <1>24, <1>25, <1>26, <1>27, <1>28, <1>29, <1>30, <1>31, <1>32, <1>33, <1>34, <1>35
       DEF Next, Caller, StartStep, Watcher, StopStep

LEMMA InitBooks == ASSUME Init PROVE Books
BY SuperviseAssumption DEF Init, Books, BoxInv, RecordNotStale, PeerInv, TrackedHasOutcome,
   OrphanInv, Idle, Alive, Waiters

LEMMA StutterBooks == ASSUME Books, UNCHANGED vars PROVE Books'
BY DEF vars, Books, BoxInv, RecordNotStale, PeerInv, TrackedHasOutcome, OrphanInv,
       Fresh, Alive

LEMMA BooksInductive == Spec => []Books
<1>1. IInv /\ Books /\ [Next]_vars => Books'
  <2>1. ASSUME IInv, Books, Next PROVE Books'
    BY <2>1, BoxStep, RecordStep, PeerStep, OutcomeStep, OrphanStep DEF Books
  <2> QED BY <2>1, StutterBooks
<1> QED BY InitBooks, Inductive, <1>1, PTL DEF Spec

(* An entry of the table is healthy, failed, or has a start that will still
   decide it. *)
THEOREM EntriesAreDecided == Spec => []TrackedHasOutcome
BY BooksInductive, PTL DEF Books

(* A child runs beside one of its key from an earlier life of the program only
   if no row named that one when its life ended, or if it is a container whose
   removal failed and whose key runs on the host now. *)
THEOREM RivalsAreKnown == Spec => []NoRivalOfEarlierLife
<1>1. ASSUME IInv, Books PROVE NoRivalOfEarlierLife
  <2>1. ASSUME NEW p \in Procs, NEW q \in Procs, Alive(p), child[q] = "orphan",
               key[p] = key[q], q \notin unnamed
        PROVE  q \in boxed /\ p \notin boxed
    <3>1. life = "serving"
      BY <1>1, <2>1 DEF Books, OrphanInv, Alive
    <3>2. q \in boxed
      BY <1>1, <2>1, <3>1 DEF Books, OrphanInv
    <3> QED BY <1>1, <2>1, <3>2 DEF Books, OrphanInv, Alive
  <2> QED BY <2>1 DEF NoRivalOfEarlierLife
<1> QED BY <1>1, Inductive, BooksInductive, PTL

(* A frontend child was given the port of a healthy process of its backend. *)
THEOREM BackendComesFirst == Spec => []FrontendAfterBackend
<1>1. Books => FrontendAfterBackend
  BY DEF Books, PeerInv, FrontendAfterBackend
<1> QED BY <1>1, BooksInductive, PTL

-----------------------------------------------------------------------------
(* Failures on record *)

FailPC == {"drain", "fail", "failclose", "failforget", "end"}

(* What a start leaves behind: only a process whose start is over is healthy
   or stopped, a start that failed is out of the table, and a healthy process
   is signalled by nobody but a Stop. *)
EndInv ==
    \A p \in Procs :
        /\ p \in intentional \cup ready => pc[p] = "end"
        /\ p \in killed => pc[p] \in FailPC
        /\ p \in ready /\ p \in killed => p \in intentional
        /\ pc[p] = "end" /\ p \notin ready => \A k \in Keys : procs[k] # p

(* A failure on record is a start that failed, or a healthy process that died
   badly before anybody signalled it and that no newer one has replaced. *)
FailureInv ==
    \A k \in Keys : failures[k] # None =>
        /\ key[failures[k]] = k /\ ~Alive(failures[k])
        /\ pc[failures[k]] \in {"failclose", "failforget", "end"}
        /\ failures[k] \in ready =>
              /\ Over(failures[k]) /\ failures[k] \notin clean /\ failures[k] \notin killed
              /\ procs[k] \in {None, failures[k]}
        /\ ~(failures[k] \in intentional /\ failures[k] \in killed)

(* A Stop that holds the lock only ever meets a process whose start is over. *)
LEMMA StopMeetsEnded ==
    ASSUME IInv, NEW t \in Tasks, Terminate(t)
    PROVE  procs[t[2]] \in Procs /\ pc[procs[t[2]]] = "end"
<1> DEFINE q == procs[t[2]]
<1>1. t[2] \in Keys /\ q \in Procs /\ key[q] = t[2]
  BY SuperviseAssumption DEF IInv, TypeOK, KeyInv, Terminate
<1>2. lock[t[2]] = t
  BY <1>1 DEF IInv, LockInv, HoldsStop, Terminate
<1>3. pc[q] \notin Holding
  BY <1>1, <1>2, SuperviseAssumption DEF IInv, LockInv
<1>4. ~Fresh(q)
  BY <1>1 DEF IInv, FreshInv, Terminate
<1> QED BY <1>1, <1>3, <1>4 DEF IInv, TypeOK, StartPC, Fresh, BeforeLaunch

(* Healthy and stopped processes have no start any more, a failed start has
   left the table. *)
LEMMA EndStep == ASSUME IInv, EndInv, Next PROVE EndInv'
<1>0. ASSUME NEW t \in Tasks, Terminate(t) PROVE EndInv'
  <2>1. PICK q \in Procs : q = procs[t[2]] /\ pc[q] = "end"
    BY <1>0, StopMeetsEnded
  <2>2. q \in ready
    BY <1>0, <2>1, SuperviseAssumption DEF EndInv, IInv, TypeOK, Terminate
  <2>3. intentional' = intentional \cup {q} /\ killed' \in {killed, killed \cup {q}}
    BY <1>0, <2>1 DEF Terminate
  <2> QED BY <1>0, <2>1, <2>2, <2>3 DEF EndInv, FailPC, Terminate, table, starts, chans
<1>a. ASSUME NEW p \in Procs, Launch(p) PROVE LaunchEffect(p)
  BY <1>a, LaunchFrame
<1>b. ASSUME NEW w \in Waiters, NEW q, Answer(w, q) PROVE AnswerEffect(w, q)
  BY <1>b, AnswerFrame DEF IInv
<1> USE SuperviseAssumption DEF IInv, TypeOK, StartPC, Holding, BeforeLaunch, KeyInv, CallInv, EndInv,
         Waiters, vars, world, table, chans, marks, starts
<1>1. ASSUME NEW c \in Callers, NEW k \in Keys, Ensure(c, k) PROVE EndInv'
  BY <1>1 DEF Ensure, Looking
<1>2. ASSUME NEW w \in Waiters, Refuse(w) PROVE EndInv'
  BY <1>2 DEF Refuse, Answer, Idle, FailPC
<1>3. ASSUME NEW w \in Waiters, Join(w) PROVE EndInv'
  BY <1>3 DEF Join, Waiting
<1>4. ASSUME NEW w \in Waiters, GotReady(w) PROVE EndInv'
  <2>1. Answer(w, call[w].p) /\ UNCHANGED <<procs, ready, intentional, killed>> /\ call[w].pc = "wait"
    BY <1>4 DEF GotReady
  <2>2. AnswerEffect(w, call[w].p)
    BY <2>1, <1>b
  <2>3. w \in Procs => pc[w] = "peer"
    BY <2>1
  <2> QED BY <2>1, <2>2, <2>3 DEF AnswerEffect, FailPC
<1>5. ASSUME NEW w \in Waiters, GotDead(w) PROVE EndInv'
  BY <1>5 DEF GotDead, Answer, Idle, Looking, MayRetry, Forget, FailPC
<1>6. ASSUME NEW w \in Waiters, GotFailed(w) PROVE EndInv'
  BY <1>6 DEF GotFailed, Answer, Idle, Forget, FailPC
<1>7. ASSUME NEW w \in Waiters, NEW p \in Procs, Register(w, p) PROVE EndInv'
  BY <1>7 DEF Register, Waiting, FailPC
<1>8. ASSUME NEW c \in Callers, GiveUp(c) PROVE EndInv'
  BY <1>8 DEF GiveUp, Answer, Idle, FailPC
<1>9. ASSUME NEW p \in Procs, StartAcquire(p) PROVE EndInv'
  BY <1>9 DEF StartAcquire, LockFree, FailPC
<1>10. ASSUME NEW p \in Procs, Load(p) PROVE EndInv'
  BY <1>10 DEF Load, Looking, FailPC
<1>11. ASSUME NEW p \in Procs, Launch(p) PROVE EndInv'
  BY <1>11, <1>a DEF LaunchEffect, FailPC
<1>12. ASSUME NEW p \in Procs, Record(p) PROVE EndInv'
  BY <1>12 DEF Record, FailPC
<1>13. ASSUME NEW p \in Procs, HealthOK(p) PROVE EndInv'
  BY <1>13 DEF HealthOK, FailPC
<1>14. ASSUME NEW p \in Procs, HealthFail(p) PROVE EndInv'
  BY <1>14 DEF HealthFail, FailPC
<1>15. ASSUME NEW p \in Procs, Drained(p) PROVE EndInv'
  BY <1>15 DEF Drained, FailPC
<1>16. ASSUME NEW p \in Procs, FailNote(p) PROVE EndInv'
  BY <1>16 DEF FailNote, FailPC
<1>17. ASSUME NEW p \in Procs, FailClose(p) PROVE EndInv'
  BY <1>17 DEF FailClose, FailPC
<1>18. ASSUME NEW p \in Procs, FailForget(p) PROVE EndInv'
  BY <1>18 DEF FailForget, Forget, FailPC
<1>19. ASSUME NEW p \in Procs, Publish(p) PROVE EndInv'
  BY <1>19 DEF Publish, FailPC
<1>20. ASSUME NEW p \in Procs, ChildExit(p) PROVE EndInv'
  BY <1>20 DEF ChildExit
<1>21. ASSUME NEW p \in Procs, CloseDone(p) PROVE EndInv'
  BY <1>21 DEF CloseDone
<1>22. ASSUME NEW p \in Procs, WatchForget(p) PROVE EndInv'
  BY <1>22 DEF WatchForget, Forget, AfterForget
<1>23. ASSUME NEW p \in Procs, Unrecord(p) PROVE EndInv'
  BY <1>23 DEF Unrecord
<1>24. ASSUME NEW p \in Procs, NoteExit(p) PROVE EndInv'
  BY <1>24 DEF NoteExit, Crashed
<1>25. ASSUME NEW t \in Tasks, BeginStop(t) PROVE EndInv'
  BY <1>25 DEF BeginStop
<1>26. ASSUME NEW t \in Tasks, StopAcquire(t) PROVE EndInv'
  BY <1>26 DEF StopAcquire, LockFree
<1>27. ASSUME NEW t \in Tasks, NothingToStop(t) PROVE EndInv'
  BY <1>27 DEF NothingToStop, Stopped, StopIdle
<1>28. ASSUME NEW t \in Tasks, Terminate(t) PROVE EndInv'
  BY <1>28, <1>0
<1>29. ASSUME NEW t \in Tasks, StopDrained(t) PROVE EndInv'
  BY <1>29 DEF StopDrained, Stopped, StopIdle, Forget
<1>30. ASSUME NEW t \in Tasks, CopyDone(t) PROVE EndInv'
  BY <1>30 DEF CopyDone, StopIdle
<1>31. ASSUME StopAll PROVE EndInv'
  BY <1>31 DEF StopAll
<1>32. ASSUME Exit PROVE EndInv'
  BY <1>32 DEF Exit, LoseMemory, Idle, StopIdle
<1>33. ASSUME Crash PROVE EndInv'
  BY <1>33 DEF Crash, LoseMemory, Idle, StopIdle
<1>34. ASSUME Boot PROVE EndInv'
  BY <1>34 DEF Boot
<1>35. ASSUME NEW r \in Rows, ReclaimRow(r) PROVE EndInv'
  BY <1>35 DEF ReclaimRow
<1> QED BY <1>1, <1>2, <1>3, <1>4, <1>5, <1>6, <1>7, <1>8, <1>9, <1>10, <1>11, <1>12, <1>13, <1>14, <1>15, <1>16, <1>17, <1>18, <1>19, <1>20, <1>21, <1>22, <1>23, <1>24, <1>25, <1>26, <1>27, <1>28, <1>29, <1>30, <1>31, <1>32, <1>33, <1>34, <1>35
       DEF Next, Caller, StartStep, Watcher, StopStep

(* A failure is noted with its start still in hand or by the watcher of a
   process nobody stopped; afterwards nothing happens to its subject. *)
LEMMA FailureStep == ASSUME IInv, EndInv, FailureInv, Next PROVE FailureInv'
<1>0. ASSUME NEW t \in Tasks, Terminate(t) PROVE FailureInv'
  <2>1. PICK q \in Procs : q = procs[t[2]] /\ pc[q] = "end"
    BY <1>0, StopMeetsEnded
  <2>2. q \in ready
    BY <1>0, <2>1, SuperviseAssumption DEF EndInv, IInv, TypeOK, Terminate
  <2>3. intentional' = intentional \cup {q} /\ killed' = IF Alive(q) THEN killed \cup {q} ELSE killed
    BY <1>0, <2>1 DEF Terminate, Alive
  <2> QED BY <1>0, <2>1, <2>2, <2>3
          DEF FailureInv, Alive, Over, Terminate, table, starts, chans
<1>a. ASSUME NEW p \in Procs, Launch(p) PROVE LaunchEffect(p)
  BY <1>a, LaunchFrame
<1>b. ASSUME NEW w \in Waiters, NEW q, Answer(w, q) PROVE AnswerEffect(w, q)
  BY <1>b, AnswerFrame DEF IInv
<1> USE SuperviseAssumption DEF IInv, TypeOK, StartPC, Holding, BeforeLaunch, KeyInv, CallInv,
         FailureInv, Alive, Over, Waiters, vars, world, table, chans, marks, starts
<1>1. ASSUME NEW c \in Callers, NEW k \in Keys, Ensure(c, k) PROVE FailureInv'
  BY <1>1 DEF Ensure, Looking
<1>2. ASSUME NEW w \in Waiters, Refuse(w) PROVE FailureInv'
  BY <1>2 DEF Refuse, Answer, Idle
<1>3. ASSUME NEW w \in Waiters, Join(w) PROVE FailureInv'
  BY <1>3 DEF Join, Waiting
<1>4. ASSUME NEW w \in Waiters, GotReady(w) PROVE FailureInv'
  BY <1>4 DEF GotReady, Answer, Idle
<1>5. ASSUME NEW w \in Waiters, GotDead(w) PROVE FailureInv'
  BY <1>5 DEF GotDead, Answer, Idle, Looking, MayRetry, Forget
<1>6. ASSUME NEW w \in Waiters, GotFailed(w) PROVE FailureInv'
  <2>1. Answer(w, None) /\ call[w].pc = "wait"
            /\ UNCHANGED <<failures, key, child, ready, clean, killed, intentional>>
            /\ procs' = Forget(call[w].key, call[w].p)
    BY <1>6 DEF GotFailed
  <2>2. AnswerEffect(w, None)
    BY <2>1, <1>b
  <2>3. w \in Procs => pc[w] = "peer"
    BY <2>1
  <2>4. \A k \in Keys : procs'[k] \in {None, procs[k]}
    BY <2>1 DEF Forget
  <2> QED BY <2>1, <2>2, <2>3, <2>4 DEF AnswerEffect
<1>7. ASSUME NEW w \in Waiters, NEW p \in Procs, Register(w, p) PROVE FailureInv'
  BY <1>7 DEF Register, Waiting
<1>8. ASSUME NEW c \in Callers, GiveUp(c) PROVE FailureInv'
  BY <1>8 DEF GiveUp, Answer, Idle
<1>9. ASSUME NEW p \in Procs, StartAcquire(p) PROVE FailureInv'
  BY <1>9 DEF StartAcquire, LockFree
<1>10. ASSUME NEW p \in Procs, Load(p) PROVE FailureInv'
  <2>1. /\ UNCHANGED <<failures, key, child, ready, clean, killed, intentional, procs>>
        /\ pc[p] = "load" /\ \E x \in {"fail", "launch", "peer"} : pc' = [pc EXCEPT ![p] = x]
    BY <1>10 DEF Load
  <2>2. \A k \in Keys : failures[k] # None => failures[k] # p /\ failures[k] \in Procs
    BY <2>1
  <2>3. \A q \in Procs : q # p => pc'[q] = pc[q]
    BY <2>1
  <2> QED BY <2>1, <2>2, <2>3
<1>11. ASSUME NEW p \in Procs, Launch(p) PROVE FailureInv'
  BY <1>11, <1>a DEF LaunchEffect
<1>12. ASSUME NEW p \in Procs, Record(p) PROVE FailureInv'
  BY <1>12 DEF Record
<1>13. ASSUME NEW p \in Procs, HealthOK(p) PROVE FailureInv'
  BY <1>13 DEF HealthOK
<1>14. ASSUME NEW p \in Procs, HealthFail(p) PROVE FailureInv'
  BY <1>14 DEF HealthFail
<1>15. ASSUME NEW p \in Procs, Drained(p) PROVE FailureInv'
  BY <1>15 DEF Drained
<1>16. ASSUME NEW p \in Procs, FailNote(p) PROVE FailureInv'
  BY <1>16 DEF FailNote, EndInv, OverInv
<1>17. ASSUME NEW p \in Procs, FailClose(p) PROVE FailureInv'
  BY <1>17 DEF FailClose
<1>18. ASSUME NEW p \in Procs, FailForget(p) PROVE FailureInv'
  BY <1>18 DEF FailForget, Forget
<1>19. ASSUME NEW p \in Procs, Publish(p) PROVE FailureInv'
  <2>1. /\ UNCHANGED <<failures, procs, key, child, clean, killed, intentional>>
        /\ ready' = ready \cup {p} /\ pc' = [pc EXCEPT ![p] = "end"] /\ pc[p] = "publish"
    BY <1>19 DEF Publish
  <2>2. \A k \in Keys : failures[k] # None => failures[k] # p
    BY <2>1
  <2> QED BY <2>1, <2>2
<1>20. ASSUME NEW p \in Procs, ChildExit(p) PROVE FailureInv'
  BY <1>20 DEF ChildExit
<1>21. ASSUME NEW p \in Procs, CloseDone(p) PROVE FailureInv'
  BY <1>21 DEF CloseDone
<1>22. ASSUME NEW p \in Procs, WatchForget(p) PROVE FailureInv'
  BY <1>22 DEF WatchForget, Forget, AfterForget
<1>23. ASSUME NEW p \in Procs, Unrecord(p) PROVE FailureInv'
  BY <1>23 DEF Unrecord
<1>24. ASSUME NEW p \in Procs, NoteExit(p) PROVE FailureInv'
  BY <1>24 DEF NoteExit, Crashed, EndInv, OverInv
<1>25. ASSUME NEW t \in Tasks, BeginStop(t) PROVE FailureInv'
  BY <1>25 DEF BeginStop
<1>26. ASSUME NEW t \in Tasks, StopAcquire(t) PROVE FailureInv'
  BY <1>26 DEF StopAcquire, LockFree
<1>27. ASSUME NEW t \in Tasks, NothingToStop(t) PROVE FailureInv'
  BY <1>27 DEF NothingToStop, Stopped, StopIdle
<1>28. ASSUME NEW t \in Tasks, Terminate(t) PROVE FailureInv'
  BY <1>28, <1>0
<1>29. ASSUME NEW t \in Tasks, StopDrained(t) PROVE FailureInv'
  BY <1>29 DEF StopDrained, Stopped, StopIdle, Forget
<1>30. ASSUME NEW t \in Tasks, CopyDone(t) PROVE FailureInv'
  BY <1>30 DEF CopyDone, StopIdle
<1>31. ASSUME StopAll PROVE FailureInv'
  BY <1>31 DEF StopAll
<1>32. ASSUME Exit PROVE FailureInv'
  BY <1>32 DEF Exit, LoseMemory, Idle, StopIdle
<1>33. ASSUME Crash PROVE FailureInv'
  BY <1>33 DEF Crash, LoseMemory, Idle, StopIdle
<1>34. ASSUME Boot PROVE FailureInv'
  BY <1>34 DEF Boot
<1>35. ASSUME NEW r \in Rows, ReclaimRow(r) PROVE FailureInv'
  BY <1>35 DEF ReclaimRow
<1> QED BY <1>1, <1>2, <1>3, <1>4, <1>5, <1>6, <1>7, <1>8, <1>9, <1>10, <1>11, <1>12, <1>13, <1>14, <1>15, <1>16, <1>17, <1>18, <1>19, <1>20, <1>21, <1>22, <1>23, <1>24, <1>25, <1>26, <1>27, <1>28, <1>29, <1>30, <1>31, <1>32, <1>33, <1>34, <1>35
       DEF Next, Caller, StartStep, Watcher, StopStep

LEMMA FailuresInductive == Spec => [](EndInv /\ FailureInv)
<1>1. Init => EndInv /\ FailureInv
  BY SuperviseAssumption DEF Init, EndInv, FailureInv
<1>2. IInv /\ EndInv /\ FailureInv /\ [Next]_vars => EndInv' /\ FailureInv'
  <2>1. ASSUME IInv, EndInv, FailureInv, Next PROVE EndInv' /\ FailureInv'
    BY <2>1, EndStep, FailureStep
  <2>2. ASSUME EndInv, FailureInv, UNCHANGED vars PROVE EndInv' /\ FailureInv'
    BY <2>2 DEF vars, EndInv, FailureInv, Alive, Over
  <2> QED BY <2>1, <2>2
<1> QED BY <1>1, <1>2, Inductive, PTL DEF Spec

(* A failure on record (failures, and what the dashboard shows as crashed) is
   about a process of that key which is over, and neither one that ended
   cleanly after serving nor one a Stop took down alive. *)
THEOREM FailuresAreReal == Spec => []FailureSubject
<1>1. ASSUME IInv, FailureInv PROVE FailureSubject
  BY <1>1 DEF FailureInv, FailureSubject
<1> QED BY <1>1, Inductive, FailuresInductive, PTL

(* Only the last step of a Stop ends one, short of the end of the program. *)
LEMMA StopEnds ==
    ASSUME IInv, Next, NEW t \in Tasks, life' = "serving",
           stop[t].pc \in {"look", "drain"}, stop'[t].pc \in {"idle", "copy"}
    PROVE  NothingToStop(t) \/ StopDrained(t)
<1> USE DEF IInv, TypeOK, world, table, chans, marks, starts
<1>1. ASSUME NEW c \in Callers, NEW k \in Keys, Ensure(c, k) PROVE NothingToStop(t) \/ StopDrained(t)
  BY <1>1 DEF Ensure
<1>2. ASSUME NEW w \in Waiters, Refuse(w) PROVE NothingToStop(t) \/ StopDrained(t)
  BY <1>2 DEF Refuse
<1>3. ASSUME NEW w \in Waiters, Join(w) PROVE NothingToStop(t) \/ StopDrained(t)
  BY <1>3 DEF Join
<1>4. ASSUME NEW w \in Waiters, GotReady(w) PROVE NothingToStop(t) \/ StopDrained(t)
  BY <1>4 DEF GotReady
<1>5. ASSUME NEW w \in Waiters, GotDead(w) PROVE NothingToStop(t) \/ StopDrained(t)
  BY <1>5 DEF GotDead
<1>6. ASSUME NEW w \in Waiters, GotFailed(w) PROVE NothingToStop(t) \/ StopDrained(t)
  BY <1>6 DEF GotFailed
<1>7. ASSUME NEW w \in Waiters, NEW p \in Procs, Register(w, p) PROVE NothingToStop(t) \/ StopDrained(t)
  BY <1>7 DEF Register
<1>8. ASSUME NEW c \in Callers, GiveUp(c) PROVE NothingToStop(t) \/ StopDrained(t)
  BY <1>8 DEF GiveUp
<1>9. ASSUME NEW p \in Procs, StartAcquire(p) PROVE NothingToStop(t) \/ StopDrained(t)
  BY <1>9 DEF StartAcquire
<1>10. ASSUME NEW p \in Procs, Load(p) PROVE NothingToStop(t) \/ StopDrained(t)
  BY <1>10 DEF Load
<1>11. ASSUME NEW p \in Procs, Launch(p) PROVE NothingToStop(t) \/ StopDrained(t)
  BY <1>11 DEF Launch, NamesakeGone
<1>12. ASSUME NEW p \in Procs, Record(p) PROVE NothingToStop(t) \/ StopDrained(t)
  BY <1>12 DEF Record
<1>13. ASSUME NEW p \in Procs, HealthOK(p) PROVE NothingToStop(t) \/ StopDrained(t)
  BY <1>13 DEF HealthOK
<1>14. ASSUME NEW p \in Procs, HealthFail(p) PROVE NothingToStop(t) \/ StopDrained(t)
  BY <1>14 DEF HealthFail
<1>15. ASSUME NEW p \in Procs, Drained(p) PROVE NothingToStop(t) \/ StopDrained(t)
  BY <1>15 DEF Drained
<1>16. ASSUME NEW p \in Procs, FailNote(p) PROVE NothingToStop(t) \/ StopDrained(t)
  BY <1>16 DEF FailNote
<1>17. ASSUME NEW p \in Procs, FailClose(p) PROVE NothingToStop(t) \/ StopDrained(t)
  BY <1>17 DEF FailClose
<1>18. ASSUME NEW p \in Procs, FailForget(p) PROVE NothingToStop(t) \/ StopDrained(t)
  BY <1>18 DEF FailForget
<1>19. ASSUME NEW p \in Procs, Publish(p) PROVE NothingToStop(t) \/ StopDrained(t)
  BY <1>19 DEF Publish
<1>20. ASSUME NEW p \in Procs, ChildExit(p) PROVE NothingToStop(t) \/ StopDrained(t)
  BY <1>20 DEF ChildExit
<1>21. ASSUME NEW p \in Procs, CloseDone(p) PROVE NothingToStop(t) \/ StopDrained(t)
  BY <1>21 DEF CloseDone
<1>22. ASSUME NEW p \in Procs, WatchForget(p) PROVE NothingToStop(t) \/ StopDrained(t)
  BY <1>22 DEF WatchForget
<1>23. ASSUME NEW p \in Procs, Unrecord(p) PROVE NothingToStop(t) \/ StopDrained(t)
  BY <1>23 DEF Unrecord
<1>24. ASSUME NEW p \in Procs, NoteExit(p) PROVE NothingToStop(t) \/ StopDrained(t)
  BY <1>24 DEF NoteExit
<1>25. ASSUME NEW u \in Tasks, BeginStop(u) PROVE NothingToStop(t) \/ StopDrained(t)
  BY <1>25 DEF BeginStop
<1>26. ASSUME NEW u \in Tasks, StopAcquire(u) PROVE NothingToStop(t) \/ StopDrained(t)
  BY <1>26 DEF StopAcquire
<1>27. ASSUME NEW u \in Tasks, NothingToStop(u) PROVE NothingToStop(t) \/ StopDrained(t)
  BY <1>27 DEF NothingToStop, Stopped, StopIdle
<1>28. ASSUME NEW u \in Tasks, Terminate(u) PROVE NothingToStop(t) \/ StopDrained(t)
  BY <1>28 DEF Terminate
<1>29. ASSUME NEW u \in Tasks, StopDrained(u) PROVE NothingToStop(t) \/ StopDrained(t)
  BY <1>29 DEF StopDrained, Stopped, StopIdle
<1>30. ASSUME NEW u \in Tasks, CopyDone(u) PROVE NothingToStop(t) \/ StopDrained(t)
  BY <1>30 DEF CopyDone, Stopped, StopIdle
<1>31. ASSUME StopAll PROVE NothingToStop(t) \/ StopDrained(t)
  BY <1>31 DEF StopAll, DownInv
<1>32. ASSUME Exit PROVE NothingToStop(t) \/ StopDrained(t)
  BY <1>32 DEF Exit
<1>33. ASSUME Crash PROVE NothingToStop(t) \/ StopDrained(t)
  BY <1>33 DEF Crash
<1>34. ASSUME Boot PROVE NothingToStop(t) \/ StopDrained(t)
  BY <1>34 DEF Boot
<1>35. ASSUME NEW r \in Rows, ReclaimRow(r) PROVE NothingToStop(t) \/ StopDrained(t)
  BY <1>35 DEF ReclaimRow
<1> QED BY <1>1, <1>2, <1>3, <1>4, <1>5, <1>6, <1>7, <1>8, <1>9, <1>10, <1>11, <1>12, <1>13, <1>14, <1>15, <1>16, <1>17, <1>18, <1>19, <1>20, <1>21, <1>22, <1>23, <1>24, <1>25, <1>26, <1>27, <1>28, <1>29, <1>30, <1>31, <1>32, <1>33, <1>34, <1>35
       DEF Next, Caller, StartStep, Watcher, StopStep

LEMMA StopLeaves ==
    ASSUME IInv, [Next]_vars, NEW t \in Tasks, NEW p \in Procs,
           stop[t].pc \in {"look", "drain"}, stop'[t].pc \in {"idle", "copy"},
           life' = "serving", key[p] = t[2]
    PROVE  child'[p] # "alive"
<1> USE SuperviseAssumption DEF IInv, TypeOK
<1>1. CASE NothingToStop(t)
  <2>1. child' = child /\ (procs[t[2]] # None => child[procs[t[2]]] = "none")
    BY <1>1 DEF NothingToStop
  <2> QED BY <2>1 DEF LiveChildTracked, Alive
<1>2. CASE StopDrained(t)
  <2>1. child' = child /\ stop[t].pc = "drain" /\ stop[t].p \in done
    BY <1>2 DEF StopDrained
  <2> QED BY <2>1 DEF DrainInv, OverInv, Over, Alive
<1>3. CASE UNCHANGED vars
  BY <1>3 DEF vars
<1> QED BY <1>1, <1>2, <1>3, StopEnds

(* When a Stop returns, or a fork starts to copy, no child of that key runs
   (stopLocked waits for done before it forgets). *)
THEOREM StopIsComplete == Spec => StopLeavesNothing
<1>1. IInv /\ [Next]_vars =>
        [\A t \in Tasks :
          stop[t].pc \in {"look", "drain"} /\ stop'[t].pc \in {"idle", "copy"}
             /\ life' = "serving"
          => \A p \in Procs : key[p] = t[2] => child'[p] # "alive"]_vars
  BY StopLeaves
<1> QED BY <1>1, Inductive, PTL DEF Spec, StopLeavesNothing

================================================================================
