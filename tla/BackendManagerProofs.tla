------------------------ MODULE BackendManagerProofs ------------------------
(***************************************************************************)
(* Proofs about the egg manager, for any number of models, eggs and        *)
(* goroutines, in both modes.                                              *)
(***************************************************************************)
EXTENDS BackendManager, TLAPS

-----------------------------------------------------------------------------
(* The inductive invariant *)

\* The book files every egg under its own model.
BookOK == \A m \in Models : procs[m] # NoEgg => ModelOf[procs[m]] = m

\* The registered eggs, running or not, are of one service kind.
BookOneKind ==
    \A d, e \in Resident : KindOf[ModelOf[d]] = KindOf[ModelOf[e]]

\* An egg that is being expanded is known to its loader alone, and nobody but the loader
\* takes it out of "loading".
ExpandPrivate ==
    \A t \in Threads : pc[t] = "expand" =>
        /\ ptr[t] \in Eggs
        /\ egg[ptr[t]].st = "loading"
        /\ \A u \in Threads \ {t} : ptr[u] # ptr[t]
        /\ ptr[t] \notin reap.todo
        /\ ptr[t] # reap.cur
        /\ ptr[t] # guard.egg

\* An egg about to be struck off the book has been stopped, and stays so.
ForgetStopped ==
    /\ \A t \in Threads : pc[t] = "forget" /\ ptr[t] \in Eggs => ~egg[ptr[t]].alive
    /\ reap.cur # NoEgg => ~egg[reap.cur].alive

\* Only a request on its way is counted, on an egg of the model it is for.
Forwarding == {"health", "retry", "wait", "grace", "hung", "note", "body", "release"}

HeldOK ==
    held # NoEgg => /\ held \in Eggs
                    /\ ModelOf[held] = want[Worker]
                    /\ pc[Worker] \in Forwarding

-----------------------------------------------------------------------------
(* Types of the helpers *)

\* A new subproc, and one whose engine was stopped, failed or stalled, is a subproc.
LEMMA RecordTypes ==
    /\ FreshEgg \in Egg
    /\ \A r \in Egg : Stopped(r) \in Egg /\ Failed(r) \in Egg /\ StaleKilled(r) \in Egg
<1>1. FreshEgg \in Egg
  BY DEF FreshEgg, Egg, EggStates
<1>2. ASSUME NEW r \in Egg PROVE Stopped(r) \in Egg
  BY DEF Stopped, Egg, EggStates
<1>3. ASSUME NEW r \in Egg PROVE Failed(r) \in Egg
  <2>1. [Stopped(r) EXCEPT !.st = "crashed", !.fails = FailLimit] \in Egg
    BY <1>2, BoundsAssumption DEF Egg, EggStates
  <2>2. [r EXCEPT !.fails = r.fails + 1] \in Egg
    BY DEF Egg
  <2> QED  BY <2>1, <2>2 DEF Failed
<1>4. ASSUME NEW r \in Egg PROVE StaleKilled(r) \in Egg
  <2> DEFINE n == Capped(r.stale, MaxStaleKills + 1)
  <2>1. n \in Nat
    <3>1. r.stale \in Nat /\ MaxStaleKills \in Nat
      BY BoundsAssumption DEF Egg
    <3> QED  BY <3>1 DEF Capped
  <2>2. (IF n > MaxStaleKills THEN "crashed" ELSE r.st) \in EggStates
    BY DEF Egg, EggStates
  <2> HIDE DEF n
  <2>3. [r EXCEPT !.stale = n,
                  !.st = IF n > MaxStaleKills THEN "crashed" ELSE r.st] \in Egg
    BY <2>1, <2>2 DEF Egg
  <2> QED  BY <2>3 DEF StaleKilled, n
<1> QED  BY <1>1, <1>2, <1>3, <1>4

\* Taking eggs off the book keeps the types of the book and of the eggs.
LEMMA BookTypes ==
    ASSUME TypeOK, NEW gone
    PROVE  /\ Without(gone) \in [Models -> Eggs \cup {NoEgg}]
           /\ Forgotten(gone) \in [Eggs -> Egg]
           /\ StoppedAndForgotten(gone) \in [Eggs -> Egg]
<1>1. Without(gone) \in [Models -> Eggs \cup {NoEgg}]
  BY DEF TypeOK, Without
<1>2. \A e \in Eggs : [FreshEgg EXCEPT !.alive = egg[e].alive] \in Egg
  BY RecordTypes DEF TypeOK, Egg, FreshEgg
<1>3. Forgotten(gone) \in [Eggs -> Egg]
  BY <1>2 DEF TypeOK, Forgotten
<1>4. StoppedAndForgotten(gone) \in [Eggs -> Egg]
  BY RecordTypes DEF TypeOK, StoppedAndForgotten
<1> QED  BY <1>1, <1>3, <1>4

\* Writing a flag of one egg, or its state, keeps the type of the eggs.
LEMMA FlagTypes ==
    ASSUME NEW f \in [Eggs -> Egg], NEW e
    PROVE  /\ [f EXCEPT ![e].pinned = TRUE] \in [Eggs -> Egg]
           /\ [f EXCEPT ![e].alive = FALSE] \in [Eggs -> Egg]
<1>1. CASE e \notin Eggs
  BY <1>1
<1>2. CASE e \in Eggs
  <2>1. [f[e] EXCEPT !.pinned = TRUE] \in Egg /\ [f[e] EXCEPT !.alive = FALSE] \in Egg
    BY <1>2 DEF Egg
  <2> QED  BY <1>2, <2>1
<1> QED  BY <1>1, <1>2

LEMMA StateTypes ==
    ASSUME NEW f \in [Eggs -> Egg], NEW e, NEW s \in EggStates
    PROVE  /\ [f EXCEPT ![e].st = s, ![e].used = TRUE] \in [Eggs -> Egg]
           /\ \A n \in Nat : [f EXCEPT ![e].st = s, ![e].fails = n] \in [Eggs -> Egg]
<1>1. CASE e \notin Eggs
  BY <1>1
<1>2. CASE e \in Eggs
  <2>1. [f[e] EXCEPT !.st = s, !.used = TRUE] \in Egg
    BY <1>2 DEF Egg
  <2>2. \A n \in Nat : [f[e] EXCEPT !.st = s, !.fails = n] \in Egg
    BY <1>2 DEF Egg
  <2> QED  BY <1>2, <2>1, <2>2
<1> QED  BY <1>1, <1>2

\* The part of TypeOK that is about the goroutines.
CallTypes ==
    /\ pc \in [Loaders \cup {Worker} -> {"idle"} \cup StartPCs \cup InferPCs]
    /\ want \in [Loaders \cup {Worker} -> Models \cup {NoModel}]
    /\ \A t \in Loaders \cup {Worker} : pc[t] # "idle" => want[t] \in Models
    /\ ptr \in [Loaders \cup {Worker} -> Eggs \cup {NoEgg}]
    /\ res \in [Loaders \cup {Worker} -> {"ok", "err"}]
    /\ job \in BOOLEAN

\* A goroutine whose call ends keeps those types.
LEMMA EndTypes ==
    ASSUME TypeOK, NEW t \in Loaders \cup {Worker}, Finished(t)
    PROVE  CallTypes'
<1>1. /\ pc' \in [Loaders \cup {Worker} -> {"idle"} \cup StartPCs \cup InferPCs]
      /\ want' \in [Loaders \cup {Worker} -> Models \cup {NoModel}]
  BY DEF TypeOK, Threads, Finished, Goto
<1>2. ASSUME NEW u \in Loaders \cup {Worker}, pc'[u] # "idle" PROVE want'[u] \in Models
  BY <1>2 DEF TypeOK, Threads, Finished, Goto
<1>3. ptr' \in [Loaders \cup {Worker} -> Eggs \cup {NoEgg}]
  BY DEF TypeOK, Threads, Finished
<1>4. res' \in [Loaders \cup {Worker} -> {"ok", "err"}] /\ job' \in BOOLEAN
  BY DEF TypeOK, Threads, Finished
<1> QED  BY <1>1, <1>2, <1>3, <1>4 DEF CallTypes

\* A write of a subproc through a pointer keeps the type of the eggs.
LEMMA WriteTypes ==
    ASSUME TypeOK, NEW e, NEW r, e \in Eggs => r \in Egg
    PROVE  Write(e, r) \in [Eggs -> Egg]
BY DEF TypeOK, Write, Resident

\* So does the verdict of a watchdog.
LEMMA NotedTypes ==
    ASSUME TypeOK, NEW e
    PROVE  NotedStuck(e) \in [Eggs -> Egg]
<1>1. CASE e \in Resident /\ ~egg[e].pinned
  <2>1. Capped(egg[e].fails, FailLimit) \in Nat
    <3>1. egg[e].fails \in Nat
      BY <1>1 DEF Resident, TypeOK, Egg
    <3>2. FailLimit \in Nat
      BY BoundsAssumption
    <3> QED  BY <3>1, <3>2 DEF Capped
  <2>2. egg \in [Eggs -> Egg]
    BY DEF TypeOK
  <2> QED  BY <1>1, <2>1, <2>2, StateTypes DEF NotedStuck, EggStates
<1>2. CASE ~(e \in Resident /\ ~egg[e].pinned)
  BY <1>2 DEF NotedStuck, TypeOK
<1> QED  BY <1>1, <1>2

\* A load leaves an entry of the right type.
LEMMA KeptTypes == KeptEntries \subseteq Egg
<1>1. [FreshEgg EXCEPT !.st = "crashed"] \in Egg
  BY DEF FreshEgg, Egg, EggStates
<1>2. [FreshEgg EXCEPT !.st = "crashed", !.port = TRUE] \in Egg
  BY DEF FreshEgg, Egg, EggStates
<1>3. [FreshEgg EXCEPT !.st = "ready", !.alive = TRUE, !.port = TRUE] \in Egg
  BY DEF FreshEgg, Egg, EggStates
<1> QED  BY <1>1, <1>2, <1>3 DEF KeptEntries

\* So does a registration.
LEMMA RegisteringTypes ==
    ASSUME TypeOK, NEW m, NEW new \in Eggs, NEW fields \in Egg,
           Registering(m, new, fields)
    PROVE  procs' \in [Models -> Eggs \cup {NoEgg}] /\ egg' \in [Eggs -> Egg]
<1>1. PICK c \in Clearances(Bystanders(m), m) :
        /\ procs' = [Without(c.gone) EXCEPT ![m] = new]
        /\ egg' = [StoppedAndForgotten(c.gone \cup Occupant(m)) EXCEPT ![new] = fields]
  BY DEF Registering
<1>2. procs' \in [Models -> Eggs \cup {NoEgg}]
  BY <1>1, BookTypes
<1>3. egg' \in [Eggs -> Egg]
  BY <1>1, BookTypes
<1> QED  BY <1>2, <1>3

-----------------------------------------------------------------------------
(* Type correctness *)

USE DEF Threads

\* Every step keeps the types.
LEMMA TypeStep == TypeOK /\ [Next]_vars => TypeOK'
<1> SUFFICES ASSUME TypeOK, [Next]_vars PROVE TypeOK'
  OBVIOUS
<1>a. egg \in [Eggs -> Egg]
  BY DEF TypeOK
<1> USE DEF rest
<1>1. ASSUME NEW t \in Threads, NEW m \in Models, StartCall(t, m) PROVE TypeOK'
  BY <1>1 DEF TypeOK, StartPCs, InferPCs, StartCall, Goto
<1>2. ASSUME NEW m \in Models, InferCall(m) PROVE TypeOK'
  BY <1>2 DEF TypeOK, StartPCs, InferPCs, InferCall, Goto
<1>3. ASSUME NEW t \in Threads, StartEnter(t) PROVE TypeOK'
  <2>1. CASE Finished(t)
    BY <1>3, <2>1, EndTypes DEF TypeOK, CallTypes, StartEnter
  <2>2. CASE Goto(t, "request") /\ UNCHANGED <<want, ptr, res, job>>
    BY <1>3, <2>2 DEF TypeOK, StartPCs, StartEnter, Goto
  <2> QED  BY <1>3, <2>1, <2>2 DEF StartEnter
<1>4. ASSUME NEW t \in Threads, StartRequest(t) PROVE TypeOK'
  <2>1. egg' \in [Eggs -> Egg]
    BY <1>a, <1>4 DEF StartRequest, RequestModel, Egg, EggStates
  <2> QED  BY <1>4, <2>1 DEF TypeOK, StartPCs, InferPCs, StartRequest, Goto
<1>5. ASSUME NEW t \in Threads, StartPoll(t) PROVE TypeOK'
  <2>1. egg' \in [Eggs -> Egg]
    BY <1>a, <1>5 DEF StartPoll, RequestModel, Egg, EggStates
  <2> QED  BY <1>5, <2>1 DEF TypeOK, StartPCs, InferPCs, StartPoll, Goto
<1>6. ASSUME NEW t \in Threads, StartPollTimeout(t) PROVE TypeOK'
  BY <1>6 DEF TypeOK, StartPCs, InferPCs, StartPollTimeout, Goto
<1>7. ASSUME NEW t \in Threads, StartPickVictim(t) PROVE TypeOK'
  BY <1>7 DEF TypeOK, StartPCs, InferPCs, StartPickVictim, Resident, Goto
<1>8. ASSUME NEW t \in Threads, StartPrecheck(t) PROVE TypeOK'
  BY <1>8 DEF TypeOK, StartPCs, InferPCs, StartPrecheck, Goto
<1>9. ASSUME NEW t \in Threads, StartRestoreVictim(t) PROVE TypeOK'
  <2>1. egg' \in [Eggs -> Egg]
    BY <1>a, <1>9 DEF StartRestoreVictim, Egg, EggStates
  <2> QED  BY <1>9, <2>1 DEF TypeOK, StartPCs, InferPCs, StartRestoreVictim, Goto, Reply
<1>10. ASSUME NEW t \in Threads, StartStopVictim(t) PROVE TypeOK'
  <2>1. egg' \in [Eggs -> Egg]
    BY <1>a, <1>10 DEF StartStopVictim, Egg, EggStates
  <2> QED  BY <1>10, <2>1 DEF TypeOK, StartPCs, InferPCs, StartStopVictim, Goto
<1>11. ASSUME NEW t \in Threads, StartForgetVictim(t) PROVE TypeOK'
  <2>1. egg' \in [Eggs -> Egg]
    BY <1>a, <1>11, BookTypes DEF StartForgetVictim
  <2> QED  BY <1>11, <2>1, BookTypes DEF TypeOK, StartPCs, InferPCs, StartForgetVictim, Goto
<1>12. ASSUME NEW t \in Threads, StartNormal(t) PROVE TypeOK'
  <2>1. egg' \in [Eggs -> Egg]
    BY <1>a, <1>12 DEF StartNormal, Egg, EggStates
  <2> QED  BY <1>12, <2>1 DEF TypeOK, StartPCs, InferPCs, StartNormal, Goto, Reply
<1>13. ASSUME NEW t \in Threads, DoStartSelfHeal(t) PROVE TypeOK'
  <2> DEFINE old == procs[want[t]]
  <2>1. egg' = [egg EXCEPT ![old].st = "ready", ![old].used = TRUE]
    BY <1>13 DEF DoStartSelfHeal
  <2>2. egg' \in [Eggs -> Egg]
    <3> HIDE DEF old
    <3> QED  BY <1>a, <2>1, StateTypes DEF EggStates
  <2> QED  BY <1>13, <2>2 DEF TypeOK, StartPCs, InferPCs, DoStartSelfHeal, Goto
<1>14. ASSUME NEW t \in Threads, DoStartRefused(t) PROVE TypeOK'
  <2>1. egg' \in [Eggs -> Egg]
    BY <1>a, <1>14, BookTypes DEF DoStartRefused
  <2> QED  BY <1>14, <2>1, BookTypes DEF TypeOK, StartPCs, InferPCs, DoStartRefused, Goto
<1>15. ASSUME NEW t \in Threads, DoStartBare(t) PROVE TypeOK'
  <2>1. PICK new \in Eggs, fields \in KeptEntries : Registering(want[t], new, fields)
    BY <1>15 DEF DoStartBare
  <2>2. fields \in Egg
    BY KeptTypes
  <2>3. procs' \in [Models -> Eggs \cup {NoEgg}] /\ egg' \in [Eggs -> Egg]
    BY <2>1, <2>2, RegisteringTypes
  <2> QED  BY <1>15, <2>3 DEF TypeOK, StartPCs, InferPCs, DoStartBare, Goto
<1>16. ASSUME NEW t \in Threads, DoStartHatch(t) PROVE TypeOK'
  <2>1. PICK new \in Eggs :
          \/ /\ Registering(want[t], new, [FreshEgg EXCEPT !.port = TRUE])
             /\ ptr' = [ptr EXCEPT ![t] = new] /\ Goto(t, "expand") /\ UNCHANGED res
          \/ /\ Registering(want[t], new, [FreshEgg EXCEPT !.st = "crashed"])
             /\ res' = [res EXCEPT ![t] = "err"] /\ Goto(t, "finish") /\ UNCHANGED ptr
    BY <1>16 DEF DoStartHatch
  <2>2. [FreshEgg EXCEPT !.port = TRUE] \in Egg /\ [FreshEgg EXCEPT !.st = "crashed"] \in Egg
    BY DEF FreshEgg, Egg, EggStates
  <2>3. procs' \in [Models -> Eggs \cup {NoEgg}] /\ egg' \in [Eggs -> Egg]
    BY <2>1, <2>2, RegisteringTypes
  <2>4. UNCHANGED <<loading, want, job, rest>>
    BY <1>16 DEF DoStartHatch
  <2>5. pc[t] = "load"
    BY <1>16 DEF DoStartHatch
  <2> QED  BY <2>1, <2>3, <2>4, <2>5 DEF TypeOK, StartPCs, InferPCs, Goto
<1>17. ASSUME NEW t \in Threads, HatchCancelled(t) PROVE TypeOK'
  BY <1>17 DEF TypeOK, StartPCs, InferPCs, HatchCancelled, Goto
<1>18. ASSUME NEW t \in Threads, HatchDone(t) PROVE TypeOK'
  <2> DEFINE new == ptr[t]
  <2>1. \/ egg' = [egg EXCEPT ![new].st = "ready", ![new].alive = TRUE]
        \/ egg' = [egg EXCEPT ![new].st = "crashed", ![new].port = FALSE]
        \/ egg' = StoppedAndForgotten({new})
    BY <1>18 DEF HatchDone
  <2>2. egg' \in [Eggs -> Egg]
    <3> HIDE DEF new
    <3>1. [egg EXCEPT ![new].st = "ready", ![new].alive = TRUE] \in [Eggs -> Egg]
      BY <1>a DEF Egg, EggStates
    <3>2. [egg EXCEPT ![new].st = "crashed", ![new].port = FALSE] \in [Eggs -> Egg]
      BY <1>a DEF Egg, EggStates
    <3> QED  BY <2>1, <3>1, <3>2, BookTypes
  <2> QED  BY <1>18, <2>2, BookTypes DEF TypeOK, StartPCs, InferPCs, HatchDone, Goto
<1>19. ASSUME NEW t \in Threads, StartFinish(t) PROVE TypeOK'
  BY <1>19 DEF TypeOK, StartPCs, InferPCs, StartFinish
<1>20. ASSUME NEW t \in Threads, StartReturn(t) PROVE TypeOK'
  <2>1. egg' \in [Eggs -> Egg]
    <3>1. egg' = egg \/ egg' = [egg EXCEPT ![procs[want[t]]].pinned = TRUE]
      BY <1>20 DEF StartReturn
    <3>2. [egg EXCEPT ![procs[want[t]]].pinned = TRUE] \in [Eggs -> Egg]
      BY <1>a, FlagTypes
    <3> QED  BY <1>a, <3>1, <3>2
  <2>2. CASE Finished(t)
    BY <1>20, <2>1, <2>2, EndTypes DEF TypeOK, CallTypes, StartReturn
  <2>3. CASE Goto(t, "recheck") /\ UNCHANGED <<want, ptr, res, job>>
    BY <1>20, <2>1, <2>3 DEF TypeOK, InferPCs, StartReturn, Goto
  <2> QED  BY <1>20, <2>2, <2>3 DEF StartReturn, Returned
<1>21. ASSUME InferRecheck PROVE TypeOK'
  BY <1>21 DEF TypeOK, StartPCs, InferPCs, InferRecheck, Finished, Goto
<1>22. ASSUME InferForward PROVE TypeOK'
  <2>1. egg' \in [Eggs -> Egg]
    <3>1. [egg EXCEPT ![procs[want[Worker]]].st = "loading",
                      ![procs[want[Worker]]].fails = 0] \in [Eggs -> Egg]
      BY <1>a, StateTypes DEF EggStates
    <3> QED  BY <1>a, <1>22, <3>1 DEF InferForward
  <2>2. CASE Finished(Worker)
    BY <1>22, <2>1, <2>2, EndTypes DEF TypeOK, CallTypes, InferForward
  <2>3. CASE Goto(Worker, "acquire")
    BY <1>22, <2>1, <2>3 DEF TypeOK, InferPCs, InferForward, Finished, Goto
  <2> QED  BY <1>22, <2>2, <2>3 DEF InferForward
<1>23. ASSUME AcquireInflight PROVE TypeOK'
  <2>1. egg' \in [Eggs -> Egg]
    BY <1>a, <1>23 DEF AcquireInflight, Egg, EggStates
  <2>2. CASE Finished(Worker) /\ UNCHANGED held
    BY <1>23, <2>1, <2>2, EndTypes DEF TypeOK, CallTypes, AcquireInflight
  <2>3. CASE held' = procs[want[Worker]] /\ Goto(Worker, "health") /\ UNCHANGED <<want, ptr, res, job>>
    BY <1>23, <2>1, <2>3 DEF TypeOK, InferPCs, AcquireInflight, Goto
  <2> QED  BY <1>23, <2>2, <2>3 DEF AcquireInflight
<1>24. ASSUME HealthCheck PROVE TypeOK'
  <2>1. egg' \in [Eggs -> Egg]
    BY <1>a, <1>24, WriteTypes, RecordTypes DEF HealthCheck
  <2> QED  BY <1>24, <2>1 DEF TypeOK, StartPCs, InferPCs, HealthCheck, WorkerStays, Goto
<1>25. ASSUME HealthRetry PROVE TypeOK'
  <2>1. egg' \in [Eggs -> Egg]
    BY <1>a, <1>25, WriteTypes DEF HealthRetry, Egg, Write
  <2> QED  BY <1>25, <2>1 DEF TypeOK, StartPCs, InferPCs, HealthRetry, WorkerStays, Goto
<1>26. ASSUME ForwardOK PROVE TypeOK'
  <2> DEFINE r == [egg[ptr[Worker]] EXCEPT !.fails = 0, !.used = TRUE]
  <2>1. ptr[Worker] \in Eggs => r \in Egg
    BY <1>a DEF Egg
  <2>2. egg' \in [Eggs -> Egg]
    BY <1>26, <2>1, WriteTypes DEF ForwardOK
  <2> QED  BY <1>26, <2>2 DEF TypeOK, StartPCs, InferPCs, ForwardOK, Goto
<1>27. ASSUME ForwardFailed PROVE TypeOK'
  <2>1. egg' \in [Eggs -> Egg]
    BY <1>a, <1>27, WriteTypes, RecordTypes DEF ForwardFailed
  <2> QED  BY <1>27, <2>1 DEF TypeOK, StartPCs, InferPCs, ForwardFailed, WorkerStays, Goto
<1>28. ASSUME ForwardStuck PROVE TypeOK'
  <2>1. egg' \in [Eggs -> Egg]
    BY <1>a, <1>28, WriteTypes, RecordTypes DEF ForwardStuck
  <2> QED  BY <1>28, <2>1 DEF TypeOK, StartPCs, InferPCs, ForwardStuck, WorkerStays, Goto
<1>29. ASSUME StallEscalate PROVE TypeOK'
  <2>1. egg' \in [Eggs -> Egg]
    BY <1>a, <1>29, WriteTypes, RecordTypes DEF StallEscalate
  <2> QED  BY <1>29, <2>1 DEF TypeOK, StartPCs, InferPCs, StallEscalate, WorkerStays, Goto
<1>30. ASSUME WatchdogNote PROVE TypeOK'
  <2>1. egg' \in [Eggs -> Egg]
    BY <1>a, <1>30, NotedTypes DEF WatchdogNote
  <2> QED  BY <1>30, <2>1 DEF TypeOK, StartPCs, InferPCs, WatchdogNote, WorkerStays, Goto
<1>31. ASSUME BodyClosed PROVE TypeOK'
  BY <1>31 DEF TypeOK, StartPCs, InferPCs, BodyClosed, GuardOff, Goto
<1>32. ASSUME ReleaseInflight PROVE TypeOK'
  <2>1. egg' \in [Eggs -> Egg]
    BY <1>a, <1>32 DEF ReleaseInflight, Egg, EggStates
  <2> QED  BY <1>32, <2>1 DEF TypeOK, StartPCs, InferPCs, ReleaseInflight, Finished, Goto
<1>33. ASSUME HungEnds PROVE TypeOK'
  BY <1>33 DEF TypeOK, StartPCs, InferPCs, HungEnds, WorkerStays, Goto
<1>34. ASSUME GuardJudge PROVE TypeOK'
  <2>1. egg' \in [Eggs -> Egg]
    BY <1>a, <1>34, WriteTypes, RecordTypes DEF GuardJudge
  <2> QED  BY <1>34, <2>1 DEF TypeOK, StartPCs, InferPCs, GuardJudge, GuardOnly
<1>35. ASSUME GuardNote PROVE TypeOK'
  <2>1. egg' \in [Eggs -> Egg]
    BY <1>a, <1>35, NotedTypes DEF GuardNote
  <2> QED  BY <1>35, <2>1 DEF TypeOK, StartPCs, InferPCs, GuardNote, GuardOnly, GuardOff
<1>36. ASSUME GuardHard PROVE TypeOK'
  <2>1. egg' \in [Eggs -> Egg]
    BY <1>a, <1>36, WriteTypes, RecordTypes DEF GuardHard
  <2> QED  BY <1>36, <2>1 DEF TypeOK, StartPCs, InferPCs, GuardHard, GuardOnly
<1>37. ASSUME GuardNoteHard PROVE TypeOK'
  <2>1. egg' \in [Eggs -> Egg]
    BY <1>a, <1>37, NotedTypes DEF GuardNoteHard
  <2> QED  BY <1>37, <2>1 DEF TypeOK, StartPCs, InferPCs, GuardNoteHard, GuardOnly, GuardOff
<1>38. ASSUME ReapPick PROVE TypeOK'
  <2>1. egg' \in [Eggs -> Egg]
    BY <1>a, <1>38 DEF ReapPick, Egg, EggStates
  <2> QED  BY <1>38, <2>1 DEF TypeOK, StartPCs, InferPCs, ReapPick, ReapOnly, Resident
<1>39. ASSUME ReapStop PROVE TypeOK'
  <2>1. egg' \in [Eggs -> Egg]
    <3>1. PICK e : egg' = [egg EXCEPT ![e].alive = FALSE]
      BY <1>39 DEF ReapStop
    <3>2. [egg EXCEPT ![e].alive = FALSE] \in [Eggs -> Egg]
      BY <1>a, FlagTypes
    <3> QED  BY <3>1, <3>2
  <2> QED  BY <1>39, <2>1 DEF TypeOK, StartPCs, InferPCs, ReapStop, ReapOnly
<1>40. ASSUME ReapFinalize PROVE TypeOK'
  <2>1. egg' \in [Eggs -> Egg]
    BY <1>a, <1>40, BookTypes DEF ReapFinalize
  <2> QED  BY <1>40, <2>1, BookTypes DEF TypeOK, StartPCs, InferPCs, ReapFinalize, ReapOnly
<1>41. ASSUME NEW m \in Models, UnloadBy(m) PROVE TypeOK'
  <2>1. egg' \in [Eggs -> Egg]
    BY <1>a, <1>41, BookTypes DEF UnloadBy, Evict
  <2> QED  BY <1>41, <2>1, BookTypes DEF TypeOK, StartPCs, InferPCs, UnloadBy, Evict
<1>42. ASSUME UnloadAll PROVE TypeOK'
  <2>1. egg' \in [Eggs -> Egg]
    BY <1>a, <1>42, BookTypes DEF UnloadAll, Evict
  <2> QED  BY <1>42, <2>1, BookTypes DEF TypeOK, StartPCs, InferPCs, UnloadAll, Evict
<1>43. ASSUME Stop PROVE TypeOK'
  <2>1. egg' \in [Eggs -> Egg]
    BY <1>a, <1>43, BookTypes DEF Stop, Evict
  <2> QED  BY <1>43, <2>1, BookTypes DEF TypeOK, StartPCs, InferPCs, Stop, Evict
<1>44. ASSUME NEW m \in Models, Pin(m) PROVE TypeOK'
  <2>1. egg' \in [Eggs -> Egg]
    BY <1>a, <1>44 DEF Pin, Egg, EggStates
  <2> QED  BY <1>44, <2>1 DEF TypeOK, StartPCs, InferPCs, Pin, EggOnly
<1>45. ASSUME RenewDefaultPin PROVE TypeOK'
  <2>1. egg' \in [Eggs -> Egg]
    BY <1>a, <1>45 DEF RenewDefaultPin, Egg, EggStates
  <2> QED  BY <1>45, <2>1 DEF TypeOK, StartPCs, InferPCs, RenewDefaultPin, EggOnly
<1>46. ASSUME NEW m \in Models, Unpin(m) PROVE TypeOK'
  <2>1. egg' \in [Eggs -> Egg]
    BY <1>a, <1>46 DEF Unpin, Egg, EggStates
  <2> QED  BY <1>46, <2>1 DEF TypeOK, StartPCs, InferPCs, Unpin, EggOnly
<1>47. ASSUME NEW e \in Eggs, EngineDies(e) PROVE TypeOK'
  <2>1. egg' \in [Eggs -> Egg]
    BY <1>a, <1>47 DEF EngineDies, Egg, EggStates
  <2> QED  BY <1>47, <2>1 DEF TypeOK, StartPCs, InferPCs, EngineDies, EggOnly
<1>48. ASSUME UNCHANGED vars PROVE TypeOK'
  BY <1>48 DEF TypeOK, StartPCs, InferPCs, vars
<1> QED
  BY <1>1, <1>2, <1>3, <1>4, <1>5, <1>6, <1>7, <1>8, <1>9, <1>10, <1>11, <1>12, <1>13, <1>14, <1>15, <1>16, <1>17, <1>18, <1>19, <1>20, <1>21, <1>22, <1>23, <1>24, <1>25, <1>26, <1>27, <1>28, <1>29, <1>30, <1>31, <1>32, <1>33, <1>34, <1>35, <1>36, <1>37, <1>38, <1>39, <1>40, <1>41, <1>42, <1>43, <1>44, <1>45, <1>46, <1>47, <1>48
     DEF Next, StartStep, InferStep, GuardStep, ReapStep, Operator

\* The variables of the egg manager have their types in every reachable state.
THEOREM TypeCorrect == Spec => []TypeOK
<1>1. Init => TypeOK
  <2> SUFFICES ASSUME Init PROVE TypeOK
    OBVIOUS
  <2>1. egg \in [Eggs -> Egg]
    BY RecordTypes DEF Init
  <2>2. guard \in [stage : {"off", "watch", "soft", "grace", "hard"}, egg : Eggs \cup {NoEgg}]
    BY DEF Init
  <2>3. reap \in [todo : SUBSET Eggs, cur : Eggs \cup {NoEgg}]
    BY DEF Init
  <2> QED  BY <2>1, <2>2, <2>3 DEF Init, TypeOK
<1> QED  BY <1>1, TypeStep, PTL DEF Spec

-----------------------------------------------------------------------------
(* The book: nothing runs outside it, and it is of one kind *)

BookInv == BookOK /\ BookOneKind /\ NoOrphan

\* No engine starts in this step.
NoneStarts == \A e \in Eggs : egg'[e].alive => egg[e].alive

\* A step without a registration keeps the book in order if it starts no engine and strikes
\* off only eggs that do not run afterwards.
LEMMA BookShrinks ==
    ASSUME TypeOK, BookInv, NoneStarts, NEW gone, procs' = Without(gone),
           \A e \in Eggs \cap gone : ~egg'[e].alive
    PROVE  BookInv'
<1>1. BookOK'
  BY NamesAssumption DEF BookInv, BookOK, Without
<1>2. Resident' = Resident \ gone
  BY ModelsAssumption, NamesAssumption DEF Resident, Without
<1>3. BookOneKind'
  BY <1>2 DEF BookInv, BookOneKind
<1>4. NoOrphan'
  BY <1>2 DEF BookInv, NoOrphan, NoneStarts
<1> QED  BY <1>1, <1>3, <1>4 DEF BookInv

\* A special case: nothing is struck off.
LEMMA BookStays ==
    ASSUME TypeOK, BookInv, NoneStarts, UNCHANGED procs
    PROVE  BookInv'
<1>1. procs' = Without({})
  BY DEF Without, TypeOK
<1> QED  BY <1>1, BookShrinks

\* What evictOtherKindsLocked is for: a load that passes the gates leaves nothing of the
\* other service kind behind.
LEMMA ClearanceSound ==
    ASSUME NEW S, NEW m, NEW c \in Clearances(S, m), c.pass
    PROVE  \A e \in S \ c.gone : KindOf[ModelOf[e]] = KindOf[m]
<1>1. PICK V \in SlotVictims(S) :
        LET left  == S \ V
            other == OtherKind(left, m)
            kin   == left \ (other \cap Actionable(left))
        IN  /\ c.pass = (other \subseteq Actionable(left))
            /\ IF c.pass
                 THEN \E M \in Prefixes(kin) : c.gone = V \cup other \cup M
                 ELSE c.gone = V \cup (other \cap Actionable(left))
  BY DEF Clearances
<1>2. V \cup OtherKind(S \ V, m) \subseteq c.gone
  BY <1>1
<1> QED  BY <1>2 DEF OtherKind

\* A registration keeps the book in order.
LEMMA BookRegisters ==
    ASSUME TypeOK, BookInv, NEW m \in Models, NEW new \in Eggs, ModelOf[new] = m,
           NEW fields \in Egg, Registering(m, new, fields)
    PROVE  BookInv'
<1>1. PICK c \in Clearances(Bystanders(m), m) :
        /\ c.pass
        /\ procs' = [Without(c.gone) EXCEPT ![m] = new]
        /\ egg' = [StoppedAndForgotten(c.gone \cup Occupant(m)) EXCEPT ![new] = fields]
  BY DEF Registering
<1>2. \A e \in Bystanders(m) \ c.gone : KindOf[ModelOf[e]] = KindOf[m]
  BY <1>1, ClearanceSound
<1>3. /\ procs'[m] = new
      /\ \A k \in Models \ {m} : procs'[k] = IF procs[k] \in c.gone THEN NoEgg ELSE procs[k]
  BY <1>1 DEF Without
<1>4. BookOK'
  BY <1>3 DEF BookInv, BookOK
<1>5. \A e \in Eggs : e \in Resident' => e = new \/ e \in Bystanders(m) \ c.gone
  BY <1>3, ModelsAssumption, NamesAssumption DEF Resident, Bystanders, Occupant, BookInv, BookOK
<1>6. BookOneKind'
  BY <1>2, <1>5 DEF BookOneKind, Resident
<1>7. ASSUME NEW e \in Eggs, egg'[e].alive PROVE e \in Resident'
  <2>1. CASE e = new
    BY <2>1, <1>3 DEF Resident
  <2>2. CASE e # new
    <3>1. e \notin c.gone \cup Occupant(m) /\ egg[e].alive
      BY <1>1, <1>7, <2>2 DEF StoppedAndForgotten, FreshEgg
    <3>2. procs[ModelOf[e]] = e
      BY <3>1 DEF BookInv, NoOrphan, Resident
    <3>3. ModelOf[e] # m
      BY <3>1, <3>2, NamesAssumption DEF Occupant
    <3> QED  BY <1>3, <3>1, <3>2, <3>3, ModelsAssumption DEF Resident
  <2> QED  BY <2>1, <2>2
<1> QED  BY <1>4, <1>6, <1>7 DEF BookInv, NoOrphan

-----------------------------------------------------------------------------
(* Eggs in the hands of one goroutine *)

HandsInv == ExpandPrivate /\ ForgetStopped

\* An egg some goroutine other than an expanding loader may point to.
Settled == {e \in Eggs : egg[e].st # "loading"}

\* The eggs through a calm step: no engine starts, and those in expansion are left alone.
EggsCalm ==
    /\ NoneStarts
    /\ \A t \in Threads : pc[t] = "expand" => egg'[ptr[t]].st = "loading"

\* The goroutines through a calm step: none begins an expansion or a striking off, and the
\* pointers taken up are to settled eggs.
MovesCalm ==
    /\ \A t \in Threads : pc'[t] \in {"expand", "forget"} => pc'[t] = pc[t] /\ ptr'[t] = ptr[t]
    /\ \A t \in Threads : ptr'[t] \in {ptr[t], NoEgg} \cup Settled
    /\ reap'.todo \subseteq reap.todo \cup Settled
    /\ reap'.cur \in {NoEgg, reap.cur}
    /\ \/ guard'.egg \in {NoEgg, guard.egg}
       \/ guard'.egg = ptr[Worker] /\ pc[Worker] # "expand"

Calm == EggsCalm /\ MovesCalm

\* A calm step leaves every egg in the hands it is in.
LEMMA CalmHands ==
    ASSUME TypeOK, HandsInv, Calm
    PROVE  HandsInv'
<1>1. ExpandPrivate'
  <2> SUFFICES ASSUME NEW t \in Threads, pc'[t] = "expand"
               PROVE  /\ ptr'[t] \in Eggs
                      /\ egg'[ptr'[t]].st = "loading"
                      /\ \A u \in Threads \ {t} : ptr'[u] # ptr'[t]
                      /\ ptr'[t] \notin reap'.todo
                      /\ ptr'[t] # reap'.cur
                      /\ ptr'[t] # guard'.egg
    BY DEF ExpandPrivate
  <2>1. pc[t] = "expand" /\ ptr'[t] = ptr[t] /\ egg'[ptr[t]].st = "loading"
    BY DEF Calm, EggsCalm, MovesCalm
  <2>2. /\ ptr[t] \in Eggs
        /\ egg[ptr[t]].st = "loading"
        /\ \A u \in Threads \ {t} : ptr[u] # ptr[t]
        /\ ptr[t] \notin reap.todo
        /\ ptr[t] # reap.cur
        /\ ptr[t] # guard.egg
    BY <2>1 DEF HandsInv, ExpandPrivate
  <2>3. ptr[t] # NoEgg /\ ptr[t] \notin Settled
    BY <2>2, NamesAssumption DEF Settled
  <2>4. pc[Worker] # "expand" => t # Worker
    BY <2>1
  <2> QED  BY <2>1, <2>2, <2>3, <2>4 DEF Calm, MovesCalm
<1>2. ForgetStopped'
  <2>1. ASSUME NEW t \in Threads, pc'[t] = "forget", ptr'[t] \in Eggs
        PROVE  ~egg'[ptr'[t]].alive
    BY <2>1 DEF Calm, EggsCalm, MovesCalm, NoneStarts, HandsInv, ForgetStopped
  <2>2. ASSUME reap'.cur # NoEgg PROVE ~egg'[reap'.cur].alive
    <3>1. reap'.cur = reap.cur /\ ~egg[reap.cur].alive
      BY <2>2 DEF Calm, MovesCalm, HandsInv, ForgetStopped
    <3>2. reap.cur \in Eggs
      BY <2>2, <3>1 DEF TypeOK
    <3> QED  BY <3>1, <3>2 DEF Calm, EggsCalm, MovesCalm, NoneStarts
  <2> QED  BY <2>1, <2>2 DEF ForgetStopped
<1> QED  BY <1>1, <1>2 DEF HandsInv

\* A failure or a stop never starts an engine.
LEMMA FailedDown ==
    \A r \in Egg : ~Stopped(r).alive /\ (Failed(r).alive => r.alive)
<1> SUFFICES ASSUME NEW r \in Egg PROVE ~Stopped(r).alive /\ (Failed(r).alive => r.alive)
  OBVIOUS
<1>1. ~Stopped(r).alive
  BY DEF Stopped, Egg
<1>2. [Stopped(r) EXCEPT !.st = "crashed", !.fails = FailLimit].alive = Stopped(r).alive
  BY RecordTypes DEF Egg
<1>3. [r EXCEPT !.fails = r.fails + 1].alive = r.alive
  BY DEF Egg
<1> QED  BY <1>1, <1>2, <1>3 DEF Failed

\* All steps but five.
CalmNext ==
    \/ \E t \in Threads, m \in Models : StartCall(t, m)
    \/ \E m \in Models : InferCall(m)
    \/ \E t \in Threads :
         \/ StartEnter(t) \/ StartRequest(t) \/ StartPoll(t) \/ StartPollTimeout(t)
         \/ StartPickVictim(t) \/ StartPrecheck(t) \/ StartRestoreVictim(t)
         \/ StartForgetVictim(t) \/ StartNormal(t) \/ DoStartSelfHeal(t)
         \/ DoStartRefused(t) \/ HatchCancelled(t) \/ StartFinish(t) \/ StartReturn(t)
    \/ InferStep \/ HungEnds \/ GuardStep \/ ReapPick \/ ReapFinalize \/ Operator
    \/ \E e \in Eggs : EngineDies(e)
    \/ UNCHANGED vars

\* They are calm.
LEMMA CalmSteps ==
    ASSUME TypeOK, HandsInv, CalmNext
    PROVE  Calm
<1>a. egg \in [Eggs -> Egg]
  BY DEF TypeOK
<1>b. pc \in [Threads -> {"idle"} \cup StartPCs \cup InferPCs] /\ ptr \in [Threads -> Eggs \cup {NoEgg}]
  BY DEF TypeOK
<1>c. \A t \in Threads : pc[t] # "idle" => want[t] \in Models
  BY DEF TypeOK
<1>d. procs \in [Models -> Eggs \cup {NoEgg}]
  BY DEF TypeOK
<1>e. \A t \in Threads : pc[t] = "expand" =>
        /\ ptr[t] \in Eggs /\ egg[ptr[t]].st = "loading" /\ ptr[t] # guard.egg
        /\ \A u \in Threads : ptr[u] = ptr[t] => u = t
  BY DEF HandsInv, ExpandPrivate
<1>f. UNCHANGED egg => EggsCalm
  BY <1>e DEF EggsCalm, NoneStarts
<1> USE DEF rest
<1>1. ASSUME NEW t \in Threads, NEW m \in Models, StartCall(t, m) PROVE Calm
  <2>1. EggsCalm
    BY <1>f, <1>1 DEF StartCall
  <2>2. MovesCalm
    BY <1>b, <1>c, <1>d, <1>1 DEF MovesCalm, StartCall, Goto
  <2> QED  BY <2>1, <2>2 DEF Calm
<1>2. ASSUME NEW m \in Models, InferCall(m) PROVE Calm
  <2>1. EggsCalm
    BY <1>f, <1>2 DEF InferCall
  <2>2. MovesCalm
    BY <1>b, <1>c, <1>d, <1>2 DEF MovesCalm, InferCall, Goto
  <2> QED  BY <2>1, <2>2 DEF Calm
<1>3. ASSUME NEW t \in Threads, StartEnter(t) PROVE Calm
  <2>1. EggsCalm
    BY <1>f, <1>3 DEF StartEnter
  <2>2. MovesCalm
    BY <1>b, <1>c, <1>d, <1>3 DEF MovesCalm, StartEnter, Finished, Goto
  <2> QED  BY <2>1, <2>2 DEF Calm
<1>4. ASSUME NEW t \in Threads, StartRequest(t) PROVE Calm
  <2>1. EggsCalm
    BY <1>a, <1>c, <1>d, <1>e, <1>4 DEF EggsCalm, NoneStarts, Egg, StartRequest, RequestModel, Serving
  <2>2. MovesCalm
    BY <1>b, <1>c, <1>d, <1>4 DEF MovesCalm, StartRequest, Goto
  <2> QED  BY <2>1, <2>2 DEF Calm
<1>5. ASSUME NEW t \in Threads, StartPoll(t) PROVE Calm
  <2>1. EggsCalm
    BY <1>a, <1>c, <1>d, <1>e, <1>5 DEF EggsCalm, NoneStarts, Egg, StartPoll, RequestModel, Serving
  <2>2. MovesCalm
    BY <1>b, <1>c, <1>d, <1>5 DEF MovesCalm, StartPoll, Goto
  <2> QED  BY <2>1, <2>2 DEF Calm
<1>6. ASSUME NEW t \in Threads, StartPollTimeout(t) PROVE Calm
  <2>1. EggsCalm
    BY <1>f, <1>6 DEF StartPollTimeout
  <2>2. MovesCalm
    BY <1>b, <1>c, <1>d, <1>6 DEF MovesCalm, StartPollTimeout, Goto
  <2> QED  BY <2>1, <2>2 DEF Calm
<1>7. ASSUME NEW t \in Threads, StartPickVictim(t) PROVE Calm
  <2>1. EggsCalm
    BY <1>f, <1>7 DEF StartPickVictim
  <2>2. MovesCalm
    BY <1>b, <1>c, <1>d, <1>7 DEF MovesCalm, StartPickVictim, Goto, Resident, Settled
  <2> QED  BY <2>1, <2>2 DEF Calm
<1>8. ASSUME NEW t \in Threads, StartPrecheck(t) PROVE Calm
  <2>1. EggsCalm
    BY <1>f, <1>8 DEF StartPrecheck
  <2>2. MovesCalm
    BY <1>b, <1>c, <1>d, <1>8 DEF MovesCalm, StartPrecheck, Goto
  <2> QED  BY <2>1, <2>2 DEF Calm
<1>9. ASSUME NEW t \in Threads, StartRestoreVictim(t) PROVE Calm
  <2>1. EggsCalm
    BY <1>a, <1>c, <1>d, <1>e, <1>9 DEF EggsCalm, NoneStarts, Egg, StartRestoreVictim
  <2>2. MovesCalm
    BY <1>b, <1>c, <1>d, <1>9 DEF MovesCalm, StartRestoreVictim, Goto, Reply
  <2> QED  BY <2>1, <2>2 DEF Calm
<1>10. ASSUME NEW t \in Threads, StartForgetVictim(t) PROVE Calm
  <2>1. EggsCalm
    BY <1>a, <1>c, <1>d, <1>e, <1>10 DEF EggsCalm, NoneStarts, Egg, StartForgetVictim, Forgotten, FreshEgg
  <2>2. MovesCalm
    BY <1>b, <1>c, <1>d, <1>10 DEF MovesCalm, StartForgetVictim, Goto
  <2> QED  BY <2>1, <2>2 DEF Calm
<1>11. ASSUME NEW t \in Threads, StartNormal(t) PROVE Calm
  <2>1. EggsCalm
    BY <1>a, <1>c, <1>d, <1>e, <1>11 DEF EggsCalm, NoneStarts, Egg, StartNormal, Serving
  <2>2. MovesCalm
    BY <1>b, <1>c, <1>d, <1>11 DEF MovesCalm, StartNormal, Goto, Reply
  <2> QED  BY <2>1, <2>2 DEF Calm
<1>12. ASSUME NEW t \in Threads, DoStartSelfHeal(t) PROVE Calm
  <2>1. EggsCalm
    BY <1>a, <1>c, <1>d, <1>e, <1>12 DEF EggsCalm, NoneStarts, Egg, DoStartSelfHeal
  <2>2. MovesCalm
    BY <1>b, <1>c, <1>d, <1>12 DEF MovesCalm, DoStartSelfHeal, Goto
  <2> QED  BY <2>1, <2>2 DEF Calm
<1>13. ASSUME NEW t \in Threads, DoStartRefused(t) PROVE Calm
  <2>1. EggsCalm
    BY <1>a, <1>c, <1>d, <1>e, <1>13 DEF EggsCalm, NoneStarts, Egg, DoStartRefused, StoppedAndForgotten, FreshEgg
  <2>2. MovesCalm
    BY <1>b, <1>c, <1>d, <1>13 DEF MovesCalm, DoStartRefused, Goto
  <2> QED  BY <2>1, <2>2 DEF Calm
<1>14. ASSUME NEW t \in Threads, HatchCancelled(t) PROVE Calm
  <2>1. EggsCalm
    BY <1>f, <1>14 DEF HatchCancelled
  <2>2. MovesCalm
    BY <1>b, <1>c, <1>d, <1>14 DEF MovesCalm, HatchCancelled, Goto
  <2> QED  BY <2>1, <2>2 DEF Calm
<1>15. ASSUME NEW t \in Threads, StartFinish(t) PROVE Calm
  <2>1. EggsCalm
    BY <1>f, <1>15 DEF StartFinish
  <2>2. MovesCalm
    BY <1>b, <1>c, <1>d, <1>15 DEF MovesCalm, StartFinish
  <2> QED  BY <2>1, <2>2 DEF Calm
<1>16. ASSUME NEW t \in Threads, StartReturn(t) PROVE Calm
  <2>1. EggsCalm
    BY <1>a, <1>c, <1>d, <1>e, <1>16 DEF EggsCalm, NoneStarts, Egg, StartReturn
  <2>2. MovesCalm
    BY <1>b, <1>c, <1>d, <1>16 DEF MovesCalm, StartReturn, Returned, Finished, Goto
  <2> QED  BY <2>1, <2>2 DEF Calm
<1>17. ASSUME InferRecheck PROVE Calm
  <2>1. EggsCalm
    BY <1>f, <1>17 DEF InferRecheck
  <2>2. MovesCalm
    BY <1>b, <1>c, <1>d, <1>17 DEF MovesCalm, InferRecheck, Finished, Goto
  <2> QED  BY <2>1, <2>2 DEF Calm
<1>18. ASSUME InferForward PROVE Calm
  <2>1. EggsCalm
    BY <1>a, <1>c, <1>d, <1>e, <1>18 DEF EggsCalm, NoneStarts, Egg, InferForward, Serving
  <2>2. MovesCalm
    BY <1>b, <1>c, <1>d, <1>18 DEF MovesCalm, InferForward, Finished, Goto, Serving, Settled
  <2> QED  BY <2>1, <2>2 DEF Calm
<1>19. ASSUME AcquireInflight PROVE Calm
  <2>1. EggsCalm
    BY <1>a, <1>c, <1>d, <1>e, <1>19 DEF EggsCalm, NoneStarts, Egg, AcquireInflight, Serving
  <2>2. MovesCalm
    BY <1>b, <1>c, <1>d, <1>19 DEF MovesCalm, AcquireInflight, Finished, Goto
  <2> QED  BY <2>1, <2>2 DEF Calm
<1>20. ASSUME HealthCheck PROVE Calm
  <2>1. EggsCalm
    BY <1>a, <1>c, <1>d, <1>e, <1>20, FailedDown DEF EggsCalm, NoneStarts, Egg, HealthCheck, Write
  <2>2. MovesCalm
    BY <1>b, <1>c, <1>d, <1>20 DEF MovesCalm, HealthCheck, WorkerStays, Goto
  <2> QED  BY <2>1, <2>2 DEF Calm
<1>21. ASSUME HealthRetry PROVE Calm
  <2>1. EggsCalm
    BY <1>a, <1>c, <1>d, <1>e, <1>21 DEF EggsCalm, NoneStarts, Egg, HealthRetry, Write
  <2>2. MovesCalm
    BY <1>b, <1>c, <1>d, <1>21 DEF MovesCalm, HealthRetry, WorkerStays, Goto
  <2> QED  BY <2>1, <2>2 DEF Calm
<1>22. ASSUME ForwardOK PROVE Calm
  <2>1. EggsCalm
    BY <1>a, <1>c, <1>d, <1>e, <1>22 DEF EggsCalm, NoneStarts, Egg, ForwardOK, Write
  <2>2. MovesCalm
    BY <1>b, <1>c, <1>d, <1>22 DEF MovesCalm, ForwardOK, Goto
  <2> QED  BY <2>1, <2>2 DEF Calm
<1>23. ASSUME ForwardFailed PROVE Calm
  <2>1. EggsCalm
    BY <1>a, <1>c, <1>d, <1>e, <1>23, FailedDown DEF EggsCalm, NoneStarts, Egg, ForwardFailed, Write
  <2>2. MovesCalm
    BY <1>b, <1>c, <1>d, <1>23 DEF MovesCalm, ForwardFailed, WorkerStays, Goto
  <2> QED  BY <2>1, <2>2 DEF Calm
<1>24. ASSUME ForwardStuck PROVE Calm
  <2>1. EggsCalm
    BY <1>a, <1>c, <1>d, <1>e, <1>24 DEF EggsCalm, NoneStarts, Egg, ForwardStuck, Write, StaleKilled
  <2>2. MovesCalm
    BY <1>b, <1>c, <1>d, <1>24 DEF MovesCalm, ForwardStuck, WorkerStays, Goto
  <2> QED  BY <2>1, <2>2 DEF Calm
<1>25. ASSUME StallEscalate PROVE Calm
  <2>1. EggsCalm
    BY <1>a, <1>c, <1>d, <1>e, <1>25, FailedDown DEF EggsCalm, NoneStarts, Egg, StallEscalate, Write
  <2>2. MovesCalm
    BY <1>b, <1>c, <1>d, <1>25 DEF MovesCalm, StallEscalate, WorkerStays, Goto
  <2> QED  BY <2>1, <2>2 DEF Calm
<1>26. ASSUME WatchdogNote PROVE Calm
  <2>1. EggsCalm
    BY <1>a, <1>c, <1>d, <1>e, <1>26 DEF EggsCalm, NoneStarts, Egg, WatchdogNote, NotedStuck
  <2>2. MovesCalm
    BY <1>b, <1>c, <1>d, <1>26 DEF MovesCalm, WatchdogNote, WorkerStays, Goto
  <2> QED  BY <2>1, <2>2 DEF Calm
<1>27. ASSUME BodyClosed PROVE Calm
  <2>1. EggsCalm
    BY <1>f, <1>27 DEF BodyClosed
  <2>2. MovesCalm
    BY <1>b, <1>c, <1>d, <1>27 DEF MovesCalm, BodyClosed, GuardOff, Goto
  <2> QED  BY <2>1, <2>2 DEF Calm
<1>28. ASSUME ReleaseInflight PROVE Calm
  <2>1. EggsCalm
    BY <1>a, <1>c, <1>d, <1>e, <1>28 DEF EggsCalm, NoneStarts, Egg, ReleaseInflight
  <2>2. MovesCalm
    BY <1>b, <1>c, <1>d, <1>28 DEF MovesCalm, ReleaseInflight, Finished, Goto
  <2> QED  BY <2>1, <2>2 DEF Calm
<1>29. ASSUME HungEnds PROVE Calm
  <2>1. EggsCalm
    BY <1>f, <1>29 DEF HungEnds, WorkerStays, Goto
  <2>2. MovesCalm
    BY <1>b, <1>c, <1>d, <1>29 DEF MovesCalm, HungEnds, WorkerStays, Goto
  <2> QED  BY <2>1, <2>2 DEF Calm
<1>30. ASSUME GuardJudge PROVE Calm
  <2>1. EggsCalm
    BY <1>a, <1>c, <1>d, <1>e, <1>30 DEF EggsCalm, NoneStarts, Egg, GuardJudge, Write, StaleKilled
  <2>2. MovesCalm
    BY <1>b, <1>c, <1>d, <1>30 DEF MovesCalm, GuardJudge, GuardOnly
  <2> QED  BY <2>1, <2>2 DEF Calm
<1>31. ASSUME GuardNote PROVE Calm
  <2>1. EggsCalm
    BY <1>a, <1>c, <1>d, <1>e, <1>31 DEF EggsCalm, NoneStarts, Egg, GuardNote, NotedStuck
  <2>2. guard'.egg \in {NoEgg, guard.egg}
    <3>1. CASE guard' = GuardOff
      BY <3>1 DEF GuardOff
    <3>2. CASE guard' = [guard EXCEPT !.stage = "grace"]
      BY <3>2 DEF TypeOK
    <3> QED  BY <1>31, <3>1, <3>2 DEF GuardNote
  <2>3. MovesCalm
    BY <1>31, <2>2 DEF MovesCalm, GuardNote, GuardOnly
  <2> QED  BY <2>1, <2>3 DEF Calm
<1>32. ASSUME GuardHard PROVE Calm
  <2>1. EggsCalm
    BY <1>a, <1>c, <1>d, <1>e, <1>32, FailedDown DEF EggsCalm, NoneStarts, Egg, GuardHard, Write
  <2>2. MovesCalm
    BY <1>b, <1>c, <1>d, <1>32 DEF MovesCalm, GuardHard, GuardOnly
  <2> QED  BY <2>1, <2>2 DEF Calm
<1>33. ASSUME GuardNoteHard PROVE Calm
  <2>1. EggsCalm
    BY <1>a, <1>c, <1>d, <1>e, <1>33 DEF EggsCalm, NoneStarts, Egg, GuardNoteHard, NotedStuck
  <2>2. MovesCalm
    BY <1>b, <1>c, <1>d, <1>33 DEF MovesCalm, GuardNoteHard, GuardOnly, GuardOff
  <2> QED  BY <2>1, <2>2 DEF Calm
<1>34. ASSUME ReapPick PROVE Calm
  <2>1. EggsCalm
    BY <1>a, <1>c, <1>d, <1>e, <1>34 DEF EggsCalm, NoneStarts, Egg, ReapPick
  <2>2. MovesCalm
    BY <1>b, <1>c, <1>d, <1>34 DEF MovesCalm, ReapPick, ReapOnly, Resident, Settled
  <2> QED  BY <2>1, <2>2 DEF Calm
<1>35. ASSUME ReapFinalize PROVE Calm
  <2>1. EggsCalm
    BY <1>a, <1>c, <1>d, <1>e, <1>35 DEF EggsCalm, NoneStarts, Egg, ReapFinalize, Forgotten, FreshEgg
  <2>2. MovesCalm
    BY <1>b, <1>c, <1>d, <1>35 DEF MovesCalm, ReapFinalize, ReapOnly
  <2> QED  BY <2>1, <2>2 DEF Calm
<1>36. ASSUME NEW m \in Models, UnloadBy(m) PROVE Calm
  <2>1. EggsCalm
    BY <1>a, <1>c, <1>d, <1>e, <1>36 DEF EggsCalm, NoneStarts, Egg, UnloadBy, Evict, StoppedAndForgotten, FreshEgg
  <2>2. MovesCalm
    BY <1>b, <1>c, <1>d, <1>36 DEF MovesCalm, UnloadBy, Evict
  <2> QED  BY <2>1, <2>2 DEF Calm
<1>37. ASSUME UnloadAll PROVE Calm
  <2>1. EggsCalm
    BY <1>a, <1>c, <1>d, <1>e, <1>37 DEF EggsCalm, NoneStarts, Egg, UnloadAll, Evict, StoppedAndForgotten, FreshEgg
  <2>2. MovesCalm
    BY <1>b, <1>c, <1>d, <1>37 DEF MovesCalm, UnloadAll, Evict
  <2> QED  BY <2>1, <2>2 DEF Calm
<1>38. ASSUME Stop PROVE Calm
  <2>1. EggsCalm
    BY <1>a, <1>c, <1>d, <1>e, <1>38 DEF EggsCalm, NoneStarts, Egg, Stop, Evict, StoppedAndForgotten, FreshEgg
  <2>2. MovesCalm
    BY <1>b, <1>c, <1>d, <1>38 DEF MovesCalm, Stop, Evict
  <2> QED  BY <2>1, <2>2 DEF Calm
<1>39. ASSUME NEW m \in Models, Pin(m) PROVE Calm
  <2>1. EggsCalm
    BY <1>a, <1>c, <1>d, <1>e, <1>39 DEF EggsCalm, NoneStarts, Egg, Pin, EggOnly
  <2>2. MovesCalm
    BY <1>b, <1>c, <1>d, <1>39 DEF MovesCalm, Pin, EggOnly
  <2> QED  BY <2>1, <2>2 DEF Calm
<1>40. ASSUME RenewDefaultPin PROVE Calm
  <2>1. EggsCalm
    BY <1>a, <1>c, <1>d, <1>e, <1>40 DEF EggsCalm, NoneStarts, Egg, RenewDefaultPin, EggOnly
  <2>2. MovesCalm
    BY <1>b, <1>c, <1>d, <1>40 DEF MovesCalm, RenewDefaultPin, EggOnly
  <2> QED  BY <2>1, <2>2 DEF Calm
<1>41. ASSUME NEW m \in Models, Unpin(m) PROVE Calm
  <2>1. EggsCalm
    BY <1>a, <1>c, <1>d, <1>e, <1>41 DEF EggsCalm, NoneStarts, Egg, Unpin, EggOnly
  <2>2. MovesCalm
    BY <1>b, <1>c, <1>d, <1>41 DEF MovesCalm, Unpin, EggOnly
  <2> QED  BY <2>1, <2>2 DEF Calm
<1>42. ASSUME NEW e \in Eggs, EngineDies(e) PROVE Calm
  <2>1. EggsCalm
    BY <1>a, <1>c, <1>d, <1>e, <1>42 DEF EggsCalm, NoneStarts, Egg, EngineDies, EggOnly
  <2>2. MovesCalm
    BY <1>b, <1>c, <1>d, <1>42 DEF MovesCalm, EngineDies, EggOnly
  <2> QED  BY <2>1, <2>2 DEF Calm
<1>43. ASSUME UNCHANGED vars PROVE Calm
  <2>1. EggsCalm
    BY <1>f, <1>43 DEF vars
  <2>2. MovesCalm
    BY <1>b, <1>c, <1>d, <1>43 DEF MovesCalm, vars
  <2> QED  BY <2>1, <2>2 DEF Calm
<1> QED
  BY <1>1, <1>2, <1>3, <1>4, <1>5, <1>6, <1>7, <1>8, <1>9, <1>10, <1>11, <1>12, <1>13, <1>14, <1>15, <1>16, <1>17, <1>18, <1>19, <1>20, <1>21, <1>22, <1>23, <1>24, <1>25, <1>26, <1>27, <1>28, <1>29, <1>30, <1>31, <1>32, <1>33, <1>34, <1>35, <1>36, <1>37, <1>38, <1>39, <1>40, <1>41, <1>42, <1>43
     DEF CalmNext, InferStep, GuardStep, Operator

\* What a registration does to the other eggs: it stops engines, and leaves or makes fresh
\* the eggs in expansion.
LEMMA RegisteringOthers ==
    ASSUME TypeOK, NEW m, NEW new \in Eggs, NEW fields \in Egg,
           Registering(m, new, fields)
    PROVE  /\ egg'[new] = fields
           /\ \A e \in Eggs \ {new} : egg'[e].alive => egg[e].alive
           /\ \A e \in Eggs \ {new} : egg[e].st = "loading" => egg'[e].st = "loading"
<1>1. PICK c \in Clearances(Bystanders(m), m) :
        egg' = [StoppedAndForgotten(c.gone \cup Occupant(m)) EXCEPT ![new] = fields]
  BY DEF Registering
<1> QED  BY <1>1 DEF StoppedAndForgotten, FreshEgg

\* The five steps that are not calm keep the eggs in their hands as well.
LEMMA StopVictimHands ==
    ASSUME TypeOK, HandsInv, NEW t \in Threads, StartStopVictim(t)
    PROVE  HandsInv' /\ NoneStarts
<1>1. /\ egg' = [egg EXCEPT ![ptr[t]].alive = FALSE]
      /\ pc' = [pc EXCEPT ![t] = "forget"]
      /\ UNCHANGED <<ptr, guard, reap>>
  BY DEF StartStopVictim, Goto, rest
<1>2. egg \in [Eggs -> Egg] /\ pc \in [Threads -> {"idle"} \cup StartPCs \cup InferPCs]
  BY DEF TypeOK
<1>3. \A e \in Eggs : (egg'[e].alive => egg[e].alive /\ e # ptr[t]) /\ egg'[e].st = egg[e].st
  BY <1>1, <1>2 DEF Egg
<1>4. ExpandPrivate'
  BY <1>1, <1>2, <1>3 DEF HandsInv, ExpandPrivate
<1>5. reap.cur \in Eggs \cup {NoEgg}
  BY DEF TypeOK
<1>6. ForgetStopped'
  BY <1>1, <1>2, <1>3, <1>5 DEF HandsInv, ForgetStopped
<1> QED  BY <1>3, <1>4, <1>6 DEF HandsInv, NoneStarts

\* The reaper: the egg it stops was won before, so nobody expands it.
LEMMA ReapStopHands ==
    ASSUME TypeOK, HandsInv, ReapStop
    PROVE  HandsInv' /\ NoneStarts
<1>1. PICK x \in reap.todo : /\ egg' = [egg EXCEPT ![x].alive = FALSE]
                             /\ reap' = [todo |-> reap.todo \ {x}, cur |-> x]
  BY DEF ReapStop
<1>2. UNCHANGED <<pc, ptr, guard>>
  BY DEF ReapStop, ReapOnly
<1>3. egg \in [Eggs -> Egg]
  BY DEF TypeOK
<1>4. reap'.todo \subseteq reap.todo /\ reap'.cur = x
  BY <1>1
<1>5. \A e \in Eggs : (egg'[e].alive => egg[e].alive /\ e # x) /\ egg'[e].st = egg[e].st
  BY <1>1, <1>3 DEF Egg
<1>6. ExpandPrivate'
  BY <1>2, <1>4, <1>5 DEF HandsInv, ExpandPrivate
<1>7. x \in Eggs
  BY DEF TypeOK
<1>8. ForgetStopped'
  BY <1>2, <1>4, <1>5, <1>7 DEF HandsInv, ForgetStopped
<1> QED  BY <1>5, <1>6, <1>8 DEF HandsInv, NoneStarts

\* A child process: the new egg is known to nobody else when it starts to run.
LEMMA StartBareHands ==
    ASSUME TypeOK, HandsInv, BookInv, NEW t \in Threads, DoStartBare(t)
    PROVE  HandsInv' /\ BookInv'
<1>1. PICK new \in Eggs, fields \in KeptEntries :
        Fresh(new, want[t]) /\ Registering(want[t], new, fields)
  BY DEF DoStartBare
<1>2. pc[t] = "load" /\ pc' = [pc EXCEPT ![t] = "finish"] /\ UNCHANGED <<ptr, guard, reap>>
  BY DEF DoStartBare, Goto, rest
<1>3. want[t] \in Models
  BY <1>2 DEF TypeOK
<1>4. fields \in Egg
  BY KeptTypes
<1>5. /\ \A e \in Eggs \ {new} : egg'[e].alive => egg[e].alive
      /\ \A e \in Eggs \ {new} : egg[e].st = "loading" => egg'[e].st = "loading"
  BY <1>1, <1>4, RegisteringOthers
<1>6. /\ \A u \in Threads : ptr[u] # new
      /\ new # reap.cur
  BY <1>1 DEF Fresh
<1>7. pc \in [Threads -> {"idle"} \cup StartPCs \cup InferPCs] /\ reap.cur \in Eggs \cup {NoEgg}
  BY DEF TypeOK
<1>8. ExpandPrivate'
  BY <1>2, <1>5, <1>6, <1>7 DEF HandsInv, ExpandPrivate
<1>9. ForgetStopped'
  BY <1>2, <1>5, <1>6, <1>7 DEF HandsInv, ForgetStopped
<1>10. BookInv'
  BY <1>1, <1>3, <1>4, BookRegisters DEF Fresh
<1> QED  BY <1>8, <1>9, <1>10 DEF HandsInv

\* The placeholder of a unit: from here on the egg is in its loader's hands alone.
LEMMA StartHatchHands ==
    ASSUME TypeOK, HandsInv, BookInv, NEW t \in Threads, DoStartHatch(t)
    PROVE  HandsInv' /\ BookInv'
<1>1. PICK new \in Eggs :
        /\ Fresh(new, want[t])
        /\ \/ /\ Registering(want[t], new, [FreshEgg EXCEPT !.port = TRUE])
              /\ ptr' = [ptr EXCEPT ![t] = new] /\ pc' = [pc EXCEPT ![t] = "expand"]
           \/ /\ Registering(want[t], new, [FreshEgg EXCEPT !.st = "crashed"])
              /\ pc' = [pc EXCEPT ![t] = "finish"] /\ ptr' = ptr
  BY DEF DoStartHatch, Goto
<1>2. pc[t] = "load" /\ UNCHANGED <<guard, reap>>
  BY DEF DoStartHatch, rest
<1>3. want[t] \in Models
  BY <1>2 DEF TypeOK
<1>4. [FreshEgg EXCEPT !.port = TRUE] \in Egg /\ [FreshEgg EXCEPT !.st = "crashed"] \in Egg
  BY DEF FreshEgg, Egg, EggStates
<1>5. /\ \A e \in Eggs \ {new} : egg'[e].alive => egg[e].alive
      /\ \A e \in Eggs \ {new} : egg[e].st = "loading" => egg'[e].st = "loading"
  BY <1>1, <1>4, RegisteringOthers
<1>6. /\ \A u \in Threads : ptr[u] # new
      /\ new # reap.cur /\ new # guard.egg /\ new \notin reap.todo
  BY <1>1 DEF Fresh
<1>7. /\ pc \in [Threads -> {"idle"} \cup StartPCs \cup InferPCs]
      /\ ptr \in [Threads -> Eggs \cup {NoEgg}]
      /\ reap.cur \in Eggs \cup {NoEgg}
  BY DEF TypeOK
<1>8. BookInv'
  BY <1>1, <1>3, <1>4, BookRegisters DEF Fresh
<1>9. ForgetStopped'
  BY <1>1, <1>2, <1>5, <1>6, <1>7 DEF HandsInv, ForgetStopped
<1>10. CASE pc' = [pc EXCEPT ![t] = "finish"] /\ ptr' = ptr
  <2>1. ExpandPrivate'
    BY <1>2, <1>5, <1>6, <1>7, <1>10 DEF HandsInv, ExpandPrivate
  <2> QED  BY <2>1, <1>8, <1>9 DEF HandsInv
<1>11. CASE /\ Registering(want[t], new, [FreshEgg EXCEPT !.port = TRUE])
            /\ ptr' = [ptr EXCEPT ![t] = new] /\ pc' = [pc EXCEPT ![t] = "expand"]
  <2>1. egg'[new].st = "loading"
    BY <1>4, <1>11, RegisteringOthers DEF FreshEgg
  <2>2. ExpandPrivate'
    BY <1>2, <1>5, <1>6, <1>7, <1>11, <2>1 DEF HandsInv, ExpandPrivate
  <2> QED  BY <2>2, <1>8, <1>9 DEF HandsInv
<1> QED  BY <1>1, <1>10, <1>11

\* The unit: it starts only if its placeholder is still in the book, so it is in the book.
LEMMA HatchDoneHands ==
    ASSUME TypeOK, HandsInv, BookInv, NEW t \in Threads, HatchDone(t)
    PROVE  HandsInv' /\ BookInv'
<1> DEFINE new == ptr[t]
<1>1. /\ pc[t] = "expand" /\ pc' = [pc EXCEPT ![t] = "finish"]
      /\ ptr' = [ptr EXCEPT ![t] = NoEgg]
      /\ UNCHANGED <<guard, reap>>
      /\ procs[want[t]] = new
      /\ \/ egg' = [egg EXCEPT ![new].st = "ready", ![new].alive = TRUE] /\ UNCHANGED procs
         \/ egg' = [egg EXCEPT ![new].st = "crashed", ![new].port = FALSE] /\ UNCHANGED procs
         \/ egg' = StoppedAndForgotten({new}) /\ procs' = Without({new})
  BY DEF HatchDone, Goto, rest
<1>2. /\ egg \in [Eggs -> Egg]
      /\ pc \in [Threads -> {"idle"} \cup StartPCs \cup InferPCs]
      /\ ptr \in [Threads -> Eggs \cup {NoEgg}]
      /\ reap.cur \in Eggs \cup {NoEgg}
      /\ want[t] \in Models
  BY <1>1 DEF TypeOK
<1>3. /\ new \in Eggs
      /\ \A u \in Threads \ {t} : ptr[u] # new
      /\ new # reap.cur
  BY <1>1 DEF HandsInv, ExpandPrivate
<1>4. \A e \in Eggs \ {new} : egg'[e] = egg[e]
  BY <1>1, <1>2 DEF StoppedAndForgotten
<1>5. ExpandPrivate'
  BY <1>1, <1>2, <1>3, <1>4, NamesAssumption DEF HandsInv, ExpandPrivate
<1>6. ForgetStopped'
  BY <1>1, <1>2, <1>3, <1>4 DEF HandsInv, ForgetStopped
<1>7. BookInv'
  <2>1. CASE egg' = [egg EXCEPT ![new].st = "ready", ![new].alive = TRUE] /\ UNCHANGED procs
    <3>1. ModelOf[new] = want[t]
      BY <1>1, <1>2, <1>3, NamesAssumption DEF BookInv, BookOK
    <3>2. new \in Resident'
      BY <1>1, <1>3, <2>1, <3>1 DEF Resident
    <3> QED  BY <1>4, <2>1, <3>2 DEF BookInv, BookOK, BookOneKind, NoOrphan, Resident
  <2>2. CASE egg' = [egg EXCEPT ![new].st = "crashed", ![new].port = FALSE] /\ UNCHANGED procs
    <3>1. NoneStarts
      BY <1>2, <2>2 DEF NoneStarts, Egg
    <3> QED  BY <2>2, <3>1, BookStays
  <2>3. CASE egg' = StoppedAndForgotten({new}) /\ procs' = Without({new})
    <3>1. NoneStarts /\ ~egg'[new].alive
      BY <1>3, <2>3 DEF NoneStarts, StoppedAndForgotten, FreshEgg
    <3> QED  BY <2>3, <3>1, BookShrinks
  <2> QED  BY <1>1, <2>1, <2>2, <2>3
<1> QED  BY <1>5, <1>6, <1>7 DEF HandsInv

\* The book through the calm steps.
LEMMA BookSteps ==
    ASSUME TypeOK, BookInv, HandsInv, NoneStarts, CalmNext
    PROVE  BookInv'
<1>1. ASSUME NEW t \in Threads, StartForgetVictim(t) PROVE BookInv'
  <2>1. pc[t] = "forget" /\ procs' = Without({ptr[t]}) /\ egg' = Forgotten({ptr[t]})
    BY <1>1 DEF StartForgetVictim
  <2>2. \A e \in Eggs \cap {ptr[t]} : ~egg'[e].alive
    BY <2>1 DEF HandsInv, ForgetStopped, Forgotten, FreshEgg
  <2> QED  BY <2>1, <2>2, BookShrinks
<1>2. ASSUME ReapFinalize PROVE BookInv'
  <2>1. \A e \in Eggs \cap {reap.cur} : ~egg'[e].alive
    BY <1>2 DEF ReapFinalize, HandsInv, ForgetStopped, Forgotten, FreshEgg
  <2> QED  BY <1>2, <2>1, BookShrinks DEF ReapFinalize
<1>3. ASSUME NEW gone, procs' = Without(gone), egg' = StoppedAndForgotten(gone) PROVE BookInv'
  <2>1. \A e \in Eggs \cap gone : ~egg'[e].alive
    BY <1>3 DEF StoppedAndForgotten, FreshEgg
  <2> QED  BY <1>3, <2>1, BookShrinks
<1>4. ASSUME NEW t \in Threads, DoStartRefused(t) PROVE BookInv'
  BY <1>3, <1>4 DEF DoStartRefused
<1>5. ASSUME (\E m \in Models : UnloadBy(m)) \/ UnloadAll \/ Stop PROVE BookInv'
  BY <1>3, <1>5 DEF UnloadBy, UnloadAll, Stop, Evict
<1> USE DEF rest
<1>6. ASSUME NEW t \in Threads,
             \/ \E m \in Models : StartCall(t, m)
             \/ StartEnter(t) \/ StartRequest(t) \/ StartPoll(t) \/ StartPollTimeout(t)
             \/ StartPickVictim(t) \/ StartPrecheck(t) \/ StartRestoreVictim(t)
             \/ StartNormal(t) \/ DoStartSelfHeal(t)
             \/ HatchCancelled(t) \/ StartFinish(t) \/ StartReturn(t)
      PROVE  UNCHANGED procs
  BY <1>6 DEF StartCall, StartEnter, StartRequest, StartPoll, StartPollTimeout,
       StartPickVictim, StartPrecheck, StartRestoreVictim, StartNormal, DoStartSelfHeal,
       HatchCancelled, StartFinish, StartReturn
<1>7. ASSUME InferStep \/ HungEnds \/ \E m \in Models : InferCall(m)
      PROVE  UNCHANGED procs
  BY <1>7 DEF InferStep, HungEnds, InferCall, InferRecheck, InferForward, AcquireInflight,
       HealthCheck, HealthRetry, ForwardOK, ForwardFailed, ForwardStuck, StallEscalate,
       WatchdogNote, BodyClosed, ReleaseInflight, WorkerStays
<1>8. ASSUME GuardStep \/ ReapPick \/ RenewDefaultPin \/ (\E m \in Models : Pin(m) \/ Unpin(m))
             \/ (\E e \in Eggs : EngineDies(e)) \/ UNCHANGED vars
      PROVE  UNCHANGED procs
  BY <1>8 DEF GuardStep, GuardJudge, GuardNote, GuardHard, GuardNoteHard, GuardOnly, ReapPick,
       RenewDefaultPin, Pin, Unpin, EngineDies, EggOnly, vars
<1> QED  BY <1>1, <1>2, <1>4, <1>5, <1>6, <1>7, <1>8, BookStays DEF CalmNext, Operator

\* Every step keeps the book in order and every egg in the hands it is in.
LEMMA BookStep == TypeOK /\ BookInv /\ HandsInv /\ [Next]_vars => BookInv' /\ HandsInv'
<1> SUFFICES ASSUME TypeOK, BookInv, HandsInv, [Next]_vars PROVE BookInv' /\ HandsInv'
  OBVIOUS
<1>1. ASSUME NEW t \in Threads, StartStopVictim(t) PROVE BookInv' /\ HandsInv'
  BY <1>1, StopVictimHands, BookStays DEF StartStopVictim
<1>2. ASSUME ReapStop PROVE BookInv' /\ HandsInv'
  BY <1>2, ReapStopHands, BookStays DEF ReapStop
<1>3. ASSUME NEW t \in Threads, DoStartBare(t) \/ DoStartHatch(t) \/ HatchDone(t)
      PROVE  BookInv' /\ HandsInv'
  BY <1>3, StartBareHands, StartHatchHands, HatchDoneHands
<1>4. CASE CalmNext
  <2>1. Calm
    BY <1>4, CalmSteps
  <2> QED  BY <1>4, <2>1, CalmHands, BookSteps DEF Calm, EggsCalm
<1> QED  BY <1>1, <1>2, <1>3, <1>4 DEF Next, CalmNext, StartStep, ReapStep

\* At the start nothing runs and nobody holds an egg.
LEMMA BookInit == Init => BookInv /\ HandsInv
<1> SUFFICES ASSUME Init PROVE BookInv /\ HandsInv
  OBVIOUS
<1>1. Resident = {}
  BY ModelsAssumption, NamesAssumption DEF Init, Resident
<1>2. \A e \in Eggs : ~egg[e].alive
  BY DEF Init, FreshEgg
<1>3. BookInv
  BY <1>1, <1>2 DEF Init, BookInv, BookOK, BookOneKind, NoOrphan
<1>4. HandsInv
  BY DEF Init, HandsInv, ExpandPrivate, ForgetStopped
<1> QED  BY <1>3, <1>4

\* The book is in order and every egg in its hands in every reachable state.
LEMMA BookAlways == Spec => [](BookInv /\ HandsInv)
<1>1. Init => BookInv /\ HandsInv
  BY BookInit
<1>2. TypeOK /\ BookInv /\ HandsInv /\ [Next]_vars => (BookInv /\ HandsInv)'
  BY BookStep
<1> QED  BY <1>1, <1>2, TypeCorrect, PTL DEF Spec

\* No engine runs outside the book, for any number of models, eggs and goroutines: no unit
\* is left that nobody can stop (what defect 19 was about).
THEOREM NoOrphanEver == Spec => []NoOrphan
<1>1. BookInv => NoOrphan
  BY DEF BookInv
<1> QED  BY <1>1, BookAlways, PTL

\* Engines of two service kinds never run together, whatever loads and stops overlap.
THEOREM OneServiceKindEver == Spec => []OneServiceKind
<1>1. BookInv => OneServiceKind
  BY DEF BookInv, BookOneKind, NoOrphan, OneServiceKind
<1> QED  BY <1>1, BookAlways, PTL

=============================================================================
