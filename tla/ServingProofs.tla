---------------------------- MODULE ServingProofs ---------------------------
(***************************************************************************)
(* Proofs about the egg manager: the life of an egg in the book, and what  *)
(* follows from it. An egg given up stays down; without units, an egg      *)
(* about to be stopped serves nobody and a pinned one that serves stays.   *)
(***************************************************************************)
EXTENDS FlightProofs

USE DEF Threads

-----------------------------------------------------------------------------
(* The life of an egg *)

\* The changes of state an egg may see while it is in the book, other than to crashed: it is
\* used or idle, won at zero, set to loading by a late request, or, with units only, healed
\* and hatched.
Turn(e) ==
    \/ Serving(e) /\ egg'[e].st \in {"ready", "idle_armed"}
    \/ Serving(e) /\ egg[e].inflight = 0 /\ ~egg[e].pinned /\ egg'[e].st = "draining"
    \/ egg[e].st = "crashed" /\ ~Abandoned(e) /\ egg'[e].st = "loading"
    \/ HatchMode /\ egg[e].st \in {"draining", "loading"} /\ egg'[e].st = "ready"

\* Stalls are only counted up to the cap on an egg that does not crash by them.
Life(e) ==
    \/ egg'[e].st = egg[e].st /\ (egg'[e].stale = egg[e].stale \/ egg'[e].stale <= MaxStaleKills)
    \/ egg'[e].st = "crashed"
    \/ egg'[e].stale = egg[e].stale /\ Turn(e)

\* An egg that enters the book is known to nobody, and the load that brings it ends.
Born(e) ==
    \E t \in Threads : /\ pc[t] = "load" /\ Fresh(e, want[t])
                       /\ pc' \in {[pc EXCEPT ![t] = l] : l \in {"expand", "finish"}}
                       /\ egg'[e].stale = 0

\* A step that brings no egg into the book.
LifeGoesOn == \A e \in Resident' : e \in Resident /\ Life(e)

\* Units alone are expanded, and a victim is restored in their mode alone.
HatchOnly == \A t \in Threads : pc[t] \in {"restore", "expand"} => HatchMode

\* What a watchdog or a breaker writes: the state stays or is crashed, and an egg past the
\* cap is crashed.
LEMMA FailedLife ==
    ASSUME NEW r \in Egg
    PROVE  /\ Stopped(r).st = r.st /\ Stopped(r).stale = r.stale
           /\ Failed(r).st \in {r.st, "crashed"} /\ Failed(r).stale = r.stale
           /\ \/ StaleKilled(r).st = r.st /\ StaleKilled(r).stale <= MaxStaleKills
              \/ StaleKilled(r).st = "crashed"
<1>1. Stopped(r).st = r.st /\ Stopped(r).stale = r.stale
  BY DEF Stopped, Egg
<1>2. /\ [Stopped(r) EXCEPT !.st = "crashed", !.fails = FailLimit].st = "crashed"
      /\ [Stopped(r) EXCEPT !.st = "crashed", !.fails = FailLimit].stale = r.stale
  BY <1>1, RecordTypes DEF Egg
<1>3. /\ [r EXCEPT !.fails = r.fails + 1].st = r.st
      /\ [r EXCEPT !.fails = r.fails + 1].stale = r.stale
  BY DEF Egg
<1>4. Failed(r).st \in {r.st, "crashed"} /\ Failed(r).stale = r.stale
  BY <1>2, <1>3 DEF Failed
<1> DEFINE n == Capped(r.stale, MaxStaleKills + 1)
<1>5. n \in Nat /\ MaxStaleKills \in Nat
  <2>1. r.stale \in Nat /\ MaxStaleKills \in Nat
    BY BoundsAssumption DEF Egg
  <2> QED  BY <2>1 DEF Capped
<1>6. /\ StaleKilled(r).stale = n
      /\ StaleKilled(r).st = IF n > MaxStaleKills THEN "crashed" ELSE r.st
  BY DEF StaleKilled, Egg
<1>7. n > MaxStaleKills \/ n <= MaxStaleKills
  <2> HIDE DEF n
  <2> QED  BY <1>5
<1> QED  BY <1>1, <1>4, <1>6, <1>7

\* A step that leaves the book alone and writes one egg.
LEMMA OneLife ==
    ASSUME UNCHANGED procs, NEW x, \A e \in Eggs \ {x} : egg'[e] = egg[e],
           x \in Resident => Life(x)
    PROVE  LifeGoesOn
BY DEF LifeGoesOn, Life, Resident

\* A write through a pointer.
LEMMA WriteLife ==
    ASSUME TypeOK, UNCHANGED procs, NEW x, NEW r, egg' = Write(x, r),
           x \in Eggs => \/ r.st = egg[x].st /\ (r.stale = egg[x].stale \/ r.stale <= MaxStaleKills)
                         \/ r.st = "crashed"
    PROVE  LifeGoesOn
<1>1. \A e \in Eggs \ {x} : egg'[e] = egg[e]
  BY DEF Write, TypeOK
<1>2. x \in Resident => Life(x)
  BY DEF Write, TypeOK, Resident, Life
<1> QED  BY <1>1, <1>2, OneLife

\* The verdict of a watchdog.
LEMMA NotedLife ==
    ASSUME TypeOK, UNCHANGED procs, NEW x, egg' = NotedStuck(x)
    PROVE  LifeGoesOn
<1>1. \A e \in Eggs \ {x} : egg'[e] = egg[e]
  BY DEF NotedStuck, TypeOK
<1>2. x \in Resident => Life(x)
  BY DEF NotedStuck, TypeOK, Resident, Life, Egg
<1> QED  BY <1>1, <1>2, OneLife

\* RequestModel: an egg is used or won.
LEMMA RequestLife ==
    ASSUME TypeOK, UNCHANGED procs, NEW m, NEW n, NEW b, RequestModel(m, n, b, egg')
    PROVE  LifeGoesOn
<1>1. egg \in [Eggs -> Egg]
  BY DEF TypeOK
<1>2. CASE UNCHANGED egg
  BY <1>2 DEF LifeGoesOn, Life, Resident
<1>3. ASSUME NEW x \in Resident, Serving(x), egg' = [egg EXCEPT ![x].st = "ready"]
      PROVE  LifeGoesOn
  <2>1. Life(x)
    BY <1>1, <1>3 DEF Life, Turn, Resident, Egg
  <2> QED  BY <1>1, <1>3, <2>1, OneLife
<1>4. ASSUME NEW x \in Resident, Serving(x), egg[x].inflight = 0, ~egg[x].pinned,
             egg' = [egg EXCEPT ![x].st = "draining"]
      PROVE  LifeGoesOn
  <2>1. Life(x)
    BY <1>1, <1>4 DEF Life, Turn, Resident, Egg
  <2> QED  BY <1>1, <1>4, <2>1, OneLife
<1> QED  BY <1>2, <1>3, <1>4 DEF RequestModel

\* Taking eggs off the book.
LEMMA ShrinkLife ==
    ASSUME TypeOK, NEW gone, procs' = Without(gone),
           egg' = Forgotten(gone) \/ egg' = StoppedAndForgotten(gone)
    PROVE  LifeGoesOn
<1>1. \A e \in Resident' : e \in Resident /\ e \notin gone
  BY ModelsAssumption, NamesAssumption DEF Resident, Without
<1>2. \A e \in Eggs \ gone : egg'[e] = egg[e]
  BY DEF Forgotten, StoppedAndForgotten
<1> QED  BY <1>1, <1>2 DEF LifeGoesOn, Life, Resident

\* A registration: one egg is born, the others that stay are left as they are.
LEMMA RegisterLife ==
    ASSUME TypeOK, BookOK, NEW m \in Models, NEW new \in Eggs, ModelOf[new] = m,
           NEW fields \in Egg, Registering(m, new, fields)
    PROVE  /\ egg'[new] = fields
           /\ \A e \in Resident' : e = new \/ (e \in Resident /\ Life(e))
<1>1. PICK c \in Clearances(Bystanders(m), m) :
        /\ procs' = [Without(c.gone) EXCEPT ![m] = new]
        /\ egg' = [StoppedAndForgotten(c.gone \cup Occupant(m)) EXCEPT ![new] = fields]
  BY DEF Registering
<1>2. egg'[new] = fields
  BY <1>1 DEF StoppedAndForgotten
<1>3. ASSUME NEW e \in Eggs, procs'[ModelOf[e]] = e, e # new
      PROVE  e \in Resident /\ Life(e)
  <2>1. ModelOf[e] # m /\ procs[ModelOf[e]] = e /\ e \notin c.gone
    BY <1>1, <1>3, ModelsAssumption, NamesAssumption DEF Without
  <2>2. e \notin Occupant(m)
    BY <2>1 DEF BookOK, Occupant
  <2>3. egg'[e] = egg[e]
    BY <1>1, <1>3, <2>1, <2>2 DEF StoppedAndForgotten
  <2> QED  BY <2>1, <2>3 DEF Resident, Life
<1>4. ASSUME NEW e \in Resident' PROVE e = new \/ (e \in Resident /\ Life(e))
  <2>1. e \in Eggs /\ procs'[ModelOf[e]] = e
    BY DEF Resident
  <2> QED  BY <1>3, <2>1
<1> QED  BY <1>2, <1>4

\* Every step brings one new egg or none, and changes the others only as Life says.
LEMMA LifeStep ==
    ASSUME TypeOK, BookOK, HandsInv, HatchOnly, [Next]_vars
    PROVE  \A e \in Resident' : Born(e) \/ (e \in Resident /\ Life(e))
<1>a. /\ egg \in [Eggs -> Egg] /\ procs \in [Models -> Eggs \cup {NoEgg}]
      /\ pc[Worker] # "idle" => want[Worker] \in Models
  BY DEF TypeOK
<1>b. UNCHANGED <<procs, egg>> => LifeGoesOn
  BY DEF LifeGoesOn, Life, Resident
<1>c. LifeGoesOn => \A e \in Resident' : Born(e) \/ (e \in Resident /\ Life(e))
  BY DEF LifeGoesOn
<1>d. ASSUME NEW x, UNCHANGED procs, \A e \in Eggs \ {x} : egg'[e] = egg[e], x \in Eggs => Life(x)
      PROVE  LifeGoesOn
  BY <1>d, OneLife DEF Resident
<1> USE DEF rest
<1>1. ASSUME NEW t \in Threads, NEW m \in Models, StartCall(t, m) PROVE LifeGoesOn
  BY <1>b, <1>1 DEF StartCall
<1>2. ASSUME NEW m \in Models, InferCall(m) PROVE LifeGoesOn
  BY <1>b, <1>2 DEF InferCall
<1>3. ASSUME NEW t \in Threads, StartEnter(t) PROVE LifeGoesOn
  BY <1>b, <1>3 DEF StartEnter
<1>4. ASSUME NEW t \in Threads, StartRequest(t) PROVE LifeGoesOn
  BY <1>4, RequestLife DEF StartRequest
<1>5. ASSUME NEW t \in Threads, StartPoll(t) PROVE LifeGoesOn
  BY <1>5, RequestLife DEF StartPoll
<1>6. ASSUME NEW t \in Threads, StartPollTimeout(t) PROVE LifeGoesOn
  BY <1>b, <1>6 DEF StartPollTimeout
<1>7. ASSUME NEW t \in Threads, StartPickVictim(t) PROVE LifeGoesOn
  BY <1>b, <1>7 DEF StartPickVictim
<1>8. ASSUME NEW t \in Threads, StartPrecheck(t) PROVE LifeGoesOn
  BY <1>b, <1>8 DEF StartPrecheck
<1>9. ASSUME NEW t \in Threads, StartRestoreVictim(t) PROVE LifeGoesOn
  <2> DEFINE x == procs[ModelOf[ptr[t]]]
  <2>1. UNCHANGED procs /\ \A d \in Eggs \ {x} : egg'[d] = egg[d]
    BY <1>a, <1>9 DEF StartRestoreVictim
  <2>2. x \in Eggs => Life(x)
    BY <1>a, <1>9, NamesAssumption DEF StartRestoreVictim, Life, Turn, Serving, Egg, HatchOnly
  <2> HIDE DEF x
  <2> QED  BY <1>d, <2>1, <2>2
<1>10. ASSUME NEW t \in Threads, StartStopVictim(t) PROVE LifeGoesOn
  <2> DEFINE x == ptr[t]
  <2>1. UNCHANGED procs /\ \A d \in Eggs \ {x} : egg'[d] = egg[d]
    BY <1>a, <1>10 DEF StartStopVictim
  <2>2. x \in Eggs => Life(x)
    BY <1>a, <1>10, NamesAssumption DEF StartStopVictim, Life, Turn, Serving, Egg
  <2> HIDE DEF x
  <2> QED  BY <1>d, <2>1, <2>2
<1>11. ASSUME NEW t \in Threads, StartForgetVictim(t) PROVE LifeGoesOn
  BY <1>11, ShrinkLife DEF StartForgetVictim
<1>12. ASSUME NEW t \in Threads, StartNormal(t) PROVE LifeGoesOn
  <2> DEFINE x == procs[want[t]]
  <2>1. UNCHANGED procs /\ \A d \in Eggs \ {x} : egg'[d] = egg[d]
    BY <1>a, <1>12 DEF StartNormal
  <2>2. x \in Eggs => Life(x)
    BY <1>a, <1>12, NamesAssumption DEF StartNormal, Life, Turn, Serving, Egg
  <2> HIDE DEF x
  <2> QED  BY <1>d, <2>1, <2>2
<1>13. ASSUME NEW t \in Threads, DoStartSelfHeal(t) PROVE LifeGoesOn
  <2> DEFINE x == procs[want[t]]
  <2>1. UNCHANGED procs /\ \A d \in Eggs \ {x} : egg'[d] = egg[d]
    BY <1>a, <1>13 DEF DoStartSelfHeal
  <2>2. x \in Eggs => Life(x)
    BY <1>a, <1>13, NamesAssumption DEF DoStartSelfHeal, Life, Turn, Serving, Egg
  <2> HIDE DEF x
  <2> QED  BY <1>d, <2>1, <2>2
<1>14. ASSUME NEW t \in Threads, DoStartRefused(t) PROVE LifeGoesOn
  BY <1>14, ShrinkLife DEF DoStartRefused
<1>15. ASSUME NEW t \in Threads, DoStartBare(t) PROVE \A e \in Resident' : Born(e) \/ (e \in Resident /\ Life(e))
  <2>1. PICK new \in Eggs, fields \in KeptEntries :
          Fresh(new, want[t]) /\ Registering(want[t], new, fields)
    BY <1>15 DEF DoStartBare
  <2>2. fields \in Egg /\ fields.stale = 0
    BY KeptTypes DEF KeptEntries, FreshEgg
  <2>3. pc[t] = "load" /\ want[t] \in Models /\ pc' = [pc EXCEPT ![t] = "finish"]
    BY <1>15 DEF DoStartBare, TypeOK, Goto
  <2>4. ModelOf[new] = want[t]
    BY <2>1 DEF Fresh
  <2>5. egg'[new] = fields /\ \A e \in Resident' : e = new \/ (e \in Resident /\ Life(e))
    BY <2>1, <2>2, <2>3, <2>4, RegisterLife
  <2>6. Born(new)
    BY <2>1, <2>2, <2>3, <2>5 DEF Born
  <2> QED  BY <2>5, <2>6
<1>16. ASSUME NEW t \in Threads, DoStartHatch(t) PROVE \A e \in Resident' : Born(e) \/ (e \in Resident /\ Life(e))
  <2>1. PICK new \in Eggs, fields \in {[FreshEgg EXCEPT !.port = TRUE], [FreshEgg EXCEPT !.st = "crashed"]} :
          Fresh(new, want[t]) /\ Registering(want[t], new, fields)
    BY <1>16 DEF DoStartHatch
  <2>2. fields \in Egg /\ fields.stale = 0
    <3>1. /\ [FreshEgg EXCEPT !.port = TRUE] \in Egg
          /\ [FreshEgg EXCEPT !.port = TRUE].stale = 0
      BY DEF FreshEgg, Egg, EggStates
    <3>2. /\ [FreshEgg EXCEPT !.st = "crashed"] \in Egg
          /\ [FreshEgg EXCEPT !.st = "crashed"].stale = 0
      BY DEF FreshEgg, Egg, EggStates
    <3> QED  BY <3>1, <3>2
  <2>3. /\ pc[t] = "load" /\ want[t] \in Models
        /\ pc' \in {[pc EXCEPT ![t] = l] : l \in {"expand", "finish"}}
    BY <1>16 DEF DoStartHatch, TypeOK, Goto
  <2>4. ModelOf[new] = want[t]
    BY <2>1 DEF Fresh
  <2>5. egg'[new] = fields /\ \A e \in Resident' : e = new \/ (e \in Resident /\ Life(e))
    BY <2>1, <2>2, <2>3, <2>4, RegisterLife
  <2>6. Born(new)
    BY <2>1, <2>2, <2>3, <2>5 DEF Born
  <2> QED  BY <2>5, <2>6
<1>17. ASSUME NEW t \in Threads, HatchCancelled(t) PROVE LifeGoesOn
  BY <1>b, <1>17 DEF HatchCancelled
<1>18. ASSUME NEW t \in Threads, HatchDone(t) PROVE LifeGoesOn
  <2>1. ptr[t] \in Eggs /\ egg[ptr[t]].st = "loading" /\ HatchMode
    BY <1>18 DEF HatchDone, HandsInv, ExpandPrivate, HatchOnly
  <2>2. CASE egg' = StoppedAndForgotten({ptr[t]}) /\ procs' = Without({ptr[t]})
    BY <2>2, ShrinkLife
  <2>3. CASE egg' = [egg EXCEPT ![ptr[t]].st = "ready", ![ptr[t]].alive = TRUE] /\ UNCHANGED procs
    <3>1. Life(ptr[t])
      BY <1>a, <2>1, <2>3 DEF Life, Turn, Egg
    <3> QED  BY <1>a, <1>d, <2>3, <3>1
  <2>4. CASE egg' = [egg EXCEPT ![ptr[t]].st = "crashed", ![ptr[t]].port = FALSE] /\ UNCHANGED procs
    <3>1. Life(ptr[t])
      BY <1>a, <2>1, <2>4 DEF Life, Turn, Egg
    <3> QED  BY <1>a, <1>d, <2>4, <3>1
  <2> QED  BY <1>18, <2>2, <2>3, <2>4 DEF HatchDone
<1>19. ASSUME NEW t \in Threads, StartFinish(t) PROVE LifeGoesOn
  BY <1>b, <1>19 DEF StartFinish
<1>20. ASSUME NEW t \in Threads, StartReturn(t) PROVE LifeGoesOn
  <2> DEFINE x == procs[want[t]]
  <2>1. UNCHANGED procs /\ \A d \in Eggs \ {x} : egg'[d] = egg[d]
    BY <1>a, <1>20 DEF StartReturn
  <2>2. x \in Eggs => Life(x)
    BY <1>a, <1>20, NamesAssumption DEF StartReturn, Life, Turn, Serving, Egg
  <2> HIDE DEF x
  <2> QED  BY <1>d, <2>1, <2>2
<1>21. ASSUME InferRecheck PROVE LifeGoesOn
  BY <1>b, <1>21 DEF InferRecheck
<1>22. ASSUME InferForward PROVE LifeGoesOn
  <2> DEFINE x == procs[want[Worker]]
  <2>1. UNCHANGED procs /\ \A d \in Eggs \ {x} : egg'[d] = egg[d]
    BY <1>a, <1>22 DEF InferForward
  <2>2. x \in Eggs => Life(x)
    BY <1>a, <1>22, NamesAssumption DEF InferForward, Life, Turn, Serving, Egg
  <2> HIDE DEF x
  <2> QED  BY <1>d, <2>1, <2>2
<1>23. ASSUME AcquireInflight PROVE LifeGoesOn
  <2> DEFINE x == procs[want[Worker]]
  <2>1. UNCHANGED procs /\ \A d \in Eggs \ {x} : egg'[d] = egg[d]
    BY <1>a, <1>23 DEF AcquireInflight
  <2>2. x \in Eggs => Life(x)
    BY <1>a, <1>23, NamesAssumption DEF AcquireInflight, Life, Turn, Serving, Egg
  <2> HIDE DEF x
  <2> QED  BY <1>d, <2>1, <2>2
<1>24. ASSUME HealthCheck PROVE LifeGoesOn
  BY <1>a, <1>b, <1>24, WriteLife, FailedLife DEF HealthCheck, WorkerStays
<1>25. ASSUME HealthRetry PROVE LifeGoesOn
  BY <1>a, <1>b, <1>25, WriteLife, FailedLife DEF HealthRetry, WorkerStays, Egg
<1>26. ASSUME ForwardOK PROVE LifeGoesOn
  <2> DEFINE r == [egg[ptr[Worker]] EXCEPT !.fails = 0, !.used = TRUE]
  <2>1. ptr[Worker] \in Eggs => r.st = egg[ptr[Worker]].st /\ r.stale = egg[ptr[Worker]].stale
    BY <1>a DEF Egg
  <2>2. UNCHANGED procs /\ egg' = Write(ptr[Worker], r)
    BY <1>26 DEF ForwardOK
  <2> HIDE DEF r
  <2> QED  BY <2>1, <2>2, WriteLife
<1>27. ASSUME ForwardFailed PROVE LifeGoesOn
  BY <1>a, <1>b, <1>27, WriteLife, FailedLife DEF ForwardFailed, WorkerStays
<1>28. ASSUME ForwardStuck PROVE LifeGoesOn
  BY <1>a, <1>b, <1>28, WriteLife, FailedLife DEF ForwardStuck, WorkerStays
<1>29. ASSUME StallEscalate PROVE LifeGoesOn
  BY <1>a, <1>b, <1>29, WriteLife, FailedLife DEF StallEscalate, WorkerStays
<1>30. ASSUME WatchdogNote PROVE LifeGoesOn
  BY <1>30, NotedLife DEF WatchdogNote, WorkerStays
<1>31. ASSUME BodyClosed PROVE LifeGoesOn
  BY <1>b, <1>31 DEF BodyClosed
<1>32. ASSUME ReleaseInflight PROVE LifeGoesOn
  <2> DEFINE x == procs[want[Worker]]
  <2>1. UNCHANGED procs /\ \A d \in Eggs \ {x} : egg'[d] = egg[d]
    BY <1>a, <1>32 DEF ReleaseInflight
  <2>2. x \in Eggs => Life(x)
    BY <1>a, <1>32, NamesAssumption DEF ReleaseInflight, Life, Turn, Serving, Egg
  <2> HIDE DEF x
  <2> QED  BY <1>d, <2>1, <2>2
<1>33. ASSUME HungEnds PROVE LifeGoesOn
  BY <1>b, <1>33 DEF HungEnds, WorkerStays
<1>34. ASSUME GuardJudge PROVE LifeGoesOn
  BY <1>a, <1>b, <1>34, WriteLife, FailedLife DEF GuardJudge, GuardOnly
<1>35. ASSUME GuardNote PROVE LifeGoesOn
  BY <1>35, NotedLife DEF GuardNote, GuardOnly
<1>36. ASSUME GuardHard PROVE LifeGoesOn
  BY <1>a, <1>b, <1>36, WriteLife, FailedLife DEF GuardHard, GuardOnly
<1>37. ASSUME GuardNoteHard PROVE LifeGoesOn
  BY <1>37, NotedLife DEF GuardNoteHard, GuardOnly
<1>38. ASSUME ReapPick PROVE LifeGoesOn
  BY <1>a, <1>38 DEF ReapPick, LifeGoesOn, Resident, Life, Turn, Serving, Egg
<1>39. ASSUME ReapStop PROVE LifeGoesOn
  BY <1>a, <1>39 DEF ReapStop, LifeGoesOn, Resident, Life, Egg
<1>40. ASSUME ReapFinalize PROVE LifeGoesOn
  BY <1>40, ShrinkLife DEF ReapFinalize
<1>41. ASSUME NEW m \in Models, UnloadBy(m) PROVE LifeGoesOn
  BY <1>41, ShrinkLife DEF UnloadBy, Evict
<1>42. ASSUME UnloadAll PROVE LifeGoesOn
  BY <1>42, ShrinkLife DEF UnloadAll, Evict
<1>43. ASSUME Stop PROVE LifeGoesOn
  BY <1>43, ShrinkLife DEF Stop, Evict
<1>44. ASSUME NEW m \in Models, Pin(m) PROVE LifeGoesOn
  <2> DEFINE x == procs[m]
  <2>1. UNCHANGED procs /\ \A d \in Eggs \ {x} : egg'[d] = egg[d]
    BY <1>a, <1>44 DEF Pin, EggOnly
  <2>2. x \in Eggs => Life(x)
    BY <1>a, <1>44, NamesAssumption DEF Pin, EggOnly, Life, Turn, Serving, Egg
  <2> HIDE DEF x
  <2> QED  BY <1>d, <2>1, <2>2
<1>45. ASSUME RenewDefaultPin PROVE LifeGoesOn
  <2> DEFINE x == procs[DefaultModel]
  <2>1. UNCHANGED procs /\ \A d \in Eggs \ {x} : egg'[d] = egg[d]
    BY <1>a, <1>45 DEF RenewDefaultPin, EggOnly
  <2>2. x \in Eggs => Life(x)
    BY <1>a, <1>45, NamesAssumption DEF RenewDefaultPin, EggOnly, Life, Turn, Serving, Egg
  <2> HIDE DEF x
  <2> QED  BY <1>d, <2>1, <2>2
<1>46. ASSUME NEW m \in Models, Unpin(m) PROVE LifeGoesOn
  <2> DEFINE x == procs[m]
  <2>1. UNCHANGED procs /\ \A d \in Eggs \ {x} : egg'[d] = egg[d]
    BY <1>a, <1>46 DEF Unpin, EggOnly
  <2>2. x \in Eggs => Life(x)
    BY <1>a, <1>46, NamesAssumption DEF Unpin, EggOnly, Life, Turn, Serving, Egg
  <2> HIDE DEF x
  <2> QED  BY <1>d, <2>1, <2>2
<1>47. ASSUME NEW e \in Eggs, EngineDies(e) PROVE LifeGoesOn
  <2> DEFINE x == e
  <2>1. UNCHANGED procs /\ \A d \in Eggs \ {x} : egg'[d] = egg[d]
    BY <1>a, <1>47 DEF EngineDies, EggOnly
  <2>2. x \in Eggs => Life(x)
    BY <1>a, <1>47, NamesAssumption DEF EngineDies, EggOnly, Life, Turn, Serving, Egg
  <2> HIDE DEF x
  <2> QED  BY <1>d, <2>1, <2>2
<1>48. ASSUME UNCHANGED vars PROVE LifeGoesOn
  BY <1>b, <1>48 DEF vars
<1> QED
  BY <1>c, <1>1, <1>2, <1>3, <1>4, <1>5, <1>6, <1>7, <1>8, <1>9, <1>10, <1>11, <1>12, <1>13, <1>14, <1>15, <1>16, <1>17, <1>18, <1>19, <1>20, <1>21, <1>22, <1>23, <1>24, <1>25, <1>26, <1>27, <1>28, <1>29, <1>30, <1>31, <1>32, <1>33, <1>34, <1>35, <1>36, <1>37, <1>38, <1>39, <1>40, <1>41, <1>42, <1>43, <1>44, <1>45, <1>46, <1>47, <1>48
     DEF Next, StartStep, InferStep, GuardStep, ReapStep, Operator

-----------------------------------------------------------------------------
(* Who takes an egg into his hands, and who strikes it off *)

StopPCs == {"precheck", "stop", "forget"}

\* What a goroutine may do in a step: only with units restore a victim or expand an egg;
\* begin a load where nothing serves under the name; take a draining resident as victim.
ThreadMoves ==
    \A t \in Threads :
        /\ pc'[t] \in {"restore", "expand"} => pc'[t] = pc[t] \/ HatchMode
        /\ pc'[t] = "load" =>
              \/ pc[t] = "load" /\ want'[t] = want[t]
              \/ /\ UNCHANGED <<procs, egg, want>>
                 /\ procs[want[t]] # NoEgg => ~Serving(procs[want[t]])
        /\ pc'[t] \in StopPCs =>
              \/ pc[t] \in StopPCs /\ ptr'[t] = ptr[t]
              \/ UNCHANGED <<procs, egg>> /\ ptr'[t] \in Resident /\ egg[ptr'[t]].st = "draining"

\* The reaper wins only eggs at zero, which drain from then on.
ReaperMoves ==
    \A e \in Eggs :
        e \in reap'.todo \/ e = reap'.cur =>
            \/ e \in reap.todo \/ e = reap.cur
            \/ e \in Resident /\ egg[e].inflight = 0 /\ egg'[e].st = "draining"

\* Every step moves the goroutines and the reaper in these ways only.
LEMMA MoveStep ==
    ASSUME TypeOK, [Next]_vars
    PROVE  ThreadMoves /\ ReaperMoves
<1>a. /\ pc \in [Threads -> {"idle"} \cup StartPCs \cup InferPCs]
      /\ want \in [Threads -> Models \cup {NoModel}]
      /\ ptr \in [Threads -> Eggs \cup {NoEgg}]
      /\ egg \in [Eggs -> Egg]
  BY DEF TypeOK
<1>b. UNCHANGED reap => ReaperMoves
  BY DEF ReaperMoves
<1>c. UNCHANGED <<pc, want, ptr>> => ThreadMoves
  BY DEF ThreadMoves
<1>d. ASSUME NEW t \in Threads, \A u \in Threads \ {t} : pc'[u] = pc[u] /\ want'[u] = want[u] /\ ptr'[u] = ptr[u],
             pc'[t] \notin {"restore", "expand", "load"} \cup StopPCs
      PROVE  ThreadMoves
  BY <1>d DEF ThreadMoves
<1> USE DEF rest
<1>1. ASSUME NEW t \in Threads, NEW m \in Models, StartCall(t, m) PROVE ThreadMoves /\ ReaperMoves
  <2>1. \A u \in Threads \ {t} : pc'[u] = pc[u] /\ want'[u] = want[u] /\ ptr'[u] = ptr[u]
    BY <1>a, <1>1 DEF StartCall, Goto
  <2>2. pc'[t] \notin {"restore", "expand", "load"} \cup StopPCs
    BY <1>a, <1>1 DEF StopPCs, StartCall, Goto
  <2>3. UNCHANGED reap
    BY <1>1 DEF StartCall
  <2> QED  BY <1>b, <1>d, <2>1, <2>2, <2>3
<1>2. ASSUME NEW m \in Models, InferCall(m) PROVE ThreadMoves /\ ReaperMoves
  <2>1. \A u \in Threads \ {Worker} : pc'[u] = pc[u] /\ want'[u] = want[u] /\ ptr'[u] = ptr[u]
    BY <1>a, <1>2 DEF InferCall, Goto
  <2>2. pc'[Worker] \notin {"restore", "expand", "load"} \cup StopPCs
    BY <1>a, <1>2 DEF StopPCs, InferCall, Goto
  <2>3. UNCHANGED reap
    BY <1>2 DEF InferCall
  <2> QED  BY <1>b, <1>d, <2>1, <2>2, <2>3
<1>3. ASSUME NEW t \in Threads, StartEnter(t) PROVE ThreadMoves /\ ReaperMoves
  <2>1. \A u \in Threads \ {t} : pc'[u] = pc[u] /\ want'[u] = want[u] /\ ptr'[u] = ptr[u]
    BY <1>a, <1>3 DEF StartEnter, Finished, Goto
  <2>2. pc'[t] \notin {"restore", "expand", "load"} \cup StopPCs
    BY <1>a, <1>3 DEF StopPCs, StartEnter, Finished, Goto
  <2>3. UNCHANGED reap
    BY <1>3 DEF StartEnter
  <2> QED  BY <1>b, <1>d, <2>1, <2>2, <2>3
<1>4. ASSUME NEW t \in Threads, StartRequest(t) PROVE ThreadMoves /\ ReaperMoves
  <2>1. \A u \in Threads \ {t} : pc'[u] = pc[u] /\ want'[u] = want[u] /\ ptr'[u] = ptr[u]
    BY <1>a, <1>4 DEF StartRequest, Goto
  <2>2. pc'[t] \notin {"restore", "expand", "load"} \cup StopPCs
    BY <1>a, <1>4 DEF StopPCs, StartRequest, Goto
  <2>3. UNCHANGED reap
    BY <1>4 DEF StartRequest
  <2> QED  BY <1>b, <1>d, <2>1, <2>2, <2>3
<1>5. ASSUME NEW t \in Threads, StartPoll(t) PROVE ThreadMoves /\ ReaperMoves
  <2>1. \A u \in Threads \ {t} : pc'[u] = pc[u] /\ want'[u] = want[u] /\ ptr'[u] = ptr[u]
    BY <1>a, <1>5 DEF StartPoll, Goto
  <2>2. pc'[t] \notin {"restore", "expand", "load"} \cup StopPCs
    BY <1>a, <1>5 DEF StopPCs, StartPoll, Goto
  <2>3. UNCHANGED reap
    BY <1>5 DEF StartPoll
  <2> QED  BY <1>b, <1>d, <2>1, <2>2, <2>3
<1>6. ASSUME NEW t \in Threads, StartPollTimeout(t) PROVE ThreadMoves /\ ReaperMoves
  <2>1. \A u \in Threads \ {t} : pc'[u] = pc[u] /\ want'[u] = want[u] /\ ptr'[u] = ptr[u]
    BY <1>a, <1>6 DEF StartPollTimeout, Goto
  <2>2. pc'[t] \notin {"restore", "expand", "load"} \cup StopPCs
    BY <1>a, <1>6 DEF StopPCs, StartPollTimeout, Goto
  <2>3. UNCHANGED reap
    BY <1>6 DEF StartPollTimeout
  <2> QED  BY <1>b, <1>d, <2>1, <2>2, <2>3
<1>7. ASSUME NEW t \in Threads, StartPickVictim(t) PROVE ThreadMoves /\ ReaperMoves
  <2>1. ThreadMoves
    BY <1>a, <1>7 DEF ThreadMoves, StopPCs, StartPickVictim, Goto, Resident
  <2>2. UNCHANGED reap
    BY <1>7 DEF StartPickVictim
  <2> QED  BY <1>b, <2>1, <2>2
<1>8. ASSUME NEW t \in Threads, StartPrecheck(t) PROVE ThreadMoves /\ ReaperMoves
  <2>1. ThreadMoves
    BY <1>a, <1>8 DEF ThreadMoves, StopPCs, StartPrecheck, Goto
  <2>2. UNCHANGED reap
    BY <1>8 DEF StartPrecheck
  <2> QED  BY <1>b, <2>1, <2>2
<1>9. ASSUME NEW t \in Threads, StartRestoreVictim(t) PROVE ThreadMoves /\ ReaperMoves
  <2>1. \A u \in Threads \ {t} : pc'[u] = pc[u] /\ want'[u] = want[u] /\ ptr'[u] = ptr[u]
    BY <1>a, <1>9 DEF StartRestoreVictim, Goto, Reply
  <2>2. pc'[t] \notin {"restore", "expand", "load"} \cup StopPCs
    BY <1>a, <1>9 DEF StopPCs, StartRestoreVictim, Goto, Reply
  <2>3. UNCHANGED reap
    BY <1>9 DEF StartRestoreVictim
  <2> QED  BY <1>b, <1>d, <2>1, <2>2, <2>3
<1>10. ASSUME NEW t \in Threads, StartStopVictim(t) PROVE ThreadMoves /\ ReaperMoves
  <2>1. ThreadMoves
    BY <1>a, <1>10 DEF ThreadMoves, StopPCs, StartStopVictim, Goto
  <2>2. UNCHANGED reap
    BY <1>10 DEF StartStopVictim
  <2> QED  BY <1>b, <2>1, <2>2
<1>11. ASSUME NEW t \in Threads, StartForgetVictim(t) PROVE ThreadMoves /\ ReaperMoves
  <2>1. \A u \in Threads \ {t} : pc'[u] = pc[u] /\ want'[u] = want[u] /\ ptr'[u] = ptr[u]
    BY <1>a, <1>11 DEF StartForgetVictim, Goto
  <2>2. pc'[t] \notin {"restore", "expand", "load"} \cup StopPCs
    BY <1>a, <1>11 DEF StopPCs, StartForgetVictim, Goto
  <2>3. UNCHANGED reap
    BY <1>11 DEF StartForgetVictim
  <2> QED  BY <1>b, <1>d, <2>1, <2>2, <2>3
<1>12. ASSUME NEW t \in Threads, StartNormal(t) PROVE ThreadMoves /\ ReaperMoves
  <2>1. ThreadMoves
    BY <1>a, <1>12 DEF ThreadMoves, StopPCs, StartNormal, Goto, Reply
  <2>2. UNCHANGED reap
    BY <1>12 DEF StartNormal
  <2> QED  BY <1>b, <2>1, <2>2
<1>13. ASSUME NEW t \in Threads, DoStartSelfHeal(t) PROVE ThreadMoves /\ ReaperMoves
  <2>1. \A u \in Threads \ {t} : pc'[u] = pc[u] /\ want'[u] = want[u] /\ ptr'[u] = ptr[u]
    BY <1>a, <1>13 DEF DoStartSelfHeal, Goto
  <2>2. pc'[t] \notin {"restore", "expand", "load"} \cup StopPCs
    BY <1>a, <1>13 DEF StopPCs, DoStartSelfHeal, Goto
  <2>3. UNCHANGED reap
    BY <1>13 DEF DoStartSelfHeal
  <2> QED  BY <1>b, <1>d, <2>1, <2>2, <2>3
<1>14. ASSUME NEW t \in Threads, DoStartRefused(t) PROVE ThreadMoves /\ ReaperMoves
  <2>1. \A u \in Threads \ {t} : pc'[u] = pc[u] /\ want'[u] = want[u] /\ ptr'[u] = ptr[u]
    BY <1>a, <1>14 DEF DoStartRefused, Goto
  <2>2. pc'[t] \notin {"restore", "expand", "load"} \cup StopPCs
    BY <1>a, <1>14 DEF StopPCs, DoStartRefused, Goto
  <2>3. UNCHANGED reap
    BY <1>14 DEF DoStartRefused
  <2> QED  BY <1>b, <1>d, <2>1, <2>2, <2>3
<1>15. ASSUME NEW t \in Threads, DoStartBare(t) PROVE ThreadMoves /\ ReaperMoves
  <2>1. \A u \in Threads \ {t} : pc'[u] = pc[u] /\ want'[u] = want[u] /\ ptr'[u] = ptr[u]
    BY <1>a, <1>15 DEF DoStartBare, Goto
  <2>2. pc'[t] \notin {"restore", "expand", "load"} \cup StopPCs
    BY <1>a, <1>15 DEF StopPCs, DoStartBare, Goto
  <2>3. UNCHANGED reap
    BY <1>15 DEF DoStartBare
  <2> QED  BY <1>b, <1>d, <2>1, <2>2, <2>3
<1>16. ASSUME NEW t \in Threads, DoStartHatch(t) PROVE ThreadMoves /\ ReaperMoves
  <2>1. ThreadMoves
    BY <1>a, <1>16 DEF ThreadMoves, StopPCs, DoStartHatch, Goto
  <2>2. UNCHANGED reap
    BY <1>16 DEF DoStartHatch
  <2> QED  BY <1>b, <2>1, <2>2
<1>17. ASSUME NEW t \in Threads, HatchCancelled(t) PROVE ThreadMoves /\ ReaperMoves
  <2>1. \A u \in Threads \ {t} : pc'[u] = pc[u] /\ want'[u] = want[u] /\ ptr'[u] = ptr[u]
    BY <1>a, <1>17 DEF HatchCancelled, Goto
  <2>2. pc'[t] \notin {"restore", "expand", "load"} \cup StopPCs
    BY <1>a, <1>17 DEF StopPCs, HatchCancelled, Goto
  <2>3. UNCHANGED reap
    BY <1>17 DEF HatchCancelled
  <2> QED  BY <1>b, <1>d, <2>1, <2>2, <2>3
<1>18. ASSUME NEW t \in Threads, HatchDone(t) PROVE ThreadMoves /\ ReaperMoves
  <2>1. \A u \in Threads \ {t} : pc'[u] = pc[u] /\ want'[u] = want[u] /\ ptr'[u] = ptr[u]
    BY <1>a, <1>18 DEF HatchDone, Goto
  <2>2. pc'[t] \notin {"restore", "expand", "load"} \cup StopPCs
    BY <1>a, <1>18 DEF StopPCs, HatchDone, Goto
  <2>3. UNCHANGED reap
    BY <1>18 DEF HatchDone
  <2> QED  BY <1>b, <1>d, <2>1, <2>2, <2>3
<1>19. ASSUME NEW t \in Threads, StartFinish(t) PROVE ThreadMoves /\ ReaperMoves
  <2>1. ThreadMoves
    BY <1>a, <1>19 DEF ThreadMoves, StopPCs, StartFinish
  <2>2. UNCHANGED reap
    BY <1>19 DEF StartFinish
  <2> QED  BY <1>b, <2>1, <2>2
<1>20. ASSUME NEW t \in Threads, StartReturn(t) PROVE ThreadMoves /\ ReaperMoves
  <2>1. \A u \in Threads \ {t} : pc'[u] = pc[u] /\ want'[u] = want[u] /\ ptr'[u] = ptr[u]
    BY <1>a, <1>20 DEF StartReturn, Returned, Finished, Goto
  <2>2. pc'[t] \notin {"restore", "expand", "load"} \cup StopPCs
    BY <1>a, <1>20 DEF StopPCs, StartReturn, Returned, Finished, Goto
  <2>3. UNCHANGED reap
    BY <1>20 DEF StartReturn
  <2> QED  BY <1>b, <1>d, <2>1, <2>2, <2>3
<1>21. ASSUME InferRecheck PROVE ThreadMoves /\ ReaperMoves
  <2>1. \A u \in Threads \ {Worker} : pc'[u] = pc[u] /\ want'[u] = want[u] /\ ptr'[u] = ptr[u]
    BY <1>a, <1>21 DEF InferRecheck, Finished, Goto
  <2>2. pc'[Worker] \notin {"restore", "expand", "load"} \cup StopPCs
    BY <1>a, <1>21 DEF StopPCs, InferRecheck, Finished, Goto
  <2>3. UNCHANGED reap
    BY <1>21 DEF InferRecheck
  <2> QED  BY <1>b, <1>d, <2>1, <2>2, <2>3
<1>22. ASSUME InferForward PROVE ThreadMoves /\ ReaperMoves
  <2>1. \A u \in Threads \ {Worker} : pc'[u] = pc[u] /\ want'[u] = want[u] /\ ptr'[u] = ptr[u]
    BY <1>a, <1>22 DEF InferForward, Finished, Goto
  <2>2. pc'[Worker] \notin {"restore", "expand", "load"} \cup StopPCs
    BY <1>a, <1>22 DEF StopPCs, InferForward, Finished, Goto
  <2>3. UNCHANGED reap
    BY <1>22 DEF InferForward
  <2> QED  BY <1>b, <1>d, <2>1, <2>2, <2>3
<1>23. ASSUME AcquireInflight PROVE ThreadMoves /\ ReaperMoves
  <2>1. \A u \in Threads \ {Worker} : pc'[u] = pc[u] /\ want'[u] = want[u] /\ ptr'[u] = ptr[u]
    BY <1>a, <1>23 DEF AcquireInflight, Finished, Goto
  <2>2. pc'[Worker] \notin {"restore", "expand", "load"} \cup StopPCs
    BY <1>a, <1>23 DEF StopPCs, AcquireInflight, Finished, Goto
  <2>3. UNCHANGED reap
    BY <1>23 DEF AcquireInflight
  <2> QED  BY <1>b, <1>d, <2>1, <2>2, <2>3
<1>24. ASSUME HealthCheck PROVE ThreadMoves /\ ReaperMoves
  <2>1. \A u \in Threads \ {Worker} : pc'[u] = pc[u] /\ want'[u] = want[u] /\ ptr'[u] = ptr[u]
    BY <1>a, <1>24 DEF HealthCheck, WorkerStays, Goto
  <2>2. pc'[Worker] \notin {"restore", "expand", "load"} \cup StopPCs
    BY <1>a, <1>24 DEF StopPCs, HealthCheck, WorkerStays, Goto
  <2>3. UNCHANGED reap
    BY <1>24 DEF HealthCheck, WorkerStays
  <2> QED  BY <1>b, <1>d, <2>1, <2>2, <2>3
<1>25. ASSUME HealthRetry PROVE ThreadMoves /\ ReaperMoves
  <2>1. \A u \in Threads \ {Worker} : pc'[u] = pc[u] /\ want'[u] = want[u] /\ ptr'[u] = ptr[u]
    BY <1>a, <1>25 DEF HealthRetry, WorkerStays, Goto
  <2>2. pc'[Worker] \notin {"restore", "expand", "load"} \cup StopPCs
    BY <1>a, <1>25 DEF StopPCs, HealthRetry, WorkerStays, Goto
  <2>3. UNCHANGED reap
    BY <1>25 DEF HealthRetry, WorkerStays
  <2> QED  BY <1>b, <1>d, <2>1, <2>2, <2>3
<1>26. ASSUME ForwardOK PROVE ThreadMoves /\ ReaperMoves
  <2>1. \A u \in Threads \ {Worker} : pc'[u] = pc[u] /\ want'[u] = want[u] /\ ptr'[u] = ptr[u]
    BY <1>a, <1>26 DEF ForwardOK, Goto
  <2>2. pc'[Worker] \notin {"restore", "expand", "load"} \cup StopPCs
    BY <1>a, <1>26 DEF StopPCs, ForwardOK, Goto
  <2>3. UNCHANGED reap
    BY <1>26 DEF ForwardOK
  <2> QED  BY <1>b, <1>d, <2>1, <2>2, <2>3
<1>27. ASSUME ForwardFailed PROVE ThreadMoves /\ ReaperMoves
  <2>1. \A u \in Threads \ {Worker} : pc'[u] = pc[u] /\ want'[u] = want[u] /\ ptr'[u] = ptr[u]
    BY <1>a, <1>27 DEF ForwardFailed, WorkerStays, Goto
  <2>2. pc'[Worker] \notin {"restore", "expand", "load"} \cup StopPCs
    BY <1>a, <1>27 DEF StopPCs, ForwardFailed, WorkerStays, Goto
  <2>3. UNCHANGED reap
    BY <1>27 DEF ForwardFailed, WorkerStays
  <2> QED  BY <1>b, <1>d, <2>1, <2>2, <2>3
<1>28. ASSUME ForwardStuck PROVE ThreadMoves /\ ReaperMoves
  <2>1. \A u \in Threads \ {Worker} : pc'[u] = pc[u] /\ want'[u] = want[u] /\ ptr'[u] = ptr[u]
    BY <1>a, <1>28 DEF ForwardStuck, WorkerStays, Goto
  <2>2. pc'[Worker] \notin {"restore", "expand", "load"} \cup StopPCs
    BY <1>a, <1>28 DEF StopPCs, ForwardStuck, WorkerStays, Goto
  <2>3. UNCHANGED reap
    BY <1>28 DEF ForwardStuck, WorkerStays
  <2> QED  BY <1>b, <1>d, <2>1, <2>2, <2>3
<1>29. ASSUME StallEscalate PROVE ThreadMoves /\ ReaperMoves
  <2>1. \A u \in Threads \ {Worker} : pc'[u] = pc[u] /\ want'[u] = want[u] /\ ptr'[u] = ptr[u]
    BY <1>a, <1>29 DEF StallEscalate, WorkerStays, Goto
  <2>2. pc'[Worker] \notin {"restore", "expand", "load"} \cup StopPCs
    BY <1>a, <1>29 DEF StopPCs, StallEscalate, WorkerStays, Goto
  <2>3. UNCHANGED reap
    BY <1>29 DEF StallEscalate, WorkerStays
  <2> QED  BY <1>b, <1>d, <2>1, <2>2, <2>3
<1>30. ASSUME WatchdogNote PROVE ThreadMoves /\ ReaperMoves
  <2>1. \A u \in Threads \ {Worker} : pc'[u] = pc[u] /\ want'[u] = want[u] /\ ptr'[u] = ptr[u]
    BY <1>a, <1>30 DEF WatchdogNote, WorkerStays, Goto
  <2>2. pc'[Worker] \notin {"restore", "expand", "load"} \cup StopPCs
    BY <1>a, <1>30 DEF StopPCs, WatchdogNote, WorkerStays, Goto
  <2>3. UNCHANGED reap
    BY <1>30 DEF WatchdogNote, WorkerStays
  <2> QED  BY <1>b, <1>d, <2>1, <2>2, <2>3
<1>31. ASSUME BodyClosed PROVE ThreadMoves /\ ReaperMoves
  <2>1. \A u \in Threads \ {Worker} : pc'[u] = pc[u] /\ want'[u] = want[u] /\ ptr'[u] = ptr[u]
    BY <1>a, <1>31 DEF BodyClosed, Goto
  <2>2. pc'[Worker] \notin {"restore", "expand", "load"} \cup StopPCs
    BY <1>a, <1>31 DEF StopPCs, BodyClosed, Goto
  <2>3. UNCHANGED reap
    BY <1>31 DEF BodyClosed
  <2> QED  BY <1>b, <1>d, <2>1, <2>2, <2>3
<1>32. ASSUME ReleaseInflight PROVE ThreadMoves /\ ReaperMoves
  <2>1. \A u \in Threads \ {Worker} : pc'[u] = pc[u] /\ want'[u] = want[u] /\ ptr'[u] = ptr[u]
    BY <1>a, <1>32 DEF ReleaseInflight, Finished, Goto
  <2>2. pc'[Worker] \notin {"restore", "expand", "load"} \cup StopPCs
    BY <1>a, <1>32 DEF StopPCs, ReleaseInflight, Finished, Goto
  <2>3. UNCHANGED reap
    BY <1>32 DEF ReleaseInflight
  <2> QED  BY <1>b, <1>d, <2>1, <2>2, <2>3
<1>33. ASSUME HungEnds PROVE ThreadMoves /\ ReaperMoves
  <2>1. \A u \in Threads \ {Worker} : pc'[u] = pc[u] /\ want'[u] = want[u] /\ ptr'[u] = ptr[u]
    BY <1>a, <1>33 DEF HungEnds, WorkerStays, Goto
  <2>2. pc'[Worker] \notin {"restore", "expand", "load"} \cup StopPCs
    BY <1>a, <1>33 DEF StopPCs, HungEnds, WorkerStays, Goto
  <2>3. UNCHANGED reap
    BY <1>33 DEF HungEnds, WorkerStays
  <2> QED  BY <1>b, <1>d, <2>1, <2>2, <2>3
<1>34. ASSUME GuardJudge PROVE ThreadMoves /\ ReaperMoves
  BY <1>b, <1>c, <1>34 DEF GuardJudge, GuardOnly
<1>35. ASSUME GuardNote PROVE ThreadMoves /\ ReaperMoves
  BY <1>b, <1>c, <1>35 DEF GuardNote, GuardOnly
<1>36. ASSUME GuardHard PROVE ThreadMoves /\ ReaperMoves
  BY <1>b, <1>c, <1>36 DEF GuardHard, GuardOnly
<1>37. ASSUME GuardNoteHard PROVE ThreadMoves /\ ReaperMoves
  BY <1>b, <1>c, <1>37 DEF GuardNoteHard, GuardOnly
<1>38. ASSUME ReapPick PROVE ThreadMoves /\ ReaperMoves
  <2>1. ThreadMoves
    BY <1>c, <1>38 DEF ReapPick, ReapOnly
  <2>2. ReaperMoves
    BY <1>a, <1>38, NamesAssumption DEF ReapPick, ReaperMoves, Egg
  <2> QED  BY <2>1, <2>2
<1>39. ASSUME ReapStop PROVE ThreadMoves /\ ReaperMoves
  <2>1. ThreadMoves
    BY <1>c, <1>39 DEF ReapStop, ReapOnly
  <2>2. ReaperMoves
    BY <1>a, <1>39, NamesAssumption DEF ReapStop, ReaperMoves, Egg
  <2> QED  BY <2>1, <2>2
<1>40. ASSUME ReapFinalize PROVE ThreadMoves /\ ReaperMoves
  <2>1. ThreadMoves
    BY <1>c, <1>40 DEF ReapFinalize, ReapOnly
  <2>2. ReaperMoves
    BY <1>a, <1>40, NamesAssumption DEF ReapFinalize, ReaperMoves, Egg
  <2> QED  BY <2>1, <2>2
<1>41. ASSUME NEW m \in Models, UnloadBy(m) PROVE ThreadMoves /\ ReaperMoves
  BY <1>b, <1>c, <1>41 DEF UnloadBy, Evict
<1>42. ASSUME UnloadAll PROVE ThreadMoves /\ ReaperMoves
  BY <1>b, <1>c, <1>42 DEF UnloadAll, Evict
<1>43. ASSUME Stop PROVE ThreadMoves /\ ReaperMoves
  BY <1>b, <1>c, <1>43 DEF Stop, Evict
<1>44. ASSUME NEW m \in Models, Pin(m) PROVE ThreadMoves /\ ReaperMoves
  BY <1>b, <1>c, <1>44 DEF Pin, EggOnly
<1>45. ASSUME RenewDefaultPin PROVE ThreadMoves /\ ReaperMoves
  BY <1>b, <1>c, <1>45 DEF RenewDefaultPin, EggOnly
<1>46. ASSUME NEW m \in Models, Unpin(m) PROVE ThreadMoves /\ ReaperMoves
  BY <1>b, <1>c, <1>46 DEF Unpin, EggOnly
<1>47. ASSUME NEW e \in Eggs, EngineDies(e) PROVE ThreadMoves /\ ReaperMoves
  BY <1>b, <1>c, <1>47 DEF EngineDies, EggOnly
<1>48. ASSUME UNCHANGED vars PROVE ThreadMoves /\ ReaperMoves
  BY <1>b, <1>c, <1>48 DEF vars
<1> QED
  BY <1>1, <1>2, <1>3, <1>4, <1>5, <1>6, <1>7, <1>8, <1>9, <1>10, <1>11, <1>12, <1>13, <1>14, <1>15, <1>16, <1>17, <1>18, <1>19, <1>20, <1>21, <1>22, <1>23, <1>24, <1>25, <1>26, <1>27, <1>28, <1>29, <1>30, <1>31, <1>32, <1>33, <1>34, <1>35, <1>36, <1>37, <1>38, <1>39, <1>40, <1>41, <1>42, <1>43, <1>44, <1>45, <1>46, <1>47, <1>48
     DEF Next, StartStep, InferStep, GuardStep, ReapStep, Operator

\* What a load evicts on its way is unpinned, has served nobody and is not being loaded.
LEMMA ClearanceSpares ==
    ASSUME NEW S, NEW m, NEW c \in Clearances(S, m)
    PROVE  \A e \in c.gone : ~egg[e].pinned /\ ~egg[e].used /\ egg[e].st # "loading"
<1>1. PICK V \in SlotVictims(S) :
        LET left  == S \ V
            other == OtherKind(left, m)
            kin   == left \ (other \cap Actionable(left))
        IN  /\ c.pass = (other \subseteq Actionable(left))
            /\ IF c.pass
                 THEN \E M \in Prefixes(kin) : c.gone = V \cup other \cup M
                 ELSE c.gone = V \cup (other \cap Actionable(left))
  BY DEF Clearances
<1> DEFINE left  == S \ V
           other == OtherKind(left, m)
           kin   == left \ (other \cap Actionable(left))
<1>2. V \subseteq Actionable(S)
  BY DEF SlotVictims, Prefixes
<1>3. \A M \in Prefixes(kin) : M \subseteq Actionable(kin)
  BY DEF Prefixes
<1>4. c.gone \subseteq Actionable(S) \cup Actionable(left) \cup Actionable(kin)
  <2>1. CASE c.pass
    BY <1>1, <1>2, <1>3, <2>1
  <2>2. CASE ~c.pass
    BY <1>1, <1>2, <2>2
  <2> QED  BY <2>1, <2>2
<1> QED  BY <1>4 DEF Actionable

\* The reasons for which an egg may leave the book, Manager.Stop aside.
MayLeave(e) ==
    \/ ~egg[e].pinned
    \/ e \in Dying
    \/ egg[e].st = "loading"
    \/ \E t \in Threads : pc[t] = "load" /\ procs[want[t]] = e

\* Every step strikes off an egg for one of these reasons only.
LEMMA LeaveStep ==
    ASSUME TypeOK, HandsInv, [Next]_vars
    PROVE  Stop \/ \A e \in Resident : e \in Resident' \/ MayLeave(e)
<1> DEFINE Goal == \A e \in Resident : e \in Resident' \/ MayLeave(e)
<1>a. UNCHANGED procs => Goal
  BY DEF Resident
<1>b. ASSUME NEW gone, procs' = Without(gone), \A e \in Resident \cap gone : MayLeave(e)
      PROVE  Goal
  <2>1. \A e \in Resident : e \notin gone => e \in Resident'
    BY <1>b, ModelsAssumption DEF Resident, Without
  <2> QED  BY <1>b, <2>1
<1>c. ASSUME NEW t \in Threads, pc[t] = "load", NEW e \in Occupant(want[t]) PROVE MayLeave(e)
  BY <1>c DEF Occupant, MayLeave
<1>1. ASSUME NEW t \in Threads, StartForgetVictim(t) PROVE Goal
  <2>1. ptr[t] \in Dying
    BY <1>1 DEF StartForgetVictim, Dying
  <2> QED  BY <1>1, <1>b, <2>1 DEF StartForgetVictim, MayLeave
<1>2. ASSUME ReapFinalize PROVE Goal
  <2>1. reap.cur \in Dying
    BY DEF Dying
  <2> QED  BY <1>2, <1>b, <2>1 DEF ReapFinalize, MayLeave
<1>3. ASSUME NEW t \in Threads, DoStartRefused(t) PROVE Goal
  <2>1. PICK gone \in {{}} \cup {c.gone : c \in Clearances(Bystanders(want[t]), want[t])} :
          procs' = Without(gone \cup Occupant(want[t]))
    BY <1>3 DEF DoStartRefused
  <2>2. \A e \in gone : MayLeave(e)
    BY ClearanceSpares DEF MayLeave
  <2>3. \A e \in Occupant(want[t]) : MayLeave(e)
    BY <1>3, <1>c DEF DoStartRefused
  <2> QED  BY <1>b, <2>1, <2>2, <2>3
<1>4. ASSUME NEW t \in Threads, DoStartBare(t) \/ DoStartHatch(t) PROVE Goal
  <2>1. PICK new \in Eggs : \E fields : Registering(want[t], new, fields)
    BY <1>4 DEF DoStartBare, DoStartHatch
  <2>2. PICK c \in Clearances(Bystanders(want[t]), want[t]) :
          procs' = [Without(c.gone) EXCEPT ![want[t]] = new]
    BY <2>1 DEF Registering
  <2>3. pc[t] = "load"
    BY <1>4 DEF DoStartBare, DoStartHatch
  <2>4. ASSUME NEW e \in Resident PROVE e \in Resident' \/ MayLeave(e)
    <3>1. CASE e \in c.gone
      BY <3>1, ClearanceSpares DEF MayLeave
    <3>2. CASE ModelOf[e] = want[t]
      <4>1. procs[want[t]] = e
        BY <3>2 DEF Resident
      <4> QED  BY <2>3, <4>1 DEF MayLeave
    <3>3. CASE e \notin c.gone /\ ModelOf[e] # want[t]
      <4>1. procs'[ModelOf[e]] = e
        BY <2>2, <3>3, ModelsAssumption DEF Resident, Without
      <4> QED  BY <4>1 DEF Resident
    <3> QED  BY <3>1, <3>2, <3>3
  <2> QED  BY <2>4
<1>5. ASSUME NEW t \in Threads, HatchDone(t) PROVE Goal
  <2>1. egg[ptr[t]].st = "loading"
    BY <1>5 DEF HatchDone, HandsInv, ExpandPrivate
  <2>2. MayLeave(ptr[t])
    BY <2>1 DEF MayLeave
  <2> QED  BY <1>5, <1>a, <1>b, <2>2 DEF HatchDone
<1>6. ASSUME NEW m \in Models, UnloadBy(m) PROVE Goal
  <2>1. \A e \in Occupant(m) : ~egg[e].pinned
    BY <1>6 DEF UnloadBy, Actionable, Occupant
  <2> QED  BY <1>6, <1>b, <2>1 DEF UnloadBy, Evict, MayLeave
<1>7. ASSUME UnloadAll PROVE Goal
  BY <1>7, <1>b DEF UnloadAll, Evict, MayLeave
<1> USE DEF rest
<1>8. ASSUME NEW t \in Threads,
             \/ \E m \in Models : StartCall(t, m)
             \/ StartEnter(t) \/ StartRequest(t) \/ StartPoll(t) \/ StartPollTimeout(t)
             \/ StartPickVictim(t) \/ StartPrecheck(t) \/ StartRestoreVictim(t)
             \/ StartStopVictim(t) \/ StartNormal(t) \/ DoStartSelfHeal(t)
             \/ HatchCancelled(t) \/ StartFinish(t) \/ StartReturn(t)
      PROVE  UNCHANGED procs
  BY <1>8 DEF StartCall, StartEnter, StartRequest, StartPoll, StartPollTimeout,
       StartPickVictim, StartPrecheck, StartRestoreVictim, StartStopVictim, StartNormal,
       DoStartSelfHeal, HatchCancelled, StartFinish, StartReturn
<1>9. ASSUME InferStep \/ HungEnds \/ \E m \in Models : InferCall(m)
      PROVE  UNCHANGED procs
  BY <1>9 DEF InferStep, HungEnds, InferCall, InferRecheck, InferForward, AcquireInflight,
       HealthCheck, HealthRetry, ForwardOK, ForwardFailed, ForwardStuck, StallEscalate,
       WatchdogNote, BodyClosed, ReleaseInflight, WorkerStays
<1>10. ASSUME \/ GuardStep \/ ReapPick \/ ReapStop \/ RenewDefaultPin
              \/ \E m \in Models : Pin(m) \/ Unpin(m)
              \/ \E e \in Eggs : EngineDies(e)
              \/ UNCHANGED vars
       PROVE  UNCHANGED procs
  BY <1>10 DEF GuardStep, GuardJudge, GuardNote, GuardHard, GuardNoteHard, GuardOnly, ReapPick,
       ReapStop, RenewDefaultPin, Pin, Unpin, EngineDies, EggOnly, vars
<1> HIDE DEF Goal
<1>11. Stop \/ Goal
  BY <1>a, <1>1, <1>2, <1>3, <1>4, <1>5, <1>6, <1>7, <1>8, <1>9, <1>10
     DEF Next, StartStep, ReapStep, Operator
<1> QED  BY <1>11 DEF Goal

-----------------------------------------------------------------------------
(* An egg given up stays down *)

\* The mode is fixed: units are expanded and victims restored in one mode alone.
LEMMA HatchOnlyAlways == Spec => []HatchOnly
<1>1. Init => HatchOnly
  BY DEF Init, HatchOnly
<1>2. TypeOK /\ HatchOnly /\ [Next]_vars => HatchOnly'
  BY MoveStep DEF HatchOnly, ThreadMoves
<1> QED  BY <1>1, <1>2, TypeCorrect, PTL DEF Spec

\* The life of an egg: it enters the book as a subproc nobody knows, and while it is in the
\* book its state changes only along the edges of Turn, or to crashed. Draining is entered
\* from a state that serves, at zero requests and without a pin; it is left in the mode of
\* units alone.
THEOREM LifeEver ==
    Spec => [][\A e \in Resident' : Born(e) \/ (e \in Resident /\ Life(e))]_vars
<1>1. TypeOK /\ BookInv /\ HandsInv /\ HatchOnly /\ [Next]_vars =>
        [\A e \in Resident' : Born(e) \/ (e \in Resident /\ Life(e))]_vars
  BY LifeStep DEF BookInv
<1> QED  BY <1>1, TypeCorrect, BookAlways, HatchOnlyAlways, PTL DEF Spec

\* No step brings an abandoned egg back: the states it could come back by are left by Life
\* only for an egg that is not abandoned, and a new egg has no stalls.
LEMMA AbandonedStep ==
    ASSUME TypeOK, BookOK, HandsInv, HatchOnly, AbandonedStaysDown, [Next]_vars
    PROVE  AbandonedStaysDown'
<1> SUFFICES ASSUME NEW e \in Eggs, e \in Resident', egg'[e].stale > MaxStaleKills
             PROVE  egg'[e].st = "crashed"
  BY DEF AbandonedStaysDown, Abandoned, Resident
<1>a. MaxStaleKills \in Nat
  BY BoundsAssumption
<1>1. CASE Born(e)
  BY <1>a, <1>1 DEF Born
<1>2. CASE e \in Resident /\ Life(e)
  <2>1. egg'[e].st = "crashed" \/ egg'[e].stale = egg[e].stale
    <3>1. TypeOK'
      BY TypeStep
    <3>2. egg'[e].stale \in Nat
      BY <3>1 DEF TypeOK, Egg
    <3> QED  BY <1>a, <1>2, <3>2 DEF Life
  <2>2. ASSUME egg'[e].stale = egg[e].stale PROVE egg'[e].st = "crashed"
    <3>1. Abandoned(e) /\ egg[e].st = "crashed"
      BY <1>2, <2>2 DEF AbandonedStaysDown, Abandoned
    <3> QED  BY <1>2, <3>1 DEF Life, Turn, Serving
  <2> QED  BY <2>1, <2>2
<1> QED  BY <1>1, <1>2, LifeStep

\* An egg given up for good (max_stale_kills) stays crashed while it is in the book, in both
\* modes and whatever requests, releases, watchdogs and restored victims overlap.
THEOREM AbandonedStaysDownEver == Spec => []AbandonedStaysDown
<1>1. Init => AbandonedStaysDown
  <2> SUFFICES ASSUME Init PROVE AbandonedStaysDown
    OBVIOUS
  <2>1. Resident = {}
    BY ModelsAssumption, NamesAssumption DEF Init, Resident
  <2> QED  BY <2>1 DEF AbandonedStaysDown
<1>2. TypeOK /\ BookInv /\ HandsInv /\ HatchOnly /\ AbandonedStaysDown /\ [Next]_vars
        => AbandonedStaysDown'
  BY AbandonedStep DEF BookInv
<1> QED  BY <1>1, <1>2, TypeCorrect, BookAlways, HatchOnlyAlways, PTL DEF Spec

-----------------------------------------------------------------------------
(* Child processes: who may be stopped, and who may be replaced *)

\* An egg in the hands of a model switch or of the reaper does not serve.
DyingDown == \A e \in Resident : e \in Dying => ~Serving(e)

\* An egg with a request on it is not draining: the right to stop it cannot be won.
HeldUp == held \in Resident => egg[held].st # "draining"

\* Whoever loads a model found nothing that serves under its name, and nobody else makes it
\* serve meanwhile.
LoadIdle ==
    \A t \in Threads : pc[t] = "load" /\ procs[want[t]] # NoEgg => ~Serving(procs[want[t]])

BareInv == DyingDown /\ HeldUp /\ DyingNotServed /\ LoadIdle

\* An egg that is dying after a step was dying before, or was won at zero in this step.
LEMMA DyingStep ==
    ASSUME TypeOK, CountInv, HeldUp, [Next]_vars, NEW e \in Eggs, e \in Dying'
    PROVE  \/ e \in Dying
           \/ e \in Resident /\ e # held /\ egg'[e].st = "draining"
<1>1. ThreadMoves /\ ReaperMoves
  BY MoveStep
<1>2. CASE e \in reap'.todo \/ e = reap'.cur
  <2>1. e \in reap.todo \/ e = reap.cur => e \in Dying
    BY DEF Dying
  <2>2. e \in Resident /\ egg[e].inflight = 0 => e # held
    BY DEF CountInv, InflightTruthful
  <2> QED  BY <1>1, <1>2, <2>1, <2>2 DEF ReaperMoves
<1>3. ASSUME NEW t \in Threads, pc'[t] \in StopPCs, ptr'[t] = e
      PROVE  e \in Dying \/ (e \in Resident /\ e # held /\ egg'[e].st = "draining")
  <2>1. pc[t] \in StopPCs /\ ptr[t] = e => e \in Dying
    BY DEF Dying, StopPCs
  <2>2. e \in Resident /\ egg[e].st = "draining" => e # held
    BY DEF HeldUp
  <2>3. \/ pc[t] \in StopPCs /\ ptr[t] = e
        \/ e \in Resident /\ egg[e].st = "draining" /\ UNCHANGED egg
    BY <1>1, <1>3 DEF ThreadMoves
  <2> QED  BY <2>1, <2>2, <2>3
<1>4. \/ e \in reap'.todo \/ e = reap'.cur
      \/ \E t \in Threads : pc'[t] \in StopPCs /\ ptr'[t] = e
  BY DEF Dying, StopPCs
<1> QED  BY <1>2, <1>3, <1>4

\* Every step of a manager of child processes keeps these facts.
LEMMA BareStep ==
    ASSUME ~HatchMode, TypeOK, BookInv, HandsInv, HatchOnly, CountInv, SingleFlight, BareInv,
           [Next]_vars
    PROVE  BareInv'
<1>a. BookOK /\ DyingDown /\ HeldUp /\ DyingNotServed /\ LoadIdle
  BY DEF BookInv, BareInv
<1>b. \A e \in Resident' : Born(e) \/ (e \in Resident /\ Life(e))
  BY <1>a, LifeStep
<1>c. BookOK' /\ TypeOK'
  BY BookStep, TypeStep DEF BookInv
<1>d. \A e \in Resident : Life(e) /\ Serving(e)' => Serving(e)
  BY DEF Life, Turn, Serving
<1>e. HeldCalm \/ AcquireInflight \/ ReleaseInflight
  BY CalmMoves
<1>f. ASSUME NEW e \in Eggs, Born(e) PROVE e \notin Dying /\ e # held /\ e \notin Resident
  BY <1>f DEF Born, Fresh, Dying
<1>g. Resident \subseteq Eggs /\ Resident' \subseteq Eggs /\ NoEgg \notin Eggs
  BY NamesAssumption DEF Resident
<1>1. DyingDown'
  <2> SUFFICES ASSUME NEW e \in Eggs, e \in Resident', e \in Dying' PROVE ~Serving(e)'
    BY DEF DyingDown, Resident
  <2>1. CASE e \in Dying
    <3>1. e \in Resident /\ Life(e)
      BY <1>b, <1>f, <2>1
    <3> QED  BY <1>a, <1>d, <2>1, <3>1 DEF DyingDown
  <2>2. CASE egg'[e].st = "draining"
    BY <2>2 DEF Serving
  <2> QED  BY <1>a, <2>1, <2>2, DyingStep
<1>2. ASSUME AcquireInflight, held' # held
      PROVE  held' \in Resident /\ Serving(held') /\ egg'[held'].st = "ready"
  <2> DEFINE cur == procs[want[Worker]]
  <2>1. /\ cur # NoEgg /\ Serving(cur) /\ held' = cur
        /\ egg' = [egg EXCEPT ![cur].st = "ready", ![cur].inflight = egg[cur].inflight + 1]
        /\ want[Worker] \in Models
    BY <1>2 DEF AcquireInflight, TypeOK
  <2>2. cur \in Eggs /\ cur \in Resident
    BY <1>a, <2>1 DEF TypeOK, BookOK, Resident
  <2> QED  BY <2>1, <2>2 DEF TypeOK, Egg
<1>3. HeldUp'
  <2> SUFFICES ASSUME held' \in Resident' PROVE egg'[held'].st # "draining"
    BY DEF HeldUp
  <2>1. CASE held' = held
    <3>1. held \in Eggs
      BY <1>g, <2>1
    <3>2. held \in Resident /\ Life(held)
      BY <1>b, <1>f, <2>1, <3>1
    <3>3. egg[held].inflight = 1 /\ egg[held].st # "draining"
      BY <1>a, <3>2 DEF CountInv, InflightTruthful, HeldUp
    <3> QED  BY <2>1, <3>2, <3>3 DEF Life, Turn
  <2>2. CASE held' # held
    <3>1. held' # NoEgg
      BY <1>g
    <3>2. AcquireInflight
      BY <1>e, <2>2, <3>1 DEF HeldCalm, ReleaseInflight
    <3> QED  BY <1>2, <2>2, <3>2
  <2> QED  BY <2>1, <2>2
<1>4. DyingNotServed'
  <2> SUFFICES ASSUME held' # NoEgg, held' \in Dying' PROVE FALSE
    BY DEF DyingNotServed
  <2>0. held' \in Eggs
    BY <1>c DEF TypeOK
  <2>1. \/ held' \in Dying
        \/ held' \in Resident /\ held' # held /\ egg'[held'].st = "draining"
    BY <1>a, <2>0, DyingStep
  <2>2. CASE held' = held
    BY <1>a, <2>1, <2>2 DEF DyingNotServed
  <2>3. CASE held' # held
    <3>1. AcquireInflight
      BY <1>e, <2>3 DEF HeldCalm, ReleaseInflight
    <3> QED  BY <1>2, <1>a, <2>1, <2>3, <3>1 DEF DyingDown
  <2> QED  BY <2>2, <2>3
<1>5. LoadIdle'
  <2> SUFFICES ASSUME NEW t \in Threads, pc'[t] = "load", procs'[want'[t]] # NoEgg
               PROVE  ~Serving(procs[want[t]])'
    BY DEF LoadIdle
  <2> DEFINE e == procs'[want'[t]]
  <2>1. want'[t] \in Models
    BY <1>c DEF TypeOK
  <2>2. e \in Eggs /\ ModelOf[e] = want'[t] /\ e \in Resident'
    BY <1>c, <2>1 DEF TypeOK, BookOK, Resident
  <2>3. CASE /\ UNCHANGED <<procs, egg, want>>
             /\ procs[want[t]] # NoEgg => ~Serving(procs[want[t]])
    BY <2>3 DEF Serving
  <2>4. CASE pc[t] = "load" /\ want'[t] = want[t]
    <3>1. ~Born(e)
      <4> SUFFICES ASSUME NEW u \in Threads, pc[u] = "load", Fresh(e, want[u]),
                          pc' \in {[pc EXCEPT ![u] = l] : l \in {"expand", "finish"}}
                   PROVE  FALSE
        BY DEF Born
      <4>1. want[u] = want[t]
        BY <2>2, <2>4 DEF Fresh
      <4>2. u = t
        BY <2>1, <2>4, <4>1 DEF SingleFlight, Leads
      <4> QED  BY <4>2 DEF TypeOK
    <3>2. e \in Resident /\ Life(e)
      BY <1>b, <2>2, <3>1
    <3>3. procs[want[t]] = e
      BY <2>2, <2>4, <3>2 DEF Resident
    <3>4. ~Serving(e)
      BY <1>a, <1>g, <2>4, <3>2, <3>3 DEF LoadIdle
    <3> QED  BY <1>d, <3>2, <3>4 DEF Serving
  <2>5. ThreadMoves
    BY MoveStep
  <2> QED  BY <2>3, <2>4, <2>5 DEF ThreadMoves
<1> QED  BY <1>1, <1>3, <1>4, <1>5 DEF BareInv

\* The facts hold in every reachable state.
LEMMA BareAlways ==
    ASSUME ~HatchMode
    PROVE  Spec => []BareInv
<1>1. Init => BareInv
  <2> SUFFICES ASSUME Init PROVE BareInv
    OBVIOUS
  <2>1. Resident = {}
    BY ModelsAssumption, NamesAssumption DEF Init, Resident
  <2> QED  BY <2>1 DEF Init, BareInv, DyingDown, HeldUp, DyingNotServed, LoadIdle
<1>2. /\ TypeOK /\ BookInv /\ HandsInv /\ HatchOnly /\ CountInv /\ SingleFlight /\ BareInv
      /\ [Next]_vars
      => BareInv'
  BY BareStep
<1> QED  BY <1>1, <1>2, TypeCorrect, BookAlways, HatchOnlyAlways, CountAlways, SingleFlightEver, PTL
         DEF Spec

\* With child processes no egg that a model switch or the reaper is about to stop has the
\* current request on it, for any number of models, eggs and goroutines. (With units the
\* self-heal and a restored victim bring a dying egg back into service.)
THEOREM DyingNotServedEver ==
    ASSUME ~HatchMode
    PROVE  Spec => []DyingNotServed
<1>1. BareInv => DyingNotServed
  BY DEF BareInv
<1> QED  BY <1>1, BareAlways, PTL

\* With child processes a pinned egg that serves leaves the book only at Manager.Stop: no
\* eviction, no reaper, no unload and no load of its own model takes it.
THEOREM PinRespectedEver ==
    ASSUME ~HatchMode
    PROVE  Spec => PinRespected
<1>1. TypeOK /\ HandsInv /\ BareInv /\ [Next]_vars =>
        [\A e \in Resident :
           egg[e].pinned /\ Serving(e) => e \in Resident' \/ Stop]_vars
  <2> SUFFICES ASSUME TypeOK, HandsInv, BareInv, [Next]_vars,
                      NEW e \in Resident, egg[e].pinned, Serving(e), ~Stop
               PROVE  e \in Resident'
    OBVIOUS
  <2>1. e \in Resident' \/ MayLeave(e)
    BY LeaveStep
  <2>2. ~MayLeave(e)
    <3>1. e \in Eggs /\ e # NoEgg
      BY NamesAssumption DEF Resident
    <3> QED  BY <3>1 DEF MayLeave, BareInv, DyingDown, LoadIdle, Serving
  <2> QED  BY <2>1, <2>2
<1> QED  BY <1>1, TypeCorrect, BookAlways, BareAlways, PTL DEF Spec, PinRespected

=============================================================================
