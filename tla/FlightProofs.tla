---------------------------- MODULE FlightProofs ----------------------------
(***************************************************************************)
(* Proofs about the egg manager: one load of a model at a time, and an     *)
(* in-flight count that tells the truth.                                   *)
(***************************************************************************)
EXTENDS BackendManagerProofs

USE DEF Threads

-----------------------------------------------------------------------------
(* Request merging *)

LeadPCs == {"load", "expand", "finish"}

\* A step that nobody starts or ends a load in, and nobody joins one.
FlightCalm ==
    /\ UNCHANGED loading
    /\ \A t \in Threads :
        /\ pc'[t] \in LeadPCs <=> pc[t] \in LeadPCs
        /\ pc'[t] = "merge" => pc[t] = "merge"
        /\ pc'[t] \in LeadPCs \cup {"merge"} => want'[t] = want[t]

\* Such a step keeps request merging in order.
LEMMA FlightStays ==
    ASSUME TypeOK, SingleFlight, FlightCalm
    PROVE  SingleFlight'
<1>1. \A t \in Threads, m \in Models : Leads(t, m)' => loading'[m] = t
  BY DEF SingleFlight, FlightCalm, Leads, LeadPCs
<1>2. \A m \in Models : loading'[m] # NoThread => loading'[m] \in Threads /\ Leads(loading[m], m)'
  BY DEF TypeOK, SingleFlight, FlightCalm, Leads, LeadPCs
<1>3. \A t \in Threads : pc'[t] = "merge" => loading'[want'[t]] # NoThread
  BY DEF SingleFlight, FlightCalm
<1>4. UNCHANGED loading
  BY DEF FlightCalm
<1> QED  BY <1>1, <1>2, <1>3, <1>4 DEF SingleFlight, Leads

\* The locked entry of the load path: whoever finds no load running leads one, the others
\* join the one that runs.
LEMMA NormalFlight ==
    ASSUME TypeOK, SingleFlight, NEW t \in Threads, StartNormal(t)
    PROVE  SingleFlight'
<1> DEFINE m == want[t]
<1>1. /\ pc \in [Threads -> {"idle"} \cup StartPCs \cup InferPCs]
      /\ loading \in [Models -> Threads \cup {NoThread}]
      /\ pc[t] = "normal" /\ m \in Models
  BY DEF TypeOK, StartNormal
<1>2. UNCHANGED want
  BY DEF StartNormal, Reply
<1>3. CASE pc' = [pc EXCEPT ![t] = "return"] /\ UNCHANGED loading
  <2>1. FlightCalm
    BY <1>1, <1>2, <1>3 DEF FlightCalm, LeadPCs
  <2> QED  BY <2>1, FlightStays
<1>4. CASE loading[m] # NoThread /\ pc' = [pc EXCEPT ![t] = "merge"] /\ UNCHANGED loading
  BY <1>1, <1>2, <1>4 DEF SingleFlight, Leads
<1>5. CASE /\ loading[m] = NoThread /\ pc' = [pc EXCEPT ![t] = "load"]
           /\ loading' = [loading EXCEPT ![m] = t]
  BY <1>1, <1>2, <1>5, NamesAssumption DEF SingleFlight, Leads
<1> QED  BY <1>3, <1>4, <1>5 DEF StartNormal, Reply, Goto

\* The end of a load: the slot is free, and nobody waits for it any more.
LEMMA FinishFlight ==
    ASSUME TypeOK, SingleFlight, NEW t \in Threads, StartFinish(t)
    PROVE  SingleFlight'
<1> DEFINE m == want[t]
           merged == {u \in Threads : pc[u] = "merge" /\ want[u] = m}
<1>1. /\ pc \in [Threads -> {"idle"} \cup StartPCs \cup InferPCs]
      /\ loading \in [Models -> Threads \cup {NoThread}]
      /\ pc[t] = "finish" /\ m \in Models
  BY DEF TypeOK, StartFinish
<1>2. /\ loading' = [loading EXCEPT ![m] = NoThread]
      /\ pc' = [u \in Threads |-> IF u \in merged \cup {t} THEN "return" ELSE pc[u]]
      /\ UNCHANGED want
  BY DEF StartFinish
<1>3. loading[m] = t
  BY <1>1 DEF SingleFlight, Leads
<1>4. \A u \in Threads : pc'[u] \in LeadPCs \cup {"merge"} =>
         u # t /\ pc'[u] = pc[u] /\ (pc[u] = "merge" => want[u] # m)
  BY <1>2 DEF LeadPCs
<1>5. \A u \in Threads, k \in Models : Leads(u, k)' => loading'[k] = u
  BY <1>1, <1>2, <1>3, <1>4 DEF SingleFlight, Leads, LeadPCs
<1>6. \A k \in Models : loading'[k] # NoThread =>
                           pc'[loading'[k]] \in LeadPCs /\ want'[loading'[k]] = k
  <2> SUFFICES ASSUME NEW k \in Models, loading'[k] # NoThread
               PROVE  pc'[loading'[k]] \in LeadPCs /\ want'[loading'[k]] = k
    OBVIOUS
  <2>1. k # m /\ loading'[k] = loading[k] /\ loading[k] \in Threads
    BY <1>1, <1>2
  <2>2. pc[loading[k]] \in LeadPCs /\ want[loading[k]] = k
    BY <2>1 DEF SingleFlight, Leads, LeadPCs
  <2>3. loading[k] \notin merged \cup {t}
    BY <2>1, <2>2 DEF LeadPCs
  <2> QED  BY <1>2, <2>1, <2>2, <2>3
<1>7. \A u \in Threads : pc'[u] = "merge" => loading'[want'[u]] # NoThread
  <2> SUFFICES ASSUME NEW u \in Threads, pc'[u] = "merge" PROVE loading'[want'[u]] # NoThread
    OBVIOUS
  <2>1. pc[u] = "merge" /\ want[u] # m /\ want[u] \in Models
    BY <1>4 DEF TypeOK
  <2> QED  BY <1>1, <1>2, <2>1 DEF SingleFlight
<1> QED  BY <1>5, <1>6, <1>7 DEF SingleFlight, Leads, LeadPCs

-----------------------------------------------------------------------------
(* The in-flight count *)

\* A step that the request the worker is forwarding, if any, goes on through.
HeldCalm ==
    /\ UNCHANGED held
    /\ pc[Worker] \in Forwarding => pc'[Worker] \in Forwarding /\ want'[Worker] = want[Worker]

\* A step that registers no egg and counts no request.
CountsStay ==
    \A e \in Resident' : e \in Resident /\ egg'[e].inflight = egg[e].inflight

\* Every step but two leaves the merging of requests alone, every step but two the request
\* the worker is forwarding.
LEMMA CalmMoves ==
    ASSUME TypeOK, [Next]_vars
    PROVE  /\ FlightCalm \/ \E t \in Threads : StartNormal(t) \/ StartFinish(t)
           /\ HeldCalm \/ AcquireInflight \/ ReleaseInflight
<1>a. pc \in [Threads -> {"idle"} \cup StartPCs \cup InferPCs] /\ want \in [Threads -> Models \cup {NoModel}]
  BY DEF TypeOK
<1> USE DEF rest, LeadPCs, Forwarding
<1>1. ASSUME NEW t \in Threads, NEW m \in Models, StartCall(t, m) PROVE FlightCalm /\ HeldCalm
  <2>1. FlightCalm
    BY <1>a, <1>1 DEF FlightCalm, StartCall, Goto
  <2>2. HeldCalm
    BY <1>a, <1>1 DEF HeldCalm, StartCall, Goto
  <2> QED  BY <2>1, <2>2
<1>2. ASSUME NEW m \in Models, InferCall(m) PROVE FlightCalm /\ HeldCalm
  <2>1. FlightCalm
    BY <1>a, <1>2 DEF FlightCalm, InferCall, Goto
  <2>2. HeldCalm
    BY <1>a, <1>2 DEF HeldCalm, InferCall, Goto
  <2> QED  BY <2>1, <2>2
<1>3. ASSUME NEW t \in Threads, StartEnter(t) PROVE FlightCalm /\ HeldCalm
  <2>1. FlightCalm
    BY <1>a, <1>3 DEF FlightCalm, StartEnter, Finished, Goto
  <2>2. HeldCalm
    <3>1. /\ pc[t] \notin Forwarding /\ UNCHANGED held
          /\ \A u \in Threads \ {t} : pc'[u] = pc[u] /\ want'[u] = want[u]
      BY <1>a, <1>3 DEF StartEnter, Finished, Goto
    <3> QED  BY <3>1 DEF HeldCalm
  <2> QED  BY <2>1, <2>2
<1>4. ASSUME NEW t \in Threads, StartRequest(t) PROVE FlightCalm /\ HeldCalm
  <2>1. FlightCalm
    BY <1>a, <1>4 DEF FlightCalm, StartRequest, Goto
  <2>2. HeldCalm
    BY <1>a, <1>4 DEF HeldCalm, StartRequest, Goto
  <2> QED  BY <2>1, <2>2
<1>5. ASSUME NEW t \in Threads, StartPoll(t) PROVE FlightCalm /\ HeldCalm
  <2>1. FlightCalm
    BY <1>a, <1>5 DEF FlightCalm, StartPoll, Goto
  <2>2. HeldCalm
    BY <1>a, <1>5 DEF HeldCalm, StartPoll, Goto
  <2> QED  BY <2>1, <2>2
<1>6. ASSUME NEW t \in Threads, StartPollTimeout(t) PROVE FlightCalm /\ HeldCalm
  <2>1. FlightCalm
    BY <1>a, <1>6 DEF FlightCalm, StartPollTimeout, Goto
  <2>2. HeldCalm
    BY <1>a, <1>6 DEF HeldCalm, StartPollTimeout, Goto
  <2> QED  BY <2>1, <2>2
<1>7. ASSUME NEW t \in Threads, StartPickVictim(t) PROVE FlightCalm /\ HeldCalm
  <2>1. FlightCalm
    BY <1>a, <1>7 DEF FlightCalm, StartPickVictim, Goto
  <2>2. HeldCalm
    <3>1. /\ pc[t] \notin Forwarding /\ UNCHANGED held
          /\ \A u \in Threads \ {t} : pc'[u] = pc[u] /\ want'[u] = want[u]
      BY <1>a, <1>7 DEF StartPickVictim, Goto
    <3> QED  BY <3>1 DEF HeldCalm
  <2> QED  BY <2>1, <2>2
<1>8. ASSUME NEW t \in Threads, StartPrecheck(t) PROVE FlightCalm /\ HeldCalm
  <2>1. FlightCalm
    BY <1>a, <1>8 DEF FlightCalm, StartPrecheck, Goto
  <2>2. HeldCalm
    <3>1. /\ pc[t] \notin Forwarding /\ UNCHANGED held
          /\ \A u \in Threads \ {t} : pc'[u] = pc[u] /\ want'[u] = want[u]
      BY <1>a, <1>8 DEF StartPrecheck, Goto
    <3> QED  BY <3>1 DEF HeldCalm
  <2> QED  BY <2>1, <2>2
<1>9. ASSUME NEW t \in Threads, StartRestoreVictim(t) PROVE FlightCalm /\ HeldCalm
  <2>1. FlightCalm
    BY <1>a, <1>9 DEF FlightCalm, StartRestoreVictim, Goto, Reply
  <2>2. HeldCalm
    BY <1>a, <1>9 DEF HeldCalm, StartRestoreVictim, Goto, Reply
  <2> QED  BY <2>1, <2>2
<1>10. ASSUME NEW t \in Threads, StartStopVictim(t) PROVE FlightCalm /\ HeldCalm
  <2>1. FlightCalm
    BY <1>a, <1>10 DEF FlightCalm, StartStopVictim, Goto
  <2>2. HeldCalm
    BY <1>a, <1>10 DEF HeldCalm, StartStopVictim, Goto
  <2> QED  BY <2>1, <2>2
<1>11. ASSUME NEW t \in Threads, StartForgetVictim(t) PROVE FlightCalm /\ HeldCalm
  <2>1. FlightCalm
    BY <1>a, <1>11 DEF FlightCalm, StartForgetVictim, Goto
  <2>2. HeldCalm
    BY <1>a, <1>11 DEF HeldCalm, StartForgetVictim, Goto
  <2> QED  BY <2>1, <2>2
<1>12. ASSUME NEW t \in Threads, StartNormal(t) PROVE HeldCalm
  <2>1. /\ pc[t] \notin Forwarding /\ UNCHANGED held
        /\ \A u \in Threads \ {t} : pc'[u] = pc[u] /\ want'[u] = want[u]
    BY <1>a, <1>12 DEF StartNormal, Goto, Reply
  <2> QED  BY <2>1 DEF HeldCalm
<1>13. ASSUME NEW t \in Threads, DoStartSelfHeal(t) PROVE FlightCalm /\ HeldCalm
  <2>1. FlightCalm
    BY <1>a, <1>13 DEF FlightCalm, DoStartSelfHeal, Goto
  <2>2. HeldCalm
    BY <1>a, <1>13 DEF HeldCalm, DoStartSelfHeal, Goto
  <2> QED  BY <2>1, <2>2
<1>14. ASSUME NEW t \in Threads, DoStartRefused(t) PROVE FlightCalm /\ HeldCalm
  <2>1. FlightCalm
    BY <1>a, <1>14 DEF FlightCalm, DoStartRefused, Goto
  <2>2. HeldCalm
    BY <1>a, <1>14 DEF HeldCalm, DoStartRefused, Goto
  <2> QED  BY <2>1, <2>2
<1>15. ASSUME NEW t \in Threads, DoStartBare(t) PROVE FlightCalm /\ HeldCalm
  <2>1. FlightCalm
    BY <1>a, <1>15 DEF FlightCalm, DoStartBare, Goto
  <2>2. HeldCalm
    BY <1>a, <1>15 DEF HeldCalm, DoStartBare, Goto
  <2> QED  BY <2>1, <2>2
<1>16. ASSUME NEW t \in Threads, DoStartHatch(t) PROVE FlightCalm /\ HeldCalm
  <2>1. FlightCalm
    BY <1>a, <1>16 DEF FlightCalm, DoStartHatch, Goto
  <2>2. HeldCalm
    <3>1. /\ pc[t] \notin Forwarding /\ UNCHANGED held
          /\ \A u \in Threads \ {t} : pc'[u] = pc[u] /\ want'[u] = want[u]
      BY <1>a, <1>16 DEF DoStartHatch, Goto
    <3> QED  BY <3>1 DEF HeldCalm
  <2> QED  BY <2>1, <2>2
<1>17. ASSUME NEW t \in Threads, HatchCancelled(t) PROVE FlightCalm /\ HeldCalm
  <2>1. FlightCalm
    BY <1>a, <1>17 DEF FlightCalm, HatchCancelled, Goto
  <2>2. HeldCalm
    BY <1>a, <1>17 DEF HeldCalm, HatchCancelled, Goto
  <2> QED  BY <2>1, <2>2
<1>18. ASSUME NEW t \in Threads, HatchDone(t) PROVE FlightCalm /\ HeldCalm
  <2>1. FlightCalm
    BY <1>a, <1>18 DEF FlightCalm, HatchDone, Goto
  <2>2. HeldCalm
    BY <1>a, <1>18 DEF HeldCalm, HatchDone, Goto
  <2> QED  BY <2>1, <2>2
<1>19. ASSUME NEW t \in Threads, StartFinish(t) PROVE HeldCalm
  <2>1. /\ pc[t] \notin Forwarding /\ UNCHANGED held
        /\ \A u \in Threads \ {t} : pc[u] # "merge" => pc'[u] = pc[u] /\ want'[u] = want[u]
    BY <1>a, <1>19 DEF StartFinish
  <2> QED  BY <2>1 DEF HeldCalm
<1>20. ASSUME NEW t \in Threads, StartReturn(t) PROVE FlightCalm /\ HeldCalm
  <2>1. FlightCalm
    BY <1>a, <1>20 DEF FlightCalm, StartReturn, Returned, Finished, Goto
  <2>2. HeldCalm
    <3>1. /\ pc[t] \notin Forwarding /\ UNCHANGED held
          /\ \A u \in Threads \ {t} : pc'[u] = pc[u] /\ want'[u] = want[u]
      BY <1>a, <1>20 DEF StartReturn, Returned, Finished, Goto
    <3> QED  BY <3>1 DEF HeldCalm
  <2> QED  BY <2>1, <2>2
<1>21. ASSUME InferRecheck PROVE FlightCalm /\ HeldCalm
  <2>1. FlightCalm
    BY <1>a, <1>21 DEF FlightCalm, InferRecheck, Finished, Goto
  <2>2. HeldCalm
    BY <1>a, <1>21 DEF HeldCalm, InferRecheck, Finished, Goto
  <2> QED  BY <2>1, <2>2
<1>22. ASSUME InferForward PROVE FlightCalm /\ HeldCalm
  <2>1. FlightCalm
    BY <1>a, <1>22 DEF FlightCalm, InferForward, Finished, Goto
  <2>2. HeldCalm
    BY <1>a, <1>22 DEF HeldCalm, InferForward, Finished, Goto
  <2> QED  BY <2>1, <2>2
<1>23. ASSUME AcquireInflight PROVE FlightCalm
  BY <1>a, <1>23 DEF FlightCalm, AcquireInflight, Finished, Goto
<1>24. ASSUME HealthCheck PROVE FlightCalm /\ HeldCalm
  <2>1. FlightCalm
    BY <1>a, <1>24 DEF FlightCalm, HealthCheck, WorkerStays, Goto
  <2>2. HeldCalm
    BY <1>a, <1>24 DEF HeldCalm, HealthCheck, WorkerStays, Goto
  <2> QED  BY <2>1, <2>2
<1>25. ASSUME HealthRetry PROVE FlightCalm /\ HeldCalm
  <2>1. FlightCalm
    BY <1>a, <1>25 DEF FlightCalm, HealthRetry, WorkerStays, Goto
  <2>2. HeldCalm
    BY <1>a, <1>25 DEF HeldCalm, HealthRetry, WorkerStays, Goto
  <2> QED  BY <2>1, <2>2
<1>26. ASSUME ForwardOK PROVE FlightCalm /\ HeldCalm
  <2>1. FlightCalm
    BY <1>a, <1>26 DEF FlightCalm, ForwardOK, Goto
  <2>2. HeldCalm
    BY <1>a, <1>26 DEF HeldCalm, ForwardOK, Goto
  <2> QED  BY <2>1, <2>2
<1>27. ASSUME ForwardFailed PROVE FlightCalm /\ HeldCalm
  <2>1. FlightCalm
    BY <1>a, <1>27 DEF FlightCalm, ForwardFailed, WorkerStays, Goto
  <2>2. HeldCalm
    BY <1>a, <1>27 DEF HeldCalm, ForwardFailed, WorkerStays, Goto
  <2> QED  BY <2>1, <2>2
<1>28. ASSUME ForwardStuck PROVE FlightCalm /\ HeldCalm
  <2>1. FlightCalm
    BY <1>a, <1>28 DEF FlightCalm, ForwardStuck, WorkerStays, Goto
  <2>2. HeldCalm
    BY <1>a, <1>28 DEF HeldCalm, ForwardStuck, WorkerStays, Goto
  <2> QED  BY <2>1, <2>2
<1>29. ASSUME StallEscalate PROVE FlightCalm /\ HeldCalm
  <2>1. FlightCalm
    BY <1>a, <1>29 DEF FlightCalm, StallEscalate, WorkerStays, Goto
  <2>2. HeldCalm
    BY <1>a, <1>29 DEF HeldCalm, StallEscalate, WorkerStays, Goto
  <2> QED  BY <2>1, <2>2
<1>30. ASSUME WatchdogNote PROVE FlightCalm /\ HeldCalm
  <2>1. FlightCalm
    BY <1>a, <1>30 DEF FlightCalm, WatchdogNote, WorkerStays, Goto
  <2>2. HeldCalm
    BY <1>a, <1>30 DEF HeldCalm, WatchdogNote, WorkerStays, Goto
  <2> QED  BY <2>1, <2>2
<1>31. ASSUME BodyClosed PROVE FlightCalm /\ HeldCalm
  <2>1. FlightCalm
    BY <1>a, <1>31 DEF FlightCalm, BodyClosed, Goto
  <2>2. HeldCalm
    BY <1>a, <1>31 DEF HeldCalm, BodyClosed, Goto
  <2> QED  BY <2>1, <2>2
<1>32. ASSUME ReleaseInflight PROVE FlightCalm
  BY <1>a, <1>32 DEF FlightCalm, ReleaseInflight, Finished, Goto
<1>33. ASSUME HungEnds PROVE FlightCalm /\ HeldCalm
  <2>1. FlightCalm
    BY <1>a, <1>33 DEF FlightCalm, HungEnds, WorkerStays, Goto
  <2>2. HeldCalm
    BY <1>a, <1>33 DEF HeldCalm, HungEnds, WorkerStays, Goto
  <2> QED  BY <2>1, <2>2
<1>34. ASSUME GuardJudge PROVE FlightCalm /\ HeldCalm
  <2>1. FlightCalm
    BY <1>a, <1>34 DEF FlightCalm, GuardJudge, GuardOnly
  <2>2. HeldCalm
    BY <1>a, <1>34 DEF HeldCalm, GuardJudge, GuardOnly
  <2> QED  BY <2>1, <2>2
<1>35. ASSUME GuardNote PROVE FlightCalm /\ HeldCalm
  <2>1. FlightCalm
    BY <1>a, <1>35 DEF FlightCalm, GuardNote, GuardOnly
  <2>2. HeldCalm
    BY <1>a, <1>35 DEF HeldCalm, GuardNote, GuardOnly
  <2> QED  BY <2>1, <2>2
<1>36. ASSUME GuardHard PROVE FlightCalm /\ HeldCalm
  <2>1. FlightCalm
    BY <1>a, <1>36 DEF FlightCalm, GuardHard, GuardOnly
  <2>2. HeldCalm
    BY <1>a, <1>36 DEF HeldCalm, GuardHard, GuardOnly
  <2> QED  BY <2>1, <2>2
<1>37. ASSUME GuardNoteHard PROVE FlightCalm /\ HeldCalm
  <2>1. FlightCalm
    BY <1>a, <1>37 DEF FlightCalm, GuardNoteHard, GuardOnly
  <2>2. HeldCalm
    BY <1>a, <1>37 DEF HeldCalm, GuardNoteHard, GuardOnly
  <2> QED  BY <2>1, <2>2
<1>38. ASSUME ReapPick PROVE FlightCalm /\ HeldCalm
  <2>1. FlightCalm
    BY <1>a, <1>38 DEF FlightCalm, ReapPick, ReapOnly
  <2>2. HeldCalm
    BY <1>a, <1>38 DEF HeldCalm, ReapPick, ReapOnly
  <2> QED  BY <2>1, <2>2
<1>39. ASSUME ReapStop PROVE FlightCalm /\ HeldCalm
  <2>1. FlightCalm
    BY <1>a, <1>39 DEF FlightCalm, ReapStop, ReapOnly
  <2>2. HeldCalm
    BY <1>a, <1>39 DEF HeldCalm, ReapStop, ReapOnly
  <2> QED  BY <2>1, <2>2
<1>40. ASSUME ReapFinalize PROVE FlightCalm /\ HeldCalm
  <2>1. FlightCalm
    BY <1>a, <1>40 DEF FlightCalm, ReapFinalize, ReapOnly
  <2>2. HeldCalm
    BY <1>a, <1>40 DEF HeldCalm, ReapFinalize, ReapOnly
  <2> QED  BY <2>1, <2>2
<1>41. ASSUME NEW m \in Models, UnloadBy(m) PROVE FlightCalm /\ HeldCalm
  <2>1. FlightCalm
    BY <1>a, <1>41 DEF FlightCalm, UnloadBy, Evict
  <2>2. HeldCalm
    BY <1>a, <1>41 DEF HeldCalm, UnloadBy, Evict
  <2> QED  BY <2>1, <2>2
<1>42. ASSUME UnloadAll PROVE FlightCalm /\ HeldCalm
  <2>1. FlightCalm
    BY <1>a, <1>42 DEF FlightCalm, UnloadAll, Evict
  <2>2. HeldCalm
    BY <1>a, <1>42 DEF HeldCalm, UnloadAll, Evict
  <2> QED  BY <2>1, <2>2
<1>43. ASSUME Stop PROVE FlightCalm /\ HeldCalm
  <2>1. FlightCalm
    BY <1>a, <1>43 DEF FlightCalm, Stop, Evict
  <2>2. HeldCalm
    BY <1>a, <1>43 DEF HeldCalm, Stop, Evict
  <2> QED  BY <2>1, <2>2
<1>44. ASSUME NEW m \in Models, Pin(m) PROVE FlightCalm /\ HeldCalm
  <2>1. FlightCalm
    BY <1>a, <1>44 DEF FlightCalm, Pin, EggOnly
  <2>2. HeldCalm
    BY <1>a, <1>44 DEF HeldCalm, Pin, EggOnly
  <2> QED  BY <2>1, <2>2
<1>45. ASSUME RenewDefaultPin PROVE FlightCalm /\ HeldCalm
  <2>1. FlightCalm
    BY <1>a, <1>45 DEF FlightCalm, RenewDefaultPin, EggOnly
  <2>2. HeldCalm
    BY <1>a, <1>45 DEF HeldCalm, RenewDefaultPin, EggOnly
  <2> QED  BY <2>1, <2>2
<1>46. ASSUME NEW m \in Models, Unpin(m) PROVE FlightCalm /\ HeldCalm
  <2>1. FlightCalm
    BY <1>a, <1>46 DEF FlightCalm, Unpin, EggOnly
  <2>2. HeldCalm
    BY <1>a, <1>46 DEF HeldCalm, Unpin, EggOnly
  <2> QED  BY <2>1, <2>2
<1>47. ASSUME NEW e \in Eggs, EngineDies(e) PROVE FlightCalm /\ HeldCalm
  <2>1. FlightCalm
    BY <1>a, <1>47 DEF FlightCalm, EngineDies, EggOnly
  <2>2. HeldCalm
    BY <1>a, <1>47 DEF HeldCalm, EngineDies, EggOnly
  <2> QED  BY <2>1, <2>2
<1>48. ASSUME UNCHANGED vars PROVE FlightCalm /\ HeldCalm
  <2>1. FlightCalm
    BY <1>a, <1>48 DEF FlightCalm, vars
  <2>2. HeldCalm
    BY <1>a, <1>48 DEF HeldCalm, vars
  <2> QED  BY <2>1, <2>2
<1> QED
  BY <1>1, <1>2, <1>3, <1>4, <1>5, <1>6, <1>7, <1>8, <1>9, <1>10, <1>11, <1>12, <1>13, <1>14, <1>15, <1>16, <1>17, <1>18, <1>19, <1>20, <1>21, <1>22, <1>23, <1>24, <1>25, <1>26, <1>27, <1>28, <1>29, <1>30, <1>31, <1>32, <1>33, <1>34, <1>35, <1>36, <1>37, <1>38, <1>39, <1>40, <1>41, <1>42, <1>43, <1>44, <1>45, <1>46, <1>47, <1>48
     DEF Next, StartStep, InferStep, GuardStep, ReapStep, Operator

\* What a watchdog or a breaker writes keeps the count.
LEMMA FailedCounts ==
    \A r \in Egg : /\ Stopped(r).inflight = r.inflight
                   /\ Failed(r).inflight = r.inflight
                   /\ StaleKilled(r).inflight = r.inflight
<1> SUFFICES ASSUME NEW r \in Egg
             PROVE  /\ Stopped(r).inflight = r.inflight
                    /\ Failed(r).inflight = r.inflight
                    /\ StaleKilled(r).inflight = r.inflight
  OBVIOUS
<1>1. Stopped(r).inflight = r.inflight
  BY DEF Stopped, Egg
<1>2. [Stopped(r) EXCEPT !.st = "crashed", !.fails = FailLimit].inflight = Stopped(r).inflight
  BY RecordTypes DEF Egg
<1>3. [r EXCEPT !.fails = r.fails + 1].inflight = r.inflight
  BY DEF Egg
<1>4. StaleKilled(r).inflight = r.inflight
  BY DEF StaleKilled, Egg
<1> QED  BY <1>1, <1>2, <1>3, <1>4 DEF Failed

\* A write through a pointer of a subproc with the same count.
LEMMA WriteCounts ==
    ASSUME TypeOK, NEW p, NEW r, p \in Eggs => r.inflight = egg[p].inflight,
           egg' = Write(p, r), UNCHANGED procs
    PROVE  CountsStay
BY DEF TypeOK, Write, CountsStay, Resident

\* Taking eggs off the book changes no other count.
LEMMA ShrinkCounts ==
    ASSUME TypeOK, NEW gone, procs' = Without(gone),
           egg' = Forgotten(gone) \/ egg' = StoppedAndForgotten(gone)
    PROVE  CountsStay
<1>1. \A e \in Resident' : e \in Resident /\ e \notin gone
  BY ModelsAssumption, NamesAssumption DEF Resident, Without
<1>2. \A e \in Eggs \ gone : egg'[e] = egg[e]
  BY DEF Forgotten, StoppedAndForgotten
<1> QED  BY <1>1, <1>2 DEF CountsStay, Resident

\* Every step but four counts no request and registers no egg.
LEMMA CalmCounts ==
    ASSUME TypeOK, [Next]_vars
    PROVE  \/ CountsStay \/ AcquireInflight \/ ReleaseInflight
           \/ \E t \in Threads : DoStartBare(t) \/ DoStartHatch(t)
<1>a. egg \in [Eggs -> Egg]
  BY DEF TypeOK
<1>b. UNCHANGED <<procs, egg>> => CountsStay
  BY DEF CountsStay, Resident
<1> USE DEF rest
<1>1. ASSUME NEW t \in Threads, NEW m \in Models, StartCall(t, m) PROVE CountsStay
  BY <1>b, <1>1 DEF StartCall
<1>2. ASSUME NEW m \in Models, InferCall(m) PROVE CountsStay
  BY <1>b, <1>2 DEF InferCall
<1>3. ASSUME NEW t \in Threads, StartEnter(t) PROVE CountsStay
  BY <1>b, <1>3 DEF StartEnter
<1>4. ASSUME NEW t \in Threads, StartRequest(t) PROVE CountsStay
  BY <1>a, <1>4 DEF StartRequest, CountsStay, Resident, Egg, RequestModel
<1>5. ASSUME NEW t \in Threads, StartPoll(t) PROVE CountsStay
  BY <1>a, <1>5 DEF StartPoll, CountsStay, Resident, Egg, RequestModel
<1>6. ASSUME NEW t \in Threads, StartPollTimeout(t) PROVE CountsStay
  BY <1>b, <1>6 DEF StartPollTimeout
<1>7. ASSUME NEW t \in Threads, StartPickVictim(t) PROVE CountsStay
  BY <1>b, <1>7 DEF StartPickVictim
<1>8. ASSUME NEW t \in Threads, StartPrecheck(t) PROVE CountsStay
  BY <1>b, <1>8 DEF StartPrecheck
<1>9. ASSUME NEW t \in Threads, StartRestoreVictim(t) PROVE CountsStay
  BY <1>a, <1>9 DEF StartRestoreVictim, CountsStay, Resident, Egg
<1>10. ASSUME NEW t \in Threads, StartStopVictim(t) PROVE CountsStay
  BY <1>a, <1>10 DEF StartStopVictim, CountsStay, Resident, Egg
<1>11. ASSUME NEW t \in Threads, StartForgetVictim(t) PROVE CountsStay
  BY <1>11, ShrinkCounts DEF StartForgetVictim
<1>12. ASSUME NEW t \in Threads, StartNormal(t) PROVE CountsStay
  BY <1>a, <1>12 DEF StartNormal, CountsStay, Resident, Egg
<1>13. ASSUME NEW t \in Threads, DoStartSelfHeal(t) PROVE CountsStay
  BY <1>a, <1>13 DEF DoStartSelfHeal, CountsStay, Resident, Egg
<1>14. ASSUME NEW t \in Threads, DoStartRefused(t) PROVE CountsStay
  BY <1>14, ShrinkCounts DEF DoStartRefused
<1>15. ASSUME NEW t \in Threads, HatchCancelled(t) PROVE CountsStay
  BY <1>b, <1>15 DEF HatchCancelled
<1>16. ASSUME NEW t \in Threads, HatchDone(t) PROVE CountsStay
  <2>1. CASE egg' = StoppedAndForgotten({ptr[t]}) /\ procs' = Without({ptr[t]})
    BY <2>1, ShrinkCounts
  <2>2. CASE egg' = [egg EXCEPT ![ptr[t]].st = "ready", ![ptr[t]].alive = TRUE] /\ UNCHANGED procs
    BY <1>a, <2>2 DEF CountsStay, Resident, Egg
  <2>3. CASE egg' = [egg EXCEPT ![ptr[t]].st = "crashed", ![ptr[t]].port = FALSE] /\ UNCHANGED procs
    BY <1>a, <2>3 DEF CountsStay, Resident, Egg
  <2> QED  BY <1>16, <2>1, <2>2, <2>3 DEF HatchDone
<1>17. ASSUME NEW t \in Threads, StartFinish(t) PROVE CountsStay
  BY <1>b, <1>17 DEF StartFinish
<1>18. ASSUME NEW t \in Threads, StartReturn(t) PROVE CountsStay
  BY <1>a, <1>18 DEF StartReturn, CountsStay, Resident, Egg
<1>19. ASSUME InferRecheck PROVE CountsStay
  BY <1>b, <1>19 DEF InferRecheck
<1>20. ASSUME InferForward PROVE CountsStay
  BY <1>a, <1>20 DEF InferForward, CountsStay, Resident, Egg
<1>21. ASSUME HealthCheck PROVE CountsStay
  BY <1>a, <1>21, WriteCounts, FailedCounts, <1>b DEF HealthCheck, WorkerStays
<1>22. ASSUME HealthRetry PROVE CountsStay
  BY <1>a, <1>22, WriteCounts, <1>b DEF HealthRetry, Egg, WorkerStays
<1>23. ASSUME ForwardOK PROVE CountsStay
  BY <1>a, <1>23, WriteCounts DEF ForwardOK, Egg
<1>24. ASSUME ForwardFailed PROVE CountsStay
  BY <1>a, <1>24, WriteCounts, FailedCounts, <1>b DEF ForwardFailed, WorkerStays
<1>25. ASSUME ForwardStuck PROVE CountsStay
  BY <1>a, <1>25, WriteCounts, FailedCounts DEF ForwardStuck, WorkerStays
<1>26. ASSUME StallEscalate PROVE CountsStay
  BY <1>a, <1>26, WriteCounts, FailedCounts, <1>b DEF StallEscalate, WorkerStays
<1>27. ASSUME WatchdogNote PROVE CountsStay
  BY <1>a, <1>27 DEF WatchdogNote, CountsStay, Resident, Egg, NotedStuck, WorkerStays
<1>28. ASSUME BodyClosed PROVE CountsStay
  BY <1>b, <1>28 DEF BodyClosed
<1>29. ASSUME HungEnds PROVE CountsStay
  BY <1>b, <1>29 DEF HungEnds, WorkerStays
<1>30. ASSUME GuardJudge PROVE CountsStay
  BY <1>a, <1>30, WriteCounts, FailedCounts DEF GuardJudge, GuardOnly
<1>31. ASSUME GuardNote PROVE CountsStay
  BY <1>a, <1>31 DEF GuardNote, CountsStay, Resident, Egg, NotedStuck, GuardOnly
<1>32. ASSUME GuardHard PROVE CountsStay
  BY <1>a, <1>32, WriteCounts, FailedCounts DEF GuardHard, GuardOnly
<1>33. ASSUME GuardNoteHard PROVE CountsStay
  BY <1>a, <1>33 DEF GuardNoteHard, CountsStay, Resident, Egg, NotedStuck, GuardOnly
<1>34. ASSUME ReapPick PROVE CountsStay
  BY <1>a, <1>34 DEF ReapPick, CountsStay, Resident, Egg
<1>35. ASSUME ReapStop PROVE CountsStay
  BY <1>a, <1>35 DEF ReapStop, CountsStay, Resident, Egg
<1>36. ASSUME ReapFinalize PROVE CountsStay
  BY <1>36, ShrinkCounts DEF ReapFinalize
<1>37. ASSUME NEW m \in Models, UnloadBy(m) PROVE CountsStay
  BY <1>37, ShrinkCounts DEF UnloadBy, Evict
<1>38. ASSUME UnloadAll PROVE CountsStay
  BY <1>38, ShrinkCounts DEF UnloadAll, Evict
<1>39. ASSUME Stop PROVE CountsStay
  BY <1>39, ShrinkCounts DEF Stop, Evict
<1>40. ASSUME NEW m \in Models, Pin(m) PROVE CountsStay
  BY <1>a, <1>40 DEF Pin, CountsStay, Resident, Egg, EggOnly
<1>41. ASSUME RenewDefaultPin PROVE CountsStay
  BY <1>a, <1>41 DEF RenewDefaultPin, CountsStay, Resident, Egg, EggOnly
<1>42. ASSUME NEW m \in Models, Unpin(m) PROVE CountsStay
  BY <1>a, <1>42 DEF Unpin, CountsStay, Resident, Egg, EggOnly
<1>43. ASSUME NEW e \in Eggs, EngineDies(e) PROVE CountsStay
  BY <1>a, <1>43 DEF EngineDies, CountsStay, Resident, Egg, EggOnly
<1>44. ASSUME UNCHANGED vars PROVE CountsStay
  BY <1>b, <1>44 DEF vars
<1> QED
  BY <1>1, <1>2, <1>3, <1>4, <1>5, <1>6, <1>7, <1>8, <1>9, <1>10, <1>11, <1>12, <1>13, <1>14, <1>15, <1>16, <1>17, <1>18, <1>19, <1>20, <1>21, <1>22, <1>23, <1>24, <1>25, <1>26, <1>27, <1>28, <1>29, <1>30, <1>31, <1>32, <1>33, <1>34, <1>35, <1>36, <1>37, <1>38, <1>39, <1>40, <1>41, <1>42, <1>43, <1>44
     DEF Next, StartStep, InferStep, GuardStep, ReapStep, Operator

\* The count is the truth, and the request counted is the one the worker forwards.
CountInv == HeldOK /\ InflightTruthful

\* A registration brings an egg with no request on it.
LEMMA RegisterCounts ==
    ASSUME TypeOK, BookOK, InflightTruthful, UNCHANGED held, NEW m \in Models, NEW new \in Eggs,
           Fresh(new, m), NEW fields \in Egg, fields.inflight = 0, Registering(m, new, fields)
    PROVE  InflightTruthful'
<1>1. PICK c \in Clearances(Bystanders(m), m) :
        /\ procs' = [Without(c.gone) EXCEPT ![m] = new]
        /\ egg' = [StoppedAndForgotten(c.gone \cup Occupant(m)) EXCEPT ![new] = fields]
  BY DEF Registering
<1> SUFFICES ASSUME NEW e \in Eggs, procs'[ModelOf[e]] = e
             PROVE  egg'[e].inflight = IF held = e THEN 1 ELSE 0
  BY DEF InflightTruthful, Resident
<1>2. CASE e = new
  <2>1. held # e
    BY <1>2 DEF Fresh
  <2> QED  BY <1>1, <1>2, <2>1 DEF StoppedAndForgotten
<1>3. CASE e # new
  <2>1. ModelOf[e] # m /\ procs[ModelOf[e]] = e /\ e \notin c.gone
    BY <1>1, <1>3, ModelsAssumption, NamesAssumption DEF Without
  <2>2. e \notin Occupant(m)
    BY <2>1 DEF BookOK, Occupant
  <2>3. egg'[e] = egg[e]
    BY <1>1, <1>3, <2>1, <2>2 DEF StoppedAndForgotten
  <2> QED  BY <2>1, <2>3 DEF InflightTruthful, Resident
<1> QED  BY <1>2, <1>3

\* Every step keeps the count true.
LEMMA CountStep ==
    ASSUME TypeOK, BookInv, CountInv, [Next]_vars
    PROVE  CountInv'
<1>a. /\ pc \in [Threads -> {"idle"} \cup StartPCs \cup InferPCs]
      /\ procs \in [Models -> Eggs \cup {NoEgg}]
      /\ egg \in [Eggs -> Egg]
      /\ pc[Worker] # "idle" => want[Worker] \in Models
  BY DEF TypeOK
<1>b. BookOK
  BY DEF BookInv
<1>1. ASSUME HeldCalm PROVE HeldOK'
  BY <1>1 DEF HeldCalm, CountInv, HeldOK
<1>2. ASSUME HeldCalm, CountsStay PROVE InflightTruthful'
  BY <1>2 DEF HeldCalm, CountsStay, CountInv, InflightTruthful
<1>3. ASSUME AcquireInflight PROVE CountInv'
  <2> DEFINE cur == procs[want[Worker]]
  <2>1. held = NoEgg /\ pc[Worker] = "acquire" /\ want[Worker] \in Models
    BY <1>a, <1>3 DEF AcquireInflight, CountInv, HeldOK, Forwarding
  <2>2. CASE UNCHANGED <<egg, held, procs>>
    BY <2>1, <2>2 DEF CountInv, HeldOK, InflightTruthful, Resident
  <2>3. CASE /\ cur # NoEgg
             /\ egg' = [egg EXCEPT ![cur].st = "ready", ![cur].inflight = egg[cur].inflight + 1]
             /\ held' = cur /\ pc' = [pc EXCEPT ![Worker] = "health"]
             /\ UNCHANGED <<procs, want>>
    <3>1. cur \in Eggs /\ ModelOf[cur] = want[Worker] /\ cur \in Resident
      BY <1>a, <1>b, <2>1, <2>3 DEF BookOK, Resident
    <3>2. egg[cur].inflight = 0
      BY <2>1, <3>1, NamesAssumption DEF CountInv, InflightTruthful
    <3>3. \A e \in Eggs : egg'[e].inflight = IF e = cur THEN 1 ELSE egg[e].inflight
      BY <1>a, <2>3, <3>1, <3>2 DEF Egg
    <3>4. InflightTruthful'
      BY <2>1, <2>3, <3>1, <3>3, NamesAssumption DEF CountInv, InflightTruthful, Resident
    <3>5. HeldOK'
      BY <1>a, <2>3, <3>1 DEF HeldOK, Forwarding
    <3> QED  BY <3>4, <3>5 DEF CountInv
  <2> QED  BY <1>3, <2>2, <2>3 DEF AcquireInflight, Goto
<1>4. ASSUME ReleaseInflight PROVE CountInv'
  <2> DEFINE cur == procs[want[Worker]]
             n == IF egg[cur].inflight > 0 THEN egg[cur].inflight - 1 ELSE 0
  <2>1. pc[Worker] = "release" /\ want[Worker] \in Models /\ held' = NoEgg /\ UNCHANGED procs
    BY <1>a, <1>4 DEF ReleaseInflight
  <2>2. \A e \in Resident : e # cur => e # held
    BY <2>1, NamesAssumption DEF CountInv, HeldOK, Resident
  <2>3. CASE cur = NoEgg
    <3>1. UNCHANGED egg
      BY <1>4, <2>3 DEF ReleaseInflight
    <3> QED  BY <2>1, <2>2, <2>3, <3>1, NamesAssumption
             DEF CountInv, HeldOK, InflightTruthful, Resident
  <2>4. CASE cur # NoEgg
    <3>1. cur \in Eggs /\ cur \in Resident
      BY <1>a, <1>b, <2>1, <2>4 DEF BookOK, Resident
    <3>2. n = 0
      BY <3>1 DEF CountInv, InflightTruthful
    <3>3. egg' = [egg EXCEPT ![cur].inflight = n,
                    ![cur].st = IF n = 0 /\ egg[cur].st = "ready"
                                  THEN "idle_armed" ELSE egg[cur].st]
      BY <1>4, <2>4 DEF ReleaseInflight
    <3> HIDE DEF n, cur
    <3>4. \A e \in Eggs : egg'[e].inflight = IF e = cur THEN 0 ELSE egg[e].inflight
      BY <1>a, <3>1, <3>2, <3>3 DEF Egg
    <3>5. InflightTruthful'
      BY <2>1, <2>2, <3>4, NamesAssumption DEF CountInv, InflightTruthful, Resident
    <3> QED  BY <2>1, <3>5 DEF CountInv, HeldOK
  <2> QED  BY <2>3, <2>4
<1>5. ASSUME NEW t \in Threads, DoStartBare(t) PROVE InflightTruthful'
  <2>1. PICK new \in Eggs, fields \in KeptEntries :
          Fresh(new, want[t]) /\ Registering(want[t], new, fields)
    BY <1>5 DEF DoStartBare
  <2>2. fields \in Egg /\ fields.inflight = 0
    BY KeptTypes DEF KeptEntries, FreshEgg
  <2>3. UNCHANGED held /\ want[t] \in Models
    BY <1>5 DEF DoStartBare, rest, TypeOK
  <2> QED  BY <1>b, <2>1, <2>2, <2>3, RegisterCounts DEF CountInv
<1>6. ASSUME NEW t \in Threads, DoStartHatch(t) PROVE InflightTruthful'
  <2>1. PICK new \in Eggs :
          /\ Fresh(new, want[t])
          /\ \/ Registering(want[t], new, [FreshEgg EXCEPT !.port = TRUE])
             \/ Registering(want[t], new, [FreshEgg EXCEPT !.st = "crashed"])
    BY <1>6 DEF DoStartHatch
  <2>2. /\ [FreshEgg EXCEPT !.port = TRUE] \in Egg
        /\ [FreshEgg EXCEPT !.port = TRUE].inflight = 0
        /\ [FreshEgg EXCEPT !.st = "crashed"] \in Egg
        /\ [FreshEgg EXCEPT !.st = "crashed"].inflight = 0
    BY DEF FreshEgg, Egg, EggStates
  <2>3. UNCHANGED held /\ want[t] \in Models
    BY <1>6 DEF DoStartHatch, rest, TypeOK
  <2> QED  BY <1>b, <2>1, <2>2, <2>3, RegisterCounts DEF CountInv
<1> QED  BY <1>1, <1>2, <1>3, <1>4, <1>5, <1>6, CalmMoves, CalmCounts DEF CountInv

-----------------------------------------------------------------------------
(* The theorems *)

\* A model is loaded by one goroutine at a time and nobody waits for a load that is not
\* running, for any number of goroutines.
THEOREM SingleFlightEver == Spec => []SingleFlight
<1>1. Init => SingleFlight
  BY DEF Init, SingleFlight, Leads
<1>2. TypeOK /\ SingleFlight /\ [Next]_vars => SingleFlight'
  BY CalmMoves, FlightStays, NormalFlight, FinishFlight
<1> QED  BY <1>1, <1>2, TypeCorrect, PTL DEF Spec

\* The count is the truth in every reachable state.
LEMMA CountAlways == Spec => []CountInv
<1>1. Init => CountInv
  <2> SUFFICES ASSUME Init PROVE CountInv
    OBVIOUS
  <2>1. Resident = {}
    BY ModelsAssumption, NamesAssumption DEF Init, Resident
  <2> QED  BY <2>1 DEF Init, CountInv, HeldOK, InflightTruthful
<1>2. TypeOK /\ BookInv /\ CountInv /\ [Next]_vars => CountInv'
  BY CountStep
<1> QED  BY <1>1, <1>2, TypeCorrect, BookAlways, PTL DEF Spec

\* The in-flight count of a resident egg is the truth although it is kept by model name:
\* no reload, eviction or restart of an egg moves or loses a count.
THEOREM InflightTruthfulEver == Spec => []InflightTruthful
<1>1. CountInv => InflightTruthful
  BY DEF CountInv
<1> QED  BY <1>1, CountAlways, PTL

=============================================================================
