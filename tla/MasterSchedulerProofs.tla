----------------------- MODULE MasterSchedulerProofs -----------------------
(***************************************************************************)
(* Theorems about MasterScheduler: types, slots, the queue, the file, what *)
(* is cancelled and the pause, for any tasks, limits and bounds.           *)
(***************************************************************************)
EXTENDS MasterScheduler, FiniteSetTheorems, TLAPS

\* What the dispatch loop does, as far as the theorems need it.
Dispatched(q, run, st, sp, max) ==
    /\ queue' \in [Tasks -> Nat]
    /\ \A t \in Tasks : queue'[t] <= q[t]
    /\ run \subseteq running'
    /\ \A t \in running' : t \in run \/ (q[t] > 0 /\ spawned'[t] > 0)
    /\ running' \subseteq Tasks
    /\ status' \in [Tasks -> Statuses]
    /\ \A t \in Tasks : \/ status'[t] = st[t]
                        \/ status'[t] = "running" /\ st[t] # "cancelled" /\ q[t] > 0
    /\ spawned' \in [Tasks -> Nat]
    /\ \A t \in Tasks : spawned'[t] >= sp[t]
    /\ sorted' \in BOOLEAN
    /\ Queued(queue') = {} \/ Cardinality(running') >= max
    /\ max = 0 => spawned' = sp

\* The dispatch loop ends with an empty queue or without a free slot, starts a goroutine
\* for whatever it puts into a slot, and starts none without a slot.
LEMMA DispatchSound ==
    ASSUME NEW q \in [Tasks -> Nat], NEW run \in SUBSET Tasks, NEW st \in [Tasks -> Statuses],
           NEW sp \in [Tasks -> Nat], NEW max \in Nat, NEW heap \in BOOLEAN,
           DispatchWith(q, run, st, sp, max, heap)
    PROVE  Dispatched(q, run, st, sp, max)
<1>1. PICK take \in [Queued(q) -> UNION {0..q[t] : t \in Tasks}] :
          /\ Popped(q, run, st, max, heap, take)
          /\ queue' = [t \in Tasks |-> IF t \in Queued(q) THEN q[t] - take[t] ELSE 0]
          /\ sorted' = heap
          /\ running' = run \cup {t \in Queued(q) : take[t] > 0 /\ st[t] # "cancelled"}
          /\ status' = Given(st, {t \in Queued(q) : take[t] > 0 /\ st[t] # "cancelled"}, "running")
          /\ spawned' = [t \in Tasks |->
                           IF t \in {u \in Queued(q) : take[u] > 0 /\ st[u] # "cancelled"}
                             THEN sp[t] + take[t] ELSE sp[t]]
    BY DEF DispatchWith
<1> DEFINE all == {t \in Queued(q) : take[t] > 0}
           up == {t \in Queued(q) : take[t] > 0 /\ st[t] # "cancelled"}
           Up(S) == run \cup {t \in S : st[t] # "cancelled"}
           Before(t) == IF take[t] > 1 THEN all ELSE all \ {t}
<1>2. /\ Queued(q) \subseteq Tasks
      /\ \A t \in Queued(q) : take[t] \in Nat
    BY <1>1 DEF Queued
<1>3. \A t \in Queued(q) : take[t] <= q[t] /\ q[t] - take[t] \in Nat
    BY <1>1, <1>2 DEF Popped
<1>4. /\ all # {} => \E t \in all : Cardinality(Up(Before(t))) < max
      /\ (\A t \in Queued(q) : take[t] = q[t]) \/ Cardinality(Up(all)) >= max
    BY <1>1 DEF Popped
<1>5. Up(all) = running'
    BY <1>1
<1>6. queue' \in [Tasks -> Nat] /\ \A t \in Tasks : queue'[t] <= q[t]
    BY <1>1, <1>2, <1>3 DEF Queued
<1>7. Queued(queue') = {} \/ Cardinality(running') >= max
  <2>1. CASE \A t \in Queued(q) : take[t] = q[t]
    <3>1. \A t \in Tasks : queue'[t] = 0
        BY <1>1, <1>2, <2>1
    <3> QED BY <3>1 DEF Queued
  <2> QED BY <1>4, <1>5, <2>1
<1>8. /\ run \subseteq running' /\ running' \subseteq Tasks
      /\ spawned' \in [Tasks -> Nat]
      /\ \A t \in Tasks : spawned'[t] >= sp[t]
      /\ \A t \in running' : t \in run \/ (q[t] > 0 /\ spawned'[t] > 0)
    BY <1>1, <1>2 DEF Queued
<1>9. /\ status' \in [Tasks -> Statuses]
      /\ \A t \in Tasks : \/ status'[t] = st[t]
                          \/ status'[t] = "running" /\ st[t] # "cancelled" /\ q[t] > 0
    BY <1>1, <1>2 DEF Given, Statuses, Queued
<1>10. max = 0 => spawned' = sp
  <2> SUFFICES ASSUME max = 0 PROVE spawned' = sp
    OBVIOUS
  <2>1. \A S \in SUBSET Tasks : Cardinality(S) \in Nat
      BY FS_Subset, FS_CardinalityType, SchedAssumption
  <2>2. \A t \in all : Up(Before(t)) \in SUBSET Tasks
      BY <1>2
  <2>3. all = {}
    <3>1. SUFFICES ASSUME NEW t \in all, Cardinality(Up(Before(t))) < 0 PROVE FALSE
        BY <1>4
    <3>2. Up(Before(t)) \in SUBSET Tasks
        BY <2>2
    <3> HIDE DEF Up, Before
    <3> QED BY <3>1, <3>2, <2>1
  <2>4. {u \in Queued(q) : take[u] > 0 /\ st[u] # "cancelled"} = {}
      BY <2>3
  <2>5. spawned' = [t \in Tasks |-> sp[t]]
      BY <1>1, <2>4
  <2> QED BY <2>5
<1> QED BY <1>1, <1>6, <1>7, <1>8, <1>9, <1>10 DEF Dispatched

-----------------------------------------------------------------------------
(* The helpers keep the types.                                             *)

\* What saveTasksLocked writes is a file of tasks.
LEMMA ImageType ==
    ASSUME NEW q, NEW run, NEW wait, NEW hist, NEW st \in [Tasks -> Statuses],
           NEW re \in [Tasks -> 0..(MaxRetry + 1)]
    PROVE  Image(q, run, wait, hist, st, re) \in Disks
<1> DEFINE place == [t \in Tasks |-> CASE q[t] > 0 -> "queue"
                                       [] q[t] = 0 /\ t \in run -> "running"
                                       [] q[t] = 0 /\ t \in wait \ run -> "waiting"
                                       [] q[t] = 0 /\ t \in hist \ (run \cup wait) -> "history"
                                       [] OTHER -> "none"]
<1>1. place \in [Tasks -> Places]
    BY DEF Places
<1>2. MaxRetry + 1 \in Nat /\ 0 \in 0..(MaxRetry + 1)
    BY SchedAssumption
<1> HIDE DEF place
<1>3. [t \in Tasks |-> IF place[t] = "none" THEN "absent" ELSE st[t]] \in [Tasks -> Statuses]
    BY DEF Statuses
<1>4. [t \in Tasks |-> IF place[t] = "none" THEN 0 ELSE re[t]] \in [Tasks -> 0..(MaxRetry + 1)]
    BY <1>2
<1>5. Image(q, run, wait, hist, st, re)
        = [place |-> place,
           status |-> [t \in Tasks |-> IF place[t] = "none" THEN "absent" ELSE st[t]],
           retries |-> [t \in Tasks |-> IF place[t] = "none" THEN 0 ELSE re[t]],
           twice |-> {t \in Tasks : q[t] > 1 \/ (q[t] > 0 /\ t \in run \cup wait)
                                             \/ t \in run \cap wait}]
    BY DEF Image, place
<1> QED BY <1>1, <1>3, <1>4, <1>5 DEF Disks

\* A write that may fail leaves a file of tasks.
LEMMA SavedType ==
    ASSUME NEW q, NEW run, NEW wait, NEW hist, NEW st \in [Tasks -> Statuses],
           NEW re \in [Tasks -> 0..(MaxRetry + 1)], disk \in Disks,
           Saved(q, run, wait, hist, st, re)
    PROVE  disk' \in Disks
BY ImageType DEF Saved

\* A write that cannot fail leaves this file.
LEMMA SavedIs ==
    ASSUME NEW q, NEW run, NEW wait, NEW hist, NEW st, NEW re, Writes = {TRUE},
           Saved(q, run, wait, hist, st, re)
    PROVE  disk' = Image(q, run, wait, hist, st, re)
BY DEF Saved

\* Trimming takes tasks out of the history and puts none in.
LEMMA TrimsType ==
    ASSUME NEW h, NEW t, NEW st, NEW h2 \in Trims(h, t, st)
    PROVE  h2 \subseteq h
BY DEF Trims

\* Marking a set of tasks keeps the type.
LEMMA GivenType ==
    ASSUME NEW st \in [Tasks -> Statuses], NEW S, NEW v \in Statuses
    PROVE  Given(st, S, v) \in [Tasks -> Statuses]
BY DEF Given

\* Adding to the queue keeps the type.
LEMMA PushType ==
    ASSUME NEW q \in [Tasks -> Nat], NEW S
    PROVE  Push(q, S) \in [Tasks -> Nat]
BY DEF Push

\* A count of retries stays within its bounds.
LEMMA BumpedType ==
    ASSUME TypeOK, NEW t \in Tasks
    PROVE  Bumped(t) \in 0..(MaxRetry + 1)
BY SchedAssumption DEF TypeOK, Bumped

\* The slots are a number.
LEMMA LimitType ==
    ASSUME NEW c \in Confs
    PROVE  Limit(c) \in Nat
BY DEF Confs, Limit

\* The end of a goroutine of t takes one goroutine of t away, and touches no other task.
LEMMA EndsSound ==
    ASSUME TypeOK, NEW t \in Tasks, NEW from \in {"spawned", "live", "dead"}, Ends(t, from)
    PROVE  /\ live' \in [Tasks -> Nat] /\ dead' \in [Tasks -> Nat]
           /\ Unspawned(t, from) \in [Tasks -> Nat]
           /\ cmd' \subseteq Tasks /\ \A u \in cmd' : live'[u] > 0
           /\ \A u \in Tasks \ {t} : /\ live'[u] = live[u] /\ dead'[u] = dead[u]
                                     /\ Unspawned(t, from)[u] = spawned[u]
           /\ \A u \in Tasks : /\ live'[u] <= live[u] /\ dead'[u] <= dead[u]
                               /\ Unspawned(t, from)[u] <= spawned[u]
<1>1. CASE from = "live"
    BY <1>1 DEF Ends, TypeOK, Minus, Unspawned
<1>2. CASE from = "dead"
    BY <1>2 DEF Ends, TypeOK, Minus, Unspawned
<1>3. CASE from = "spawned"
    BY <1>3 DEF Ends, TypeOK, Minus, Unspawned
<1> QED BY <1>1, <1>2, <1>3

-----------------------------------------------------------------------------
(* One lemma per operation: it keeps the types, and this is what it dispatches. *)

\* Submit.
LEMMA SubmitStep ==
    ASSUME TypeOK, NEW t \in Tasks, Submit(t)
    PROVE  /\ TypeOK'
           /\ Dispatched(Push(queue, Pushed(t) \cup {t}), running \ Pushed(t),
                         Given(status, Pushed(t) \cup {t}, "queued"), spawned, Limit(conf))
<1> DEFINE q == Push(queue, Pushed(t) \cup {t})
           st == Given(status, Pushed(t) \cup {t}, "queued")
           re == [retries EXCEPT ![t] = 0]
<1>1. q \in [Tasks -> Nat] /\ st \in [Tasks -> Statuses] /\ re \in [Tasks -> 0..(MaxRetry + 1)]
    BY PushType, GivenType, SchedAssumption DEF TypeOK, Statuses
<1>2. Dispatched(q, running \ Pushed(t), st, spawned, Limit(conf))
    BY <1>1, DispatchSound, LimitType DEF TypeOK, Submit, Dispatch
<1>3. disk' \in Disks
    BY <1>1, SavedType DEF TypeOK, Submit
<1>4. live' \in [Tasks -> Nat] /\ dead' \in [Tasks -> Nat]
    BY DEF TypeOK, Submit
<1>5. cmd' \subseteq Tasks /\ \A u \in cmd' : live'[u] > 0
    BY DEF TypeOK, Submit
<1>6. retries' \in [Tasks -> 0..(MaxRetry + 1)]
    BY <1>1 DEF Submit
<1>7. UNCHANGED <<waiting, history, kills, age, scan, conf, diskConf, ops, crashes>>
    BY DEF Submit
<1> HIDE DEF q, st, re
<1>8. TypeOK'
    BY <1>2, <1>3, <1>4, <1>5, <1>6, <1>7 DEF TypeOK, Dispatched
<1> QED BY <1>2, <1>8 DEF q, st

\* Launch.
LEMMA LaunchStep ==
    ASSUME TypeOK, NEW t \in Tasks, Launch(t)
    PROVE  TypeOK'
<1>1. spawned' \in [Tasks -> Nat] /\ live' \in [Tasks -> Nat] /\ cmd' \subseteq Tasks
    BY DEF TypeOK, Launch, Minus, Plus
<1>2. \A u \in cmd' : live'[u] > 0
    BY DEF TypeOK, Launch, Plus
<1> QED BY <1>1, <1>2
        DEF TypeOK, Launch, memVars, sideVars, fileVars, boundVars

\* The failing tail of runTask.
LEMMA TailFailsStep ==
    ASSUME TypeOK, NEW t \in Tasks, NEW from \in {"spawned", "live", "dead"}, TailFails(t, from)
    PROVE  /\ TypeOK'
           /\ \E q \in [Tasks -> Nat], st \in [Tasks -> Statuses] :
                /\ Dispatched(q, running \ {t}, st, Unspawned(t, from), Limit(conf))
                /\ q = (IF Bumped(t) <= MaxRetry THEN Push(queue, {t}) ELSE queue)
                /\ st = [status EXCEPT ![t] = IF Bumped(t) <= MaxRetry THEN "queued" ELSE "failed"]
                /\ Saved(q, running \ {t}, {}, history', st, retries')
<1> DEFINE again == Bumped(t) <= MaxRetry
           q == IF again THEN Push(queue, {t}) ELSE queue
           st == [status EXCEPT ![t] = IF again THEN "queued" ELSE "failed"]
           re == [retries EXCEPT ![t] = Bumped(t)]
<1>1. q \in [Tasks -> Nat] /\ st \in [Tasks -> Statuses] /\ re \in [Tasks -> 0..(MaxRetry + 1)]
    BY PushType, BumpedType DEF TypeOK, Statuses
<1>2. /\ Ends(t, from)
      /\ retries' = re
      /\ history' \in IF again THEN {history} ELSE Trims(history \cup {t}, t, st)
      /\ Saved(q, running \ {t}, {}, history', st, re)
      /\ Dispatch(q, running \ {t}, st, Unspawned(t, from))
      /\ UNCHANGED <<waiting, kills, age, scan, conf, diskConf, ops, crashes>>
    BY DEF TailFails
<1> HIDE DEF q, st, re, again
<1>3. Dispatched(q, running \ {t}, st, Unspawned(t, from), Limit(conf))
    BY <1>1, <1>2, DispatchSound, LimitType, EndsSound DEF TypeOK, Dispatch
<1>4. disk' \in Disks
    BY <1>1, <1>2, SavedType DEF TypeOK
<1>5. history' \subseteq Tasks
    BY <1>2, TrimsType DEF TypeOK
<1>6. TypeOK'
    BY <1>1, <1>2, <1>3, <1>4, <1>5, EndsSound DEF TypeOK, Dispatched
<1> QED BY <1>1, <1>2, <1>3, <1>6 DEF q, st, again

\* The tail of runTask with exit code 3.
LEMMA TailBackendStep ==
    ASSUME TypeOK, NEW t \in Tasks, TailBackend(t)
    PROVE  /\ TypeOK'
           /\ Dispatched(queue, running \ {t}, [status EXCEPT ![t] = "waiting_retry"], spawned,
                         Limit(conf))
<1> DEFINE st == [status EXCEPT ![t] = "waiting_retry"]
           re == [retries EXCEPT ![t] = Bumped(t)]
<1>1. st \in [Tasks -> Statuses] /\ re \in [Tasks -> 0..(MaxRetry + 1)]
    BY BumpedType DEF TypeOK, Statuses
<1>2. /\ Ends(t, "live")
      /\ retries' = re
      /\ waiting' = waiting \cup {t}
      /\ age' = [age EXCEPT ![t] = 0]
      /\ Saved(queue, running \ {t}, waiting', history, st, re)
      /\ Dispatch(queue, running \ {t}, st, spawned)
      /\ UNCHANGED <<history, kills, scan, conf, diskConf, ops, crashes>>
    BY DEF TailBackend
<1> HIDE DEF st, re
<1>3. Dispatched(queue, running \ {t}, st, spawned, Limit(conf))
    BY <1>1, <1>2, DispatchSound, LimitType DEF TypeOK, Dispatch
<1>4. disk' \in Disks
    BY <1>1, <1>2, SavedType DEF TypeOK
<1>5. waiting' \subseteq Tasks /\ age' \in [Tasks -> 0..WaitScans]
    BY <1>2, SchedAssumption DEF TypeOK
<1>6. TypeOK'
    BY <1>1, <1>2, <1>3, <1>4, <1>5, EndsSound DEF TypeOK, Dispatched
<1> QED BY <1>3, <1>6 DEF st

\* The tail of runTask for a job that succeeded.
LEMMA TailSucceedsStep ==
    ASSUME TypeOK, NEW t \in Tasks, TailSucceeds(t)
    PROVE  /\ TypeOK'
           /\ Dispatched(Push(queue, Sent(t)), running \ {t},
                         Given([status EXCEPT ![t] = "done"], Sent(t), "queued"), spawned, Limit(conf))
<1> DEFINE q == Push(queue, Sent(t))
           st == Given([status EXCEPT ![t] = "done"], Sent(t), "queued")
           re == Given(retries, Sent(t), 0)
<1>1. q \in [Tasks -> Nat] /\ st \in [Tasks -> Statuses]
    BY PushType, GivenType DEF TypeOK, Statuses
<1>2. re \in [Tasks -> 0..(MaxRetry + 1)]
    BY SchedAssumption DEF TypeOK, Given
<1>3. /\ Ends(t, "live")
      /\ retries' = re
      /\ history' \in Trims(history \cup {t}, t, st)
      /\ Saved(q, running \ {t}, {}, history', st, re)
      /\ Dispatch(q, running \ {t}, st, spawned)
      /\ UNCHANGED <<waiting, kills, age, scan, conf, diskConf, ops, crashes>>
    BY DEF TailSucceeds
<1> HIDE DEF q, st, re
<1>4. Dispatched(q, running \ {t}, st, spawned, Limit(conf))
    BY <1>1, <1>3, DispatchSound, LimitType DEF TypeOK, Dispatch
<1>5. disk' \in Disks
    BY <1>1, <1>2, <1>3, SavedType DEF TypeOK
<1>6. history' \subseteq Tasks
    BY <1>3, TrimsType DEF TypeOK
<1>7. TypeOK'
    BY <1>2, <1>3, <1>4, <1>5, <1>6, EndsSound DEF TypeOK, Dispatched
<1> QED BY <1>4, <1>7 DEF q, st

\* What a review that succeeded saves and dispatches.
Reviewed(t, j, verdict) ==
    \E q \in [Tasks -> Nat], st \in [Tasks -> Statuses], new \in SUBSET Tasks, judged \in SUBSET {j} :
        /\ Dispatched(q, running \ {t}, st, spawned, Limit(conf))
        /\ Saved(q, running \ {t}, {}, history', st, retries')
        /\ judged \subseteq history
        /\ q = Push(queue, new)
        /\ \A u \in new : status[u] = "absent"
        /\ st = Given(Given([status EXCEPT ![t] = "done"], judged, Judged(j, verdict)), new, "queued")

\* The tail of runTask for a review that succeeded, with handleReviewDoneLocked.
LEMMA ReviewSucceedsStep ==
    ASSUME TypeOK, NEW t \in Tasks, NEW j \in Jobs, NEW verdict \in {"pass", "blank", "reject"},
           ReviewSucceeds(t, j, verdict)
    PROVE  TypeOK' /\ Reviewed(t, j, verdict)
<1> DEFINE known == j \in history
           new == IF known THEN {Ordered(j, verdict)} \ {NoTask} ELSE {}
           judged == IF known THEN {j} ELSE {}
           q == Push(queue, new)
           done == [status EXCEPT ![t] = "done"]
           st == Given(Given(done, judged, Judged(j, verdict)), new, "queued")
           re == Given(retries, new, 0)
<1>1. j \in Tasks /\ status[j] \in Statuses /\ done \in [Tasks -> Statuses]
    BY DEF TypeOK, Tasks, Statuses
<1>2. Judged(j, verdict) \in Statuses
    BY <1>1 DEF Judged, Statuses
<1>3. q \in [Tasks -> Nat] /\ st \in [Tasks -> Statuses]
  <2>1. Given(done, judged, Judged(j, verdict)) \in [Tasks -> Statuses]
      BY <1>1, <1>2, GivenType
  <2>2. "queued" \in Statuses
      BY DEF Statuses
  <2>3. q \in [Tasks -> Nat]
      BY PushType DEF TypeOK
  <2> QED BY <2>1, <2>2, <2>3, GivenType
<1>4. re \in [Tasks -> 0..(MaxRetry + 1)]
    BY SchedAssumption DEF TypeOK, Given
<1>5. /\ Ends(t, "live")
      /\ retries' = re
      /\ history' \in Trims(history \cup {t}, t, st)
      /\ Saved(q, running \ {t}, {}, history', st, re)
      /\ Dispatch(q, running \ {t}, st, spawned)
      /\ UNCHANGED <<waiting, kills, age, scan, conf, diskConf, ops, crashes>>
    BY DEF ReviewSucceeds
<1>6. new \in SUBSET Tasks /\ \A u \in new : status[u] = "absent"
    BY SchedAssumption DEF Ordered, Tasks, Jobs
<1>7. judged \in SUBSET {j} /\ judged \subseteq history
    OBVIOUS
<1>8. q = Push(queue, new) /\ st = Given(Given([status EXCEPT ![t] = "done"], judged,
                                               Judged(j, verdict)), new, "queued")
    OBVIOUS
<1> HIDE DEF q, st, re, new, judged, done
<1>9. Dispatched(q, running \ {t}, st, spawned, Limit(conf))
    BY <1>3, <1>5, DispatchSound, LimitType DEF TypeOK, Dispatch
<1>10. disk' \in Disks
    BY <1>3, <1>4, <1>5, SavedType DEF TypeOK
<1>11. history' \subseteq Tasks
    BY <1>5, TrimsType DEF TypeOK
<1>12. TypeOK'
    BY <1>4, <1>5, <1>9, <1>10, <1>11, EndsSound DEF TypeOK, Dispatched
<1>13. Saved(q, running \ {t}, {}, history', st, retries')
    BY <1>5
<1> QED BY <1>3, <1>6, <1>7, <1>8, <1>9, <1>12, <1>13 DEF Reviewed

\* A flow that is suspended.
LEMMA FlowSuspendsStep ==
    ASSUME TypeOK, NEW t \in Tasks, FlowSuspends(t)
    PROVE  /\ TypeOK'
           /\ Dispatched(queue, running \ {t}, [status EXCEPT ![t] = "waiting_retry"],
                         Unspawned(t, "spawned"), Limit(conf))
<1> DEFINE st == [status EXCEPT ![t] = "waiting_retry"]
<1>1. st \in [Tasks -> Statuses]
    BY DEF TypeOK, Statuses
<1>2. /\ Ends(t, "spawned")
      /\ waiting' = waiting \cup {t}
      /\ age' = [age EXCEPT ![t] = 0]
      /\ Saved(queue, running \ {t}, waiting', history, st, retries)
      /\ Dispatch(queue, running \ {t}, st, Unspawned(t, "spawned"))
      /\ UNCHANGED <<retries, history, kills, scan, conf, diskConf, ops, crashes>>
    BY DEF FlowSuspends
<1> HIDE DEF st
<1>3. Dispatched(queue, running \ {t}, st, Unspawned(t, "spawned"), Limit(conf))
    BY <1>1, <1>2, DispatchSound, LimitType, EndsSound DEF TypeOK, Dispatch
<1>4. disk' \in Disks
    BY <1>1, <1>2, SavedType DEF TypeOK
<1>5. waiting' \subseteq Tasks /\ age' \in [Tasks -> 0..WaitScans]
    BY <1>2, SchedAssumption DEF TypeOK
<1>6. TypeOK'
    BY <1>2, <1>3, <1>4, <1>5, EndsSound DEF TypeOK, Dispatched
<1> QED BY <1>3, <1>6 DEF st

\* A flow that ends.
LEMMA FlowEndsStep ==
    ASSUME TypeOK, NEW t \in Tasks, NEW good \in BOOLEAN, FlowEnds(t, good)
    PROVE  /\ TypeOK'
           /\ \E q \in [Tasks -> Nat], st \in [Tasks -> Statuses], new \in SUBSET Reviews :
                /\ Dispatched(q, running \ {t}, st, Unspawned(t, "spawned"), Limit(conf))
                /\ q = Push(queue, new)
                /\ \A u \in new : status[u] = "absent"
                /\ st = Given([status EXCEPT ![t] = IF good THEN "reviewing" ELSE "failed"],
                              new, "queued")
<1> DEFINE new == IF good THEN Sent(t) ELSE {}
           ended == [status EXCEPT ![t] = IF good THEN "reviewing" ELSE "failed"]
           q == Push(queue, new)
           st == Given(ended, new, "queued")
           re == Given(retries, new, 0)
<1>1. q \in [Tasks -> Nat] /\ st \in [Tasks -> Statuses]
    BY PushType, GivenType DEF TypeOK, Statuses
<1>2. re \in [Tasks -> 0..(MaxRetry + 1)]
    BY SchedAssumption DEF TypeOK, Given
<1>3. /\ t \in ZergFlow
      /\ Once(new)
      /\ Ends(t, "spawned")
      /\ retries' = re
      /\ history' = history \cup {t}
      /\ Dispatch(q, running \ {t}, st, Unspawned(t, "spawned"))
      /\ UNCHANGED <<waiting, kills, age, scan, conf, disk, diskConf, ops, crashes>>
    BY DEF FlowEnds
<1>4. new \in SUBSET Reviews /\ \A u \in new : status[u] = "absent"
    BY <1>3, SchedAssumption DEF Sent, Once, Jobs
<1>5. q = Push(queue, new) /\ st = Given(ended, new, "queued")
    OBVIOUS
<1> HIDE DEF q, st, re, new
<1>6. Dispatched(q, running \ {t}, st, Unspawned(t, "spawned"), Limit(conf))
    BY <1>1, <1>3, DispatchSound, LimitType, EndsSound DEF TypeOK, Dispatch
<1>7. TypeOK'
    BY <1>2, <1>3, <1>6, EndsSound DEF TypeOK, Dispatched
<1> QED BY <1>1, <1>4, <1>5, <1>6, <1>7

\* The first lock of a round of the recovery loop.
LEMMA ScanStartStep ==
    ASSUME TypeOK, ScanStart
    PROVE  TypeOK'
<1> DEFINE late == {t \in waiting : age[t] = WaitScans}
<1>1. scan' \in Scans
    BY DEF ScanStart, Scans, TypeOK
<1>2. age' \in [Tasks -> 0..WaitScans]
    BY SchedAssumption DEF ScanStart, TypeOK
<1> QED BY <1>1, <1>2 DEF TypeOK, ScanStart, memVars, runVars, fileVars, boundVars

\* The second lock: with a queue it dispatches, without one it only marks.
LEMMA ScanApplyStep ==
    ASSUME TypeOK, ScanApply
    PROVE  /\ TypeOK'
           /\ \E late \in SUBSET waiting, back \in SUBSET waiting, q \in [Tasks -> Nat],
                 st \in [Tasks -> Statuses] :
                /\ q = Push(queue, back)
                /\ st = Given(Given(status, late, "failed"), back, "queued")
                /\ history' = history \cup late
                /\ waiting' = waiting \ (late \cup back)
                /\ \/ /\ Dispatched(q, running, st, spawned, Limit(conf))
                      /\ Saved(q, running, waiting', history', st, retries)
                   \/ /\ Queued(q) = {} /\ status' = st
                      /\ UNCHANGED <<queue, sorted, running, spawned, disk>>
                /\ UNCHANGED <<retries, live, dead, cmd, kills, age, conf, diskConf, ops, crashes>>
<1>1. PICK up \in SUBSET scan.asked :
        LET late == scan.expired \cap waiting
            back == up \cap waiting
            q == Push(queue, back)
            st == Given(Given(status, late, "failed"), back, "queued")
        IN /\ scan.on
           /\ scan' = NoScan
           /\ waiting' = waiting \ (late \cup back)
           /\ history' = history \cup late
           /\ \/ /\ Queued(q) # {}
                 /\ Saved(q, running, waiting', history', st, retries)
                 /\ Dispatch(q, running, st, spawned)
              \/ /\ Queued(q) = {}
                 /\ status' = st
                 /\ UNCHANGED <<queue, sorted, running, spawned, disk>>
           /\ UNCHANGED <<retries, live, dead, cmd, kills, age, conf, diskConf, boundVars>>
    BY DEF ScanApply
<1> DEFINE late == scan.expired \cap waiting
           back == up \cap waiting
           q == Push(queue, back)
           failed == Given(status, late, "failed")
           st == Given(failed, back, "queued")
<1>2. late \in SUBSET waiting /\ back \in SUBSET waiting /\ waiting \subseteq Tasks
    BY DEF TypeOK
<1>3. q \in [Tasks -> Nat] /\ st \in [Tasks -> Statuses]
  <2>1. failed \in [Tasks -> Statuses]
      BY GivenType DEF TypeOK, Statuses
  <2>2. "queued" \in Statuses
      BY DEF Statuses
  <2> QED BY <2>1, <2>2, GivenType, PushType DEF TypeOK
<1>4. /\ scan' = NoScan
      /\ waiting' = waiting \ (late \cup back)
      /\ history' = history \cup late
      /\ \/ /\ Saved(q, running, waiting', history', st, retries)
            /\ Dispatch(q, running, st, spawned)
         \/ /\ Queued(q) = {}
            /\ status' = st
            /\ UNCHANGED <<queue, sorted, running, spawned, disk>>
      /\ UNCHANGED <<retries, live, dead, cmd, kills, age, conf, diskConf, ops, crashes>>
    BY <1>1 DEF boundVars
<1>5. q = Push(queue, back) /\ st = Given(Given(status, late, "failed"), back, "queued")
    OBVIOUS
<1>6. NoScan \in Scans
    BY DEF NoScan, Scans
<1> HIDE DEF q, st, late, back, failed
<1>7. CASE Saved(q, running, waiting', history', st, retries) /\ Dispatch(q, running, st, spawned)
  <2>1. Dispatched(q, running, st, spawned, Limit(conf))
      BY <1>3, <1>7, DispatchSound, LimitType DEF TypeOK, Dispatch
  <2>2. disk' \in Disks
      BY <1>3, <1>7, SavedType DEF TypeOK
  <2>3. TypeOK'
      BY <1>2, <1>4, <1>6, <2>1, <2>2 DEF TypeOK, Dispatched
  <2> QED BY <1>2, <1>3, <1>4, <1>5, <1>7, <2>1, <2>3
<1>8. CASE /\ Queued(q) = {} /\ status' = st
           /\ UNCHANGED <<queue, sorted, running, spawned, disk>>
  <2>1. TypeOK'
      BY <1>2, <1>3, <1>4, <1>6, <1>8 DEF TypeOK
  <2> QED BY <1>2, <1>3, <1>4, <1>5, <1>8, <2>1
<1> QED BY <1>4, <1>7, <1>8

\* The dead letters taken back.
LEMMA ReclaimStep ==
    ASSUME TypeOK, Reclaim
    PROVE  /\ TypeOK'
           /\ \E S \in SUBSET running, again \in SUBSET running, q \in [Tasks -> Nat],
                 st \in [Tasks -> Statuses] :
                /\ again \subseteq S
                /\ Dispatched(q, running \ S, st, spawned, Limit(conf))
                /\ Saved(q, running \ S, waiting, history', st, retries')
                /\ q = Push(queue, again)
                /\ st = Given(Given(status, S, "failed"), again, "queued")
                /\ history' = history \cup (S \ again)
                /\ UNCHANGED <<waiting, live, dead, cmd, kills, age, scan, conf, diskConf, crashes>>
<1>1. PICK S \in SUBSET (running \ (ZergFlow \cup cmd)) :
        LET again == {t \in S : Bumped(t) <= MaxRetry}
            q == Push(queue, again)
            st == Given(Given(status, S, "failed"), again, "queued")
            re == [t \in Tasks |-> IF t \in S THEN Bumped(t) ELSE retries[t]]
        IN /\ UserOp("reclaim")
           /\ S # {}
           /\ retries' = re
           /\ history' = history \cup (S \ again)
           /\ Saved(q, running \ S, waiting, history', st, re)
           /\ Dispatch(q, running \ S, st, spawned)
           /\ UNCHANGED <<waiting, live, dead, cmd, sideVars, conf, diskConf>>
    BY DEF Reclaim
<1> DEFINE again == {t \in S : Bumped(t) <= MaxRetry}
           q == Push(queue, again)
           failed == Given(status, S, "failed")
           st == Given(failed, again, "queued")
           re == [t \in Tasks |-> IF t \in S THEN Bumped(t) ELSE retries[t]]
<1>2. S \in SUBSET running /\ again \in SUBSET running /\ again \subseteq S /\ running \subseteq Tasks
    BY DEF TypeOK
<1>3. q \in [Tasks -> Nat] /\ st \in [Tasks -> Statuses]
  <2>1. failed \in [Tasks -> Statuses]
      BY GivenType DEF TypeOK, Statuses
  <2>2. "queued" \in Statuses
      BY DEF Statuses
  <2> QED BY <2>1, <2>2, GivenType, PushType DEF TypeOK
<1>4. re \in [Tasks -> 0..(MaxRetry + 1)]
    BY BumpedType DEF TypeOK
<1>5. /\ retries' = re
      /\ history' = history \cup (S \ again)
      /\ Saved(q, running \ S, waiting, history', st, re)
      /\ Dispatch(q, running \ S, st, spawned)
      /\ ops < MaxOps /\ ops' = ops + 1
      /\ UNCHANGED <<waiting, live, dead, cmd, kills, age, scan, conf, diskConf, crashes>>
    BY <1>1 DEF sideVars, UserOp
<1>6. q = Push(queue, again) /\ st = Given(Given(status, S, "failed"), again, "queued")
    OBVIOUS
<1> HIDE DEF q, st, re, again, failed
<1>7. Dispatched(q, running \ S, st, spawned, Limit(conf))
    BY <1>3, <1>5, DispatchSound, LimitType DEF TypeOK, Dispatch
<1>8. disk' \in Disks
    BY <1>3, <1>4, <1>5, SavedType DEF TypeOK
<1>9. ops' \in 0..MaxOps
    BY <1>5, SchedAssumption DEF TypeOK
<1>10. TypeOK'
    BY <1>2, <1>4, <1>5, <1>7, <1>8, <1>9 DEF TypeOK, Dispatched
<1>11. Saved(q, running \ S, waiting, history', st, retries')
    BY <1>5
<1> QED BY <1>2, <1>3, <1>5, <1>6, <1>7, <1>10, <1>11

\* An operation of the user is counted within its bound.
LEMMA UserOpType ==
    ASSUME TypeOK, NEW e, UserOp(e)
    PROVE  ops' \in 0..MaxOps /\ crashes' = crashes
BY SchedAssumption DEF TypeOK, UserOp

\* TerminateTask.
LEMMA TerminateStep ==
    ASSUME TypeOK, NEW t \in Tasks, Terminate(t)
    PROVE  /\ TypeOK'
           /\ Dispatched(queue, running \ {t}, [status EXCEPT ![t] = "failed"], spawned, Limit(conf))
<1> DEFINE st == [status EXCEPT ![t] = "failed"]
<1>1. st \in [Tasks -> Statuses]
    BY DEF TypeOK, Statuses
<1>2. /\ history' = history \cup {t}
      /\ Saved(queue, running \ {t}, waiting, history', st, retries)
      /\ Dispatch(queue, running \ {t}, st, spawned)
      /\ kills' = kills \cup {t}
      /\ UNCHANGED <<retries, waiting, live, dead, cmd, age, scan, conf, diskConf>>
      /\ ops' \in 0..MaxOps /\ crashes' = crashes
    BY UserOpType DEF Terminate
<1> HIDE DEF st
<1>3. Dispatched(queue, running \ {t}, st, spawned, Limit(conf))
    BY <1>1, <1>2, DispatchSound, LimitType DEF TypeOK, Dispatch
<1>4. disk' \in Disks
    BY <1>1, <1>2, SavedType DEF TypeOK
<1>5. TypeOK'
    BY <1>2, <1>3, <1>4 DEF TypeOK, Dispatched
<1> QED BY <1>3, <1>5 DEF st

\* RequeueTask.
LEMMA RequeueStep ==
    ASSUME TypeOK, NEW t \in Tasks, Requeue(t)
    PROVE  TypeOK'
<1>1. status' \in [Tasks -> Statuses] /\ queue' \in [Tasks -> Nat] /\ sorted' \in BOOLEAN
    BY PushType DEF TypeOK, Requeue, Statuses
<1>2. disk' \in Disks
  <2>1. Saved(queue', running', waiting, history, status', retries)
      BY DEF Requeue
  <2> QED BY <1>1, <2>1, SavedType DEF TypeOK
<1>3. ops' \in 0..MaxOps /\ crashes' = crashes
    BY UserOpType DEF Requeue
<1> QED BY <1>1, <1>2, <1>3 DEF TypeOK, Requeue, runVars

\* killTaskProcess.
LEMMA KillTaskStep ==
    ASSUME TypeOK, NEW t \in Tasks, KillTask(t)
    PROVE  /\ TypeOK'
           /\ \A u \in Tasks : live'[u] + dead'[u] = live[u] + dead[u]
<1>1. CASE t \in running \cap cmd
  <2>1. /\ live' = Minus(live, t) /\ dead' = Plus(dead, t) /\ cmd' = cmd \ {t}
        /\ kills' = kills \ {t}
        /\ UNCHANGED <<memVars, spawned, age, scan, fileVars, boundVars>>
      BY <1>1 DEF KillTask
  <2>2. live[t] > 0
      BY <1>1 DEF TypeOK
  <2>3. live' \in [Tasks -> Nat] /\ dead' \in [Tasks -> Nat]
      BY <2>1, <2>2 DEF TypeOK, Minus, Plus
  <2>4. cmd' \subseteq Tasks /\ \A u \in cmd' : live'[u] > 0
      BY <2>1 DEF TypeOK, Minus
  <2>5. \A u \in Tasks : live'[u] + dead'[u] = live[u] + dead[u]
      BY <2>1, <2>2 DEF TypeOK, Minus, Plus
  <2> QED BY <2>1, <2>3, <2>4, <2>5 DEF TypeOK, memVars, fileVars, boundVars
<1>2. CASE t \notin running \cap cmd
    BY <1>2 DEF TypeOK, KillTask, memVars, fileVars, boundVars
<1> QED BY <1>1, <1>2

\* Where a write fails, writes may fail.
LEMMA FailedWrite ==
    ASSUME NEW ok \in Writes, ~ok
    PROVE  Writes # {TRUE}
<1>1. SUFFICES ASSUME Writes = {TRUE} PROVE FALSE
    OBVIOUS
<1>2. ok = TRUE
    BY <1>1
<1> QED BY <1>2

\* CancelTask on a queued task.
LEMMA CancelQueuedStep ==
    ASSUME TypeOK, NEW t \in Tasks, CancelQueued(t)
    PROVE  /\ TypeOK'
           /\ Writes = {TRUE} =>
                /\ Dispatched(Minus(queue, t), running, [status EXCEPT ![t] = "cancelled"], spawned,
                              Limit(conf))
                /\ disk' = Image(Minus(queue, t), running, waiting, history',
                                 [status EXCEPT ![t] = "cancelled"], retries)
<1> DEFINE q == Minus(queue, t)
           st == [status EXCEPT ![t] = "cancelled"]
<1>1. q \in [Tasks -> Nat] /\ st \in [Tasks -> Statuses]
    BY DEF TypeOK, Statuses, CancelQueued, Minus
<1>2. /\ history' = history \cup {t}
      /\ UNCHANGED <<retries, waiting, live, dead, cmd, kills, age, scan, conf, diskConf>>
      /\ ops' \in 0..MaxOps /\ crashes' = crashes
    BY UserOpType DEF CancelQueued, sideVars
<1>3. PICK ok \in Writes :
            \/ /\ ok
               /\ disk' = Image(q, running, waiting, history', st, retries)
               /\ DispatchWith(q, running, st, spawned, Limit(conf), TRUE)
            \/ /\ ~ok
               /\ queue' = q /\ sorted' = TRUE /\ status' = st
               /\ UNCHANGED <<disk, running, spawned>>
    BY DEF CancelQueued
<1> HIDE DEF q, st
<1>4. CASE /\ disk' = Image(q, running, waiting, history', st, retries)
           /\ DispatchWith(q, running, st, spawned, Limit(conf), TRUE)
  <2>1. Dispatched(q, running, st, spawned, Limit(conf))
      BY <1>1, <1>4, DispatchSound, LimitType DEF TypeOK
  <2>2. disk' \in Disks
      BY <1>1, <1>4, ImageType DEF TypeOK
  <2>3. TypeOK'
      BY <1>2, <2>1, <2>2 DEF TypeOK, Dispatched
  <2> QED BY <1>4, <2>1, <2>3 DEF q, st
<1>5. CASE /\ Writes # {TRUE} /\ queue' = q /\ sorted' = TRUE /\ status' = st
           /\ UNCHANGED <<disk, running, spawned>>
  <2>1. TypeOK'
      BY <1>1, <1>2, <1>5 DEF TypeOK
  <2> QED BY <1>5, <2>1
<1> QED BY <1>3, <1>4, <1>5, FailedWrite

\* CancelTask on a parked task.
LEMMA CancelParkedStep ==
    ASSUME TypeOK, NEW t \in Tasks, CancelParked(t)
    PROVE  TypeOK'
<1>1. status' \in [Tasks -> Statuses] /\ waiting' \subseteq Tasks /\ history' \subseteq Tasks
    BY DEF TypeOK, CancelParked, Statuses
<1>2. disk' \in Disks
  <2>1. Saved(queue, running, waiting', history', status', retries)
      BY DEF CancelParked
  <2> QED BY <1>1, <2>1, SavedType DEF TypeOK
<1>3. ops' \in 0..MaxOps /\ crashes' = crashes
    BY UserOpType DEF CancelParked
<1> QED BY <1>1, <1>2, <1>3 DEF TypeOK, CancelParked, runVars, sideVars

\* PauseTask, DeleteTask and MoveTask.
LEMMA PauseDeleteStep ==
    ASSUME TypeOK, NEW t \in Tasks, PauseTask(t) \/ DeleteTask(t) \/ MoveTask(t)
    PROVE  TypeOK'
<1>1. CASE PauseTask(t)
  <2>1. status' \in [Tasks -> Statuses]
      BY <1>1 DEF TypeOK, PauseTask, Statuses
  <2>2. ops' \in 0..MaxOps /\ crashes' = crashes
      BY <1>1, UserOpType DEF PauseTask
  <2> QED BY <1>1, <2>1, <2>2 DEF TypeOK, PauseTask, runVars, sideVars, fileVars
<1>2. CASE DeleteTask(t)
  <2>1. queue' \in [Tasks -> Nat] /\ sorted' \in BOOLEAN
      BY <1>2 DEF TypeOK, DeleteTask, Minus
  <2>2. ops' \in 0..MaxOps /\ crashes' = crashes
      BY <1>2, UserOpType DEF DeleteTask
  <2> QED BY <1>2, <2>1, <2>2 DEF TypeOK, DeleteTask, runVars, sideVars, fileVars
<1>3. CASE MoveTask(t)
  <2>1. sorted' \in BOOLEAN
      BY <1>3 DEF TypeOK, MoveTask
  <2>2. ops' \in 0..MaxOps /\ crashes' = crashes
      BY <1>3, UserOpType DEF MoveTask
  <2> QED BY <1>3, <2>1, <2>2 DEF TypeOK, MoveTask, runVars, sideVars, fileVars
<1> QED BY <1>1, <1>2, <1>3

\* ResumeTask.
LEMMA ResumeTaskStep ==
    ASSUME TypeOK, NEW t \in Tasks, ResumeTask(t)
    PROVE  /\ TypeOK'
           /\ Dispatched(queue, running, [status EXCEPT ![t] = "queued"], spawned, Limit(conf))
<1> DEFINE st == [status EXCEPT ![t] = "queued"]
<1>1. st \in [Tasks -> Statuses]
    BY DEF TypeOK, Statuses
<1>2. Dispatched(queue, running, st, spawned, Limit(conf))
    BY <1>1, DispatchSound, LimitType DEF TypeOK, ResumeTask, Dispatch
<1>3. /\ ops' \in 0..MaxOps /\ crashes' = crashes
      /\ UNCHANGED <<retries, waiting, history, live, dead, cmd, kills, age, scan, conf, disk, diskConf>>
    BY DEF TypeOK, ResumeTask, sideVars, fileVars, boundVars
<1> HIDE DEF st
<1>4. TypeOK'
    BY <1>2, <1>3 DEF TypeOK, Dispatched
<1> QED BY <1>2, <1>4 DEF st

\* RetryTask.
LEMMA RetryTaskStep ==
    ASSUME TypeOK, NEW t \in Tasks, RetryTask(t)
    PROVE  /\ TypeOK'
           /\ Dispatched(Push(queue, {t}), running, [status EXCEPT ![t] = "queued"], spawned,
                         Limit(conf))
<1> DEFINE st == [status EXCEPT ![t] = "queued"]
           q == Push(queue, {t})
<1>1. st \in [Tasks -> Statuses] /\ q \in [Tasks -> Nat]
    BY PushType DEF TypeOK, Statuses
<1>2. Dispatched(q, running, st, spawned, Limit(conf))
    BY <1>1, DispatchSound, LimitType DEF TypeOK, RetryTask, Dispatch
<1>3. /\ ops' \in 0..MaxOps /\ crashes' = crashes
      /\ UNCHANGED <<waiting, history, live, dead, cmd, kills, age, scan, conf, disk, diskConf>>
    BY UserOpType DEF RetryTask, sideVars, fileVars
<1>4. retries' \in [Tasks -> 0..(MaxRetry + 1)]
    BY SchedAssumption DEF RetryTask, TypeOK
<1> HIDE DEF st, q
<1>5. TypeOK'
    BY <1>2, <1>3, <1>4 DEF TypeOK, Dispatched
<1> QED BY <1>2, <1>5 DEF st, q

\* PauseDispatch, ResumeDispatch and SetMaxConcurrent: a step of any of them is this.
LEMMA KnobsStep ==
    ASSUME TypeOK, PauseDispatch \/ ResumeDispatch \/ \E n \in Sizes : SetMaxConcurrent(n)
    PROVE  /\ TypeOK'
           /\ \/ Dispatched(queue, running, status, spawned, Limit(conf'))
              \/ /\ conf'.paused \/ Writes # {TRUE}
                 /\ UNCHANGED <<queue, sorted, running, status, spawned>>
           /\ UNCHANGED <<retries, waiting, history, live, dead, cmd, kills, age, scan, disk, crashes>>
           /\ Writes = {TRUE} => diskConf' = conf'
<1>1. PICK c \in Confs : Configured(c)
    BY SchedAssumption DEF TypeOK, PauseDispatch, ResumeDispatch, SetMaxConcurrent, Confs
<1>2. ops' \in 0..MaxOps /\ crashes' = crashes
    BY UserOpType DEF PauseDispatch, ResumeDispatch, SetMaxConcurrent
<1>3. PICK ok \in Writes :
        /\ conf' = c
        /\ diskConf' = IF ok THEN c ELSE diskConf
        /\ \/ ok /\ ~c.paused /\ DispatchWith(queue, running, status, spawned, Limit(c), sorted)
           \/ (~ok \/ c.paused) /\ UNCHANGED <<queue, sorted, running, status, spawned>>
        /\ UNCHANGED <<retries, waiting, history, live, dead, cmd, sideVars, disk>>
    BY <1>1 DEF Configured
<1>4. UNCHANGED <<retries, waiting, history, live, dead, cmd, kills, age, scan, disk>>
    BY <1>3 DEF sideVars
<1>5. conf' \in Confs /\ diskConf' \in Confs
    BY <1>1, <1>3 DEF TypeOK
<1>6. Writes = {TRUE} => diskConf' = conf'
    BY <1>3
<1>7. CASE DispatchWith(queue, running, status, spawned, Limit(c), sorted)
  <2>1. Dispatched(queue, running, status, spawned, Limit(conf'))
      BY <1>1, <1>3, <1>7, DispatchSound, LimitType DEF TypeOK
  <2>2. TypeOK'
      BY <1>2, <1>4, <1>5, <2>1 DEF TypeOK, Dispatched
  <2> QED BY <1>2, <1>4, <1>6, <2>1, <2>2
<1>8. CASE (~ok \/ c.paused) /\ UNCHANGED <<queue, sorted, running, status, spawned>>
  <2>1. TypeOK'
      BY <1>2, <1>4, <1>5, <1>8 DEF TypeOK
  <2>2. conf'.paused \/ Writes # {TRUE}
      BY <1>3, <1>8, FailedWrite
  <2> QED BY <1>2, <1>4, <1>6, <1>8, <2>1, <2>2
<1> QED BY <1>3, <1>7, <1>8

\* What a restart makes of the status in the file.
Restored == [t \in Tasks |-> IF t \in ToQueue THEN "queued"
                             ELSE IF t \in ToHistory /\ disk.status[t] = "running" THEN "failed"
                             ELSE disk.status[t]]

\* Restart.
LEMMA RestartStep ==
    ASSUME TypeOK, Restart
    PROVE  /\ TypeOK'
           /\ Dispatched(Push(Nobody, ToQueue), {}, Restored, Nobody, Limit(diskConf))
<1> DEFINE q == Push(Nobody, ToQueue)
<1>1. Nobody \in [Tasks -> Nat] /\ q \in [Tasks -> Nat]
    BY PushType DEF Nobody
<1>2. Restored \in [Tasks -> Statuses]
  <2>1. disk.status \in [Tasks -> Statuses]
      BY DEF TypeOK, Disks
  <2> QED BY <2>1 DEF Restored, Statuses
<1>3. DispatchWith(q, {}, Restored, Nobody, Limit(diskConf), TRUE)
    BY DEF Restart, Restored
<1>4. Dispatched(q, {}, Restored, Nobody, Limit(diskConf))
    BY <1>1, <1>2, <1>3, DispatchSound, LimitType DEF TypeOK
<1>5. retries' \in [Tasks -> 0..(MaxRetry + 1)]
    BY DEF TypeOK, Disks, Restart
<1>6. scan' \in Scans
    BY DEF Restart, NoScan, Scans
<1>7. waiting' \subseteq Tasks /\ history' \subseteq Tasks
    BY DEF Restart, ToWait, ToHistory
<1>8. crashes' \in 0..MaxCrashes
    BY SchedAssumption DEF TypeOK, Restart
<1>9. live' = Nobody /\ dead' = Nobody /\ cmd' = {} /\ kills' = {} /\ conf' = diskConf
      /\ UNCHANGED <<age, disk, diskConf, ops>>
    BY DEF Restart
<1> HIDE DEF q
<1>10. TypeOK'
    BY <1>1, <1>4, <1>5, <1>6, <1>7, <1>8, <1>9 DEF TypeOK, Dispatched
<1> QED BY <1>4, <1>10 DEF q

-----------------------------------------------------------------------------
(* Types and slots.                                                        *)

\* The types and the slots, which are proved together with them: one invariant.
SlotInv == TypeOK /\ NoSlotLeak

\* The types hold at the start.
LEMMA InitTypes ==
    ASSUME Init
    PROVE  TypeOK
<1>1. Nobody \in [Tasks -> Nat] /\ Nobody \in [Tasks -> 0..(MaxRetry + 1)]
      /\ Nobody \in [Tasks -> 0..WaitScans]
    BY SchedAssumption DEF Nobody
<1>2. status \in [Tasks -> Statuses]
    BY DEF Init, Statuses
<1>3. disk \in Disks
    BY <1>1, <1>2, ImageType DEF Init
<1>4. scan \in Scans /\ conf \in Confs /\ diskConf \in Confs
    BY SchedAssumption DEF Init, NoScan, Scans, InitConf, Confs
<1> QED BY <1>1, <1>2, <1>3, <1>4, SchedAssumption DEF Init, TypeOK

\* A dispatch keeps the slots, if what keeps its slot has a goroutine.
LEMMA SlotsKept ==
    ASSUME TypeOK', NEW q, NEW run \in SUBSET Tasks, NEW st, NEW sp \in [Tasks -> Nat], NEW max,
           Dispatched(q, run, st, sp, max),
           \A u \in run : sp[u] + live'[u] + dead'[u] > 0
    PROVE  NoSlotLeak'
<1>1. SUFFICES ASSUME NEW u \in running'
               PROVE  spawned'[u] + live'[u] + dead'[u] > 0
    BY DEF NoSlotLeak, Runners
<1>2. u \in Tasks /\ spawned'[u] \in Nat /\ live'[u] \in Nat /\ dead'[u] \in Nat
    BY <1>1 DEF TypeOK
<1>3. CASE u \in run
  <2>1. sp[u] \in Nat /\ spawned'[u] >= sp[u] /\ sp[u] + live'[u] + dead'[u] > 0
      BY <1>2, <1>3 DEF Dispatched
  <2> QED BY <1>2, <2>1
<1>4. CASE u \notin run
  <2>1. spawned'[u] > 0
      BY <1>1, <1>4 DEF Dispatched
  <2> QED BY <1>2, <2>1
<1> QED BY <1>3, <1>4

\* The end of a goroutine of t, which gives the slot of t back, keeps the slots.
LEMMA SlotsKeptAtEnd ==
    ASSUME SlotInv, TypeOK', NEW t \in Tasks, NEW from \in {"spawned", "live", "dead"}, Ends(t, from),
           NEW q, NEW st, NEW max, Dispatched(q, running \ {t}, st, Unspawned(t, from), max)
    PROVE  NoSlotLeak'
<1>1. \A u \in running \ {t} : Unspawned(t, from)[u] + live'[u] + dead'[u] > 0
    BY EndsSound DEF SlotInv, NoSlotLeak, Runners, TypeOK
<1>2. running \ {t} \in SUBSET Tasks /\ Unspawned(t, from) \in [Tasks -> Nat]
    BY EndsSound DEF SlotInv, TypeOK
<1> QED BY <1>1, <1>2, SlotsKept

\* A dispatch with some of the running tasks, beside goroutines that stay, keeps the slots.
LEMMA SlotsKeptBeside ==
    ASSUME SlotInv, TypeOK', NEW q, NEW run \in SUBSET running, NEW st, NEW max,
           Dispatched(q, run, st, spawned, max), UNCHANGED <<live, dead>>
    PROVE  NoSlotLeak'
<1>1. \A u \in run : spawned[u] + live'[u] + dead'[u] > 0
    BY DEF SlotInv, NoSlotLeak, Runners
<1>2. run \in SUBSET Tasks /\ spawned \in [Tasks -> Nat]
    BY DEF SlotInv, TypeOK
<1> QED BY <1>1, <1>2, SlotsKept

\* As long as no goroutine ends, slots that are only given back are not leaked.
LEMMA SlotsKeptQuiet ==
    ASSUME SlotInv, running' \subseteq running, \A u \in Tasks : Runners(u)' >= Runners(u), TypeOK'
    PROVE  NoSlotLeak'
<1>1. SUFFICES ASSUME NEW u \in running' PROVE Runners(u)' > 0
    BY DEF NoSlotLeak
<1>2. u \in Tasks /\ Runners(u) \in Nat /\ Runners(u)' \in Nat /\ Runners(u) > 0
    BY <1>1 DEF SlotInv, NoSlotLeak, TypeOK, Runners
<1> QED BY <1>2

\* Every step keeps the types and the slots.
LEMMA SlotStep ==
    ASSUME SlotInv, [Next]_vars
    PROVE  SlotInv'
<1> USE DEF SlotInv
<1>1. ASSUME NEW t \in Tasks, Submit(t) PROVE SlotInv'
  <2>1. \A u \in running \ Pushed(t) : spawned[u] + live'[u] + dead'[u] > 0
      BY <1>1 DEF Submit, TypeOK, NoSlotLeak, Runners
  <2>2. running \ Pushed(t) \in SUBSET Tasks /\ spawned \in [Tasks -> Nat]
      BY DEF TypeOK
  <2> QED BY <1>1, <2>1, <2>2, SubmitStep, SlotsKept
<1>2. ASSUME NEW t \in Tasks, Launch(t) PROVE SlotInv'
  <2>1. \A u \in Tasks : Runners(u)' >= Runners(u)
      BY <1>2 DEF Launch, TypeOK, Runners, Plus, Minus
  <2> QED BY <1>2, <2>1, LaunchStep, SlotsKeptQuiet DEF Launch, memVars
<1>3. ASSUME NEW t \in Tasks, NEW from \in {"spawned", "live", "dead"}, TailFails(t, from)
      PROVE  SlotInv'
  <2>1. Ends(t, from)
      BY <1>3 DEF TailFails
  <2>2. TypeOK' /\ \E q, st : Dispatched(q, running \ {t}, st, Unspawned(t, from), Limit(conf))
      BY <1>3, TailFailsStep
  <2> QED BY <2>1, <2>2, SlotsKeptAtEnd
<1>4. \A t \in Tasks : Unspawned(t, "live") = spawned
    BY DEF Unspawned
<1>5. ASSUME NEW t \in Tasks, TailBackend(t) PROVE SlotInv'
  <2>1. Ends(t, "live")
      BY <1>5 DEF TailBackend
  <2> QED BY <1>4, <1>5, <2>1, TailBackendStep, SlotsKeptAtEnd
<1>6. ASSUME NEW t \in Tasks, TailSucceeds(t) PROVE SlotInv'
  <2>1. Ends(t, "live")
      BY <1>6 DEF TailSucceeds
  <2> QED BY <1>4, <1>6, <2>1, TailSucceedsStep, SlotsKeptAtEnd
<1>7. ASSUME NEW t \in Tasks, NEW j \in Jobs, NEW verdict \in {"pass", "blank", "reject"},
             ReviewSucceeds(t, j, verdict)
      PROVE  SlotInv'
  <2>1. Ends(t, "live")
      BY <1>7 DEF ReviewSucceeds
  <2>2. TypeOK' /\ Reviewed(t, j, verdict)
      BY <1>7, ReviewSucceedsStep
  <2>3. \E q, st : Dispatched(q, running \ {t}, st, spawned, Limit(conf))
      BY <2>2 DEF Reviewed
  <2> QED BY <1>4, <1>7, <2>1, <2>2, <2>3, SlotsKeptAtEnd
<1>8. ASSUME NEW t \in Tasks, FlowSuspends(t) PROVE SlotInv'
  <2>1. Ends(t, "spawned")
      BY <1>8 DEF FlowSuspends
  <2> QED BY <1>8, <2>1, FlowSuspendsStep, SlotsKeptAtEnd
<1>9. ASSUME NEW t \in Tasks, NEW good \in BOOLEAN, FlowEnds(t, good) PROVE SlotInv'
  <2>1. Ends(t, "spawned")
      BY <1>9 DEF FlowEnds
  <2> QED BY <1>9, <2>1, FlowEndsStep, SlotsKeptAtEnd
<1>10. ASSUME NEW t \in Tasks, KillTask(t) PROVE SlotInv'
  <2>1. TypeOK' /\ \A u \in Tasks : live'[u] + dead'[u] = live[u] + dead[u]
      BY <1>10, KillTaskStep
  <2>2. spawned' = spawned /\ running' = running
      BY <1>10 DEF KillTask, memVars
  <2>3. \A u \in Tasks : Runners(u)' >= Runners(u)
      BY <2>1, <2>2 DEF Runners, TypeOK
  <2> QED BY <2>1, <2>2, <2>3, SlotsKeptQuiet
<1>11. CASE ScanStart
    BY <1>11, ScanStartStep DEF ScanStart, memVars, runVars, NoSlotLeak, Runners
<1>12. CASE ScanApply
  <2>1. TypeOK'
      BY <1>12, ScanApplyStep
  <2>2. PICK late \in SUBSET waiting, back \in SUBSET waiting, q \in [Tasks -> Nat],
             st \in [Tasks -> Statuses] :
          /\ \/ Dispatched(q, running, st, spawned, Limit(conf))
             \/ UNCHANGED <<queue, sorted, running, spawned, disk>>
          /\ UNCHANGED <<retries, live, dead, cmd, kills, age, conf, diskConf, ops, crashes>>
      BY <1>12, ScanApplyStep
  <2>3. CASE Dispatched(q, running, st, spawned, Limit(conf))
      BY <2>1, <2>2, <2>3, SlotsKeptBeside
  <2>4. CASE UNCHANGED <<queue, sorted, running, spawned, disk>>
      BY <2>1, <2>2, <2>4 DEF NoSlotLeak, Runners
  <2> QED BY <2>2, <2>3, <2>4
<1>13. CASE Reclaim
  <2>1. TypeOK'
      BY <1>13, ReclaimStep
  <2>2. PICK S \in SUBSET running, again \in SUBSET running, q \in [Tasks -> Nat],
             st \in [Tasks -> Statuses] :
          /\ Dispatched(q, running \ S, st, spawned, Limit(conf))
          /\ UNCHANGED <<waiting, live, dead, cmd, kills, age, scan, conf, diskConf, crashes>>
      BY <1>13, ReclaimStep
  <2>3. running \ S \in SUBSET running
      OBVIOUS
  <2> QED BY <2>1, <2>2, <2>3, SlotsKeptBeside
<1>14. ASSUME NEW t \in Tasks, Terminate(t) PROVE SlotInv'
  <2>1. running \ {t} \in SUBSET running /\ UNCHANGED <<live, dead>>
      BY <1>14 DEF Terminate
  <2> QED BY <1>14, <2>1, TerminateStep, SlotsKeptBeside
<1>15. ASSUME NEW t \in Tasks, Requeue(t) PROVE SlotInv'
  <2>1. running' \subseteq running /\ UNCHANGED <<spawned, live, dead>>
      BY <1>15 DEF Requeue, runVars
  <2> QED BY <1>15, <2>1, RequeueStep DEF NoSlotLeak, Runners
<1>16. ASSUME NEW t \in Tasks, CancelQueued(t) PROVE SlotInv'
  <2>1. TypeOK' /\ UNCHANGED <<live, dead>>
      BY <1>16, CancelQueuedStep DEF CancelQueued
  <2> DEFINE q == Minus(queue, t)
             st == [status EXCEPT ![t] = "cancelled"]
  <2>2. q \in [Tasks -> Nat] /\ st \in [Tasks -> Statuses]
      BY <1>16 DEF TypeOK, Statuses, CancelQueued, Minus
  <2>3. DispatchWith(q, running, st, spawned, Limit(conf), TRUE) \/ UNCHANGED <<running, spawned>>
      BY <1>16 DEF CancelQueued
  <2> HIDE DEF q, st
  <2>4. CASE DispatchWith(q, running, st, spawned, Limit(conf), TRUE)
    <3>1. Dispatched(q, running, st, spawned, Limit(conf))
        BY <2>2, <2>4, DispatchSound, LimitType DEF TypeOK
    <3> QED BY <2>1, <3>1, SlotsKeptBeside
  <2>5. CASE UNCHANGED <<running, spawned>>
      BY <2>1, <2>5 DEF NoSlotLeak, Runners
  <2> QED BY <2>3, <2>4, <2>5
<1>17. ASSUME NEW t \in Tasks, CancelParked(t) PROVE SlotInv'
    BY <1>17, CancelParkedStep DEF CancelParked, runVars, NoSlotLeak, Runners
<1>18. ASSUME NEW t \in Tasks, PauseTask(t) \/ DeleteTask(t) \/ MoveTask(t) PROVE SlotInv'
    BY <1>18, PauseDeleteStep DEF PauseTask, DeleteTask, MoveTask, runVars, NoSlotLeak, Runners
<1>19. ASSUME NEW t \in Tasks, ResumeTask(t) PROVE SlotInv'
  <2>1. running \in SUBSET running /\ UNCHANGED <<live, dead>>
      BY <1>19 DEF ResumeTask
  <2> QED BY <1>19, <2>1, ResumeTaskStep, SlotsKeptBeside
<1>20. ASSUME NEW t \in Tasks, RetryTask(t) PROVE SlotInv'
  <2>1. running \in SUBSET running /\ UNCHANGED <<live, dead>>
      BY <1>20 DEF RetryTask
  <2> QED BY <1>20, <2>1, RetryTaskStep, SlotsKeptBeside
<1>21. CASE PauseDispatch \/ ResumeDispatch \/ \E n \in Sizes : SetMaxConcurrent(n)
  <2>1. /\ TypeOK' /\ UNCHANGED <<live, dead>>
        /\ \/ Dispatched(queue, running, status, spawned, Limit(conf'))
           \/ UNCHANGED <<queue, sorted, running, status, spawned>>
      BY <1>21, KnobsStep
  <2>2. CASE Dispatched(queue, running, status, spawned, Limit(conf'))
      BY <2>1, <2>2, SlotsKeptBeside
  <2>3. CASE UNCHANGED <<queue, sorted, running, status, spawned>>
      BY <2>1, <2>3 DEF NoSlotLeak, Runners
  <2> QED BY <2>1, <2>2, <2>3
<1>22. CASE Restart
  <2>1. {} \in SUBSET Tasks /\ Nobody \in [Tasks -> Nat]
      BY DEF Nobody
  <2> QED BY <1>22, <2>1, RestartStep, SlotsKept
<1>23. CASE ScanNothing \/ UNCHANGED vars
    BY <1>23 DEF ScanNothing, vars, TypeOK, NoSlotLeak, Runners
<1> QED
    BY <1>1, <1>2, <1>3, <1>5, <1>6, <1>7, <1>8, <1>9, <1>10, <1>11, <1>12, <1>13, <1>14, <1>15,
       <1>16, <1>17, <1>18, <1>19, <1>20, <1>21, <1>22, <1>23 DEF Next, Operations, RunEnds

\* The invariant holds in every state.
LEMMA SlotsAlways == Spec => []SlotInv
<1>1. Init => SlotInv
    BY InitTypes DEF SlotInv, NoSlotLeak, Init
<1>2. SlotInv /\ [Next]_vars => SlotInv'
    BY SlotStep
<1> QED BY <1>1, <1>2, PTL DEF Spec

\* Every variable of the scheduler has its type, whatever the tasks, limits and events.
THEOREM SchedTypeCorrect == Spec => []TypeOK
<1>1. SlotInv => TypeOK
    BY DEF SlotInv
<1> QED BY <1>1, SlotsAlways, PTL

\* Every slot in use has a goroutine that gives it back, through preemption, termination,
\* requeueing, reclaims and restarts.
THEOREM NoSlotLeakEver == Spec => []NoSlotLeak
<1>1. SlotInv => NoSlotLeak
    BY DEF SlotInv
<1> QED BY <1>1, SlotsAlways, PTL

-----------------------------------------------------------------------------
(* The queue.                                                              *)

\* The slots in use can be counted.
LEMMA SlotsCount ==
    ASSUME NEW S \in SUBSET Tasks
    PROVE  IsFiniteSet(S) /\ Cardinality(S) \in Nat
BY FS_Subset, FS_CardinalityType, SchedAssumption

\* After a dispatch within the slots there is no queue beside a free slot.
LEMMA QueueServed ==
    ASSUME TypeOK', NEW q, NEW run, NEW st, NEW sp, Dispatched(q, run, st, sp, Limit(conf'))
    PROVE  NoStrandedQueue'
<1>1. Queued(queue') = {} \/ Cardinality(running') >= Limit(conf')
    BY DEF Dispatched
<1>2. Cardinality(running') \in Nat /\ Limit(conf') \in Nat
    BY SlotsCount, LimitType DEF TypeOK
<1>3. Queued(queue)' = Queued(queue') /\ Limit(conf)' = Limit(conf')
    BY DEF Queued, Limit
<1> QED BY <1>1, <1>2, <1>3 DEF NoStrandedQueue

\* Without a dispatch: no new queue, no new slot, and no goroutine ends.
LEMMA QueueLeft ==
    ASSUME SlotInv, TypeOK', NoStrandedQueue, \A t \in Tasks : queue'[t] <= queue[t],
           UNCHANGED <<running, conf>>, \A u \in Tasks : Runners(u)' >= Runners(u)
    PROVE  NoStrandedQueue'
<1>1. SUFFICES ASSUME Queued(queue') # {}, Cardinality(running) < Limit(conf)
               PROVE  \E t \in Tasks \ running : Runners(t)' > 0
    BY DEF NoStrandedQueue, Queued, Limit
<1>2. Queued(queue) # {}
    BY <1>1 DEF Queued, SlotInv, TypeOK
<1>3. PICK t \in Tasks \ running : Runners(t) > 0
    BY <1>1, <1>2 DEF NoStrandedQueue
<1>4. Runners(t) \in Nat /\ Runners(t)' \in Nat
    BY DEF SlotInv, TypeOK, Runners
<1> QED BY <1>3, <1>4

\* Every step keeps the queue served.
LEMMA QueueStep ==
    ASSUME Writes = {TRUE}, SlotInv, SlotInv', NoStrandedQueue, [Next]_vars
    PROVE  NoStrandedQueue'
<1> TypeOK /\ TypeOK'
    BY DEF SlotInv
<1>1. ASSUME NEW t \in Tasks, Submit(t) PROVE NoStrandedQueue'
    BY <1>1, SubmitStep, QueueServed DEF Submit
<1>2. ASSUME NEW t \in Tasks, Launch(t) PROVE NoStrandedQueue'
  <2>1. \A u \in Tasks : Runners(u)' >= Runners(u)
      BY <1>2 DEF Launch, TypeOK, Runners, Plus, Minus
  <2>2. UNCHANGED <<queue, running, conf>> /\ \A u \in Tasks : queue'[u] <= queue[u]
      BY <1>2 DEF Launch, memVars, fileVars, TypeOK
  <2> QED BY <2>1, <2>2, QueueLeft
<1>3. ASSUME NEW t \in Tasks, NEW from \in {"spawned", "live", "dead"}, TailFails(t, from)
      PROVE  NoStrandedQueue'
  <2>1. conf' = conf
      BY <1>3 DEF TailFails
  <2>2. \E q, st : Dispatched(q, running \ {t}, st, Unspawned(t, from), Limit(conf))
      BY <1>3, TailFailsStep
  <2> QED BY <2>1, <2>2, QueueServed
<1>4. ASSUME NEW t \in Tasks, TailBackend(t) PROVE NoStrandedQueue'
    BY <1>4, TailBackendStep, QueueServed DEF TailBackend
<1>5. ASSUME NEW t \in Tasks, TailSucceeds(t) PROVE NoStrandedQueue'
    BY <1>5, TailSucceedsStep, QueueServed DEF TailSucceeds
<1>6. ASSUME NEW t \in Tasks, NEW j \in Jobs, NEW verdict \in {"pass", "blank", "reject"},
             ReviewSucceeds(t, j, verdict)
      PROVE  NoStrandedQueue'
  <2>1. Reviewed(t, j, verdict) /\ conf' = conf
      BY <1>6, ReviewSucceedsStep DEF ReviewSucceeds
  <2>2. \E q, st : Dispatched(q, running \ {t}, st, spawned, Limit(conf))
      BY <2>1 DEF Reviewed
  <2> QED BY <2>1, <2>2, QueueServed
<1>7. ASSUME NEW t \in Tasks, FlowSuspends(t) PROVE NoStrandedQueue'
    BY <1>7, FlowSuspendsStep, QueueServed DEF FlowSuspends
<1>8. ASSUME NEW t \in Tasks, NEW good \in BOOLEAN, FlowEnds(t, good) PROVE NoStrandedQueue'
  <2>1. conf' = conf
      BY <1>8 DEF FlowEnds
  <2>2. \E q, st : Dispatched(q, running \ {t}, st, Unspawned(t, "spawned"), Limit(conf))
      BY <1>8, FlowEndsStep
  <2> QED BY <2>1, <2>2, QueueServed
<1>9. ASSUME NEW t \in Tasks, KillTask(t) PROVE NoStrandedQueue'
  <2>1. \A u \in Tasks : live'[u] + dead'[u] = live[u] + dead[u]
      BY <1>9, KillTaskStep
  <2>2. UNCHANGED <<spawned, queue, running, conf>>
      BY <1>9 DEF KillTask, memVars, fileVars
  <2>3. \A u \in Tasks : Runners(u)' >= Runners(u) /\ queue'[u] <= queue[u]
      BY <2>1, <2>2 DEF Runners, TypeOK
  <2> QED BY <2>2, <2>3, QueueLeft
<1>10. CASE ScanStart
    BY <1>10 DEF ScanStart, memVars, runVars, fileVars, NoStrandedQueue, Queued, Limit, Runners
<1>11. CASE ScanApply
  <2>1. PICK late \in SUBSET waiting, back \in SUBSET waiting, q \in [Tasks -> Nat],
             st \in [Tasks -> Statuses] :
          /\ q = Push(queue, back)
          /\ \/ Dispatched(q, running, st, spawned, Limit(conf))
             \/ Queued(q) = {} /\ UNCHANGED <<queue, sorted, running, spawned, disk>>
          /\ UNCHANGED <<retries, live, dead, cmd, kills, age, conf, diskConf, ops, crashes>>
      BY <1>11, ScanApplyStep
  <2>2. CASE Dispatched(q, running, st, spawned, Limit(conf))
      BY <2>1, <2>2, QueueServed
  <2>3. CASE Queued(q) = {} /\ UNCHANGED <<queue, sorted, running, spawned, disk>>
    <3>1. q = Push(queue, back) /\ Queued(q) = {} /\ queue \in [Tasks -> Nat]
        BY <2>1, <2>3 DEF TypeOK
    <3>2. ASSUME NEW u \in Tasks PROVE ~(queue[u] > 0)
      <4>1. ~(q[u] > 0)
          BY <3>1 DEF Queued
      <4>2. q[u] = queue[u] \/ q[u] = queue[u] + 1
          BY <3>1 DEF Push
      <4> QED BY <3>1, <4>1, <4>2
    <3>3. Queued(queue') = {}
        BY <2>3, <3>2 DEF Queued
    <3> QED BY <3>3 DEF NoStrandedQueue, Queued
  <2> QED BY <2>1, <2>2, <2>3
<1>12. CASE Reclaim
  <2>1. PICK S \in SUBSET running, again \in SUBSET running, q \in [Tasks -> Nat],
             st \in [Tasks -> Statuses] :
          /\ Dispatched(q, running \ S, st, spawned, Limit(conf))
          /\ UNCHANGED <<waiting, live, dead, cmd, kills, age, scan, conf, diskConf, crashes>>
      BY <1>12, ReclaimStep
  <2> QED BY <2>1, QueueServed
<1>13. ASSUME NEW t \in Tasks, Terminate(t) PROVE NoStrandedQueue'
    BY <1>13, TerminateStep, QueueServed DEF Terminate
<1>14. ASSUME NEW t \in Tasks, Requeue(t) PROVE NoStrandedQueue'
  <2>1. t \in Tasks \ running' /\ Runners(t)' > 0
      BY <1>14 DEF Requeue, runVars, SlotInv, NoSlotLeak, Runners
  <2> QED BY <2>1 DEF NoStrandedQueue
<1>15. ASSUME NEW t \in Tasks, CancelQueued(t) PROVE NoStrandedQueue'
    BY <1>15, CancelQueuedStep, QueueServed DEF CancelQueued
<1>16. ASSUME NEW t \in Tasks, CancelParked(t) PROVE NoStrandedQueue'
    BY <1>16 DEF CancelParked, runVars, NoStrandedQueue, Queued, Limit, Runners
<1>17. ASSUME NEW t \in Tasks, PauseTask(t) \/ MoveTask(t) PROVE NoStrandedQueue'
    BY <1>17 DEF PauseTask, MoveTask, runVars, fileVars, NoStrandedQueue, Queued, Limit, Runners
<1>18. ASSUME NEW t \in Tasks, DeleteTask(t) PROVE NoStrandedQueue'
  <2>1. UNCHANGED <<running, conf>> /\ \A u \in Tasks : queue'[u] <= queue[u]
      BY <1>18 DEF DeleteTask, fileVars, TypeOK, Minus
  <2>2. \A u \in Tasks : Runners(u)' >= Runners(u)
      BY <1>18 DEF DeleteTask, runVars, Runners, TypeOK
  <2> QED BY <2>1, <2>2, QueueLeft
<1>19. ASSUME NEW t \in Tasks, ResumeTask(t) PROVE NoStrandedQueue'
    BY <1>19, ResumeTaskStep, QueueServed DEF ResumeTask, fileVars
<1>20. ASSUME NEW t \in Tasks, RetryTask(t) PROVE NoStrandedQueue'
    BY <1>20, RetryTaskStep, QueueServed DEF RetryTask, fileVars
<1>21. CASE PauseDispatch \/ ResumeDispatch \/ \E n \in Sizes : SetMaxConcurrent(n)
  <2>1. CASE Dispatched(queue, running, status, spawned, Limit(conf'))
      BY <2>1, QueueServed
  <2>2. CASE conf'.paused
    <3>1. Limit(conf)' = 0 /\ Cardinality(running)' \in Nat
        BY <2>2, SlotsCount DEF Limit, TypeOK
    <3> QED BY <3>1 DEF NoStrandedQueue
  <2> QED BY <1>21, <2>1, <2>2, KnobsStep
<1>22. CASE Restart
  <2>1. conf' = diskConf
      BY <1>22 DEF Restart
  <2> QED BY <1>22, <2>1, RestartStep, QueueServed
<1>23. CASE ScanNothing \/ UNCHANGED vars
    BY <1>23 DEF ScanNothing, vars, NoStrandedQueue, Queued, Limit, Runners
<1> QED
    BY <1>1, <1>2, <1>3, <1>4, <1>5, <1>6, <1>7, <1>8, <1>9, <1>10, <1>11, <1>12, <1>13, <1>14,
       <1>15, <1>16, <1>17, <1>18, <1>19, <1>20, <1>21, <1>22, <1>23 DEF Next, Operations, RunEnds

\* As long as the file of the configuration can be written, a task is never left in the
\* queue beside a free slot without a goroutine that is still to dispatch it.
THEOREM NoStrandedQueueEver ==
    ASSUME Writes = {TRUE}
    PROVE  Spec => []NoStrandedQueue
<1>1. Init => NoStrandedQueue
    BY DEF Init, NoStrandedQueue, Queued, Nobody
<1>2. SlotInv /\ SlotInv' /\ NoStrandedQueue /\ [Next]_vars => NoStrandedQueue'
    BY QueueStep
<1> QED BY <1>1, <1>2, SlotsAlways, PTL DEF Spec

-----------------------------------------------------------------------------
(* The pause.                                                              *)

\* What a step may do under a pause, and the file it leaves.
Quiet ==
    /\ diskConf' = conf'
    /\ conf.paused /\ (conf'.paused \/ crashes' # crashes)
         => \A t \in Tasks : Runners(t)' <= Runners(t)

\* A dispatch under a pause starts nothing.
LEMMA NoneStarted ==
    ASSUME NEW c, c.paused, NEW q, NEW run, NEW st, NEW sp, Dispatched(q, run, st, sp, Limit(c))
    PROVE  spawned' = sp
BY DEF Dispatched, Limit

\* With the goroutines of the step known, the counts do not grow.
LEMMA QuietDispatch ==
    ASSUME TypeOK, TypeOK', diskConf = conf, UNCHANGED <<conf, diskConf>>,
           NEW q, NEW run, NEW st, NEW sp \in [Tasks -> Nat], Dispatched(q, run, st, sp, Limit(conf)),
           \A u \in Tasks : sp[u] + live'[u] + dead'[u] <= Runners(u)
    PROVE  Quiet
<1>1. conf.paused => spawned' = sp
    BY NoneStarted
<1> QED BY <1>1 DEF Quiet, Runners

\* The end of a goroutine starts nothing under a pause.
LEMMA QuietEnd ==
    ASSUME TypeOK, TypeOK', diskConf = conf, UNCHANGED <<conf, diskConf>>,
           NEW t \in Tasks, NEW from \in {"spawned", "live", "dead"}, Ends(t, from),
           NEW q, NEW run, NEW st, Dispatched(q, run, st, Unspawned(t, from), Limit(conf))
    PROVE  Quiet
<1>1. ASSUME NEW u \in Tasks
      PROVE  Unspawned(t, from)[u] + live'[u] + dead'[u] <= Runners(u)
  <2>1. /\ live'[u] <= live[u] /\ dead'[u] <= dead[u] /\ Unspawned(t, from)[u] <= spawned[u]
        /\ live'[u] \in Nat /\ dead'[u] \in Nat /\ Unspawned(t, from)[u] \in Nat
      BY EndsSound
  <2>2. live[u] \in Nat /\ dead[u] \in Nat /\ spawned[u] \in Nat
      BY DEF TypeOK
  <2> QED BY <2>1, <2>2 DEF Runners
<1>2. Unspawned(t, from) \in [Tasks -> Nat]
    BY EndsSound
<1> QED BY <1>1, <1>2, QuietDispatch

\* A dispatch beside goroutines that stay starts nothing under a pause.
LEMMA QuietBeside ==
    ASSUME TypeOK, TypeOK', diskConf = conf, UNCHANGED <<conf, diskConf, live, dead>>,
           NEW q, NEW run, NEW st, Dispatched(q, run, st, spawned, Limit(conf))
    PROVE  Quiet
<1>1. \A u \in Tasks : spawned[u] + live'[u] + dead'[u] <= Runners(u)
    BY DEF Runners, TypeOK
<1>2. spawned \in [Tasks -> Nat]
    BY DEF TypeOK
<1> QED BY <1>1, <1>2, QuietDispatch

\* A step that leaves the goroutines and the configuration alone.
LEMMA QuietIdle ==
    ASSUME TypeOK, diskConf = conf, UNCHANGED <<conf, diskConf, spawned, live, dead>>
    PROVE  Quiet
BY DEF Quiet, Runners, TypeOK

\* Every step is quiet.
LEMMA QuietStep ==
    ASSUME Writes = {TRUE}, TypeOK, TypeOK', diskConf = conf, [Next]_vars
    PROVE  Quiet
<1>1. ASSUME NEW t \in Tasks, Submit(t) PROVE Quiet
  <2>1. \A u \in Tasks : spawned[u] + live'[u] + dead'[u] <= Runners(u)
      BY <1>1 DEF Submit, TypeOK, Runners
  <2>2. UNCHANGED <<conf, diskConf>> /\ spawned \in [Tasks -> Nat]
      BY <1>1 DEF Submit, TypeOK
  <2> QED BY <1>1, <2>1, <2>2, SubmitStep, QuietDispatch
<1>2. ASSUME NEW t \in Tasks, Launch(t) PROVE Quiet
  <2>1. \A u \in Tasks : Runners(u)' <= Runners(u)
      BY <1>2 DEF Launch, TypeOK, Runners, Plus, Minus
  <2> QED BY <1>2, <2>1 DEF Quiet, Launch, fileVars
<1>3. ASSUME NEW t \in Tasks, NEW from \in {"spawned", "live", "dead"}, TailFails(t, from)
      PROVE  Quiet
  <2>1. UNCHANGED <<conf, diskConf>> /\ Ends(t, from)
      BY <1>3 DEF TailFails
  <2>2. \E q, st : Dispatched(q, running \ {t}, st, Unspawned(t, from), Limit(conf))
      BY <1>3, TailFailsStep
  <2> QED BY <2>1, <2>2, QuietEnd
<1>4. \A t \in Tasks : Unspawned(t, "live") = spawned
    BY DEF Unspawned
<1>5. ASSUME NEW t \in Tasks, TailBackend(t) PROVE Quiet
  <2>1. UNCHANGED <<conf, diskConf>> /\ Ends(t, "live")
      BY <1>5 DEF TailBackend
  <2> QED BY <1>4, <1>5, <2>1, TailBackendStep, QuietEnd
<1>6. ASSUME NEW t \in Tasks, TailSucceeds(t) PROVE Quiet
  <2>1. UNCHANGED <<conf, diskConf>> /\ Ends(t, "live")
      BY <1>6 DEF TailSucceeds
  <2> QED BY <1>4, <1>6, <2>1, TailSucceedsStep, QuietEnd
<1>7. ASSUME NEW t \in Tasks, NEW j \in Jobs, NEW verdict \in {"pass", "blank", "reject"},
             ReviewSucceeds(t, j, verdict)
      PROVE  Quiet
  <2>1. UNCHANGED <<conf, diskConf>> /\ Ends(t, "live")
      BY <1>7 DEF ReviewSucceeds
  <2>2. Reviewed(t, j, verdict)
      BY <1>7, ReviewSucceedsStep
  <2>3. \E q, st : Dispatched(q, running \ {t}, st, spawned, Limit(conf))
      BY <2>2 DEF Reviewed
  <2> QED BY <1>4, <1>7, <2>1, <2>3, QuietEnd
<1>8. ASSUME NEW t \in Tasks, FlowSuspends(t) PROVE Quiet
  <2>1. UNCHANGED <<conf, diskConf>> /\ Ends(t, "spawned")
      BY <1>8 DEF FlowSuspends
  <2> QED BY <1>8, <2>1, FlowSuspendsStep, QuietEnd
<1>9. ASSUME NEW t \in Tasks, NEW good \in BOOLEAN, FlowEnds(t, good) PROVE Quiet
  <2>1. UNCHANGED <<conf, diskConf>> /\ Ends(t, "spawned")
      BY <1>9 DEF FlowEnds
  <2>2. \E q, st : Dispatched(q, running \ {t}, st, Unspawned(t, "spawned"), Limit(conf))
      BY <1>9, FlowEndsStep
  <2> QED BY <1>9, <2>1, <2>2, QuietEnd
<1>10. ASSUME NEW t \in Tasks, KillTask(t) PROVE Quiet
  <2>1. \A u \in Tasks : live'[u] + dead'[u] = live[u] + dead[u]
      BY <1>10, KillTaskStep
  <2>2. UNCHANGED <<spawned, conf, diskConf>>
      BY <1>10 DEF KillTask, fileVars
  <2>3. \A u \in Tasks : Runners(u)' <= Runners(u)
      BY <2>1, <2>2 DEF Runners, TypeOK
  <2> QED BY <2>2, <2>3 DEF Quiet
<1>11. CASE ScanStart
    BY <1>11, QuietIdle DEF ScanStart, runVars, fileVars
<1>12. CASE ScanApply
  <2>1. PICK late \in SUBSET waiting, back \in SUBSET waiting, q \in [Tasks -> Nat],
             st \in [Tasks -> Statuses] :
          /\ \/ Dispatched(q, running, st, spawned, Limit(conf))
             \/ UNCHANGED <<queue, sorted, running, spawned, disk>>
          /\ UNCHANGED <<retries, live, dead, cmd, kills, age, conf, diskConf, ops, crashes>>
      BY <1>12, ScanApplyStep
  <2>2. CASE Dispatched(q, running, st, spawned, Limit(conf))
      BY <2>1, <2>2, QuietBeside
  <2>3. CASE UNCHANGED <<queue, sorted, running, spawned, disk>>
      BY <2>1, <2>3, QuietIdle
  <2> QED BY <2>1, <2>2, <2>3
<1>13. CASE Reclaim
  <2>1. PICK S \in SUBSET running, again \in SUBSET running, q \in [Tasks -> Nat],
             st \in [Tasks -> Statuses] :
          /\ Dispatched(q, running \ S, st, spawned, Limit(conf))
          /\ UNCHANGED <<waiting, live, dead, cmd, kills, age, scan, conf, diskConf, crashes>>
      BY <1>13, ReclaimStep
  <2> QED BY <2>1, QuietBeside
<1>14. ASSUME NEW t \in Tasks, Terminate(t) PROVE Quiet
    BY <1>14, TerminateStep, QuietBeside DEF Terminate
<1>15. ASSUME NEW t \in Tasks,
              Requeue(t) \/ CancelParked(t) \/ PauseTask(t) \/ DeleteTask(t) \/ MoveTask(t)
       PROVE  Quiet
    BY <1>15, QuietIdle DEF Requeue, CancelParked, PauseTask, DeleteTask, MoveTask, runVars, fileVars
<1>16. ASSUME NEW t \in Tasks, CancelQueued(t) PROVE Quiet
    BY <1>16, CancelQueuedStep, QuietBeside DEF CancelQueued
<1>17. ASSUME NEW t \in Tasks, ResumeTask(t) PROVE Quiet
    BY <1>17, ResumeTaskStep, QuietBeside DEF ResumeTask, fileVars, boundVars
<1>18. ASSUME NEW t \in Tasks, RetryTask(t) PROVE Quiet
    BY <1>18, RetryTaskStep, QuietBeside DEF RetryTask, fileVars
<1>19. CASE PauseDispatch \/ ResumeDispatch \/ \E n \in Sizes : SetMaxConcurrent(n)
  <2>1. /\ \/ Dispatched(queue, running, status, spawned, Limit(conf'))
           \/ UNCHANGED <<queue, sorted, running, status, spawned>>
        /\ UNCHANGED <<live, dead, crashes>>
        /\ diskConf' = conf'
      BY <1>19, KnobsStep
  <2>2. conf'.paused => spawned' = spawned
      BY <2>1, NoneStarted
  <2>3. conf'.paused => \A t \in Tasks : Runners(t)' <= Runners(t)
      BY <2>1, <2>2 DEF Runners, TypeOK
  <2> QED BY <2>1, <2>3 DEF Quiet
<1>20. CASE Restart
  <2>1. conf' = diskConf /\ diskConf' = diskConf /\ live' = Nobody /\ dead' = Nobody
      BY <1>20 DEF Restart
  <2>2. conf.paused => spawned' = Nobody
      BY <1>20, RestartStep, NoneStarted
  <2>3. conf.paused => \A t \in Tasks : Runners(t)' <= Runners(t)
      BY <2>1, <2>2 DEF Runners, TypeOK, Nobody
  <2> QED BY <2>1, <2>3 DEF Quiet
<1>21. CASE ScanNothing \/ UNCHANGED vars
    BY <1>21, QuietIdle DEF ScanNothing, vars
<1> QED
    BY <1>1, <1>2, <1>3, <1>5, <1>6, <1>7, <1>8, <1>9, <1>10, <1>11, <1>12, <1>13, <1>14, <1>15,
       <1>16, <1>17, <1>18, <1>19, <1>20, <1>21 DEF Next, Operations, RunEnds

\* As long as the file of the configuration can be written, nothing is started while
\* dispatching is paused, and a restart keeps the pause.
THEOREM PauseHoldsEver ==
    ASSUME Writes = {TRUE}
    PROVE  Spec => PauseHolds
<1>1. Init => diskConf = conf
    BY DEF Init
<1>2. TypeOK /\ TypeOK' /\ diskConf = conf /\ [Next]_vars => (diskConf = conf)' /\ Quiet
    BY QuietStep DEF Quiet
<1>3. Quiet => [conf.paused /\ (conf'.paused \/ crashes' # crashes)
                  => \A t \in Tasks : Runners(t)' <= Runners(t)]_vars
    BY DEF Quiet
<1> QED BY <1>1, <1>2, <1>3, SchedTypeCorrect, PTL DEF Spec, PauseHolds

-----------------------------------------------------------------------------
(* The file.                                                               *)

\* No task waits, in memory or in the file; jobs are in the file; and what is cancelled
\* is not in the file as something else.
FileInv ==
    /\ waiting = {}
    /\ \A t \in Tasks : disk.place[t] # "waiting"
    /\ JobKept
    /\ \A t \in Tasks : status[t] = "cancelled" => disk.status[t] \in {"cancelled", "absent"}

\* What saveTasksLocked writes of one task.
LEMMA ImageOf ==
    ASSUME NEW q \in [Tasks -> Nat], NEW run, NEW hist, NEW st, NEW re, NEW t \in Tasks
    PROVE  LET d == Image(q, run, {}, hist, st, re)
           IN /\ d.place[t] # "waiting"
              /\ q[t] > 0 \/ t \in run \cup hist => d.place[t] # "none"
              /\ d.status[t] \in {"absent", st[t]}
<1> DEFINE d == Image(q, run, {}, hist, st, re)
<1>1. d.place[t] = CASE q[t] > 0 -> "queue"
                     [] q[t] = 0 /\ t \in run -> "running"
                     [] q[t] = 0 /\ t \in {} \ run -> "waiting"
                     [] q[t] = 0 /\ t \in hist \ (run \cup {}) -> "history"
                     [] OTHER -> "none"
    BY DEF Image
<1>2. d.status[t] = IF d.place[t] = "none" THEN "absent" ELSE st[t]
    BY DEF Image
<1>3. q[t] > 0 \/ q[t] = 0
    OBVIOUS
<1> HIDE DEF d
<1>4. CASE q[t] > 0
  <2>1. d.place[t] = "queue"
      BY <1>1, <1>4
  <2> QED BY <1>2, <2>1 DEF d
<1>5. CASE q[t] = 0 /\ t \in run
  <2>1. d.place[t] = "running"
      BY <1>1, <1>5
  <2> QED BY <1>2, <2>1 DEF d
<1>6. CASE q[t] = 0 /\ t \notin run /\ t \in hist
  <2>1. d.place[t] = "history"
      BY <1>1, <1>6
  <2> QED BY <1>2, <2>1 DEF d
<1>7. CASE q[t] = 0 /\ t \notin run /\ t \notin hist
  <2>1. d.place[t] = "none"
      BY <1>1, <1>7
  <2> QED BY <1>2, <1>7, <2>1 DEF d
<1> QED BY <1>3, <1>4, <1>5, <1>6, <1>7

\* A save that is followed by a dispatch of what was saved.
LEMMA FileSaved ==
    ASSUME TypeOK', NEW q \in [Tasks -> Nat], NEW run, NEW st, NEW sp, NEW max, NEW re,
           disk' = Image(q, run, {}, history', st, re), Dispatched(q, run, st, sp, max), waiting' = {}
    PROVE  FileInv'
<1>1. ASSUME NEW t \in Tasks
      PROVE  /\ disk'.place[t] # "waiting"
             /\ q[t] > 0 \/ t \in run \cup history' => disk'.place[t] # "none"
             /\ disk'.status[t] \in {"absent", st[t]}
    BY ImageOf
<1>2. ASSUME NEW j \in Jobs \ ZergFlow, queue'[j] > 0 \/ j \in running' \cup history'
      PROVE  disk'.place[j] # "none"
  <2>1. j \in Tasks /\ q[j] \in Nat /\ queue'[j] \in Nat /\ queue'[j] <= q[j]
      BY DEF Tasks, Dispatched
  <2>2. j \in running' => j \in run \/ q[j] > 0
      BY DEF Dispatched
  <2>3. q[j] > 0 \/ j \in run \cup history'
      BY <1>2, <2>1, <2>2
  <2> QED BY <1>1, <2>1, <2>3
<1>3. ASSUME NEW t \in Tasks, status'[t] = "cancelled"
      PROVE  disk'.status[t] \in {"cancelled", "absent"}
  <2>1. st[t] = "cancelled"
      BY <1>3 DEF Dispatched
  <2> QED BY <1>1, <2>1
<1>4. JobKept'
    BY <1>2 DEF JobKept
<1> QED BY <1>1, <1>3, <1>4 DEF FileInv

\* A step that writes nothing, takes in no job and cancels nothing.
LEMMA FileLeft ==
    ASSUME FileInv, disk' = disk, waiting' = {},
           \A j \in Jobs \ ZergFlow : queue'[j] > 0 \/ j \in running' \cup history'
                                        => queue[j] > 0 \/ j \in running \cup history,
           \A t \in Tasks : status'[t] = "cancelled" => status[t] = "cancelled"
    PROVE  FileInv'
BY DEF FileInv, JobKept

\* Every step keeps the file, as long as nothing is suspended and the file can be written.
LEMMA FileStep ==
    ASSUME Writes = {TRUE}, "suspend" \notin Events, TypeOK, TypeOK', FileInv, [Next]_vars
    PROVE  FileInv'
<1> waiting = {}
    BY DEF FileInv
<1>1. ASSUME NEW t \in Tasks, Submit(t) PROVE FileInv'
  <2> DEFINE q == Push(queue, Pushed(t) \cup {t})
             st == Given(status, Pushed(t) \cup {t}, "queued")
             re == [retries EXCEPT ![t] = 0]
  <2>1. /\ Saved(q, running \ Pushed(t), {}, history, st, re)
        /\ history' = history /\ waiting' = {}
      BY <1>1 DEF Submit
  <2>2. Dispatched(q, running \ Pushed(t), st, spawned, Limit(conf)) /\ q \in [Tasks -> Nat]
      BY <1>1, SubmitStep, PushType DEF TypeOK
  <2> HIDE DEF q, st, re
  <2>3. disk' = Image(q, running \ Pushed(t), {}, history', st, re)
      BY <2>1, SavedIs
  <2> QED BY <2>1, <2>2, <2>3, FileSaved
<1>2. ASSUME NEW t \in Tasks, Launch(t) PROVE FileInv'
    BY <1>2, FileLeft DEF Launch, memVars, fileVars
<1>3. ASSUME NEW t \in Tasks, NEW from \in {"spawned", "live", "dead"}, TailFails(t, from)
      PROVE  FileInv'
  <2>1. PICK q \in [Tasks -> Nat], st \in [Tasks -> Statuses] :
          /\ Dispatched(q, running \ {t}, st, Unspawned(t, from), Limit(conf))
          /\ Saved(q, running \ {t}, {}, history', st, retries')
      BY <1>3, TailFailsStep
  <2>2. waiting' = {}
      BY <1>3 DEF TailFails
  <2>3. disk' = Image(q, running \ {t}, {}, history', st, retries')
      BY <2>1, SavedIs
  <2> QED BY <2>1, <2>2, <2>3, FileSaved
<1>4. ASSUME NEW t \in Tasks, TailBackend(t) PROVE FileInv'
    BY <1>4 DEF TailBackend
<1>5. ASSUME NEW t \in Tasks, TailSucceeds(t) PROVE FileInv'
  <2> DEFINE q == Push(queue, Sent(t))
             st == Given([status EXCEPT ![t] = "done"], Sent(t), "queued")
             re == Given(retries, Sent(t), 0)
  <2>1. Saved(q, running \ {t}, {}, history', st, re) /\ waiting' = {}
      BY <1>5 DEF TailSucceeds
  <2>2. Dispatched(q, running \ {t}, st, spawned, Limit(conf)) /\ q \in [Tasks -> Nat]
      BY <1>5, TailSucceedsStep, PushType DEF TypeOK
  <2> HIDE DEF q, st, re
  <2>3. disk' = Image(q, running \ {t}, {}, history', st, re)
      BY <2>1, SavedIs
  <2> QED BY <2>1, <2>2, <2>3, FileSaved
<1>6. ASSUME NEW t \in Tasks, NEW j \in Jobs, NEW verdict \in {"pass", "blank", "reject"},
             ReviewSucceeds(t, j, verdict)
      PROVE  FileInv'
  <2>1. Reviewed(t, j, verdict) /\ waiting' = {}
      BY <1>6, ReviewSucceedsStep DEF ReviewSucceeds
  <2>2. PICK q \in [Tasks -> Nat], st \in [Tasks -> Statuses] :
          /\ Dispatched(q, running \ {t}, st, spawned, Limit(conf))
          /\ Saved(q, running \ {t}, {}, history', st, retries')
      BY <2>1 DEF Reviewed
  <2>3. disk' = Image(q, running \ {t}, {}, history', st, retries')
      BY <2>2, SavedIs
  <2> QED BY <2>1, <2>2, <2>3, FileSaved
<1>7. ASSUME NEW t \in Tasks, FlowSuspends(t) PROVE FileInv'
    BY <1>7 DEF FlowSuspends
<1>8. ASSUME NEW t \in Tasks, NEW good \in BOOLEAN, FlowEnds(t, good) PROVE FileInv'
  <2>1. disk' = disk /\ waiting' = {} /\ history' = history \cup {t} /\ t \in ZergFlow
      BY <1>8 DEF FlowEnds
  <2>2. PICK q \in [Tasks -> Nat], st \in [Tasks -> Statuses], new \in SUBSET Reviews :
          /\ Dispatched(q, running \ {t}, st, Unspawned(t, "spawned"), Limit(conf))
          /\ q = Push(queue, new)
          /\ st = Given([status EXCEPT ![t] = IF good THEN "reviewing" ELSE "failed"], new, "queued")
      BY <1>8, FlowEndsStep
  <2>3. ASSUME NEW j \in Jobs \ ZergFlow, queue'[j] > 0 \/ j \in running' \cup history'
        PROVE  queue[j] > 0 \/ j \in running \cup history
    <3>1. j \in Tasks /\ j \notin new /\ j # t /\ queue[j] \in Nat
        BY <2>1, SchedAssumption DEF Tasks, TypeOK
    <3>2. q[j] = queue[j]
        BY <2>2, <3>1 DEF Push
    <3>3. queue'[j] \in Nat /\ queue'[j] <= q[j] /\ (j \in running' => j \in running \/ q[j] > 0)
        BY <2>2, <3>1 DEF Dispatched
    <3> QED BY <2>1, <2>3, <3>1, <3>2, <3>3
  <2>4. ASSUME NEW u \in Tasks, status'[u] = "cancelled" PROVE status[u] = "cancelled"
    <3>1. st[u] = "cancelled"
        BY <2>2, <2>4 DEF Dispatched
    <3> QED BY <2>2, <3>1 DEF Given, TypeOK
  <2> QED BY <2>1, <2>3, <2>4, FileLeft
<1>9. ASSUME NEW t \in Tasks, KillTask(t) PROVE FileInv'
    BY <1>9, FileLeft DEF KillTask, memVars, fileVars
<1>10. CASE ScanStart
    BY <1>10 DEF ScanStart
<1>11. CASE ScanApply
  <2>1. PICK late \in SUBSET waiting, back \in SUBSET waiting, q \in [Tasks -> Nat],
             st \in [Tasks -> Statuses] :
          /\ q = Push(queue, back)
          /\ st = Given(Given(status, late, "failed"), back, "queued")
          /\ history' = history \cup late
          /\ waiting' = waiting \ (late \cup back)
          /\ \/ /\ Dispatched(q, running, st, spawned, Limit(conf))
                /\ Saved(q, running, waiting', history', st, retries)
             \/ /\ status' = st
                /\ UNCHANGED <<queue, sorted, running, spawned, disk>>
      BY <1>11, ScanApplyStep
  <2>2. waiting' = {} /\ history' = history
      BY <2>1
  <2>3. CASE /\ Dispatched(q, running, st, spawned, Limit(conf))
             /\ Saved(q, running, waiting', history', st, retries)
    <3>1. disk' = Image(q, running, {}, history', st, retries)
        BY <2>2, <2>3, SavedIs
    <3> QED BY <2>2, <2>3, <3>1, FileSaved
  <2>4. CASE status' = st /\ UNCHANGED <<queue, sorted, running, spawned, disk>>
    <3>1. \A u \in Tasks : status'[u] = status[u]
        BY <2>1, <2>4 DEF Given
    <3> QED BY <2>2, <2>4, <3>1, FileLeft
  <2> QED BY <2>1, <2>3, <2>4
<1>12. CASE Reclaim
  <2>1. PICK S \in SUBSET running, again \in SUBSET running, q \in [Tasks -> Nat],
             st \in [Tasks -> Statuses] :
          /\ Dispatched(q, running \ S, st, spawned, Limit(conf))
          /\ Saved(q, running \ S, waiting, history', st, retries')
          /\ waiting' = waiting
      BY <1>12, ReclaimStep
  <2>2. disk' = Image(q, running \ S, {}, history', st, retries')
      BY <2>1, SavedIs
  <2> QED BY <2>1, <2>2, FileSaved
<1>13. ASSUME NEW t \in Tasks, Terminate(t) PROVE FileInv'
  <2> DEFINE st == [status EXCEPT ![t] = "failed"]
  <2>1. Saved(queue, running \ {t}, {}, history', st, retries) /\ waiting' = {}
      BY <1>13 DEF Terminate
  <2>2. Dispatched(queue, running \ {t}, st, spawned, Limit(conf)) /\ queue \in [Tasks -> Nat]
      BY <1>13, TerminateStep DEF TypeOK
  <2> HIDE DEF st
  <2>3. disk' = Image(queue, running \ {t}, {}, history', st, retries)
      BY <2>1, SavedIs
  <2> QED BY <2>1, <2>2, <2>3, FileSaved
<1>14. ASSUME NEW t \in Tasks, Requeue(t) \/ CancelParked(t) PROVE FileInv'
  <2>1. /\ Saved(queue', running', {}, history', status', retries)
        /\ waiting' = {}
      BY <1>14 DEF Requeue, CancelParked
  <2>2. disk' = Image(queue', running', {}, history', status', retries)
      BY <2>1, SavedIs
  <2>3. queue' \in [Tasks -> Nat]
      BY DEF TypeOK
  <2>4. \A u \in Tasks : /\ disk'.place[u] # "waiting"
                         /\ queue'[u] > 0 \/ u \in running' \cup history' => disk'.place[u] # "none"
                         /\ disk'.status[u] \in {"absent", status'[u]}
      BY <2>2, <2>3, ImageOf
  <2>5. JobKept'
      BY <2>4 DEF JobKept, Tasks
  <2> QED BY <2>1, <2>4, <2>5 DEF FileInv
<1>15. ASSUME NEW t \in Tasks, CancelQueued(t) PROVE FileInv'
  <2> DEFINE q == Minus(queue, t)
             st == [status EXCEPT ![t] = "cancelled"]
  <2>1. /\ Dispatched(q, running, st, spawned, Limit(conf))
        /\ disk' = Image(q, running, {}, history', st, retries)
      BY <1>15, CancelQueuedStep
  <2>2. q \in [Tasks -> Nat] /\ waiting' = {}
      BY <1>15 DEF CancelQueued, TypeOK, Minus
  <2> HIDE DEF q, st
  <2> QED BY <2>1, <2>2, FileSaved
<1>16. ASSUME NEW t \in Tasks, PauseTask(t) \/ MoveTask(t) PROVE FileInv'
  <2>1. \A u \in Tasks : status'[u] = "cancelled" => status[u] = "cancelled"
      BY <1>16 DEF PauseTask, MoveTask, TypeOK
  <2> QED BY <1>16, <2>1, FileLeft DEF PauseTask, MoveTask, fileVars
<1>17. ASSUME NEW t \in Tasks, DeleteTask(t) PROVE FileInv'
  <2>1. \A j \in Tasks : queue'[j] > 0 => queue[j] > 0
      BY <1>17 DEF DeleteTask, TypeOK, Minus
  <2> QED BY <1>17, <2>1, FileLeft DEF DeleteTask, fileVars, Tasks
<1>18. ASSUME NEW t \in Tasks, ResumeTask(t) \/ RetryTask(t) PROVE FileInv'
  <2> DEFINE st == [status EXCEPT ![t] = "queued"]
  <2>1. PICK q \in [Tasks -> Nat] :
          /\ Dispatched(q, running, st, spawned, Limit(conf))
          /\ \A u \in Tasks : q[u] > 0 => queue[u] > 0 \/ u \in history
    <3>1. CASE ResumeTask(t)
        BY <3>1, ResumeTaskStep DEF TypeOK
    <3>2. CASE RetryTask(t)
      <4>1. t \in history
          BY <3>2 DEF RetryTask
      <4>2. Push(queue, {t}) \in [Tasks -> Nat]
          BY PushType DEF TypeOK
      <4>3. \A u \in Tasks : Push(queue, {t})[u] > 0 => queue[u] > 0 \/ u \in history
          BY <4>1 DEF Push
      <4> QED BY <3>2, <4>2, <4>3, RetryTaskStep
    <3> QED BY <1>18, <3>1, <3>2
  <2>2. disk' = disk /\ waiting' = {} /\ history' = history
      BY <1>18 DEF ResumeTask, RetryTask, fileVars
  <2>3. ASSUME NEW u \in Tasks, status'[u] = "cancelled" PROVE status[u] = "cancelled"
    <3>1. st[u] = "cancelled"
        BY <2>1, <2>3 DEF Dispatched
    <3> QED BY <3>1 DEF TypeOK
  <2>4. ASSUME NEW j \in Jobs \ ZergFlow, queue'[j] > 0 \/ j \in running' \cup history'
        PROVE  queue[j] > 0 \/ j \in running \cup history
    <3>1. j \in Tasks /\ q[j] \in Nat
        BY DEF Tasks
    <3>2. queue'[j] \in Nat /\ queue'[j] <= q[j] /\ (j \in running' => j \in running \/ q[j] > 0)
        BY <2>1, <3>1 DEF Dispatched
    <3> QED BY <2>1, <2>2, <2>4, <3>1, <3>2
  <2> QED BY <2>2, <2>3, <2>4, FileLeft
<1>19. CASE PauseDispatch \/ ResumeDispatch \/ \E n \in Sizes : SetMaxConcurrent(n)
  <2>1. /\ \/ Dispatched(queue, running, status, spawned, Limit(conf'))
           \/ UNCHANGED <<queue, sorted, running, status, spawned>>
        /\ UNCHANGED <<waiting, history, disk>>
      BY <1>19, KnobsStep
  <2>2. CASE Dispatched(queue, running, status, spawned, Limit(conf'))
    <3>1. \A u \in Tasks : status'[u] = "cancelled" => status[u] = "cancelled"
        BY <2>2 DEF Dispatched
    <3>2. \A u \in Tasks : queue[u] \in Nat /\ queue'[u] \in Nat /\ queue'[u] <= queue[u]
        BY <2>2 DEF Dispatched, TypeOK
    <3>3. \A u \in running' : u \in running \/ queue[u] > 0
        BY <2>2 DEF Dispatched
    <3>4. \A u \in Tasks : queue'[u] > 0 => queue[u] > 0
        BY <3>2
    <3> QED BY <2>1, <3>1, <3>3, <3>4, FileLeft DEF Tasks
  <2>3. CASE UNCHANGED <<queue, sorted, running, status, spawned>>
      BY <2>1, <2>3, FileLeft
  <2> QED BY <2>1, <2>2, <2>3
<1>20. CASE Restart
  <2> DEFINE q == Push(Nobody, ToQueue)
  <2>1. Dispatched(q, {}, Restored, Nobody, Limit(diskConf))
      BY <1>20, RestartStep
  <2>2. disk' = disk /\ history' = ToHistory /\ waiting' = {}
      BY <1>20 DEF Restart, ToWait, FileInv
  <2>3. \A u \in Tasks : q[u] \in Nat /\ (q[u] > 0 => disk.place[u] = "queue")
      BY DEF Push, Nobody, ToQueue
  <2> HIDE DEF q
  <2>4. ASSUME NEW j \in Jobs \ ZergFlow, queue'[j] > 0 \/ j \in running' \cup history'
        PROVE  disk.place[j] # "none"
    <3>1. j \in Tasks
        BY DEF Tasks
    <3>2. queue'[j] \in Nat /\ queue'[j] <= q[j] /\ (j \in running' => q[j] > 0)
        BY <2>1, <3>1 DEF Dispatched
    <3>3. q[j] > 0 \/ j \in ToHistory
        BY <2>2, <2>3, <2>4, <3>1, <3>2
    <3> QED BY <2>3, <3>1, <3>3 DEF ToHistory
  <2>5. ASSUME NEW u \in Tasks, status'[u] = "cancelled"
        PROVE  disk.status[u] \in {"cancelled", "absent"}
    <3>1. Restored[u] = "cancelled"
        BY <2>1, <2>5 DEF Dispatched
    <3> QED BY <3>1 DEF Restored
  <2>6. JobKept'
      BY <2>2, <2>4 DEF JobKept
  <2> QED BY <2>2, <2>5, <2>6 DEF FileInv
<1>21. CASE ScanNothing \/ UNCHANGED vars
    BY <1>21, FileLeft DEF ScanNothing, vars
<1> QED
    BY <1>1, <1>2, <1>3, <1>4, <1>5, <1>6, <1>7, <1>8, <1>9, <1>10, <1>11, <1>12, <1>13, <1>14,
       <1>15, <1>16, <1>17, <1>18, <1>19, <1>20, <1>21 DEF Next, Operations, RunEnds

\* The file is sound in every state.
LEMMA FileAlways ==
    ASSUME Writes = {TRUE}, "suspend" \notin Events
    PROVE  Spec => []FileInv
<1>1. Init => FileInv
  <2> SUFFICES ASSUME Init PROVE FileInv
    OBVIOUS
  <2>1. disk = Image(Nobody, {}, {}, {}, status, Nobody) /\ Nobody \in [Tasks -> Nat]
      BY DEF Init, Nobody
  <2>2. \A t \in Tasks : disk.place[t] # "waiting"
      BY <2>1, ImageOf
  <2> QED BY <2>2 DEF Init, FileInv, JobKept, Nobody, Tasks
<1>2. TypeOK /\ TypeOK' /\ FileInv /\ [Next]_vars => FileInv'
    BY FileStep
<1> QED BY <1>1, <1>2, SchedTypeCorrect, PTL DEF Spec

\* As long as the file can be written and no task is suspended, every job under way or in
\* the history is in the file, so that a restart finds it.
THEOREM JobKeptEver ==
    ASSUME Writes = {TRUE}, "suspend" \notin Events
    PROVE  Spec => []JobKept
<1>1. FileInv => JobKept
    BY DEF FileInv
<1> QED BY <1>1, FileAlways, PTL

-----------------------------------------------------------------------------
(* What is cancelled.                                                      *)

\* The job is out of reach of every goroutine.
Settled(j) == status[j] = "cancelled" /\ Unheld(j)

\* A settled job has no slot, no goroutine, and none of its reviews has one.
LEMMA SettledAlone ==
    ASSUME SlotInv, NEW j \in Jobs, Settled(j)
    PROVE  /\ j \in Tasks /\ j \notin running
           /\ \A t \in {j, ReviewOf[j], AgainOf[j]} \ {NoTask} :
                t \in Tasks /\ spawned[t] = 0 /\ live[t] = 0 /\ dead[t] = 0
<1>1. j \in Tasks /\ \A t \in {j, ReviewOf[j], AgainOf[j]} \ {NoTask} : t \in Tasks
    BY SchedAssumption DEF Tasks
<1>2. \A t \in {j, ReviewOf[j], AgainOf[j]} \ {NoTask} : Runners(t) = 0
    BY DEF Settled, Unheld
<1>3. \A t \in Tasks : Runners(t) = 0 => spawned[t] = 0 /\ live[t] = 0 /\ dead[t] = 0
    BY DEF Runners, SlotInv, TypeOK
<1>4. j \notin running
    BY <1>1, <1>2, SchedAssumption DEF SlotInv, NoSlotLeak, Tasks
<1> QED BY <1>1, <1>2, <1>3, <1>4

\* A goroutine that ends is none of a settled job or of its reviews.
LEMMA SettledEnds ==
    ASSUME SlotInv, NEW j \in Jobs, Settled(j), NEW t \in Tasks,
           NEW from \in {"spawned", "live", "dead"}, Ends(t, from)
    PROVE  t \notin {j, ReviewOf[j], AgainOf[j]}
<1>1. spawned[t] > 0 \/ live[t] > 0 \/ dead[t] > 0
    BY DEF Ends
<1>2. t # NoTask
    BY SchedAssumption
<1> QED BY <1>1, <1>2, SettledAlone

\* The dispatch loop leaves a cancelled task as it is.
LEMMA DispatchSpares ==
    ASSUME NEW t \in Tasks, NEW q, NEW run, NEW st, NEW sp, NEW max,
           Dispatched(q, run, st, sp, max), st[t] = "cancelled"
    PROVE  status'[t] = "cancelled"
BY DEF Dispatched

\* No step brings a settled job back that does not wait and is cancelled in the file too.
LEMMA SettledStep ==
    ASSUME Writes = {TRUE}, SlotInv, [Next]_vars, NEW j \in Jobs, Settled(j),
           j \notin waiting, disk.status[j] \in {"cancelled", "absent"}
    PROVE  status'[j] \in {"cancelled", "absent"}
<1> TypeOK /\ j \in Tasks /\ j \notin running /\ status[j] = "cancelled"
    BY SettledAlone DEF SlotInv, Settled
<1> DEFINE Goal == status'[j] \in {"cancelled", "absent"}
<1>1. ASSUME NEW t \in Tasks, Submit(t) PROVE Goal
  <2>1. j \notin Pushed(t) \cup {t}
      BY <1>1 DEF Submit, Pushed
  <2>2. Given(status, Pushed(t) \cup {t}, "queued")[j] = "cancelled"
      BY <2>1 DEF Given
  <2> QED BY <1>1, <2>2, SubmitStep, DispatchSpares
<1>2. ASSUME NEW t \in Tasks, Launch(t) \/ KillTask(t) PROVE Goal
    BY <1>2 DEF Launch, KillTask, memVars
<1>3. ASSUME NEW t \in Tasks, NEW from \in {"spawned", "live", "dead"}, TailFails(t, from)
      PROVE  Goal
  <2>1. PICK q \in [Tasks -> Nat], st \in [Tasks -> Statuses] :
          /\ Dispatched(q, running \ {t}, st, Unspawned(t, from), Limit(conf))
          /\ q = (IF Bumped(t) <= MaxRetry THEN Push(queue, {t}) ELSE queue)
          /\ st = [status EXCEPT ![t] = IF Bumped(t) <= MaxRetry THEN "queued" ELSE "failed"]
          /\ Saved(q, running \ {t}, {}, history', st, retries')
      BY <1>3, TailFailsStep
  <2>2. t # j
      BY <1>3, SettledEnds DEF TailFails
  <2>3. st[j] = "cancelled"
      BY <2>1, <2>2 DEF TypeOK
  <2> QED BY <2>1, <2>3, DispatchSpares
<1>4. ASSUME NEW t \in Tasks, TailBackend(t) \/ FlowSuspends(t) PROVE Goal
  <2>1. t # j
      BY <1>4, SettledEnds DEF TailBackend, FlowSuspends
  <2>2. [status EXCEPT ![t] = "waiting_retry"][j] = "cancelled"
      BY <2>1 DEF TypeOK
  <2> QED BY <1>4, <2>2, TailBackendStep, FlowSuspendsStep, DispatchSpares
<1>5. ASSUME NEW t \in Tasks, TailSucceeds(t) PROVE Goal
  <2>1. t # j /\ j \notin Sent(t)
      BY <1>5, SettledEnds DEF TailSucceeds, Once
  <2>2. Given([status EXCEPT ![t] = "done"], Sent(t), "queued")[j] = "cancelled"
      BY <2>1 DEF Given, TypeOK
  <2> QED BY <1>5, <2>2, TailSucceedsStep, DispatchSpares
<1>6. ASSUME NEW t \in Tasks, NEW i \in Jobs, NEW verdict \in {"pass", "blank", "reject"},
             ReviewSucceeds(t, i, verdict)
      PROVE  Goal
  <2>1. Reviewed(t, i, verdict)
      BY <1>6, ReviewSucceedsStep
  <2>2. PICK q \in [Tasks -> Nat], st \in [Tasks -> Statuses], new \in SUBSET Tasks,
             judged \in SUBSET {i} :
          /\ Dispatched(q, running \ {t}, st, spawned, Limit(conf))
          /\ \A u \in new : status[u] = "absent"
          /\ st = Given(Given([status EXCEPT ![t] = "done"], judged, Judged(i, verdict)), new, "queued")
      BY <2>1 DEF Reviewed
  <2>3. t \notin {j, ReviewOf[j], AgainOf[j]} /\ t \in {ReviewOf[i], AgainOf[i]}
      BY <1>6, SettledEnds DEF ReviewSucceeds
  <2>4. j \notin judged /\ j \notin new /\ j # t
      BY <2>2, <2>3
  <2>5. Given([status EXCEPT ![t] = "done"], judged, Judged(i, verdict))[j] = "cancelled"
      BY <2>4 DEF Given, TypeOK
  <2>6. st[j] = "cancelled"
      BY <2>2, <2>4, <2>5 DEF Given
  <2> QED BY <2>2, <2>6, DispatchSpares
<1>7. ASSUME NEW t \in Tasks, NEW good \in BOOLEAN, FlowEnds(t, good) PROVE Goal
  <2>1. PICK q \in [Tasks -> Nat], st \in [Tasks -> Statuses], new \in SUBSET Reviews :
          /\ Dispatched(q, running \ {t}, st, Unspawned(t, "spawned"), Limit(conf))
          /\ q = Push(queue, new)
          /\ \A u \in new : status[u] = "absent"
          /\ st = Given([status EXCEPT ![t] = IF good THEN "reviewing" ELSE "failed"],
                        new, "queued")
      BY <1>7, FlowEndsStep
  <2>2. t # j /\ j \notin new
      BY <1>7, <2>1, SettledEnds DEF FlowEnds
  <2>3. st[j] = "cancelled"
      BY <2>1, <2>2 DEF Given, TypeOK
  <2> QED BY <2>1, <2>3, DispatchSpares
<1>8. CASE ScanStart
    BY <1>8 DEF ScanStart, memVars
<1>9. CASE ScanApply
  <2>1. PICK late \in SUBSET waiting, back \in SUBSET waiting, q \in [Tasks -> Nat],
             st \in [Tasks -> Statuses] :
          /\ st = Given(Given(status, late, "failed"), back, "queued")
          /\ Dispatched(q, running, st, spawned, Limit(conf)) \/ status' = st
      BY <1>9, ScanApplyStep
  <2>2. st[j] = "cancelled"
      BY <2>1 DEF Given
  <2> QED BY <2>1, <2>2, DispatchSpares
<1>10. CASE Reclaim
  <2>1. PICK S \in SUBSET running, again \in SUBSET running, q \in [Tasks -> Nat],
             st \in [Tasks -> Statuses] :
          /\ Dispatched(q, running \ S, st, spawned, Limit(conf))
          /\ st = Given(Given(status, S, "failed"), again, "queued")
      BY <1>10, ReclaimStep
  <2>2. st[j] = "cancelled"
      BY <2>1 DEF Given
  <2> QED BY <2>1, <2>2, DispatchSpares
<1>11. ASSUME NEW t \in Tasks, Terminate(t) PROVE Goal
  <2>1. t # j
      BY <1>11 DEF Terminate
  <2>2. [status EXCEPT ![t] = "failed"][j] = "cancelled"
      BY <2>1 DEF TypeOK
  <2> QED BY <1>11, <2>2, TerminateStep, DispatchSpares
<1>12. ASSUME NEW t \in Tasks,
              Requeue(t) \/ CancelParked(t) \/ PauseTask(t) \/ DeleteTask(t) \/ MoveTask(t)
       PROVE  Goal
    BY <1>12 DEF Requeue, CancelParked, PauseTask, DeleteTask, MoveTask, TypeOK
<1>13. ASSUME NEW t \in Tasks, CancelQueued(t) PROVE Goal
  <2>1. [status EXCEPT ![t] = "cancelled"][j] = "cancelled"
      BY DEF TypeOK
  <2> QED BY <1>13, <2>1, CancelQueuedStep, DispatchSpares
<1>14. ASSUME NEW t \in Tasks, ResumeTask(t) \/ RetryTask(t) PROVE Goal
  <2>1. t # j
      BY <1>14 DEF ResumeTask, RetryTask
  <2>2. [status EXCEPT ![t] = "queued"][j] = "cancelled"
      BY <2>1 DEF TypeOK
  <2> QED BY <1>14, <2>2, ResumeTaskStep, RetryTaskStep, DispatchSpares
<1>15. CASE PauseDispatch \/ ResumeDispatch \/ \E n \in Sizes : SetMaxConcurrent(n)
  <2>1. \/ Dispatched(queue, running, status, spawned, Limit(conf'))
        \/ UNCHANGED <<queue, sorted, running, status, spawned>>
      BY <1>15, KnobsStep
  <2> QED BY <2>1, DispatchSpares
<1>16. CASE Restart
  <2>1. Dispatched(Push(Nobody, ToQueue), {}, Restored, Nobody, Limit(diskConf))
      BY <1>16, RestartStep
  <2>2. j \notin ToQueue
      BY DEF ToQueue
  <2>3. Restored[j] \in {"cancelled", "absent"} /\ ~(Push(Nobody, ToQueue)[j] > 0)
      BY <2>2 DEF Restored, Push, Nobody
  <2> QED BY <2>1, <2>3 DEF Dispatched
<1>17. CASE ScanNothing \/ UNCHANGED vars
    BY <1>17 DEF ScanNothing, vars
<1> QED
    BY <1>1, <1>2, <1>3, <1>4, <1>5, <1>6, <1>7, <1>8, <1>9, <1>10, <1>11, <1>12, <1>13, <1>14,
       <1>15, <1>16, <1>17 DEF Next, Operations, RunEnds

\* As long as the file can be written and no task is suspended, a cancelled job that no
\* goroutine holds is not brought back: not by a second entry in the queue, a retry or a
\* reclaim, nor by a restart from a file with one entry of each id. A file with two
\* (FileOnce) brings it back as an object that was not cancelled.
THEOREM CancelFinalEver ==
    ASSUME Writes = {TRUE}, "suspend" \notin Events
    PROVE  Spec => CancelFinal
<1>1. SlotInv /\ FileInv /\ [Next]_vars
        => [\A j \in Jobs : status[j] = "cancelled" /\ Unheld(j) /\ (crashes' # crashes => FileOnce)
                               => status'[j] \in {"cancelled", "absent"}]_vars
  <2>1. FileInv => \A j \in Jobs : /\ j \notin waiting
                                   /\ status[j] = "cancelled"
                                        => disk.status[j] \in {"cancelled", "absent"}
      BY DEF FileInv, Tasks
  <2> QED BY <2>1, SettledStep DEF Settled
<1> QED BY <1>1, SlotsAlways, FileAlways, PTL DEF Spec, CancelFinal
=============================================================================
