---------------------------- MODULE PlacesProofs ----------------------------
(***************************************************************************)
(* Theorems about MasterScheduler where nothing takes a task from a        *)
(* goroutine that runs it: a task is in one place, once, and a job that is *)
(* done is not run again. Both rest on what a review under way says of its *)
(* job: the job has ended, and it has no other review.                     *)
(***************************************************************************)
EXTENDS MasterSchedulerProofs

ReviewsOf(j) == {ReviewOf[j], AgainOf[j]} \ {NoTask}

\* No external task pushes another aside, no user takes a running task away, the ids of
\* reviews differ, and the controller does not restart or has forgotten no task.
Undisturbed ==
    /\ External = {}
    /\ {"terminate", "requeue", "reclaim"} \cap Events = {}
    /\ \A i, j \in Jobs : i # j => ReviewsOf(i) \cap ReviewsOf(j) = {}
    /\ MaxCrashes = 0 \/ Cardinality(Tasks) <= MaxHistory

\* The task is under way, or may come back by a retry.
Open(st, t) == st[t] \notin {"absent", "done"}

\* A review that may still give a verdict is the only one of its job, which has ended:
\* no verdict falls on a job that is queued, running or waiting.
OneReview(st) ==
    \A j \in Jobs : \A r \in ReviewsOf(j) :
        Open(st, r) => /\ st[j] \in {"done", "reviewing"}
                       /\ \A s \in ReviewsOf(j) \ {r} : ~Open(st, s)

\* The status of a task says where it is.
Ruled(q, run, wait, hist, st) ==
    /\ \A t \in Tasks : /\ q[t] <= 1
                        /\ q[t] > 0 => st[t] \in {"queued", "paused"}
                        /\ t \in run => st[t] = "running"
                        /\ t \in wait => st[t] = "waiting_retry"
    /\ OneReview(st)
    /\ MaxCrashes > 0 => \A j \in Jobs : st[j] \in {"done", "reviewing"} => j \in hist

\* So many goroutines as there are slots in use.
Staffed(run, sp, lv, dd) ==
    \A t \in Tasks : sp[t] + lv[t] + dd[t] = IF t \in run THEN 1 ELSE 0

\* The file is that of such a state, with one entry of each id, and knows of every job
\* that is done, unless it has been trimmed from the history.
FileRuled(file) ==
    /\ file.twice = {}
    /\ MaxCrashes > 0 => /\ OneReview(file.status)
                         /\ \A t \in Tasks : file.place[t] = "none" => file.status[t] = "absent"
DoneSaved(st, file) ==
    Writes = {TRUE} /\ MaxCrashes > 0
        => \A j \in Jobs : st[j] = "done" => file.status[j] \in {"done", "absent"}

PlaceInv ==
    /\ Ruled(queue, running, waiting, history, status)
    /\ Staffed(running, spawned, live, dead)
    /\ FileRuled(disk)
    /\ DoneSaved(status, disk)

\* What a step other than a restart does with a job that is done.
DoneStep ==
    /\ crashes' = crashes
    /\ \A j \in Jobs : status[j] = "done" => status'[j] \in {"done", "failed"}

-----------------------------------------------------------------------------
(* What the dispatch loop, a save and a trimmed history keep.              *)

\* A task that is at most once in the queue is started at most once.
LEMMA DispatchOne ==
    ASSUME NEW q \in [Tasks -> Nat], NEW run \in SUBSET Tasks, NEW st \in [Tasks -> Statuses],
           NEW sp \in [Tasks -> Nat], NEW max \in Nat, NEW heap \in BOOLEAN,
           DispatchWith(q, run, st, sp, max, heap), NEW t \in Tasks, q[t] <= 1
    PROVE  \/ /\ queue'[t] <= q[t] /\ status'[t] = st[t] /\ spawned'[t] = sp[t]
              /\ (t \in running') = (t \in run)
           \/ /\ q[t] = 1 /\ queue'[t] = 0 /\ status'[t] = "running"
              /\ t \in running' /\ spawned'[t] = sp[t] + 1
<1>1. PICK take \in [Queued(q) -> UNION {0..q[u] : u \in Tasks}] :
          /\ Popped(q, run, st, max, heap, take)
          /\ queue' = [u \in Tasks |-> IF u \in Queued(q) THEN q[u] - take[u] ELSE 0]
          /\ running' = run \cup {u \in Queued(q) : take[u] > 0 /\ st[u] # "cancelled"}
          /\ status' = Given(st, {u \in Queued(q) : take[u] > 0 /\ st[u] # "cancelled"}, "running")
          /\ spawned' = [u \in Tasks |->
                           IF u \in {v \in Queued(q) : take[v] > 0 /\ st[v] # "cancelled"}
                             THEN sp[u] + take[u] ELSE sp[u]]
    BY DEF DispatchWith
<1>2. t \in Queued(q) => take[t] \in Nat /\ take[t] <= q[t] /\ q[t] > 0
    BY <1>1 DEF Popped, Queued
<1>3. CASE t \in Queued(q) /\ take[t] > 0 /\ st[t] # "cancelled"
  <2>1. q[t] = 1 /\ take[t] = 1
      BY <1>2, <1>3
  <2> QED BY <1>1, <1>3, <2>1 DEF Given
<1>4. CASE ~(t \in Queued(q) /\ take[t] > 0 /\ st[t] # "cancelled")
  <2>1. /\ status'[t] = st[t] /\ spawned'[t] = sp[t] /\ (t \in running') = (t \in run)
      BY <1>1, <1>4 DEF Given
  <2>2. queue'[t] <= q[t]
      BY <1>1, <1>2
  <2> QED BY <2>1, <2>2
<1> QED BY <1>3, <1>4

\* Statuses may change where no review is opened and no job with an open review leaves
\* its end.
LEMMA ReviewsKept ==
    ASSUME NEW st, NEW st2, OneReview(st),
           \A r \in Reviews : Open(st2, r) => Open(st, r),
           \A j \in Jobs : st[j] \in {"done", "reviewing"} => st2[j] \in {"done", "reviewing"}
    PROVE  OneReview(st2)
<1>1. \A j \in Jobs : ReviewsOf(j) \subseteq Reviews
    BY SchedAssumption DEF ReviewsOf
<1> QED BY <1>1 DEF OneReview

\* The dispatch loop keeps the rule, and starts one goroutine for each slot it fills.
LEMMA DispatchRuled ==
    ASSUME NEW q \in [Tasks -> Nat], NEW run \in SUBSET Tasks, NEW st \in [Tasks -> Statuses],
           NEW sp \in [Tasks -> Nat], NEW max \in Nat, NEW heap \in BOOLEAN,
           DispatchWith(q, run, st, sp, max, heap), NEW wait, NEW hist,
           NEW lv \in [Tasks -> Nat], NEW dd \in [Tasks -> Nat],
           Ruled(q, run, wait, hist, st), Staffed(run, sp, lv, dd)
    PROVE  /\ Ruled(queue', running', wait, hist, status')
           /\ Staffed(running', spawned', lv, dd)
           /\ \A t \in Tasks : \/ status'[t] = st[t]
                               \/ status'[t] = "running" /\ st[t] \in {"queued", "paused"}
<1>1. /\ queue' \in [Tasks -> Nat] /\ running' \subseteq Tasks
      /\ status' \in [Tasks -> Statuses] /\ spawned' \in [Tasks -> Nat]
  <2>1. Dispatched(q, run, st, sp, max)
      BY DispatchSound
  <2> QED BY <2>1 DEF Dispatched
<1>2. \A t \in Tasks :
         \/ /\ queue'[t] <= q[t] /\ status'[t] = st[t] /\ spawned'[t] = sp[t]
            /\ (t \in running') = (t \in run)
         \/ /\ q[t] = 1 /\ queue'[t] = 0 /\ status'[t] = "running"
            /\ t \in running' /\ spawned'[t] = sp[t] + 1
    BY DispatchOne DEF Ruled
<1>3. \A t \in Tasks : /\ q[t] <= 1
                       /\ q[t] > 0 => st[t] \in {"queued", "paused"}
                       /\ t \in run => st[t] = "running"
                       /\ t \in wait => st[t] = "waiting_retry"
    BY DEF Ruled
<1>4. \A t \in Tasks : \/ status'[t] = st[t]
                       \/ status'[t] = "running" /\ st[t] \in {"queued", "paused"}
    BY <1>2, <1>3
<1>5. \A t \in Tasks : /\ queue'[t] <= 1
                       /\ queue'[t] > 0 => status'[t] \in {"queued", "paused"}
                       /\ t \in running' => status'[t] = "running"
                       /\ t \in wait => status'[t] = "waiting_retry"
    BY <1>1, <1>2, <1>3
<1>6. OneReview(status')
  <2>1. \A r \in Reviews : Open(status', r) => Open(st, r)
      BY <1>4 DEF Open, Tasks
  <2>2. \A j \in Jobs : st[j] \in {"done", "reviewing"} => status'[j] \in {"done", "reviewing"}
      BY <1>4 DEF Tasks
  <2> QED BY <2>1, <2>2, ReviewsKept DEF Ruled
<1>7. MaxCrashes > 0 => \A j \in Jobs : status'[j] \in {"done", "reviewing"} => j \in hist
    BY <1>4 DEF Ruled, Tasks
<1>8. Staffed(running', spawned', lv, dd)
  <2> SUFFICES ASSUME NEW t \in Tasks
               PROVE  spawned'[t] + lv[t] + dd[t] = IF t \in running' THEN 1 ELSE 0
      BY DEF Staffed
  <2>1. sp[t] + lv[t] + dd[t] = IF t \in run THEN 1 ELSE 0
      BY DEF Staffed
  <2>2. q[t] = 1 => t \notin run
      BY <1>3
  <2> QED BY <1>1, <1>2, <2>1, <2>2
<1> QED BY <1>4, <1>5, <1>6, <1>7, <1>8 DEF Ruled

\* The file of an orderly state is orderly, whatever it leaves out of the waiting tasks.
LEMMA SavedRuled ==
    ASSUME NEW q \in [Tasks -> Nat], NEW run, NEW wait, NEW hist, NEW st, NEW re,
           NEW w, Ruled(q, run, w, hist, st), wait \subseteq w, FileRuled(disk),
           Saved(q, run, wait, hist, st, re)
    PROVE  FileRuled(disk') /\ DoneSaved(st, disk')
<1> DEFINE img == Image(q, run, wait, hist, st, re)
<1>1. (disk' = img \/ disk' = disk) /\ (Writes = {TRUE} => disk' = img)
    BY SavedIs DEF Saved
<1>2. \A t \in Tasks : /\ img.status[t] \in {st[t], "absent"}
                       /\ t \in hist => img.status[t] = st[t]
                       /\ img.place[t] = "none" => img.status[t] = "absent"
  <2> DEFINE place == [t \in Tasks |-> CASE q[t] > 0 -> "queue"
                                         [] q[t] = 0 /\ t \in run -> "running"
                                         [] q[t] = 0 /\ t \in wait \ run -> "waiting"
                                         [] q[t] = 0 /\ t \in hist \ (run \cup wait) -> "history"
                                         [] OTHER -> "none"]
  <2>1. img.status = [t \in Tasks |-> IF place[t] = "none" THEN "absent" ELSE st[t]]
      BY DEF Image
  <2>2. \A t \in hist \cap Tasks : place[t] # "none"
      OBVIOUS
  <2>3. img.place = place
      BY DEF Image
  <2> HIDE DEF place, img
  <2> QED BY <2>1, <2>2, <2>3
<1> HIDE DEF img
<1>3. MaxCrashes > 0 => OneReview(img.status)
  <2> SUFFICES ASSUME MaxCrashes > 0, NEW j \in Jobs, NEW r \in ReviewsOf(j), Open(img.status, r)
               PROVE  /\ img.status[j] \in {"done", "reviewing"}
                      /\ \A s \in ReviewsOf(j) \ {r} : ~Open(img.status, s)
      BY DEF OneReview
  <2>1. ReviewsOf(j) \subseteq Tasks /\ j \in Tasks
      BY SchedAssumption DEF ReviewsOf, Tasks
  <2>2. Open(st, r)
      BY <1>2, <2>1 DEF Open
  <2>3. st[j] \in {"done", "reviewing"} /\ \A s \in ReviewsOf(j) \ {r} : ~Open(st, s)
      BY <2>2 DEF Ruled, OneReview
  <2>4. j \in hist
      BY <2>3 DEF Ruled
  <2> QED BY <1>2, <2>1, <2>3, <2>4 DEF Open
<1>4. \A j \in Jobs : st[j] = "done" => img.status[j] \in {"done", "absent"}
    BY <1>2 DEF Tasks
<1>5. img.twice = {}
  <2>1. \A t \in Tasks : ~(q[t] > 1 \/ (q[t] > 0 /\ t \in run \cup wait) \/ t \in run \cap wait)
      BY DEF Ruled
  <2> QED BY <2>1 DEF Image, img
<1>6. FileRuled(img)
    BY <1>2, <1>3, <1>5 DEF FileRuled
<1> QED BY <1>1, <1>4, <1>6 DEF DoneSaved

\* With fewer tasks than the history holds nothing is trimmed from it.
LEMMA NothingTrimmed ==
    ASSUME Undisturbed, MaxCrashes > 0, NEW h \in SUBSET Tasks, NEW t, NEW st,
           NEW h2 \in Trims(h, t, st)
    PROVE  h2 = h
<1>1. IsFiniteSet(Tasks) /\ Cardinality(Tasks) \in Nat /\ MaxHistory \in Nat
    BY SchedAssumption, FS_CardinalityType
<1>2. Cardinality(h) <= Cardinality(Tasks) /\ Cardinality(h) \in Nat
    BY <1>1, FS_Subset, FS_CardinalityType
<1>3. Cardinality(h) <= MaxHistory
    BY <1>1, <1>2, SchedAssumption DEF Undisturbed
<1> QED BY <1>3 DEF Trims

-----------------------------------------------------------------------------
(* Two ways to end a step: with the dispatch loop, and without it.         *)

\* A section that does not write leaves the file as orderly as it was.
LEMMA FileStays ==
    ASSUME PlaceInv, disk' = disk, NEW st,
           \A j \in Jobs : st[j] = "done" => status[j] = "done"
    PROVE  FileRuled(disk') /\ DoneSaved(st, disk')
BY DEF PlaceInv, FileRuled, DoneSaved

\* The section ends without a dispatch.
LEMMA Still ==
    ASSUME Ruled(queue', running', waiting', history', status'),
           Staffed(running', spawned', live', dead'), UNCHANGED crashes,
           FileRuled(disk'), DoneSaved(status', disk'),
           \A j \in Jobs : status[j] = "done" => status'[j] \in {"done", "failed"}
    PROVE  PlaceInv' /\ DoneStep
BY DEF PlaceInv, DoneStep

\* The section ends with the dispatch loop.
LEMMA Finish ==
    ASSUME NEW q \in [Tasks -> Nat], NEW run \in SUBSET Tasks,
           NEW st \in [Tasks -> Statuses], NEW sp \in [Tasks -> Nat],
           NEW max \in Nat, NEW heap \in BOOLEAN,
           DispatchWith(q, run, st, sp, max, heap),
           live' \in [Tasks -> Nat], dead' \in [Tasks -> Nat],
           Ruled(q, run, waiting', history', st),
           Staffed(run, sp, live', dead'), UNCHANGED crashes,
           FileRuled(disk'), DoneSaved(st, disk'),
           \A j \in Jobs : status[j] = "done" => st[j] \in {"done", "failed"}
    PROVE  PlaceInv' /\ DoneStep
<1>1. /\ Ruled(queue', running', waiting', history', status')
      /\ Staffed(running', spawned', live', dead')
      /\ \A t \in Tasks : \/ status'[t] = st[t]
                          \/ status'[t] = "running" /\ st[t] \in {"queued", "paused"}
    BY DispatchRuled
<1>2. DoneSaved(status', disk')
    BY <1>1 DEF DoneSaved, Tasks
<1>3. \A j \in Jobs : status[j] = "done" => status'[j] \in {"done", "failed"}
    BY <1>1 DEF Tasks
<1> QED BY <1>1, <1>2, <1>3 DEF PlaceInv, DoneStep

Moved(M, q, run, wait, hist, st) ==
    /\ \A u \in Tasks \ M : /\ q[u] = queue[u] /\ st[u] = status[u]
                            /\ u \in run => u \in running
                            /\ u \in wait => u \in waiting
    /\ \A u \in M : /\ status[u] \notin {"done", "reviewing"}
                    /\ status[u] # "absent" \/ u \in Jobs
                    /\ st[u] \notin {"done", "reviewing"}
                    /\ q[u] <= 1
                    /\ q[u] > 0 => st[u] \in {"queued", "paused"}
                    /\ u \in run => st[u] = "running"
                    /\ u \in wait => st[u] = "waiting_retry"
    /\ MaxCrashes > 0 => history \subseteq hist

\* Tasks that have not ended, and new jobs, may move to where their new status says.
LEMMA Moves ==
    ASSUME PlaceInv, NEW M \in SUBSET Tasks, NEW q, NEW run, NEW wait, NEW hist, NEW st,
           Moved(M, q, run, wait, hist, st)
    PROVE  /\ Ruled(q, run, wait, hist, st)
           /\ \A j \in Jobs : (status[j] = "done") = (st[j] = "done")
<1>1. Ruled(queue, running, waiting, history, status)
    BY DEF PlaceInv
<1>2. \A t \in Tasks : /\ q[t] <= 1
                       /\ q[t] > 0 => st[t] \in {"queued", "paused"}
                       /\ t \in run => st[t] = "running"
                       /\ t \in wait => st[t] = "waiting_retry"
    BY <1>1 DEF Ruled, Moved
<1>3. \A j \in Jobs : (status[j] \in {"done", "reviewing"}) = (st[j] \in {"done", "reviewing"})
    BY DEF Tasks, Moved
<1>4. OneReview(st)
  <2>1. \A r \in Reviews : Open(st, r) => Open(status, r)
      BY SchedAssumption DEF Open, Tasks, Moved
  <2> QED BY <1>1, <1>3, <2>1, ReviewsKept DEF Ruled
<1>5. MaxCrashes > 0 => \A j \in Jobs : st[j] \in {"done", "reviewing"} => j \in hist
    BY <1>1, <1>3 DEF Ruled, Moved
<1>6. \A j \in Jobs : (status[j] = "done") = (st[j] = "done")
    BY DEF Tasks, Moved
<1> QED BY <1>2, <1>4, <1>5, <1>6 DEF Ruled

\* The same for one task.
LEMMA MovesOne ==
    ASSUME PlaceInv, NEW t \in Tasks, NEW q, NEW run, NEW wait, NEW hist, NEW st,
           \A u \in Tasks \ {t} : /\ q[u] = queue[u] /\ st[u] = status[u]
                                  /\ u \in run => u \in running
                                  /\ u \in wait => u \in waiting,
           status[t] \notin {"done", "reviewing"}, status[t] # "absent" \/ t \in Jobs,
           st[t] \notin {"done", "reviewing"},
           q[t] <= 1, q[t] > 0 => st[t] \in {"queued", "paused"},
           t \in run => st[t] = "running", t \in wait => st[t] = "waiting_retry",
           MaxCrashes > 0 => history \subseteq hist
    PROVE  /\ Ruled(q, run, wait, hist, st)
           /\ \A j \in Jobs : (status[j] = "done") = (st[j] = "done")
<1> DEFINE M == {t}
<1>1. M \in SUBSET Tasks
    OBVIOUS
<1>2. Moved(M, q, run, wait, hist, st)
    BY DEF Moved
<1> HIDE DEF M
<1> QED BY <1>1, <1>2, Moves

\* The goroutine that ends is the only one of its task, and held its slot.
LEMMA EndsOne ==
    ASSUME TypeOK, PlaceInv, NEW t \in Tasks, NEW from \in {"spawned", "live", "dead"}, Ends(t, from)
    PROVE  /\ t \in running /\ status[t] = "running" /\ queue[t] = 0 /\ t \notin waiting
           /\ Staffed(running \ {t}, Unspawned(t, from), live', dead')
           /\ live' \in [Tasks -> Nat] /\ dead' \in [Tasks -> Nat]
           /\ Unspawned(t, from) \in [Tasks -> Nat]
<1>1. /\ live' \in [Tasks -> Nat] /\ dead' \in [Tasks -> Nat]
      /\ Unspawned(t, from) \in [Tasks -> Nat]
      /\ \A u \in Tasks \ {t} : /\ live'[u] = live[u] /\ dead'[u] = dead[u]
                                /\ Unspawned(t, from)[u] = spawned[u]
    BY EndsSound
<1>2. spawned[t] \in Nat /\ live[t] \in Nat /\ dead[t] \in Nat /\ queue[t] \in Nat
    BY DEF TypeOK
<1>3. /\ spawned[t] + live[t] + dead[t] > 0
      /\ Unspawned(t, from)[t] + live'[t] + dead'[t] + 1 = spawned[t] + live[t] + dead[t]
  <2>1. CASE from = "live"
      BY <1>2, <2>1 DEF Ends, Unspawned, Minus, TypeOK
  <2>2. CASE from = "dead"
      BY <1>2, <2>2 DEF Ends, Unspawned, Minus, TypeOK
  <2>3. CASE from = "spawned"
      BY <1>2, <2>3 DEF Ends, Unspawned, Minus, TypeOK
  <2> QED BY <2>1, <2>2, <2>3
<1>4. \A u \in Tasks : spawned[u] + live[u] + dead[u] = IF u \in running THEN 1 ELSE 0
    BY DEF PlaceInv, Staffed
<1>5. t \in running
    BY <1>3, <1>4
<1>6. status[t] = "running" /\ queue[t] = 0 /\ t \notin waiting
    BY <1>2, <1>5 DEF PlaceInv, Ruled
<1>7. Staffed(running \ {t}, Unspawned(t, from), live', dead')
  <2> SUFFICES ASSUME NEW u \in Tasks
               PROVE  Unspawned(t, from)[u] + live'[u] + dead'[u]
                        = IF u \in running \ {t} THEN 1 ELSE 0
      BY DEF Staffed
  <2>1. CASE u = t
    <3>1. Unspawned(t, from)[t] \in Nat /\ live'[t] \in Nat /\ dead'[t] \in Nat
        BY <1>1
    <3>2. spawned[t] + live[t] + dead[t] = 1
        BY <1>4, <1>5
    <3>3. Unspawned(t, from)[t] + live'[t] + dead'[t] = 0
        BY <1>2, <1>3, <3>1, <3>2
    <3> QED BY <2>1, <3>3
  <2>2. CASE u # t
      BY <1>1, <1>4, <2>2
  <2> QED BY <2>1, <2>2
<1> QED BY <1>1, <1>5, <1>6, <1>7

-----------------------------------------------------------------------------
(* One lemma per operation.                                                *)

\* Submit: nothing is pushed aside.
LEMMA SubmitPlaces ==
    ASSUME Undisturbed, TypeOK, PlaceInv, NEW t \in Tasks, Submit(t)
    PROVE  PlaceInv' /\ DoneStep
<1> DEFINE q == Push(queue, {t})
           st == Given(status, {t}, "queued")
           re == [retries EXCEPT ![t] = 0]
<1>1. Pushed(t) = {} /\ Pushed(t) \cup {t} = {t} /\ running \ Pushed(t) = running
    BY DEF Pushed, Undisturbed
<1>2. /\ t \in Requests /\ status[t] = "absent"
      /\ live' = [u \in Tasks |-> live[u]] /\ dead' = [u \in Tasks |-> dead[u]]
      /\ Saved(q, running, {}, history, st, re)
      /\ DispatchWith(q, running, st, spawned, Limit(conf), sorted)
      /\ UNCHANGED <<waiting, history, crashes>>
    BY <1>1 DEF Submit, Dispatch
<1>3. q \in [Tasks -> Nat] /\ st \in [Tasks -> Statuses]
    BY PushType, GivenType DEF TypeOK, Statuses
<1>4. live' = live /\ dead' = dead
    BY <1>2 DEF TypeOK
<1>5. /\ \A u \in Tasks \ {t} : q[u] = queue[u] /\ st[u] = status[u]
      /\ q[t] = queue[t] + 1 /\ st[t] = "queued"
    BY DEF Push, Given
<1>6. queue[t] = 0 /\ t \notin running /\ t \notin waiting
    BY <1>2 DEF PlaceInv, Ruled, TypeOK
<1> HIDE DEF q, st
<1>7. /\ Ruled(q, running, waiting, history, st)
      /\ \A j \in Jobs : (status[j] = "done") = (st[j] = "done")
  <2>1. t \in Jobs
      BY <1>2 DEF Jobs
  <2>2. /\ \A u \in Tasks \ {t} : /\ q[u] = queue[u] /\ st[u] = status[u]
                                  /\ u \in running => u \in running
                                  /\ u \in waiting => u \in waiting
        /\ q[t] <= 1 /\ (q[t] > 0 => st[t] \in {"queued", "paused"})
        /\ st[t] \notin {"done", "reviewing"}
      BY <1>5, <1>6
  <2> QED BY <1>2, <1>6, <2>1, <2>2, MovesOne
<1>8. Staffed(running, spawned, live', dead')
    BY <1>4 DEF PlaceInv
<1>9. FileRuled(disk') /\ DoneSaved(st, disk')
    BY <1>2, <1>3, <1>7, SavedRuled DEF PlaceInv
<1> QED
    BY <1>2, <1>3, <1>4, <1>7, <1>8, <1>9, Finish, LimitType DEF TypeOK

\* Launch, and the kill: the goroutine goes on in another way.
LEMMA LaunchKillPlaces ==
    ASSUME TypeOK, PlaceInv, NEW t \in Tasks, Launch(t) \/ KillTask(t)
    PROVE  PlaceInv' /\ DoneStep
<1>1. UNCHANGED <<queue, running, waiting, history, status, disk, crashes>>
    BY DEF Launch, KillTask, memVars, fileVars, boundVars
<1>2. \A u \in Tasks : spawned'[u] + live'[u] + dead'[u] = spawned[u] + live[u] + dead[u]
  <2>1. CASE Launch(t)
      BY <2>1 DEF Launch, Minus, Plus, TypeOK
  <2>2. CASE KillTask(t)
    <3>1. CASE t \in running \cap cmd
      <4>1. live[t] > 0
          BY <3>1 DEF TypeOK
      <4> QED BY <2>2, <3>1, <4>1 DEF KillTask, Minus, Plus, TypeOK
    <3>2. CASE t \notin running \cap cmd
        BY <2>2, <3>2 DEF KillTask
    <3> QED BY <3>1, <3>2
  <2> QED BY <2>1, <2>2
<1>3. Staffed(running', spawned', live', dead')
    BY <1>1, <1>2 DEF PlaceInv, Staffed
<1>4. Ruled(queue', running', waiting', history', status')
    BY <1>1 DEF PlaceInv
<1>5. FileRuled(disk') /\ DoneSaved(status', disk')
    BY <1>1 DEF PlaceInv
<1>6. \A j \in Jobs : status[j] = "done" => status'[j] \in {"done", "failed"}
    BY <1>1
<1> QED BY <1>1, <1>3, <1>4, <1>5, <1>6, Still

\* The failing tail of runTask.
LEMMA TailFailsPlaces ==
    ASSUME Undisturbed, TypeOK, PlaceInv, NEW t \in Tasks,
           NEW from \in {"spawned", "live", "dead"}, TailFails(t, from)
    PROVE  PlaceInv' /\ DoneStep
<1> DEFINE again == Bumped(t) <= MaxRetry
           q == IF again THEN Push(queue, {t}) ELSE queue
           st == [status EXCEPT ![t] = IF again THEN "queued" ELSE "failed"]
           re == [retries EXCEPT ![t] = Bumped(t)]
           sp == Unspawned(t, from)
<1>1. /\ Ends(t, from)
      /\ history' \in IF again THEN {history} ELSE Trims(history \cup {t}, t, st)
      /\ Saved(q, running \ {t}, {}, history', st, re)
      /\ DispatchWith(q, running \ {t}, st, sp, Limit(conf), sorted)
      /\ UNCHANGED <<waiting, conf, crashes>>
    BY DEF TailFails, Dispatch
<1>2. q \in [Tasks -> Nat] /\ st \in [Tasks -> Statuses]
    BY PushType DEF TypeOK, Statuses
<1>3. /\ status[t] = "running" /\ queue[t] = 0 /\ t \notin waiting
      /\ Staffed(running \ {t}, sp, live', dead')
      /\ live' \in [Tasks -> Nat] /\ dead' \in [Tasks -> Nat] /\ sp \in [Tasks -> Nat]
    BY <1>1, EndsOne
<1>4. /\ \A u \in Tasks \ {t} : q[u] = queue[u] /\ st[u] = status[u]
      /\ q[t] = (IF again THEN 1 ELSE 0) /\ st[t] = IF again THEN "queued" ELSE "failed"
    BY <1>3 DEF Push, TypeOK
<1>5. MaxCrashes > 0 => history \subseteq history'
  <2>1. history \cup {t} \in SUBSET Tasks
      BY DEF TypeOK
  <2> HIDE DEF st
  <2> QED BY <1>1, <2>1, NothingTrimmed
<1> HIDE DEF q, st, sp, again
<1>6. /\ Ruled(q, running \ {t}, waiting', history', st)
      /\ \A j \in Jobs : (status[j] = "done") = (st[j] = "done")
  <2>1. waiting' = waiting
      BY <1>1
  <2>2. /\ \A u \in Tasks \ {t} : /\ q[u] = queue[u] /\ st[u] = status[u]
                                  /\ u \in running \ {t} => u \in running
                                  /\ u \in waiting' => u \in waiting
        /\ q[t] <= 1 /\ (q[t] > 0 => st[t] \in {"queued", "paused"})
        /\ st[t] \notin {"done", "reviewing"}
        /\ status[t] \notin {"done", "reviewing"} /\ status[t] # "absent"
        /\ t \notin running \ {t} /\ t \notin waiting'
      BY <1>3, <1>4, <2>1
  <2> QED BY <1>5, <2>2, MovesOne
<1>7. FileRuled(disk') /\ DoneSaved(st, disk')
    BY <1>1, <1>2, <1>6, SavedRuled DEF PlaceInv
<1> QED
    BY <1>1, <1>2, <1>3, <1>6, <1>7, Finish, LimitType DEF TypeOK

\* The task waits for its backend: the tail with exit code 3, and a suspended flow.
LEMMA SuspendPlaces ==
    ASSUME TypeOK, PlaceInv, NEW t \in Tasks, TailBackend(t) \/ FlowSuspends(t)
    PROVE  PlaceInv' /\ DoneStep
<1> DEFINE st == [status EXCEPT ![t] = "waiting_retry"]
<1>1. \E from \in {"spawned", "live", "dead"}, re \in {retries, [retries EXCEPT ![t] = Bumped(t)]} :
          /\ Ends(t, from)
          /\ waiting' = waiting \cup {t}
          /\ Saved(queue, running \ {t}, waiting', history, st, re)
          /\ DispatchWith(queue, running \ {t}, st, Unspawned(t, from), Limit(conf), sorted)
          /\ UNCHANGED <<history, conf, crashes>>
  <2>1. CASE TailBackend(t)
    <3>1. Unspawned(t, "live") = spawned
        BY DEF Unspawned
    <3> QED BY <2>1, <3>1 DEF TailBackend, Dispatch
  <2>2. CASE FlowSuspends(t)
      BY <2>2 DEF FlowSuspends, Dispatch
  <2> QED BY <2>1, <2>2
<1>2. PICK from \in {"spawned", "live", "dead"}, re \in {retries, [retries EXCEPT ![t] = Bumped(t)]} :
          /\ Ends(t, from)
          /\ waiting' = waiting \cup {t}
          /\ Saved(queue, running \ {t}, waiting', history, st, re)
          /\ DispatchWith(queue, running \ {t}, st, Unspawned(t, from), Limit(conf), sorted)
          /\ UNCHANGED <<history, conf, crashes>>
    BY <1>1
<1> DEFINE sp == Unspawned(t, from)
<1>3. st \in [Tasks -> Statuses]
    BY DEF TypeOK, Statuses
<1>4. /\ status[t] = "running" /\ queue[t] = 0
      /\ Staffed(running \ {t}, sp, live', dead')
      /\ live' \in [Tasks -> Nat] /\ dead' \in [Tasks -> Nat] /\ sp \in [Tasks -> Nat]
    BY <1>2, EndsOne
<1>5. st[t] = "waiting_retry" /\ \A u \in Tasks \ {t} : st[u] = status[u]
    BY DEF TypeOK
<1>6. /\ DispatchWith(queue, running \ {t}, st, sp, Limit(conf), sorted)
      /\ Saved(queue, running \ {t}, waiting', history', st, re)
      /\ waiting' = waiting \cup {t}
      /\ UNCHANGED <<history, conf, crashes>>
    BY <1>2
<1> HIDE DEF st, sp
<1>7. /\ Ruled(queue, running \ {t}, waiting', history', st)
      /\ \A j \in Jobs : (status[j] = "done") = (st[j] = "done")
  <2>1. /\ \A u \in Tasks \ {t} : u \in waiting' => u \in waiting
        /\ history \subseteq history' /\ t \notin running \ {t}
      BY <1>6
  <2> QED BY <1>4, <1>5, <2>1, MovesOne
<1>8. /\ queue \in [Tasks -> Nat] /\ running \ {t} \in SUBSET Tasks
      /\ Limit(conf) \in Nat /\ sorted \in BOOLEAN
    BY LimitType DEF TypeOK
<1>9. \A j \in Jobs : status[j] = "done" => st[j] \in {"done", "failed"}
    BY <1>7
<1>10. FileRuled(disk') /\ DoneSaved(st, disk')
    BY <1>6, <1>7, <1>8, SavedRuled DEF PlaceInv
<1> QED
    BY <1>3, <1>4, <1>6, <1>7, <1>8, <1>9, <1>10, Finish

\* What a section does to the queue and to the statuses, task by task: t gets a new status
\* and the new tasks are queued.
Shaped(t, v, new, q, st) ==
    \A u \in Tasks : /\ q[u] = IF u \in new THEN queue[u] + 1 ELSE queue[u]
                     /\ st[u] = IF u \in new THEN "queued" ELSE IF u = t THEN v ELSE status[u]

JobEnded(t, v, new, hist, q, st) ==
    /\ t \in Jobs \cap running
    /\ v \in {"done", "reviewing"}
    /\ new \subseteq {ReviewOf[t]} /\ \A u \in new : status[u] = "absent"
    /\ MaxCrashes > 0 => history \cup {t} \subseteq hist
    /\ Shaped(t, v, new, q, st)

\* A job that ends, and its review that is new: the only review of it under way.
LEMMA JobEnds ==
    ASSUME Undisturbed, TypeOK, PlaceInv, NEW t, NEW v, NEW new, NEW hist, NEW q, NEW st,
           JobEnded(t, v, new, hist, q, st)
    PROVE  /\ Ruled(q, running \ {t}, waiting, hist, st)
           /\ st[t] = v /\ \A j \in Jobs \ {t} : st[j] = status[j]
           /\ \A j \in Jobs : status[j] = "done" => st[j] = "done"
<1>0. /\ t \in Jobs \cap running /\ v \in {"done", "reviewing"}
      /\ new \subseteq {ReviewOf[t]} /\ \A u \in new : status[u] = "absent"
      /\ MaxCrashes > 0 => history \cup {t} \subseteq hist
    BY DEF JobEnded
<1>1. /\ Ruled(queue, running, waiting, history, status) /\ OneReview(status)
      /\ status[t] = "running" /\ t \in Tasks
    BY <1>0 DEF PlaceInv, Ruled, Tasks
<1>2. new \subseteq Reviews /\ new \subseteq ReviewsOf(t) /\ Jobs \cap Reviews = {}
    BY <1>0, SchedAssumption DEF ReviewsOf, Tasks
<1>3. /\ \A u \in Tasks : q[u] = IF u \in new THEN queue[u] + 1 ELSE queue[u]
      /\ \A u \in Tasks : st[u] = IF u \in new THEN "queued" ELSE IF u = t THEN v ELSE status[u]
      /\ t \notin new
    BY <1>0, <1>2 DEF JobEnded, Shaped
<1>4. st[t] = v /\ \A j \in Jobs \ {t} : st[j] = status[j]
    BY <1>0, <1>1, <1>2, <1>3 DEF Tasks
<1>5. \A u \in Tasks : /\ q[u] <= 1
                       /\ q[u] > 0 => st[u] \in {"queued", "paused"}
                       /\ u \in running \ {t} => st[u] = "running"
                       /\ u \in waiting => st[u] = "waiting_retry"
  <2> SUFFICES ASSUME NEW u \in Tasks
               PROVE  /\ q[u] <= 1
                      /\ q[u] > 0 => st[u] \in {"queued", "paused"}
                      /\ u \in running \ {t} => st[u] = "running"
                      /\ u \in waiting => st[u] = "waiting_retry"
      OBVIOUS
  <2>1. /\ queue[u] <= 1 /\ queue[u] \in Nat
        /\ queue[u] > 0 => status[u] \in {"queued", "paused"}
        /\ u \in running => status[u] = "running"
        /\ u \in waiting => status[u] = "waiting_retry"
      BY <1>1 DEF Ruled, TypeOK
  <2>2. CASE u \in new
    <3>1. queue[u] = 0 /\ u \notin running /\ u \notin waiting
        BY <1>0, <2>1, <2>2
    <3> QED BY <1>3, <2>2, <3>1
  <2>3. CASE u = t
      BY <1>1, <1>3, <2>1, <2>3
  <2>4. CASE u \notin new /\ u # t
      BY <1>3, <2>1, <2>4
  <2> QED BY <2>2, <2>3, <2>4
<1>6. OneReview(st)
  <2> SUFFICES ASSUME NEW i \in Jobs, NEW r \in ReviewsOf(i), Open(st, r)
               PROVE  /\ st[i] \in {"done", "reviewing"}
                      /\ \A s \in ReviewsOf(i) \ {r} : ~Open(st, s)
      BY DEF OneReview
  <2>1. ReviewsOf(i) \subseteq Reviews /\ Reviews \subseteq Tasks
      BY SchedAssumption DEF ReviewsOf, Tasks
  <2>2. \A s \in ReviewsOf(i) \ new : st[s] = status[s]
      BY <1>0, <1>2, <1>3, <2>1
  <2>3. CASE i = t
    <3>1. \A s \in ReviewsOf(i) : ~Open(status, s)
        BY <1>1, <2>3 DEF OneReview
    <3>2. \A s \in ReviewsOf(i) \ new : ~Open(st, s)
        BY <2>2, <3>1 DEF Open
    <3>3. r \in new /\ \A s \in new : s = r
        BY <1>0, <3>2
    <3> QED BY <1>0, <1>4, <2>3, <3>2, <3>3
  <2>4. CASE i # t
    <3>1. ReviewsOf(i) \cap new = {}
        BY <1>0, <1>2, <2>4 DEF Undisturbed
    <3>2. \A s \in ReviewsOf(i) : Open(st, s) = Open(status, s)
        BY <2>2, <3>1 DEF Open
    <3>3. st[i] = status[i]
        BY <1>4, <2>4
    <3> QED BY <1>1, <3>2, <3>3 DEF OneReview
  <2> QED BY <2>3, <2>4
<1>7. MaxCrashes > 0 => \A j \in Jobs : st[j] \in {"done", "reviewing"} => j \in hist
    BY <1>0, <1>1, <1>4 DEF Ruled
<1>8. \A j \in Jobs : status[j] = "done" => st[j] = "done"
    BY <1>0, <1>1, <1>4
<1>9. Ruled(q, running \ {t}, waiting, hist, st)
    BY <1>5, <1>6, <1>7 DEF Ruled
<1> QED BY <1>4, <1>8, <1>9

\* The tail of runTask for a job that succeeded.
LEMMA TailSucceedsPlaces ==
    ASSUME Undisturbed, TypeOK, PlaceInv, NEW t \in Tasks, TailSucceeds(t)
    PROVE  PlaceInv' /\ DoneStep
<1> DEFINE q == Push(queue, Sent(t))
           st == Given([status EXCEPT ![t] = "done"], Sent(t), "queued")
           re == Given(retries, Sent(t), 0)
<1>1. /\ t \in Jobs /\ Once(Sent(t)) /\ Ends(t, "live")
      /\ history' \in Trims(history \cup {t}, t, st)
      /\ Saved(q, running \ {t}, {}, history', st, re)
      /\ DispatchWith(q, running \ {t}, st, spawned, Limit(conf), sorted)
      /\ UNCHANGED <<waiting, conf, crashes>>
    BY DEF TailSucceeds, Dispatch
<1>2. /\ t \in running /\ Staffed(running \ {t}, spawned, live', dead')
      /\ live' \in [Tasks -> Nat] /\ dead' \in [Tasks -> Nat]
  <2>1. Unspawned(t, "live") = spawned
      BY DEF Unspawned
  <2> QED BY <1>1, <2>1, EndsOne
<1>3. MaxCrashes > 0 => history \cup {t} \subseteq history'
  <2>1. history \cup {t} \in SUBSET Tasks
      BY DEF TypeOK
  <2> HIDE DEF st
  <2> QED BY <1>1, <2>1, NothingTrimmed
<1>4. Sent(t) \in SUBSET {ReviewOf[t]} /\ \A u \in Sent(t) : status[u] = "absent"
    BY <1>1 DEF Sent, Once
<1> DEFINE new == Sent(t)
<1>shape. /\ q \in [Tasks -> Nat] /\ st \in [Tasks -> Statuses]
          /\ Shaped(t, "done", new, q, st)
  <2>1. [status EXCEPT ![t] = "done"] \in [Tasks -> Statuses]
      BY DEF TypeOK, Statuses
  <2>2. q \in [Tasks -> Nat] /\ st \in [Tasks -> Statuses]
      BY <2>1, PushType, GivenType DEF TypeOK, Statuses
  <2>3. Shaped(t, "done", new, q, st)
      BY DEF Shaped, Push, Given, TypeOK
  <2> QED BY <2>2, <2>3
<1> HIDE DEF q, st, new
<1>5. /\ Ruled(q, running \ {t}, waiting, history', st)
      /\ st \in [Tasks -> Statuses] /\ q \in [Tasks -> Nat]
      /\ \A j \in Jobs : status[j] = "done" => st[j] = "done"
  <2>1. JobEnded(t, "done", new, history', q, st)
      BY <1>shape, <1>1, <1>2, <1>3, <1>4 DEF JobEnded, new
  <2> QED BY <1>shape, <2>1, JobEnds
<1>6. /\ running \ {t} \in SUBSET Tasks /\ spawned \in [Tasks -> Nat]
      /\ Limit(conf) \in Nat /\ sorted \in BOOLEAN
    BY LimitType DEF TypeOK
<1>7. /\ Ruled(q, running \ {t}, waiting', history', st)
      /\ \A j \in Jobs : status[j] = "done" => st[j] \in {"done", "failed"}
    BY <1>1, <1>5
<1>8. FileRuled(disk') /\ DoneSaved(st, disk')
    BY <1>1, <1>5, SavedRuled DEF PlaceInv
<1> QED BY <1>1, <1>2, <1>5, <1>6, <1>7, <1>8, Finish

\* The flow of a task ends, well or not; neither is saved.
LEMMA FlowEndsPlaces ==
    ASSUME Undisturbed, TypeOK, PlaceInv, NEW t \in Tasks, NEW good \in BOOLEAN, FlowEnds(t, good)
    PROVE  PlaceInv' /\ DoneStep
<1> DEFINE new == IF good THEN Sent(t) ELSE {}
           v == IF good THEN "reviewing" ELSE "failed"
           q == Push(queue, new)
           st == Given([status EXCEPT ![t] = v], new, "queued")
           sp == Unspawned(t, "spawned")
<1>1. /\ t \in ZergFlow /\ Once(new) /\ Ends(t, "spawned")
      /\ history' = history \cup {t} /\ disk' = disk
      /\ DispatchWith(q, running \ {t}, st, sp, Limit(conf), sorted)
      /\ UNCHANGED <<waiting, conf, crashes>>
    BY DEF FlowEnds, Dispatch
<1>2. /\ t \in running /\ status[t] = "running" /\ queue[t] = 0 /\ t \notin waiting
      /\ Staffed(running \ {t}, sp, live', dead')
      /\ live' \in [Tasks -> Nat] /\ dead' \in [Tasks -> Nat] /\ sp \in [Tasks -> Nat]
    BY <1>1, EndsOne
<1>3. t \in Jobs
    BY <1>1, SchedAssumption DEF Jobs
<1>4. new \in SUBSET {ReviewOf[t]} /\ \A u \in new : status[u] = "absent"
    BY <1>1 DEF Sent, Once
<1>shape. /\ q \in [Tasks -> Nat] /\ st \in [Tasks -> Statuses]
          /\ Shaped(t, v, new, q, st)
  <2>1. v \in Statuses
      BY DEF Statuses
  <2> HIDE DEF v, new
  <2>2. [status EXCEPT ![t] = v] \in [Tasks -> Statuses]
      BY <2>1 DEF TypeOK
  <2>3. q \in [Tasks -> Nat] /\ st \in [Tasks -> Statuses]
      BY <2>2, PushType, GivenType DEF TypeOK, Statuses
  <2>4. Shaped(t, v, new, q, st)
      BY DEF Shaped, Push, Given, TypeOK
  <2> QED BY <2>3, <2>4
<1>cases. \/ v = "reviewing"
          \/ new = {} /\ v = "failed"
    OBVIOUS
<1> HIDE DEF sp, new, v, q, st
<1>5. /\ Ruled(q, running \ {t}, waiting, history', st)
      /\ \A j \in Jobs : status[j] = "done" => st[j] = "done"
      /\ \A j \in Jobs : st[j] = "done" => status[j] = "done"
  <2>1. CASE v = "reviewing"
    <3>1. JobEnded(t, v, new, history', q, st)
        BY <1>1, <1>2, <1>3, <1>4, <1>shape, <2>1 DEF JobEnded
    <3>2. /\ Ruled(q, running \ {t}, waiting, history', st)
          /\ st[t] = v /\ \A j \in Jobs \ {t} : st[j] = status[j]
          /\ \A j \in Jobs : status[j] = "done" => st[j] = "done"
        BY <3>1, JobEnds
    <3> QED BY <2>1, <3>2
  <2>2. CASE new = {} /\ v = "failed"
    <3>1. /\ \A u \in Tasks \ {t} : /\ q[u] = queue[u] /\ st[u] = status[u]
                                    /\ u \in running \ {t} => u \in running
                                    /\ u \in waiting => u \in waiting
          /\ q[t] = 0 /\ st[t] = "failed" /\ history \subseteq history'
        BY <1>1, <1>2, <1>shape, <2>2 DEF Shaped
    <3>2. /\ Ruled(q, running \ {t}, waiting, history', st)
          /\ \A j \in Jobs : (status[j] = "done") = (st[j] = "done")
        BY <1>2, <3>1, MovesOne
    <3> QED BY <3>2
  <2> QED BY <1>cases, <2>1, <2>2
<1>6. /\ running \ {t} \in SUBSET Tasks
      /\ Limit(conf) \in Nat /\ sorted \in BOOLEAN
    BY LimitType DEF TypeOK
<1>7. /\ Ruled(q, running \ {t}, waiting', history', st)
      /\ \A j \in Jobs : status[j] = "done" => st[j] \in {"done", "failed"}
    BY <1>1, <1>5
<1>8. FileRuled(disk') /\ DoneSaved(st, disk')
    BY <1>1, <1>5, FileStays
<1>9. /\ DispatchWith(q, running \ {t}, st, sp, Limit(conf), sorted) /\ UNCHANGED crashes
      /\ q \in [Tasks -> Nat] /\ st \in [Tasks -> Statuses]
    BY <1>1, <1>shape
<1> QED BY <1>2, <1>6, <1>7, <1>8, <1>9, Finish

\* What a review t of j that has ended does: w is the verdict, new what it orders.
ReviewEnded(t, j, w, new, hist, q, st) ==
    /\ j \in Jobs /\ t \in ReviewsOf(j) \cap running
    /\ new = {} \/ \E o \in {AgainOf[j], ReworkOf[j]} \ {NoTask} : new = {o} /\ status[o] = "absent"
    /\ w \in {status[j], "done"} \/ (w = "failed" /\ new = {})
    /\ MaxCrashes > 0 => history \cup {t} \subseteq hist
    /\ \A u \in Tasks : /\ q[u] = IF u \in new THEN queue[u] + 1 ELSE queue[u]
                        /\ st[u] = IF u \in new THEN "queued" ELSE IF u = j THEN w
                                   ELSE IF u = t THEN "done" ELSE status[u]

\* A review that ends judges a job that has ended, and orders the only review under way.
LEMMA ReviewEnds ==
    ASSUME Undisturbed, TypeOK, PlaceInv, NEW t, NEW j, NEW w, NEW new, NEW hist, NEW q, NEW st,
           ReviewEnded(t, j, w, new, hist, q, st)
    PROVE  /\ Ruled(q, running \ {t}, waiting, hist, st)
           /\ \A i \in Jobs : status[i] = "done" => st[i] \in {"done", "failed"}
<1>0. /\ j \in Jobs /\ t \in ReviewsOf(j) \cap running
      /\ new = {} \/ \E o \in {AgainOf[j], ReworkOf[j]} \ {NoTask} : new = {o} /\ status[o] = "absent"
      /\ w \in {status[j], "done"} \/ (w = "failed" /\ new = {})
      /\ MaxCrashes > 0 => history \cup {t} \subseteq hist
      /\ \A u \in Tasks : /\ q[u] = IF u \in new THEN queue[u] + 1 ELSE queue[u]
                          /\ st[u] = IF u \in new THEN "queued" ELSE IF u = j THEN w
                                     ELSE IF u = t THEN "done" ELSE status[u]
    BY DEF ReviewEnded
<1>1. /\ Ruled(queue, running, waiting, history, status) /\ OneReview(status)
      /\ \A i \in Jobs : ReviewsOf(i) \subseteq Reviews
      /\ Jobs \subseteq Tasks /\ Reviews \subseteq Tasks /\ Jobs \cap Reviews = {}
    BY SchedAssumption DEF PlaceInv, Ruled, Tasks, ReviewsOf
<1>2. status[t] = "running" /\ t \in Tasks /\ t # j /\ j \in Tasks /\ t \notin Jobs
    BY <1>0, <1>1 DEF Ruled
<1>3. /\ status[j] \in {"done", "reviewing"}
      /\ \A s \in ReviewsOf(j) \ {t} : ~Open(status, s)
    BY <1>0, <1>1, <1>2 DEF OneReview, Open
<1>4. /\ new \subseteq Tasks /\ j \notin new /\ t \notin new
      /\ \A u \in new : status[u] = "absent" /\ (u \in Jobs \/ u \in ReviewsOf(j))
      /\ \A u, s \in new : u = s
  <2>1. CASE new = {}
      BY <2>1
  <2>2. ASSUME NEW o \in {AgainOf[j], ReworkOf[j]} \ {NoTask}, new = {o}, status[o] = "absent"
        PROVE  /\ new \subseteq Tasks /\ j \notin new /\ t \notin new
               /\ \A u \in new : status[u] = "absent" /\ (u \in Jobs \/ u \in ReviewsOf(j))
               /\ \A u, s \in new : u = s
    <3>1. o \in ReviewsOf(j) \/ o \in Jobs
        BY <1>0, SchedAssumption DEF ReviewsOf, Jobs
    <3> QED BY <1>0, <1>1, <1>2, <1>3, <2>2, <3>1
  <2> QED BY <1>0, <2>1, <2>2
<1>5. /\ st[t] = "done" /\ st[j] = w
      /\ \A u \in new : st[u] = "queued"
      /\ \A u \in Tasks \ (new \cup {t, j}) : st[u] = status[u]
    BY <1>0, <1>2, <1>4
<1>6. \A u \in Tasks : /\ q[u] <= 1
                       /\ q[u] > 0 => st[u] \in {"queued", "paused"}
                       /\ u \in running \ {t} => st[u] = "running"
                       /\ u \in waiting => st[u] = "waiting_retry"
  <2> SUFFICES ASSUME NEW u \in Tasks
               PROVE  /\ q[u] <= 1
                      /\ q[u] > 0 => st[u] \in {"queued", "paused"}
                      /\ u \in running \ {t} => st[u] = "running"
                      /\ u \in waiting => st[u] = "waiting_retry"
      OBVIOUS
  <2>1. /\ queue[u] <= 1 /\ queue[u] \in Nat
        /\ queue[u] > 0 => status[u] \in {"queued", "paused"}
        /\ u \in running => status[u] = "running"
        /\ u \in waiting => status[u] = "waiting_retry"
      BY <1>1 DEF Ruled, TypeOK
  <2>2. CASE u \in new
    <3>1. queue[u] = 0 /\ u \notin running /\ u \notin waiting
        BY <1>4, <2>1, <2>2
    <3>2. q[u] = 1 /\ st[u] = "queued"
        BY <1>0, <2>2, <3>1
    <3> QED BY <3>1, <3>2
  <2>3. CASE u = t \/ u = j
    <3>1. queue[u] = 0 /\ u \notin running \ {t} /\ u \notin waiting
        BY <1>2, <1>3, <2>1, <2>3
    <3>2. q[u] = 0
        BY <1>0, <1>4, <2>3, <3>1
    <3> QED BY <3>1, <3>2
  <2>4. CASE u \notin new /\ u # t /\ u # j
    <3>1. q[u] = queue[u] /\ st[u] = status[u]
        BY <1>0, <1>5, <2>4
    <3> QED BY <2>1, <3>1
  <2> QED BY <2>2, <2>3, <2>4
<1>7. OneReview(st)
  <2> SUFFICES ASSUME NEW i \in Jobs, NEW r \in ReviewsOf(i), Open(st, r)
               PROVE  /\ st[i] \in {"done", "reviewing"}
                      /\ \A s \in ReviewsOf(i) \ {r} : ~Open(st, s)
      BY DEF OneReview
  <2>1. \A s \in ReviewsOf(i) : s \in Tasks /\ s \notin Jobs /\ s # j
      BY <1>0, <1>1
  <2>2. CASE i = j
    <3>1. \A s \in ReviewsOf(j) \ new : ~Open(st, s)
      <4> SUFFICES ASSUME NEW s \in ReviewsOf(j) \ new PROVE ~Open(st, s)
          OBVIOUS
      <4>1. CASE s = t
          BY <1>5, <4>1 DEF Open
      <4>2. CASE s # t
          BY <1>3, <1>5, <2>1, <2>2, <4>2 DEF Open
      <4> QED BY <4>1, <4>2
    <3>2. r \in new /\ \A s \in new : s = r
        BY <1>4, <2>2, <3>1
    <3>3. w \in {"done", "reviewing"}
        BY <1>0, <1>3, <3>2
    <3> QED BY <1>5, <2>2, <3>1, <3>2, <3>3
  <2>3. CASE i # j
    <3>1. ReviewsOf(i) \cap ReviewsOf(j) = {}
        BY <1>0, <2>3 DEF Undisturbed
    <3>2. \A s \in ReviewsOf(i) : s \notin new /\ s # t
        BY <1>0, <1>4, <2>1, <3>1
    <3>3. \A s \in ReviewsOf(i) : Open(st, s) = Open(status, s)
        BY <1>5, <2>1, <3>2 DEF Open
    <3>4. status[i] \in {"done", "reviewing"} /\ \A s \in ReviewsOf(i) \ {r} : ~Open(status, s)
        BY <1>1, <3>3 DEF OneReview
    <3>5. i \notin new /\ i # t /\ i \in Tasks
        BY <1>1, <1>2, <1>4, <3>4
    <3>6. st[i] = status[i]
        BY <1>5, <2>3, <3>5
    <3> QED BY <3>3, <3>4, <3>6
  <2> QED BY <2>2, <2>3
<1>8. MaxCrashes > 0 => \A i \in Jobs : st[i] \in {"done", "reviewing"} => i \in hist
  <2> SUFFICES ASSUME MaxCrashes > 0, NEW i \in Jobs, st[i] \in {"done", "reviewing"}
               PROVE  i \in hist
      OBVIOUS
  <2>1. status[i] \in {"done", "reviewing"}
    <3>1. CASE i = j
        BY <1>3, <3>1
    <3>2. CASE i # j
      <4>1. i \notin new /\ i # t /\ i \in Tasks
          BY <1>1, <1>2, <1>5
      <4> QED BY <1>5, <3>2, <4>1
    <3> QED BY <3>1, <3>2
  <2> QED BY <1>0, <1>1, <2>1 DEF Ruled
<1>9. \A i \in Jobs : status[i] = "done" => st[i] \in {"done", "failed"}
  <2> SUFFICES ASSUME NEW i \in Jobs, status[i] = "done" PROVE st[i] \in {"done", "failed"}
      OBVIOUS
  <2>1. CASE i = j
      BY <1>0, <1>5, <2>1
  <2>2. CASE i # j
    <3>1. i \notin new /\ i # t /\ i \in Tasks
        BY <1>1, <1>2, <1>4
    <3> QED BY <1>5, <2>2, <3>1
  <2> QED BY <2>1, <2>2
<1> QED BY <1>6, <1>7, <1>8, <1>9 DEF Ruled

\* What a review may order, and its verdict.
LEMMA VerdictIs ==
    ASSUME NEW j, NEW verdict \in {"pass", "blank", "reject"},
           NEW o, o = Ordered(j, verdict), NEW w, w = Judged(j, verdict)
    PROVE  /\ o = NoTask \/ (o \in {AgainOf[j], ReworkOf[j]} \ {NoTask} /\ status[o] = "absent")
           /\ w \in {status[j], "done"} \/ (w = "failed" /\ o = NoTask)
<1>1. o = NoTask \/ (o \in {AgainOf[j], ReworkOf[j]} \ {NoTask} /\ status[o] = "absent")
    BY DEF Ordered
<1>2. w \in {status[j], "done"} \/ (w = "failed" /\ o = NoTask)
  <2>1. CASE verdict = "pass"
      BY <2>1 DEF Judged
  <2>2. CASE verdict # "pass" /\ o = NoTask
      BY <2>2 DEF Judged
  <2>3. CASE verdict # "pass" /\ o # NoTask
      BY <2>3 DEF Judged
  <2> QED BY <2>1, <2>2, <2>3
<1> QED BY <1>1, <1>2

\* A review that succeeded: its verdict, and what it orders.
LEMMA ReviewSucceedsPlaces ==
    ASSUME Undisturbed, TypeOK, PlaceInv, NEW t \in Tasks, NEW j \in Jobs,
           NEW verdict \in {"pass", "blank", "reject"}, ReviewSucceeds(t, j, verdict)
    PROVE  PlaceInv' /\ DoneStep
<1> DEFINE o == Ordered(j, verdict)
           known == j \in history
           new == IF known THEN {o} \ {NoTask} ELSE {}
           judged == IF known THEN {j} ELSE {}
           w == IF known THEN Judged(j, verdict) ELSE status[j]
           q == Push(queue, new)
           st == Given(Given([status EXCEPT ![t] = "done"], judged, Judged(j, verdict)), new, "queued")
           re == Given(retries, new, 0)
<1>1. /\ t \in {ReviewOf[j], AgainOf[j]} /\ Ends(t, "live")
      /\ history' \in Trims(history \cup {t}, t, st)
      /\ Saved(q, running \ {t}, {}, history', st, re)
      /\ DispatchWith(q, running \ {t}, st, spawned, Limit(conf), sorted)
      /\ UNCHANGED <<waiting, conf, crashes>>
    BY DEF ReviewSucceeds, Dispatch
<1>2. /\ t \in running /\ Staffed(running \ {t}, spawned, live', dead')
      /\ live' \in [Tasks -> Nat] /\ dead' \in [Tasks -> Nat]
  <2>1. Unspawned(t, "live") = spawned
      BY DEF Unspawned
  <2> QED BY <1>1, <2>1, EndsOne
<1>3. MaxCrashes > 0 => history \cup {t} \subseteq history'
  <2>1. history \cup {t} \in SUBSET Tasks
      BY DEF TypeOK
  <2> HIDE DEF st
  <2> QED BY <1>1, <2>1, NothingTrimmed
<1>4. /\ o = NoTask \/ (o \in {AgainOf[j], ReworkOf[j]} \ {NoTask} /\ status[o] = "absent")
      /\ Judged(j, verdict) \in {status[j], "done"} \/ (Judged(j, verdict) = "failed" /\ o = NoTask)
  <2> HIDE DEF o
  <2>1. o = Ordered(j, verdict)
      BY DEF o
  <2> QED BY <2>1, VerdictIs
<1>5. t \in ReviewsOf(j) /\ t \notin Jobs /\ j \in Tasks /\ t # j
    BY <1>1, SchedAssumption DEF ReviewsOf, Tasks
<1>6. /\ q \in [Tasks -> Nat] /\ st \in [Tasks -> Statuses]
      /\ \A u \in Tasks : /\ q[u] = IF u \in new THEN queue[u] + 1 ELSE queue[u]
                          /\ st[u] = IF u \in new THEN "queued" ELSE IF u = j THEN w
                                     ELSE IF u = t THEN "done" ELSE status[u]
  <2>1. /\ [status EXCEPT ![t] = "done"] \in [Tasks -> Statuses] /\ Judged(j, verdict) \in Statuses
        /\ "queued" \in Statuses
      BY <1>4, <1>5 DEF TypeOK, Statuses
  <2> HIDE DEF o
  <2>2. Given([status EXCEPT ![t] = "done"], judged, Judged(j, verdict)) \in [Tasks -> Statuses]
      BY <2>1, GivenType
  <2>3. q \in [Tasks -> Nat] /\ st \in [Tasks -> Statuses]
    <3> HIDE DEF new, judged
    <3> QED BY <2>1, <2>2, PushType, GivenType DEF TypeOK
  <2>4. \A u \in Tasks : q[u] = IF u \in new THEN queue[u] + 1 ELSE queue[u]
    <3> HIDE DEF new
    <3> QED BY DEF Push
  <2>5. \A u \in Tasks : Given([status EXCEPT ![t] = "done"], judged, Judged(j, verdict))[u]
                           = IF u = j THEN w ELSE IF u = t THEN "done" ELSE status[u]
    <3>1. CASE known
        BY <1>5, <3>1 DEF Given, TypeOK
    <3>2. CASE ~known
        BY <1>5, <3>2 DEF Given, TypeOK
    <3> QED BY <3>1, <3>2
  <2>6. \A u \in Tasks : st[u] = IF u \in new THEN "queued" ELSE IF u = j THEN w
                                 ELSE IF u = t THEN "done" ELSE status[u]
    <3> DEFINE mid == Given([status EXCEPT ![t] = "done"], judged, Judged(j, verdict))
    <3>1. \A u \in Tasks : st[u] = IF u \in new THEN "queued" ELSE mid[u]
      <4> HIDE DEF new, mid
      <4>1. st = Given(mid, new, "queued")
          BY DEF mid
      <4> QED BY <4>1 DEF Given
    <3> HIDE DEF new, st, w, mid
    <3>2. \A u \in Tasks : mid[u] = IF u = j THEN w ELSE IF u = t THEN "done" ELSE status[u]
        BY <2>5 DEF mid
    <3> QED BY <3>1, <3>2
  <2> QED BY <2>3, <2>4, <2>6
<1>7. /\ new = {} \/ \E x \in {AgainOf[j], ReworkOf[j]} \ {NoTask} : new = {x} /\ status[x] = "absent"
      /\ w \in {status[j], "done"} \/ (w = "failed" /\ new = {})
  <2> HIDE DEF o
  <2>1. CASE known
      BY <1>4, <2>1
  <2>2. CASE ~known
      BY <2>2
  <2> QED BY <2>1, <2>2
<1>8. /\ running \ {t} \in SUBSET Tasks /\ spawned \in [Tasks -> Nat]
      /\ Limit(conf) \in Nat /\ sorted \in BOOLEAN
    BY LimitType DEF TypeOK
<1> HIDE DEF q, st, w, new
<1>9. /\ Ruled(q, running \ {t}, waiting, history', st)
      /\ \A i \in Jobs : status[i] = "done" => st[i] \in {"done", "failed"}
  <2>1. ReviewEnded(t, j, w, new, history', q, st)
      BY <1>2, <1>3, <1>5, <1>6, <1>7 DEF ReviewEnded
  <2> QED BY <2>1, ReviewEnds
<1>10. FileRuled(disk') /\ DoneSaved(st, disk')
    BY <1>1, <1>6, <1>9, SavedRuled DEF PlaceInv
<1>11. Ruled(q, running \ {t}, waiting', history', st)
    BY <1>1, <1>9
<1> QED BY <1>1, <1>2, <1>6, <1>8, <1>9, <1>10, <1>11, Finish

\* A scan that begins only looks.
LEMMA ScanStartPlaces ==
    ASSUME PlaceInv, ScanStart
    PROVE  PlaceInv' /\ DoneStep
<1>1. UNCHANGED <<queue, running, waiting, history, status, spawned, live, dead, disk, crashes>>
    BY DEF ScanStart, memVars, runVars, fileVars, boundVars
<1>2. /\ Ruled(queue', running', waiting', history', status')
      /\ Staffed(running', spawned', live', dead')
      /\ FileRuled(disk') /\ DoneSaved(status', disk')
      /\ \A j \in Jobs : status[j] = "done" => status'[j] \in {"done", "failed"}
    BY <1>1 DEF PlaceInv
<1> QED BY <1>1, <1>2, Still

\* A scan that ends moves only what still waits.
LEMMA ScanApplyPlaces ==
    ASSUME TypeOK, PlaceInv, ScanApply
    PROVE  PlaceInv' /\ DoneStep
<1>1. PICK up \in SUBSET scan.asked :
        LET late == scan.expired \cap waiting
            back == up \cap waiting
            q == Push(queue, back)
            st == Given(Given(status, late, "failed"), back, "queued")
        IN /\ waiting' = waiting \ (late \cup back)
           /\ history' = history \cup late
           /\ \/ /\ Saved(q, running, waiting', history', st, retries)
                 /\ Dispatch(q, running, st, spawned)
              \/ /\ Queued(q) = {}
                 /\ status' = st
                 /\ UNCHANGED <<queue, sorted, running, spawned, disk>>
           /\ UNCHANGED <<live, dead, conf, crashes>>
    BY DEF ScanApply, boundVars
<1> DEFINE late == scan.expired \cap waiting
           back == up \cap waiting
           M == late \cup back
           q == Push(queue, back)
           st == Given(Given(status, late, "failed"), back, "queued")
<1>2. M \in SUBSET Tasks /\ back \subseteq M /\ \A u \in M : u \in waiting
    BY DEF TypeOK
<1>3. /\ q \in [Tasks -> Nat] /\ st \in [Tasks -> Statuses]
      /\ \A u \in Tasks : q[u] = IF u \in back THEN queue[u] + 1 ELSE queue[u]
      /\ \A u \in Tasks : st[u] = IF u \in back THEN "queued" ELSE IF u \in late THEN "failed"
                                  ELSE status[u]
  <2>1. Given(status, late, "failed") \in [Tasks -> Statuses]
      BY GivenType DEF TypeOK, Statuses
  <2>2. q \in [Tasks -> Nat] /\ st \in [Tasks -> Statuses]
      BY <2>1, PushType, GivenType DEF TypeOK, Statuses
  <2>3. /\ \A u \in Tasks : q[u] = IF u \in back THEN queue[u] + 1 ELSE queue[u]
        /\ \A u \in Tasks : st[u] = IF u \in back THEN "queued" ELSE IF u \in late THEN "failed"
                                    ELSE status[u]
      BY DEF Push, Given
  <2> QED BY <2>2, <2>3
<1>4. /\ waiting' = waiting \ M /\ history \subseteq history'
      /\ \/ /\ Saved(q, running, waiting', history', st, retries)
            /\ DispatchWith(q, running, st, spawned, Limit(conf), sorted)
         \/ /\ Queued(q) = {}
            /\ status' = st
            /\ UNCHANGED <<queue, running, spawned, disk>>
      /\ UNCHANGED <<live, dead, crashes>>
    BY <1>1 DEF Dispatch
<1> HIDE DEF q, st, M, late, back
<1>5. \A u \in Tasks \ M : /\ q[u] = queue[u] /\ st[u] = status[u]
                           /\ u \in running => u \in running
                           /\ u \in waiting' => u \in waiting
    BY <1>2, <1>3, <1>4 DEF M
<1>6. \A u \in M : /\ status[u] \notin {"done", "reviewing"}
                   /\ status[u] # "absent" \/ u \in Jobs
                   /\ st[u] \notin {"done", "reviewing"}
                   /\ q[u] <= 1
                   /\ q[u] > 0 => st[u] \in {"queued", "paused"}
                   /\ u \in running => st[u] = "running"
                   /\ u \in waiting' => st[u] = "waiting_retry"
  <2> SUFFICES ASSUME NEW u \in M
               PROVE  /\ status[u] = "waiting_retry" /\ u \notin running /\ u \notin waiting'
                      /\ st[u] \notin {"done", "reviewing"}
                      /\ q[u] <= 1
                      /\ q[u] > 0 => st[u] \in {"queued", "paused"}
      OBVIOUS
  <2>1. /\ u \in Tasks /\ queue[u] \in Nat
        /\ queue[u] > 0 => status[u] \in {"queued", "paused"}
        /\ u \in running => status[u] = "running"
        /\ status[u] = "waiting_retry"
      BY <1>2 DEF PlaceInv, Ruled, TypeOK
  <2>2. u \in back \/ u \in late
      BY DEF M
  <2> QED BY <1>3, <1>4, <2>1, <2>2
<1>7. /\ Ruled(q, running, waiting', history', st)
      /\ \A j \in Jobs : (status[j] = "done") = (st[j] = "done")
  <2>1. Moved(M, q, running, waiting', history', st)
      BY <1>4, <1>5, <1>6 DEF Moved
  <2> QED BY <1>2, <2>1, Moves
<1>8. CASE /\ Saved(q, running, waiting', history', st, retries)
           /\ DispatchWith(q, running, st, spawned, Limit(conf), sorted)
  <2>1. FileRuled(disk') /\ DoneSaved(st, disk')
      BY <1>3, <1>7, <1>8, SavedRuled DEF PlaceInv
  <2>2. /\ live' \in [Tasks -> Nat] /\ dead' \in [Tasks -> Nat] /\ running \in SUBSET Tasks
        /\ spawned \in [Tasks -> Nat] /\ Limit(conf) \in Nat /\ sorted \in BOOLEAN
        /\ Staffed(running, spawned, live', dead')
      BY <1>4, LimitType DEF TypeOK, PlaceInv
  <2>3. \A j \in Jobs : status[j] = "done" => st[j] \in {"done", "failed"}
      BY <1>7
  <2> QED BY <1>3, <1>4, <1>7, <1>8, <2>1, <2>2, <2>3, Finish
<1>9. CASE /\ Queued(q) = {}
           /\ status' = st
           /\ UNCHANGED <<queue, running, spawned, disk>>
  <2>1. \A u \in Tasks : q[u] = queue[u]
    <3>1. \A u \in Tasks : q[u] = 0
        BY <1>3, <1>9 DEF Queued
    <3> QED BY <1>3, <3>1 DEF TypeOK
  <2>2. q = queue
      BY <1>3, <2>1 DEF TypeOK
  <2>3. /\ Ruled(queue', running', waiting', history', status')
        /\ Staffed(running', spawned', live', dead')
        /\ \A j \in Jobs : status[j] = "done" => status'[j] \in {"done", "failed"}
        /\ \A j \in Jobs : status'[j] = "done" => status[j] = "done"
      BY <1>4, <1>7, <1>9, <2>2 DEF PlaceInv
  <2>4. FileRuled(disk') /\ DoneSaved(status', disk')
      BY <1>9, <2>3, FileStays
  <2> QED BY <1>4, <2>3, <2>4, Still
<1> QED BY <1>4, <1>8, <1>9

-----------------------------------------------------------------------------
(* The operations of the user.                                             *)

\* CancelTask on a queued task.
LEMMA CancelQueuedPlaces ==
    ASSUME TypeOK, PlaceInv, NEW t \in Tasks, CancelQueued(t)
    PROVE  PlaceInv' /\ DoneStep
<1> DEFINE q == Minus(queue, t)
           st == [status EXCEPT ![t] = "cancelled"]
<1>1. /\ q \in [Tasks -> Nat] /\ st \in [Tasks -> Statuses]
      /\ queue[t] > 0 /\ status[t] \in {"queued", "paused"}
      /\ history' = history \cup {t}
      /\ UNCHANGED <<waiting, live, dead, conf, crashes>>
    BY DEF TypeOK, Statuses, CancelQueued, Minus, UserOp
<1>2. PICK ok \in Writes :
            \/ /\ ok
               /\ disk' = Image(q, running, waiting, history', st, retries)
               /\ DispatchWith(q, running, st, spawned, Limit(conf), TRUE)
            \/ /\ ~ok
               /\ queue' = q /\ sorted' = TRUE /\ status' = st
               /\ UNCHANGED <<disk, running, spawned>>
    BY DEF CancelQueued
<1>3. /\ \A u \in Tasks \ {t} : q[u] = queue[u] /\ st[u] = status[u]
      /\ q[t] = 0 /\ st[t] = "cancelled" /\ t \notin running /\ t \notin waiting
  <2>1. queue[t] <= 1 /\ queue[t] \in Nat
      BY DEF PlaceInv, Ruled, TypeOK
  <2> QED BY <1>1, <2>1 DEF PlaceInv, Ruled, TypeOK, Minus
<1> HIDE DEF q, st
<1>4. /\ Ruled(q, running, waiting', history', st)
      /\ \A j \in Jobs : (status[j] = "done") = (st[j] = "done")
  <2>1. /\ \A u \in Tasks \ {t} : /\ q[u] = queue[u] /\ st[u] = status[u]
                                  /\ u \in running => u \in running
                                  /\ u \in waiting' => u \in waiting
        /\ status[t] \notin {"done", "reviewing", "absent"}
        /\ st[t] \notin {"done", "reviewing"}
        /\ q[t] <= 1 /\ (q[t] > 0 => st[t] \in {"queued", "paused"})
        /\ t \notin running /\ t \notin waiting' /\ history \subseteq history'
      BY <1>1, <1>3
  <2> QED BY <2>1, MovesOne
<1>5. CASE /\ ok
           /\ disk' = Image(q, running, waiting, history', st, retries)
           /\ DispatchWith(q, running, st, spawned, Limit(conf), TRUE)
  <2>1. Saved(q, running, waiting, history', st, retries)
      BY <1>5 DEF Saved
  <2>2. FileRuled(disk') /\ DoneSaved(st, disk')
      BY <1>1, <1>4, <2>1, SavedRuled DEF PlaceInv
  <2>3. /\ live' \in [Tasks -> Nat] /\ dead' \in [Tasks -> Nat] /\ running \in SUBSET Tasks
        /\ spawned \in [Tasks -> Nat] /\ Limit(conf) \in Nat /\ TRUE \in BOOLEAN
        /\ Staffed(running, spawned, live', dead')
      BY <1>1, LimitType DEF TypeOK, PlaceInv
  <2>4. \A j \in Jobs : status[j] = "done" => st[j] \in {"done", "failed"}
      BY <1>4
  <2> QED BY <1>1, <1>4, <1>5, <2>2, <2>3, <2>4, Finish
<1>6. CASE /\ queue' = q /\ status' = st
           /\ UNCHANGED <<disk, running, spawned>>
  <2>1. FileRuled(disk') /\ DoneSaved(status', disk')
      BY <1>4, <1>6, FileStays
  <2>2. /\ Ruled(queue', running', waiting', history', status')
        /\ Staffed(running', spawned', live', dead')
      BY <1>1, <1>4, <1>6 DEF PlaceInv
  <2> QED BY <1>1, <1>4, <1>6, <2>1, <2>2, Still
<1> QED BY <1>2, <1>5, <1>6

\* CancelTask on a parked task.
LEMMA CancelParkedPlaces ==
    ASSUME TypeOK, PlaceInv, NEW t \in Tasks, CancelParked(t)
    PROVE  PlaceInv' /\ DoneStep
<1>1. /\ queue[t] = 0 /\ t \notin running
      /\ waiting' = waiting \ {t} /\ history' = history \cup {t}
      /\ Saved(queue, running, waiting', history', status', retries)
      /\ UNCHANGED <<queue, running, spawned, live, dead, crashes>>
    BY DEF CancelParked, UserOp, runVars
<1>2. status' = status \/ /\ status[t] \in {"queued", "paused", "waiting_retry"}
                          /\ status' = [status EXCEPT ![t] = "cancelled"]
    BY DEF CancelParked
<1>3. /\ Ruled(queue, running, waiting', history', status')
      /\ \A j \in Jobs : (status[j] = "done") = (status'[j] = "done")
  <2>1. CASE status' = status
      BY <1>1, <2>1 DEF PlaceInv, Ruled
  <2>2. CASE /\ status[t] \in {"queued", "paused", "waiting_retry"}
             /\ status' = [status EXCEPT ![t] = "cancelled"]
    <3>1. /\ \A u \in Tasks \ {t} : /\ queue[u] = queue[u] /\ status'[u] = status[u]
                                    /\ u \in running => u \in running
                                    /\ u \in waiting' => u \in waiting
          /\ status'[t] = "cancelled"
        BY <1>1, <2>2 DEF TypeOK
    <3>2. /\ status[t] \notin {"done", "reviewing", "absent"}
          /\ status'[t] \notin {"done", "reviewing"}
          /\ queue[t] <= 1 /\ (queue[t] > 0 => status'[t] \in {"queued", "paused"})
          /\ t \notin waiting' /\ history \subseteq history'
        BY <1>1, <2>2, <3>1
    <3> HIDE <2>2
    <3> QED BY <1>1, <3>1, <3>2, MovesOne
  <2> QED BY <1>2, <2>1, <2>2
<1>4. FileRuled(disk') /\ DoneSaved(status', disk')
  <2>1. queue \in [Tasks -> Nat]
      BY DEF TypeOK
  <2> QED BY <1>1, <1>3, <2>1, SavedRuled DEF PlaceInv
<1>5. /\ Ruled(queue', running', waiting', history', status')
      /\ Staffed(running', spawned', live', dead')
    BY <1>1, <1>3 DEF PlaceInv
<1> QED BY <1>1, <1>3, <1>4, <1>5, Still

\* PauseTask, DeleteTask and MoveTask.
LEMMA PauseDeletePlaces ==
    ASSUME TypeOK, PlaceInv, NEW t \in Tasks, PauseTask(t) \/ DeleteTask(t) \/ MoveTask(t)
    PROVE  PlaceInv' /\ DoneStep
<1>1. /\ queue[t] > 0 /\ queue' \in {queue, Minus(queue, t)}
      /\ \/ status' = status
         \/ status[t] = "queued" /\ status' = [status EXCEPT ![t] = "paused"]
      /\ UNCHANGED <<running, waiting, history, spawned, live, dead, disk, crashes>>
    BY DEF PauseTask, DeleteTask, MoveTask, UserOp, runVars, fileVars
<1>2. queue[t] = 1 /\ t \notin running /\ t \notin waiting /\ status[t] \in {"queued", "paused"}
    BY <1>1 DEF PlaceInv, Ruled, TypeOK
<1>3. /\ \A u \in Tasks \ {t} : queue'[u] = queue[u] /\ status'[u] = status[u]
      /\ queue'[t] <= 1 /\ status'[t] \in {"queued", "paused"}
    BY <1>1, <1>2 DEF TypeOK, Minus
<1>4. /\ Ruled(queue', running', waiting', history', status')
      /\ \A j \in Jobs : (status[j] = "done") = (status'[j] = "done")
  <2>1. /\ \A u \in Tasks \ {t} : /\ queue'[u] = queue[u] /\ status'[u] = status[u]
                                  /\ u \in running' => u \in running
                                  /\ u \in waiting' => u \in waiting
        /\ status[t] \notin {"done", "reviewing", "absent"}
        /\ status'[t] \notin {"done", "reviewing"}
        /\ queue'[t] <= 1 /\ (queue'[t] > 0 => status'[t] \in {"queued", "paused"})
        /\ t \notin running' /\ t \notin waiting' /\ history \subseteq history'
      BY <1>1, <1>2, <1>3
  <2> DEFINE M == {t}
  <2>2. Moved(M, queue', running', waiting', history', status')
      BY <2>1 DEF Moved
  <2>3. M \in SUBSET Tasks
      OBVIOUS
  <2> HIDE DEF M
  <2> QED BY <2>2, <2>3, Moves
<1>5. FileRuled(disk') /\ DoneSaved(status', disk')
    BY <1>1, <1>4, FileStays
<1>6. Staffed(running', spawned', live', dead')
    BY <1>1 DEF PlaceInv
<1> QED BY <1>1, <1>4, <1>5, <1>6, Still

\* ResumeTask and RetryTask: the task is queued, once, and dispatched.
LEMMA ResumeRetryPlaces ==
    ASSUME TypeOK, PlaceInv, NEW t \in Tasks, ResumeTask(t) \/ RetryTask(t)
    PROVE  PlaceInv' /\ DoneStep
<1> DEFINE st == [status EXCEPT ![t] = "queued"]
<1>1. \E q \in {queue, Push(queue, {t})} :
          /\ DispatchWith(q, running, st, spawned, Limit(conf), sorted)
          /\ \/ q = queue /\ status[t] = "paused"
             \/ q = Push(queue, {t}) /\ status[t] = "failed"
          /\ UNCHANGED <<waiting, history, live, dead, conf, disk, crashes>>
    BY DEF ResumeTask, RetryTask, Dispatch, UserOp, fileVars, boundVars
<1>2. PICK q \in {queue, Push(queue, {t})} :
          /\ DispatchWith(q, running, st, spawned, Limit(conf), sorted)
          /\ \/ q = queue /\ status[t] = "paused"
             \/ q = Push(queue, {t}) /\ status[t] = "failed"
          /\ UNCHANGED <<waiting, history, live, dead, conf, disk, crashes>>
    BY <1>1
<1>3. q \in [Tasks -> Nat] /\ st \in [Tasks -> Statuses]
    BY <1>2, PushType DEF TypeOK, Statuses
<1>4. t \notin running /\ t \notin waiting /\ status[t] \notin {"done", "reviewing", "absent"}
    BY <1>2 DEF PlaceInv, Ruled
<1>5. /\ \A u \in Tasks \ {t} : q[u] = queue[u] /\ st[u] = status[u]
      /\ q[t] <= 1 /\ st[t] = "queued"
  <2>1. queue[t] <= 1 /\ queue[t] \in Nat /\ (queue[t] > 0 => status[t] # "failed")
      BY DEF PlaceInv, Ruled, TypeOK
  <2> QED BY <1>2, <2>1 DEF TypeOK, Push
<1>6. DispatchWith(q, running, st, spawned, Limit(conf), sorted)
    BY <1>2
<1>7. UNCHANGED <<waiting, history, live, dead, conf, disk, crashes>>
    BY <1>2
<1> HIDE DEF st
<1>8. /\ Ruled(q, running, waiting', history', st)
      /\ \A j \in Jobs : (status[j] = "done") = (st[j] = "done")
  <2>1. /\ \A u \in Tasks \ {t} : /\ q[u] = queue[u] /\ st[u] = status[u]
                                  /\ u \in running => u \in running
                                  /\ u \in waiting' => u \in waiting
        /\ st[t] \notin {"done", "reviewing"}
        /\ q[t] <= 1 /\ (q[t] > 0 => st[t] \in {"queued", "paused"})
        /\ t \notin running /\ t \notin waiting' /\ history \subseteq history'
      BY <1>4, <1>5, <1>7
  <2> QED BY <1>4, <2>1, MovesOne
<1>9. FileRuled(disk') /\ DoneSaved(st, disk')
    BY <1>7, <1>8, FileStays
<1>10. /\ live' \in [Tasks -> Nat] /\ dead' \in [Tasks -> Nat] /\ running \in SUBSET Tasks
       /\ spawned \in [Tasks -> Nat] /\ Limit(conf) \in Nat /\ sorted \in BOOLEAN
       /\ Staffed(running, spawned, live', dead')
    BY <1>7, LimitType DEF TypeOK, PlaceInv
<1>11. \A j \in Jobs : status[j] = "done" => st[j] \in {"done", "failed"}
    BY <1>8
<1> QED BY <1>3, <1>6, <1>7, <1>8, <1>9, <1>10, <1>11, Finish

\* PauseDispatch, ResumeDispatch and SetMaxConcurrent.
LEMMA KnobsPlaces ==
    ASSUME TypeOK, PlaceInv,
           PauseDispatch \/ ResumeDispatch \/ \E n \in Sizes : SetMaxConcurrent(n)
    PROVE  PlaceInv' /\ DoneStep
<1>1. PICK c \in Confs : Configured(c)
    BY SchedAssumption DEF TypeOK, PauseDispatch, ResumeDispatch, SetMaxConcurrent, Confs
<1>2. /\ \/ DispatchWith(queue, running, status, spawned, Limit(c), sorted)
         \/ UNCHANGED <<queue, sorted, running, status, spawned>>
      /\ UNCHANGED <<waiting, history, live, dead, disk>>
    BY <1>1 DEF Configured
<1>3. UNCHANGED crashes
    BY DEF PauseDispatch, ResumeDispatch, SetMaxConcurrent, UserOp
<1>4. FileRuled(disk') /\ DoneSaved(status, disk')
    BY <1>2, FileStays
<1>5. CASE DispatchWith(queue, running, status, spawned, Limit(c), sorted)
  <2>1. /\ live' \in [Tasks -> Nat] /\ dead' \in [Tasks -> Nat] /\ running \in SUBSET Tasks
        /\ spawned \in [Tasks -> Nat] /\ Limit(c) \in Nat /\ sorted \in BOOLEAN
        /\ queue \in [Tasks -> Nat] /\ status \in [Tasks -> Statuses]
        /\ Staffed(running, spawned, live', dead')
        /\ Ruled(queue, running, waiting', history', status)
      BY <1>1, <1>2, LimitType DEF TypeOK, PlaceInv
  <2> QED BY <1>3, <1>4, <1>5, <2>1, Finish
<1>6. CASE UNCHANGED <<queue, sorted, running, status, spawned>>
  <2>1. /\ Ruled(queue', running', waiting', history', status')
        /\ Staffed(running', spawned', live', dead')
      BY <1>2, <1>6 DEF PlaceInv
  <2> QED BY <1>3, <1>4, <1>6, <2>1, Still
<1> QED BY <1>2, <1>5, <1>6

-----------------------------------------------------------------------------
(* Restart.                                                                *)

\* The state read from the file obeys the rule, and no job is done in it that is not done
\* in the file.
LEMMA RestartPlaces ==
    ASSUME TypeOK, PlaceInv, Restart
    PROVE  /\ PlaceInv'
           /\ Writes = {TRUE} =>
                \A j \in Jobs : status[j] = "done" => status'[j] \in {"done", "absent"}
<1> DEFINE q == Push(Nobody, ToQueue)
<1>1. /\ MaxCrashes > 0 /\ q \in [Tasks -> Nat] /\ Nobody \in [Tasks -> Nat]
      /\ {} \in SUBSET Tasks /\ Limit(diskConf) \in Nat /\ TRUE \in BOOLEAN
  <2>1. Nobody \in [Tasks -> Nat]
      BY DEF Nobody
  <2> QED BY <2>1, PushType, LimitType, SchedAssumption DEF Restart, TypeOK
<1>2. disk.status \in [Tasks -> Statuses] /\ Restored \in [Tasks -> Statuses]
  <2>1. disk.status \in [Tasks -> Statuses]
      BY DEF TypeOK, Disks
  <2> QED BY <2>1 DEF Restored, Statuses
<1>3. /\ waiting' = ToWait /\ history' = ToHistory /\ live' = Nobody /\ dead' = Nobody
      /\ disk' = disk
      /\ DispatchWith(q, {}, Restored, Nobody, Limit(diskConf), TRUE)
    BY DEF Restart, Restored
<1>4. \A t \in Tasks :
         /\ q[t] = IF t \in ToQueue THEN 1 ELSE 0
         /\ t \in ToQueue => Restored[t] = "queued" /\ disk.status[t] \in {"queued", "paused"}
         /\ t \in ToWait => Restored[t] = "waiting_retry"
         /\ \/ Restored[t] = disk.status[t]
            \/ /\ Restored[t] \in {"queued", "failed"}
               /\ disk.status[t] \in {"queued", "paused", "running"}
         /\ disk.place[t] # "none" /\ disk.status[t] \in {"done", "reviewing"} => t \in ToHistory
    BY DEF Push, Nobody, Restored, ToQueue, ToWait, ToHistory
<1>5. /\ OneReview(disk.status)
      /\ \A t \in Tasks : disk.place[t] = "none" => disk.status[t] = "absent"
    BY <1>1 DEF PlaceInv, FileRuled
<1>6. OneReview(Restored)
  <2>1. \A r \in Reviews : Open(Restored, r) => Open(disk.status, r)
      BY <1>4 DEF Open, Tasks
  <2>2. \A j \in Jobs : disk.status[j] \in {"done", "reviewing"}
                            => Restored[j] \in {"done", "reviewing"}
      BY <1>4 DEF Tasks
  <2> QED BY <1>5, <2>1, <2>2, ReviewsKept
<1> HIDE DEF q
<1>7. Ruled(q, {}, waiting', history', Restored)
  <2>1. \A j \in Jobs : Restored[j] \in {"done", "reviewing"} => j \in history'
      BY <1>3, <1>4, <1>5 DEF Tasks
  <2>2. \A t \in Tasks : /\ q[t] <= 1
                         /\ q[t] > 0 => Restored[t] \in {"queued", "paused"}
                         /\ t \in waiting' => Restored[t] = "waiting_retry"
      BY <1>3, <1>4
  <2> QED BY <1>6, <2>1, <2>2 DEF Ruled
<1>8. Staffed({}, Nobody, live', dead')
    BY <1>3 DEF Staffed, Nobody
<1>9. /\ Ruled(queue', running', waiting', history', status')
      /\ Staffed(running', spawned', live', dead')
      /\ \A t \in Tasks : \/ status'[t] = Restored[t]
                          \/ status'[t] = "running" /\ Restored[t] \in {"queued", "paused"}
  <2>1. live' \in [Tasks -> Nat] /\ dead' \in [Tasks -> Nat]
      BY <1>1, <1>3
  <2> QED BY <1>1, <1>2, <1>3, <1>7, <1>8, <2>1, DispatchRuled
<1>10. \A j \in Jobs : /\ status'[j] = "done" => disk.status[j] = "done"
                       /\ disk.status[j] \in {"done", "absent"} => status'[j] = disk.status[j]
    BY <1>4, <1>9 DEF Tasks
<1>11. FileRuled(disk') /\ DoneSaved(status', disk')
    BY <1>3, <1>10 DEF PlaceInv, DoneSaved
<1>12. Writes = {TRUE} => \A j \in Jobs : status[j] = "done" => status'[j] \in {"done", "absent"}
    BY <1>1, <1>10 DEF PlaceInv, DoneSaved
<1> QED BY <1>9, <1>11, <1>12 DEF PlaceInv

-----------------------------------------------------------------------------
(* The theorems.                                                           *)

LEMMA PlacesInit ==
    ASSUME Init
    PROVE  PlaceInv
<1>1. TypeOK
    BY InitTypes
<1>2. \A t \in Tasks : /\ status[t] = "absent" /\ queue[t] = 0
                       /\ spawned[t] = 0 /\ live[t] = 0 /\ dead[t] = 0
    BY DEF Init, Nobody
<1>3. running = {} /\ waiting = {} /\ history = {}
    BY DEF Init
<1>4. \A j \in Jobs : j \in Tasks /\ ReviewsOf(j) \subseteq Tasks
    BY SchedAssumption DEF ReviewsOf, Tasks
<1>5. \A t \in Tasks : disk.status[t] = "absent"
    BY <1>2, <1>3 DEF Init, Image, Nobody
<1>9. disk.twice = {}
    BY <1>2, <1>3 DEF Init, Image, Nobody
<1>6. OneReview(status) /\ OneReview(disk.status)
    BY <1>2, <1>4, <1>5 DEF OneReview, Open
<1>7. Ruled(queue, running, waiting, history, status)
    BY <1>2, <1>3, <1>4, <1>6 DEF Ruled
<1>8. Staffed(running, spawned, live, dead)
    BY <1>2, <1>3 DEF Staffed
<1> QED BY <1>2, <1>4, <1>5, <1>6, <1>7, <1>8, <1>9 DEF PlaceInv, FileRuled, DoneSaved

\* Every step keeps the rule; what it does with a job that is done, a restart apart.
LEMMA PlaceStep ==
    ASSUME Undisturbed, TypeOK, PlaceInv, [Next]_vars
    PROVE  PlaceInv' /\ (DoneStep \/ Restart)
<1>1. ~Reclaim /\ \A t \in Tasks : ~Terminate(t) /\ ~Requeue(t)
    BY DEF Undisturbed, Reclaim, Terminate, Requeue, UserOp
<1>2. ASSUME NEW t \in Tasks, Submit(t) \/ Launch(t) \/ KillTask(t)
      PROVE  PlaceInv' /\ DoneStep
    BY <1>2, SubmitPlaces, LaunchKillPlaces
<1>3. ASSUME NEW t \in Tasks, RunEnds(t)
      PROVE  PlaceInv' /\ DoneStep
  <2>1. CASE TailBackend(t) \/ FlowSuspends(t)
      BY <2>1, SuspendPlaces
  <2>2. CASE TailSucceeds(t)
      BY <2>2, TailSucceedsPlaces
  <2>3. ASSUME NEW from \in {"spawned", "live", "dead"}, TailFails(t, from)
        PROVE  PlaceInv' /\ DoneStep
      BY <2>3, TailFailsPlaces
  <2>4. ASSUME NEW good \in BOOLEAN, FlowEnds(t, good)
        PROVE  PlaceInv' /\ DoneStep
      BY <2>4, FlowEndsPlaces
  <2>5. ASSUME NEW j \in Jobs, NEW verdict \in {"pass", "blank", "reject"},
               ReviewSucceeds(t, j, verdict)
        PROVE  PlaceInv' /\ DoneStep
      BY <2>5, ReviewSucceedsPlaces
  <2> QED BY <1>3, <2>1, <2>2, <2>3, <2>4, <2>5 DEF RunEnds
<1>4. CASE ScanStart
    BY <1>4, ScanStartPlaces
<1>5. CASE ScanApply
    BY <1>5, ScanApplyPlaces
<1>6. ASSUME NEW t \in Tasks, CancelQueued(t) \/ CancelParked(t)
      PROVE  PlaceInv' /\ DoneStep
    BY <1>6, CancelQueuedPlaces, CancelParkedPlaces
<1>7. ASSUME NEW t \in Tasks, PauseTask(t) \/ DeleteTask(t) \/ MoveTask(t)
      PROVE  PlaceInv' /\ DoneStep
    BY <1>7, PauseDeletePlaces
<1>8. ASSUME NEW t \in Tasks, ResumeTask(t) \/ RetryTask(t)
      PROVE  PlaceInv' /\ DoneStep
    BY <1>8, ResumeRetryPlaces
<1>9. CASE PauseDispatch \/ ResumeDispatch \/ \E n \in Sizes : SetMaxConcurrent(n)
    BY <1>9, KnobsPlaces
<1>10. CASE Restart
    BY <1>10, RestartPlaces
<1>11. CASE ScanNothing \/ UNCHANGED vars
  <2>1. /\ UNCHANGED <<status, queue, running, waiting, history, spawned, live, dead, disk, crashes>>
      BY <1>11 DEF ScanNothing, vars
  <2>2. PlaceInv'
      BY <2>1 DEF PlaceInv
  <2> QED BY <2>1, <2>2 DEF DoneStep
<1> QED
    BY <1>1, <1>2, <1>3, <1>4, <1>5, <1>6, <1>7, <1>8, <1>9, <1>10, <1>11 DEF Next, Operations

\* The rule holds in every state.
LEMMA PlacesAlways ==
    ASSUME Undisturbed
    PROVE  Spec => [](TypeOK /\ PlaceInv)
<1>1. Init => PlaceInv
    BY PlacesInit
<1>2. TypeOK /\ PlaceInv /\ [Next]_vars => PlaceInv'
    BY PlaceStep
<1> QED BY <1>1, <1>2, SchedTypeCorrect, PTL DEF Spec

\* A task is in one place, once: in the queue, running with one goroutine, or waiting,
\* through retries, reviews, verdicts, pauses, cancels and, while the history forgets
\* nothing, restarts.
THEOREM OnePlaceEver ==
    ASSUME Undisturbed
    PROVE  Spec => []OnePlace
<1>1. TypeOK /\ PlaceInv => OnePlace
  <2> SUFFICES ASSUME TypeOK, PlaceInv, NEW t \in Tasks
               PROVE  /\ Runners(t) = IF t \in running THEN 1 ELSE 0
                      /\ queue[t] <= 1
                      /\ queue[t] > 0 => t \notin running \cup waiting
                      /\ t \notin running \cap waiting
      BY DEF OnePlace
  <2> QED BY DEF PlaceInv, Ruled, Staffed, Runners
<1> QED BY <1>1, PlacesAlways, PTL

\* No file ever has two entries of an id, so that a restart from it makes one object of
\* each, as long as no running task is pushed aside or taken from its goroutine.
THEOREM FileOnceEver ==
    ASSUME Undisturbed
    PROVE  Spec => []FileOnce
<1>1. PlaceInv => FileOnce
    BY DEF PlaceInv, FileRuled, FileOnce
<1> QED BY <1>1, PlacesAlways, PTL

\* A job that is done is not run again: neither a second review, a retry nor a restart
\* takes it back, when the controller does not restart or no write fails.
THEOREM DoneFinalEver ==
    ASSUME Undisturbed, MaxCrashes = 0 \/ Writes = {TRUE}
    PROVE  Spec => DoneFinal
<1> DEFINE Final == \A j \in Jobs : status[j] = "done" =>
               status'[j] \in IF crashes' = crashes THEN {"done", "failed"} ELSE {"done", "absent"}
<1>1. TypeOK /\ PlaceInv /\ [Next]_vars => [Final]_vars
  <2> SUFFICES ASSUME TypeOK, PlaceInv, [Next]_vars
               PROVE  Final
      OBVIOUS
  <2>1. CASE DoneStep
      BY <2>1 DEF DoneStep
  <2>2. CASE Restart
    <3>1. crashes' # crashes /\ MaxCrashes # 0
        BY <2>2, SchedAssumption DEF Restart, TypeOK
    <3>2. Writes = {TRUE}
        BY <3>1
    <3> QED BY <2>2, <3>1, <3>2, RestartPlaces
  <2> HIDE DEF Final
  <2> QED BY <2>1, <2>2, PlaceStep
<1>2. Spec => [][Final]_vars
    BY <1>1, PlacesAlways, PTL DEF Spec
<1> QED BY <1>2 DEF DoneFinal

-----------------------------------------------------------------------------
(* What is cancelled, where tasks wait.                                    *)

\* What is cancelled is not in the file as something else.
CancelSaved ==
    \A t \in Tasks : status[t] = "cancelled" => disk.status[t] \in {"cancelled", "absent"}

\* The dispatch loop cancels nothing.
LEMMA DispatchCancels ==
    ASSUME NEW q, NEW run, NEW st, NEW sp, NEW max, NEW heap,
           DispatchWith(q, run, st, sp, max, heap), NEW t \in Tasks, status'[t] = "cancelled"
    PROVE  st[t] = "cancelled"
BY DEF DispatchWith, Given

\* A section that saves all it cancels.
LEMMA CancelsWritten ==
    ASSUME Writes = {TRUE}, NEW q, NEW run, NEW wait, NEW hist, NEW st, NEW re,
           Saved(q, run, wait, hist, st, re),
           \A t \in Tasks : status'[t] = "cancelled" => st[t] = "cancelled"
    PROVE  CancelSaved'
<1> DEFINE img == Image(q, run, wait, hist, st, re)
<1>1. disk' = img
    BY SavedIs
<1>2. \A t \in Tasks : img.status[t] = IF img.place[t] = "none" THEN "absent" ELSE st[t]
    BY DEF Image
<1> HIDE DEF img
<1> QED BY <1>1, <1>2 DEF CancelSaved

\* The same, with the dispatch that follows.
LEMMA SavesCancels ==
    ASSUME Writes = {TRUE}, NEW q, NEW run, NEW wait, NEW hist, NEW st, NEW re, NEW sp, NEW max,
           NEW heap, Saved(q, run, wait, hist, st, re), DispatchWith(q, run, st, sp, max, heap)
    PROVE  CancelSaved'
<1>1. \A t \in Tasks : status'[t] = "cancelled" => st[t] = "cancelled"
    BY DispatchCancels
<1> QED BY <1>1, CancelsWritten

\* A section that neither saves nor cancels.
LEMMA LeavesCancels ==
    ASSUME CancelSaved, disk' = disk,
           \A t \in Tasks : status'[t] = "cancelled" => status[t] = "cancelled"
    PROVE  CancelSaved'
BY DEF CancelSaved

\* Every step keeps it, as long as the file can be written.
LEMMA CancelSavedStep ==
    ASSUME Undisturbed, Writes = {TRUE}, TypeOK, CancelSaved, [Next]_vars
    PROVE  CancelSaved'
<1>1. ~Reclaim /\ \A t \in Tasks : ~Terminate(t) /\ ~Requeue(t)
    BY DEF Undisturbed, Reclaim, Terminate, Requeue, UserOp
<1>2. ASSUME NEW t \in Tasks, Submit(t) PROVE CancelSaved'
    BY <1>2, SavesCancels DEF Submit, Dispatch
<1>3. ASSUME NEW t \in Tasks, Launch(t) \/ KillTask(t) PROVE CancelSaved'
    BY <1>3, LeavesCancels DEF Launch, KillTask, memVars, fileVars
<1>4. ASSUME NEW t \in Tasks, NEW from \in {"spawned", "live", "dead"}, TailFails(t, from)
      PROVE  CancelSaved'
    BY <1>4, SavesCancels DEF TailFails, Dispatch
<1>5. ASSUME NEW t \in Tasks, TailBackend(t) PROVE CancelSaved'
    BY <1>5, SavesCancels DEF TailBackend, Dispatch
<1>6. ASSUME NEW t \in Tasks, TailSucceeds(t) PROVE CancelSaved'
    BY <1>6, SavesCancels DEF TailSucceeds, Dispatch
<1>7. ASSUME NEW t \in Tasks, NEW j \in Jobs, NEW verdict \in {"pass", "blank", "reject"},
             ReviewSucceeds(t, j, verdict)
      PROVE  CancelSaved'
    BY <1>7, SavesCancels DEF ReviewSucceeds, Dispatch
<1>8. ASSUME NEW t \in Tasks, FlowSuspends(t) PROVE CancelSaved'
    BY <1>8, SavesCancels DEF FlowSuspends, Dispatch
<1>9. ASSUME NEW t \in Tasks, NEW good \in BOOLEAN, FlowEnds(t, good) PROVE CancelSaved'
  <2> DEFINE new == IF good THEN Sent(t) ELSE {}
             st == Given([status EXCEPT ![t] = IF good THEN "reviewing" ELSE "failed"], new, "queued")
  <2>1. /\ disk' = disk
        /\ DispatchWith(Push(queue, new), running \ {t}, st, Unspawned(t, "spawned"), Limit(conf), sorted)
      BY <1>9 DEF FlowEnds, Dispatch
  <2>2. \A u \in Tasks : st[u] = "cancelled" => status[u] = "cancelled"
      BY DEF Given, TypeOK
  <2> HIDE DEF st, new
  <2> QED BY <2>1, <2>2, DispatchCancels, LeavesCancels
<1>10. CASE ScanStart
    BY <1>10, LeavesCancels DEF ScanStart, memVars, fileVars
<1>11. CASE ScanApply
  <2>1. PICK up \in SUBSET scan.asked :
          LET late == scan.expired \cap waiting
              back == up \cap waiting
              q == Push(queue, back)
              st == Given(Given(status, late, "failed"), back, "queued")
          IN \/ /\ Saved(q, running, waiting', history', st, retries)
                /\ DispatchWith(q, running, st, spawned, Limit(conf), sorted)
             \/ status' = st /\ disk' = disk
      BY <1>11 DEF ScanApply, Dispatch
  <2> DEFINE late == scan.expired \cap waiting
             back == up \cap waiting
             q == Push(queue, back)
             st == Given(Given(status, late, "failed"), back, "queued")
  <2>2. \A u \in Tasks : st[u] = "cancelled" => status[u] = "cancelled"
      BY DEF Given
  <2>3. \/ /\ Saved(q, running, waiting', history', st, retries)
           /\ DispatchWith(q, running, st, spawned, Limit(conf), sorted)
        \/ status' = st /\ disk' = disk
      BY <2>1
  <2> HIDE DEF st, q
  <2> QED BY <2>2, <2>3, SavesCancels, LeavesCancels
<1>12. ASSUME NEW t \in Tasks, CancelQueued(t) PROVE CancelSaved'
  <2> DEFINE q == Minus(queue, t)
             st == [status EXCEPT ![t] = "cancelled"]
  <2>1. /\ disk' = Image(q, running, waiting, history', st, retries)
        /\ DispatchWith(q, running, st, spawned, Limit(conf), TRUE)
      BY <1>12 DEF CancelQueued
  <2>2. Saved(q, running, waiting, history', st, retries)
      BY <2>1 DEF Saved
  <2> HIDE DEF st, q
  <2> QED BY <2>1, <2>2, SavesCancels
<1>13. ASSUME NEW t \in Tasks, CancelParked(t) PROVE CancelSaved'
  <2>1. Saved(queue, running, waiting', history', status', retries)
      BY <1>13 DEF CancelParked
  <2> QED BY <2>1, CancelsWritten
<1>14. ASSUME NEW t \in Tasks, PauseTask(t) \/ DeleteTask(t) \/ MoveTask(t) PROVE CancelSaved'
  <2>1. /\ disk' = disk
        /\ \A u \in Tasks : status'[u] = "cancelled" => status[u] = "cancelled"
      BY <1>14 DEF PauseTask, DeleteTask, MoveTask, fileVars, TypeOK
  <2> QED BY <2>1, LeavesCancels
<1>15. ASSUME NEW t \in Tasks, ResumeTask(t) \/ RetryTask(t) PROVE CancelSaved'
  <2> DEFINE st == [status EXCEPT ![t] = "queued"]
  <2>1. /\ disk' = disk
        /\ \E q : DispatchWith(q, running, st, spawned, Limit(conf), sorted)
      BY <1>15 DEF ResumeTask, RetryTask, Dispatch, fileVars
  <2>2. \A u \in Tasks : st[u] = "cancelled" => status[u] = "cancelled"
      BY DEF TypeOK
  <2> HIDE DEF st
  <2> QED BY <2>1, <2>2, DispatchCancels, LeavesCancels
<1>16. CASE PauseDispatch \/ ResumeDispatch \/ \E n \in Sizes : SetMaxConcurrent(n)
  <2>1. /\ \/ \E max : DispatchWith(queue, running, status, spawned, max, sorted)
           \/ UNCHANGED status
        /\ disk' = disk
      BY <1>16 DEF PauseDispatch, ResumeDispatch, SetMaxConcurrent, Configured
  <2> QED BY <2>1, DispatchCancels, LeavesCancels
<1>17. CASE Restart
  <2>1. disk' = disk /\ DispatchWith(Push(Nobody, ToQueue), {}, Restored, Nobody, Limit(diskConf), TRUE)
      BY <1>17 DEF Restart, Restored
  <2>2. \A t \in Tasks : Restored[t] = "cancelled" => disk.status[t] = "cancelled"
      BY DEF Restored
  <2>3. \A t \in Tasks : status'[t] = "cancelled" => Restored[t] = "cancelled"
      BY <2>1, DispatchCancels
  <2> QED BY <2>1, <2>2, <2>3 DEF CancelSaved
<1>18. CASE ScanNothing \/ UNCHANGED vars
    BY <1>18, LeavesCancels DEF ScanNothing, vars
<1> QED
    BY <1>1, <1>2, <1>3, <1>4, <1>5, <1>6, <1>7, <1>8, <1>9, <1>10, <1>11, <1>12, <1>13, <1>14,
       <1>15, <1>16, <1>17, <1>18 DEF Next, Operations, RunEnds

\* A cancelled job is not brought back where tasks are suspended either: by a scan that
\* saw it waiting, or by a restart from a file in which it waits. Here every file has one
\* entry of each id (FileOnceEver), and this is said of every restart.
THEOREM CancelFinalWaiting ==
    ASSUME Undisturbed, Writes = {TRUE}
    PROVE  Spec => CancelFinal
<1>1. Init => CancelSaved
    BY DEF Init, CancelSaved
<1>2. TypeOK /\ CancelSaved /\ [Next]_vars => CancelSaved'
    BY CancelSavedStep
<1>3. SlotInv /\ PlaceInv /\ CancelSaved /\ [Next]_vars
        => [\A j \in Jobs : status[j] = "cancelled" /\ Unheld(j) /\ (crashes' # crashes => FileOnce)
                               => status'[j] \in {"cancelled", "absent"}]_vars
  <2> SUFFICES ASSUME SlotInv, PlaceInv, CancelSaved, [Next]_vars, NEW j \in Jobs, Settled(j)
               PROVE  status'[j] \in {"cancelled", "absent"}
      BY DEF Settled
  <2>1. j \in Tasks /\ status[j] = "cancelled"
      BY DEF Settled, Tasks
  <2>2. j \notin waiting /\ disk.status[j] \in {"cancelled", "absent"}
      BY <2>1 DEF PlaceInv, Ruled, CancelSaved
  <2> QED BY <2>2, SettledStep
<1> QED BY <1>1, <1>2, <1>3, SchedTypeCorrect, SlotsAlways, PlacesAlways, PTL DEF Spec, CancelFinal
=============================================================================
