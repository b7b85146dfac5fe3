--------------------------- MODULE MasterScheduler ---------------------------
(***************************************************************************)
(* The controller's master scheduler: a queue of tasks, a number of slots, *)
(* one goroutine per dispatched task (runTask, runZergFlow), the automatic *)
(* retries, the review of finished jobs and the rework it may ask for, the *)
(* recovery loop for tasks that wait for a backend, the operations of the  *)
(* user, and the file from which all of it is restored after a restart.    *)
(*                                                                         *)
(* A step is one section of the code that holds s.mu, or one thing the     *)
(* code does without it: start a process, end it, kill it, ping. A task is *)
(* its id: the model has one object per id. Abstracted: descriptions,      *)
(* worktrees, reports, slices, closing marks, log lines, and the order of  *)
(* queued tasks that have the same priority.                               *)
(***************************************************************************)
EXTENDS Naturals, FiniteSets

CONSTANTS
    Requests,    \* the jobs users and the idle detector submit
    Reworks,     \* the jobs reviews order
    Reviews,     \* the review tasks
    NoTask,
    ReviewOf,    \* review-<id> of a job
    AgainOf,     \* review-retry-<id> of a job, NoTask past ReviewFailedCount's limit
    ReworkOf,    \* rework-<id> of a job, NoTask past ReplanCount's limit
    External,    \* the requests with PriorityExternal
    ZergFlow,    \* the requests with Flow "zerg"
    MaxRetry,    \* automatic retries of a task: 3
    MaxHistory,  \* maxHistory: 100
    WaitScans,   \* maxWaitRetry, in rounds of the recovery loop
    InitMax,     \* the maxConcurrent of NewMasterScheduler
    Sizes,       \* the values SetMaxConcurrent is called with
    Writes,      \* the outcomes a write to a file may have
    Events,      \* what takes part besides submitting and running tasks
    MaxOps,      \* bound: operations of the user and reclaims
    MaxCrashes   \* bound: restarts of the controller

Jobs == Requests \cup Reworks
Tasks == Jobs \cup Reviews

ASSUME SchedAssumption ==
    /\ IsFiniteSet(Tasks)
    /\ Jobs \cap Reviews = {}
    /\ NoTask \notin Tasks
    /\ ReviewOf \in [Jobs -> Reviews]
    /\ AgainOf \in [Jobs -> Reviews \cup {NoTask}]
    /\ ReworkOf \in [Jobs -> Reworks \cup {NoTask}]
    /\ External \subseteq Requests
    /\ ZergFlow \subseteq Requests
    /\ MaxRetry \in Nat
    /\ MaxHistory \in Nat \ {0}
    /\ WaitScans \in Nat
    /\ InitMax \in Nat
    /\ Sizes \subseteq Nat
    /\ Writes \subseteq BOOLEAN
    /\ MaxOps \in Nat
    /\ MaxCrashes \in Nat

VARIABLES
    status,    \* Task.Status, "absent" before there is such a task
    retries,   \* Task.RetryCount; past the limit it is not counted further
    queue,     \* s.queue: how often each task is in it
    sorted,    \* s.queue is a heap
    running, waiting, history,   \* the keys of the maps
    spawned,   \* goroutines of a task that have no process (yet)
    live,      \* goroutines of a task whose process runs
    dead,      \* goroutines of a task whose process was killed
    cmd,       \* the tasks whose Task.cmd is a running process
    kills,     \* calls of killTaskProcess between the two locks
    age,       \* rounds of the recovery loop since WaitingSince
    scan,      \* what recoverWaitingLocked carries from lock to lock
    conf,      \* configuredMax and dispatchPaused
    disk,      \* the file of tasks
    diskConf,  \* the file of the configuration
    ops, crashes

memVars == <<status, retries, queue, sorted, running, waiting, history>>
runVars == <<spawned, live, dead, cmd>>
sideVars == <<kills, age, scan>>
fileVars == <<conf, disk, diskConf>>
boundVars == <<ops, crashes>>
vars == <<status, retries, queue, sorted, running, waiting, history, spawned, live, dead, cmd,
          kills, age, scan, conf, disk, diskConf, ops, crashes>>

Statuses == {"absent", "queued", "paused", "running", "waiting_retry", "reviewing",
             "done", "failed", "cancelled"}
Places == {"none", "queue", "running", "waiting", "history"}
Confs == [max : Nat, paused : BOOLEAN]
Scans == [on : BOOLEAN, expired : SUBSET Tasks, asked : SUBSET Tasks]
Disks == [place : [Tasks -> Places], status : [Tasks -> Statuses],
          retries : [Tasks -> 0..(MaxRetry + 1)], twice : SUBSET Tasks]
NoScan == [on |-> FALSE, expired |-> {}, asked |-> {}]
InitConf == [max |-> InitMax, paused |-> FALSE]
Nobody == [t \in Tasks |-> 0]

\* Every variable has its type.
TypeOK ==
    /\ status \in [Tasks -> Statuses]
    /\ retries \in [Tasks -> 0..(MaxRetry + 1)]
    /\ queue \in [Tasks -> Nat]
    /\ sorted \in BOOLEAN
    /\ running \subseteq Tasks /\ waiting \subseteq Tasks /\ history \subseteq Tasks
    /\ spawned \in [Tasks -> Nat] /\ live \in [Tasks -> Nat] /\ dead \in [Tasks -> Nat]
    /\ cmd \subseteq Tasks /\ \A t \in cmd : live[t] > 0
    /\ kills \subseteq Tasks
    /\ age \in [Tasks -> 0..WaitScans]
    /\ scan \in Scans
    /\ conf \in Confs
    /\ diskConf \in Confs
    /\ disk \in Disks
    /\ ops \in 0..MaxOps
    /\ crashes \in 0..MaxCrashes

-----------------------------------------------------------------------------
(* Helpers of the handlers.                                                *)

Runners(t) == spawned[t] + live[t] + dead[t]
Limit(c) == IF c.paused THEN 0 ELSE c.max
\* Mutant: a failed attempt is not counted.
BumpedNever(t) == retries[t]
Bumped(t) == IF retries[t] > MaxRetry THEN retries[t] ELSE retries[t] + 1
Push(q, S) == [t \in Tasks |-> IF t \in S THEN q[t] + 1 ELSE q[t]]
Given(f, S, v) == [t \in Tasks |-> IF t \in S THEN v ELSE f[t]]
Plus(f, t) == [f EXCEPT ![t] = @ + 1]
Minus(f, t) == [f EXCEPT ![t] = @ - 1]

\* saveTasksLocked: the tasks under way, and of the history what is not under way.
Image(q, run, wait, hist, st, re) ==
    LET place == [t \in Tasks |-> CASE q[t] > 0 -> "queue"
                                    [] q[t] = 0 /\ t \in run -> "running"
                                    [] q[t] = 0 /\ t \in wait \ run -> "waiting"
                                    [] q[t] = 0 /\ t \in hist \ (run \cup wait) -> "history"
                                    [] OTHER -> "none"]
    IN [place |-> place,
        status |-> [t \in Tasks |-> IF place[t] = "none" THEN "absent" ELSE st[t]],
        retries |-> [t \in Tasks |-> IF place[t] = "none" THEN 0 ELSE re[t]],
        twice |-> {t \in Tasks : q[t] > 1 \/ (q[t] > 0 /\ t \in run \cup wait)
                                          \/ t \in run \cap wait}]

\* A save whose failure is only logged.
Saved(q, run, wait, hist, st, re) ==
    \E ok \in Writes : disk' = IF ok THEN Image(q, run, wait, hist, st, re) ELSE disk

Queued(q) == {t \in Tasks : q[t] > 0}

\* PriorityExternal, the one below it for reviews and reworks, PriorityInternal.
Priority(t) == IF t \in External THEN 2 ELSE IF t \in Requests THEN 0 ELSE 1

\* The dispatch loop took these, those of a higher priority first: the last pop found a
\* free slot, and the loop went on until the queue was empty or the slots were full.
Popped(q, run, st, max, heap, take) ==
    LET Up(S) == run \cup {t \in S : st[t] # "cancelled"}
        all == {t \in Queued(q) : take[t] > 0}
        Before(t) == IF take[t] > 1 THEN all ELSE all \ {t}
    IN /\ \A t \in Queued(q) : take[t] <= q[t]
       /\ heap => \A t \in all, u \in Queued(q) : take[u] < q[u] => Priority(t) >= Priority(u)
       /\ all # {} => \E t \in all : Cardinality(Up(Before(t))) < max
       /\ (\A t \in Queued(q) : take[t] = q[t]) \/ Cardinality(Up(all)) >= max

\* Mutant: a cancelled task left in the queue is dispatched.
DispatchRevives(q, run, st, sp, max, heap) ==
    \E take \in [Queued(q) -> UNION {0..q[t] : t \in Tasks}] :
        LET up == {t \in Queued(q) : take[t] > 0}
        IN /\ Popped(q, run, st, max, heap, take)
           /\ queue' = [t \in Tasks |-> IF t \in Queued(q) THEN q[t] - take[t] ELSE 0]
           /\ sorted' = heap
           /\ running' = run \cup up
           /\ status' = Given(st, up, "running")
           /\ spawned' = [t \in Tasks |-> IF t \in up THEN sp[t] + take[t] ELSE sp[t]]

\* dispatchLocked with dispatchDecideLocked: a cancelled task is dropped, any other is
\* marked as running and gets a goroutine.
DispatchWith(q, run, st, sp, max, heap) ==
    \E take \in [Queued(q) -> UNION {0..q[t] : t \in Tasks}] :
        LET up == {t \in Queued(q) : take[t] > 0 /\ st[t] # "cancelled"}
        IN /\ Popped(q, run, st, max, heap, take)
           /\ queue' = [t \in Tasks |-> IF t \in Queued(q) THEN q[t] - take[t] ELSE 0]
           /\ sorted' = heap
           /\ running' = run \cup up
           /\ status' = Given(st, up, "running")
           /\ spawned' = [t \in Tasks |-> IF t \in up THEN sp[t] + take[t] ELSE sp[t]]
Dispatch(q, run, st, sp) == DispatchWith(q, run, st, sp, Limit(conf), sorted)

\* trimHistoryLocked: one task too many, and the one that completed first goes; one that
\* has not completed has the zero time and goes before all others.
Trims(h, t, st) ==
    LET zero == {u \in h : st[u] \notin {"done", "failed"}}
    IN IF Cardinality(h) <= MaxHistory THEN {h}
       ELSE {h \ {u} : u \in IF zero # {} THEN zero ELSE h \ {t}}

Init ==
    /\ status = [t \in Tasks |-> "absent"]
    /\ retries = Nobody
    /\ queue = Nobody
    /\ sorted = TRUE
    /\ running = {} /\ waiting = {} /\ history = {}
    /\ spawned = Nobody /\ live = Nobody /\ dead = Nobody
    /\ cmd = {}
    /\ kills = {}
    /\ age = Nobody
    /\ scan = NoScan
    /\ conf = InitConf
    /\ diskConf = InitConf
    /\ disk = Image(Nobody, {}, {}, {}, status, Nobody)
    /\ ops = 0
    /\ crashes = 0

-----------------------------------------------------------------------------
(* Submitting and running.                                                 *)

\* pauseInternalsLocked: the running tasks an external one pushes aside.
Pushed(t) == IF t \in External THEN running \ External ELSE {}

\* Mutant: dispatched without a save.
SubmitUnsaved(t) ==
    LET out == Pushed(t)
        st == Given(status, out \cup {t}, "queued")
    IN /\ t \in Requests
       /\ status[t] = "absent"
       /\ live' = [u \in Tasks |-> IF u \in out \cap cmd THEN live[u] - 1 ELSE live[u]]
       /\ dead' = [u \in Tasks |-> IF u \in out \cap cmd THEN dead[u] + 1 ELSE dead[u]]
       /\ cmd' = cmd \ out
       /\ retries' = [retries EXCEPT ![t] = 0]
       /\ Dispatch(Push(queue, out \cup {t}), running \ out, st, spawned)
       /\ UNCHANGED <<waiting, history, kills, age, scan, conf, disk, diskConf, ops, crashes>>

\* Submit: an external task first kills and requeues what is internal; the file is
\* written before the dispatch, and without the waiting tasks.
Submit(t) ==
    LET out == Pushed(t)
        q == Push(queue, out \cup {t})
        st == Given(status, out \cup {t}, "queued")
        re == [retries EXCEPT ![t] = 0]
    IN /\ t \in Requests
       /\ status[t] = "absent"
       /\ live' = [u \in Tasks |-> IF u \in out \cap cmd THEN live[u] - 1 ELSE live[u]]
       /\ dead' = [u \in Tasks |-> IF u \in out \cap cmd THEN dead[u] + 1 ELSE dead[u]]
       /\ cmd' = cmd \ out
       /\ retries' = re
       /\ Saved(q, running \ out, {}, history, st, re)
       /\ Dispatch(q, running \ out, st, spawned)
       /\ UNCHANGED <<waiting, history, kills, age, scan, conf, diskConf, ops, crashes>>

\* runTask starts its process; Task.cmd is now this one.
Launch(t) ==
    /\ t \notin ZergFlow
    /\ spawned[t] > 0
    /\ spawned' = Minus(spawned, t)
    /\ live' = Plus(live, t)
    /\ cmd' = cmd \cup {t}
    /\ UNCHANGED <<memVars, dead, sideVars, fileVars, boundVars>>

\* A goroutine of the task comes to the lock at its end: its process ended by itself, was
\* killed, or there was none. Task.cmd is cleared, whosever process it is.
Ends(t, from) ==
    /\ CASE from = "live" -> live[t] > 0 [] from = "dead" -> dead[t] > 0 [] OTHER -> spawned[t] > 0
    /\ live' = IF from = "live" THEN Minus(live, t) ELSE live
    /\ dead' = IF from = "dead" THEN Minus(dead, t) ELSE dead
    /\ cmd' = cmd \ {t}
Unspawned(t, from) == IF from = "spawned" THEN Minus(spawned, t) ELSE spawned

\* The tail of runTask when the process failed, was killed or could not be started, or
\* when the verification of its output failed: again, or failed for good.
TailFails(t, from) ==
    LET again == Bumped(t) <= MaxRetry
        q == IF again THEN Push(queue, {t}) ELSE queue
        st == [status EXCEPT ![t] = IF again THEN "queued" ELSE "failed"]
        re == [retries EXCEPT ![t] = Bumped(t)]
    IN /\ t \notin ZergFlow
       /\ Ends(t, from)
       /\ retries' = re
       /\ history' \in IF again THEN {history} ELSE Trims(history \cup {t}, t, st)
       /\ Saved(q, running \ {t}, {}, history', st, re)
       /\ Dispatch(q, running \ {t}, st, Unspawned(t, from))
       /\ UNCHANGED <<waiting, kills, age, scan, conf, diskConf, ops, crashes>>

\* Exit code 3, the backend is not available: the task waits, and is saved as waiting.
TailBackend(t) ==
    LET st == [status EXCEPT ![t] = "waiting_retry"]
        re == [retries EXCEPT ![t] = Bumped(t)]
    IN /\ "suspend" \in Events
       /\ t \notin ZergFlow
       /\ Bumped(t) <= MaxRetry
       /\ Ends(t, "live")
       /\ retries' = re
       /\ waiting' = waiting \cup {t}
       /\ age' = [age EXCEPT ![t] = 0]
       /\ Saved(queue, running \ {t}, waiting', history, st, re)
       /\ Dispatch(queue, running \ {t}, st, spawned)
       /\ UNCHANGED <<history, kills, scan, conf, diskConf, ops, crashes>>

\* submitReviewTaskLocked, unless the review is running. Bound: an id is created once.
Sent(j) == {ReviewOf[j]} \ running
Once(S) == \A t \in S : status[t] = "absent"

\* Mutant: the file is written before the job is marked as done.
TailSavesEarly(t) ==
    LET q == Push(queue, Sent(t))
        st == Given([status EXCEPT ![t] = "done"], Sent(t), "queued")
        re == Given(retries, Sent(t), 0)
    IN /\ t \in Jobs \ ZergFlow
       /\ Once(Sent(t))
       /\ Ends(t, "live")
       /\ retries' = re
       /\ history' \in Trims(history \cup {t}, t, st)
       /\ Saved(queue, running, {}, history, status, retries)
       /\ Dispatch(q, running \ {t}, st, spawned)
       /\ UNCHANGED <<waiting, kills, age, scan, conf, diskConf, ops, crashes>>

\* A job's process succeeded and its output passed the verification.
TailSucceeds(t) ==
    LET q == Push(queue, Sent(t))
        st == Given([status EXCEPT ![t] = "done"], Sent(t), "queued")
        re == Given(retries, Sent(t), 0)
    IN /\ t \in Jobs \ ZergFlow
       /\ Once(Sent(t))
       /\ Ends(t, "live")
       /\ retries' = re
       /\ history' \in Trims(history \cup {t}, t, st)
       /\ Saved(q, running \ {t}, {}, history', st, re)
       /\ Dispatch(q, running \ {t}, st, spawned)
       /\ UNCHANGED <<waiting, kills, age, scan, conf, diskConf, ops, crashes>>

\* The task a review without a report, or one that rejects, asks for; none past the limit.
Ordered(j, verdict) ==
    IF verdict = "pass" THEN NoTask
    ELSE IF verdict = "blank" /\ AgainOf[j] # NoTask /\ status[AgainOf[j]] = "absent" THEN AgainOf[j]
    ELSE IF ReworkOf[j] # NoTask /\ status[ReworkOf[j]] = "absent" THEN ReworkOf[j]
    ELSE NoTask

\* handleReviewDoneLocked: what becomes of the reviewed job.
Judged(j, verdict) ==
    CASE verdict = "pass" /\ status[j] = "reviewing" -> "done"
      [] verdict # "pass" /\ Ordered(j, verdict) = NoTask -> "failed"
      [] OTHER -> status[j]

\* A review's process succeeded; its verdict is for a job that is still in the history.
ReviewSucceeds(t, j, verdict) ==
    LET known == j \in history
        new == IF known THEN {Ordered(j, verdict)} \ {NoTask} ELSE {}
        judged == IF known THEN {j} ELSE {}
        q == Push(queue, new)
        st == Given(Given([status EXCEPT ![t] = "done"], judged, Judged(j, verdict)), new, "queued")
        re == Given(retries, new, 0)
    IN /\ t \in {ReviewOf[j], AgainOf[j]}
       /\ Ends(t, "live")
       /\ retries' = re
       /\ history' \in Trims(history \cup {t}, t, st)
       /\ Saved(q, running \ {t}, {}, history', st, re)
       /\ Dispatch(q, running \ {t}, st, spawned)
       /\ UNCHANGED <<waiting, kills, age, scan, conf, diskConf, ops, crashes>>

\* runZergFlow and finishTask: no process, no automatic retry; only a task that is
\* suspended is saved.
FlowSuspends(t) ==
    LET st == [status EXCEPT ![t] = "waiting_retry"]
    IN /\ "suspend" \in Events
       /\ t \in ZergFlow
       /\ Ends(t, "spawned")
       /\ waiting' = waiting \cup {t}
       /\ age' = [age EXCEPT ![t] = 0]
       /\ Saved(queue, running \ {t}, waiting', history, st, retries)
       /\ Dispatch(queue, running \ {t}, st, Unspawned(t, "spawned"))
       /\ UNCHANGED <<retries, history, kills, scan, conf, diskConf, ops, crashes>>

\* Mutant: the slot is not given back.
FlowKeepsSlot(t, good) ==
    LET new == IF good THEN Sent(t) ELSE {}
        st == Given([status EXCEPT ![t] = IF good THEN "reviewing" ELSE "failed"], new, "queued")
    IN /\ t \in ZergFlow
       /\ Once(new)
       /\ Ends(t, "spawned")
       /\ retries' = Given(retries, new, 0)
       /\ history' = history \cup {t}
       /\ Dispatch(Push(queue, new), running, st, Unspawned(t, "spawned"))
       /\ UNCHANGED <<waiting, kills, age, scan, conf, disk, diskConf, ops, crashes>>

\* The flow succeeded and its review is sent, or it failed; neither is saved.
FlowEnds(t, good) ==
    LET new == IF good THEN Sent(t) ELSE {}
        st == Given([status EXCEPT ![t] = IF good THEN "reviewing" ELSE "failed"], new, "queued")
    IN /\ t \in ZergFlow
       /\ Once(new)
       /\ Ends(t, "spawned")
       /\ retries' = Given(retries, new, 0)
       /\ history' = history \cup {t}
       /\ Dispatch(Push(queue, new), running \ {t}, st, Unspawned(t, "spawned"))
       /\ UNCHANGED <<waiting, kills, age, scan, conf, disk, diskConf, ops, crashes>>

-----------------------------------------------------------------------------
(* The recovery loop.                                                      *)

\* recoverWaitingLocked, first lock: who has waited too long, who is to be pinged.
ScanStart ==
    LET late == {t \in waiting : age[t] = WaitScans}
    IN /\ ~scan.on
       /\ waiting # {}
       /\ scan' = [on |-> TRUE, expired |-> late, asked |-> waiting \ late]
       /\ age' = [t \in Tasks |-> IF t \in waiting \ late THEN age[t] + 1 ELSE age[t]]
       /\ UNCHANGED <<memVars, runVars, kills, fileVars, boundVars>>

\* A round with nothing to recover.
ScanNothing ==
    /\ ~scan.on
    /\ waiting = {}
    /\ UNCHANGED vars

\* Mutant: whoever was pinged is moved, waiting or not.
ScanAppliesAll ==
    \E back \in SUBSET scan.asked :
        LET late == scan.expired
            q == Push(queue, back)
            st == Given(Given(status, late, "failed"), back, "queued")
        IN /\ scan.on
           /\ scan' = NoScan
           /\ waiting' = waiting \ (late \cup back)
           /\ history' = history \cup late
           /\ Saved(q, running, waiting', history', st, retries)
           /\ Dispatch(q, running, st, spawned)
           /\ UNCHANGED <<retries, live, dead, cmd, kills, age, conf, diskConf, boundVars>>

\* applyWaitingRecoveryLocked, after the pings: only what still waits is moved, and
\* only with a non-empty queue is the file written and the queue dispatched.
ScanApply ==
    \E up \in SUBSET scan.asked :
        LET late == scan.expired \cap waiting
            back == up \cap waiting
            q == Push(queue, back)
            st == Given(Given(status, late, "failed"), back, "queued")
        IN /\ scan.on
           /\ scan' = NoScan
           /\ waiting' = waiting \ (late \cup back)
           /\ history' = history \cup late
           /\ \/ /\ Queued(q) # {}
                 /\ Saved(q, running, waiting', history', st, retries)
                 /\ Dispatch(q, running, st, spawned)
              \/ /\ Queued(q) = {}
                 /\ status' = st
                 /\ UNCHANGED <<queue, sorted, running, spawned, disk>>
           /\ UNCHANGED <<retries, live, dead, cmd, kills, age, conf, diskConf, boundVars>>

UserOp(e) == e \in Events /\ ops < MaxOps /\ ops' = ops + 1 /\ UNCHANGED crashes

\* reclaimDeadLettersAfter: running tasks without a process whose heartbeat is old.
Reclaim ==
    \E S \in SUBSET (running \ (ZergFlow \cup cmd)) :
        LET again == {t \in S : Bumped(t) <= MaxRetry}
            q == Push(queue, again)
            st == Given(Given(status, S, "failed"), again, "queued")
            re == [t \in Tasks |-> IF t \in S THEN Bumped(t) ELSE retries[t]]
        IN /\ UserOp("reclaim")
           /\ S # {}
           /\ retries' = re
           /\ history' = history \cup (S \ again)
           /\ Saved(q, running \ S, waiting, history', st, re)
           /\ Dispatch(q, running \ S, st, spawned)
           /\ UNCHANGED <<waiting, live, dead, cmd, sideVars, conf, diskConf>>

-----------------------------------------------------------------------------
(* Operations of the user.                                                 *)

\* TerminateTask, up to the unlock; the kill comes later.
Terminate(t) ==
    LET st == [status EXCEPT ![t] = "failed"]
    IN /\ UserOp("terminate")
       /\ t \in running
       /\ history' = history \cup {t}
       /\ Saved(queue, running \ {t}, waiting, history', st, retries)
       /\ Dispatch(queue, running \ {t}, st, spawned)
       /\ kills' = kills \cup {t}
       /\ UNCHANGED <<retries, waiting, live, dead, cmd, age, scan, conf, diskConf>>

\* RequeueTask, up to the unlock: appended to the heap as to a list, saved, not dispatched.
Requeue(t) ==
    /\ UserOp("requeue")
    /\ t \in running
    /\ status' = [status EXCEPT ![t] = "queued"]
    /\ queue' = Push(queue, {t})
    /\ sorted' = (sorted /\ Queued(queue) = {})
    /\ running' = running \ {t}
    /\ Saved(queue', running', waiting, history, status', retries)
    /\ kills' = kills \cup {t}
    /\ UNCHANGED <<retries, waiting, history, runVars, age, scan, conf, diskConf>>

\* Mutant: a process is taken for granted.
KillAnyway(t) ==
    /\ t \in kills
    /\ kills' = kills \ {t}
    /\ live' = IF t \in running THEN Minus(live, t) ELSE live
    /\ dead' = IF t \in running THEN Plus(dead, t) ELSE dead
    /\ cmd' = cmd \ {t}
    /\ UNCHANGED <<memVars, spawned, age, scan, fileVars, boundVars>>

\* killTaskProcess: it looks for the task among the running ones.
KillTask(t) ==
    LET hit == t \in running \cap cmd
    IN /\ t \in kills
       /\ kills' = kills \ {t}
       /\ live' = IF hit THEN Minus(live, t) ELSE live
       /\ dead' = IF hit THEN Plus(dead, t) ELSE dead
       /\ cmd' = IF hit THEN cmd \ {t} ELSE cmd
       /\ UNCHANGED <<memVars, spawned, age, scan, fileVars, boundVars>>

\* CancelTask on a queued task; without the write, nothing is dispatched.
CancelQueued(t) ==
    LET q == Minus(queue, t)
        st == [status EXCEPT ![t] = "cancelled"]
    IN /\ UserOp("cancel")
       /\ queue[t] > 0
       /\ status[t] \in {"queued", "paused"}
       /\ history' = history \cup {t}
       /\ \E ok \in Writes :
            \/ /\ ok
               /\ disk' = Image(q, running, waiting, history', st, retries)
               /\ DispatchWith(q, running, st, spawned, Limit(conf), TRUE)
            \/ /\ ~ok
               /\ queue' = q /\ sorted' = TRUE /\ status' = st
               /\ UNCHANGED <<disk, running, spawned>>
       /\ UNCHANGED <<retries, waiting, live, dead, cmd, sideVars, conf, diskConf>>

\* CancelTask on a waiting task, and on one that is only in the history; of one that has
\* ended only the closing mark is saved.
CancelParked(t) ==
    /\ UserOp("cancel")
    /\ queue[t] = 0 /\ t \notin running
    /\ \/ /\ \/ t \in waiting /\ status[t] = "waiting_retry"
             \/ t \in history \ waiting /\ status[t] \in {"queued", "paused", "waiting_retry"}
          /\ status' = [status EXCEPT ![t] = "cancelled"]
       \/ /\ t \in history \ waiting /\ status[t] \in {"done", "failed"}
          /\ status' = status
    /\ waiting' = waiting \ {t}
    /\ history' = history \cup {t}
    /\ Saved(queue, running, waiting', history', status', retries)
    /\ UNCHANGED <<retries, queue, sorted, running, runVars, sideVars, conf, diskConf>>

\* PauseTask: a mark on the queued task, not saved.
PauseTask(t) ==
    /\ UserOp("pause")
    /\ queue[t] > 0
    /\ status[t] = "queued"
    /\ status' = [status EXCEPT ![t] = "paused"]
    /\ UNCHANGED <<retries, queue, sorted, running, waiting, history, runVars, sideVars, fileVars>>

\* PauseTask, undone: dispatched at once. There are no more of these than of the pauses.
ResumeTask(t) ==
    /\ queue[t] > 0
    /\ status[t] = "paused"
    /\ Dispatch(queue, running, [status EXCEPT ![t] = "queued"], spawned)
    /\ UNCHANGED <<retries, waiting, history, live, dead, cmd, sideVars, fileVars, boundVars>>

\* Mutant: pushed, not dispatched (the code before 2026-09-09).
RetryOnlyPushes(t) ==
    /\ UserOp("retry")
    /\ t \in history
    /\ status[t] = "failed"
    /\ retries' = [retries EXCEPT ![t] = 0]
    /\ queue' = Push(queue, {t})
    /\ status' = [status EXCEPT ![t] = "queued"]
    /\ UNCHANGED <<sorted, running, waiting, history, runVars, sideVars, fileVars>>

\* Mutant: the status of the task is not looked at.
RetryAny(t) ==
    /\ UserOp("retry")
    /\ t \in history
    /\ retries' = [retries EXCEPT ![t] = 0]
    /\ Dispatch(Push(queue, {t}), running, [status EXCEPT ![t] = "queued"], spawned)
    /\ UNCHANGED <<waiting, history, live, dead, cmd, sideVars, fileVars>>

\* RetryTask: the task stays in the history as well; not saved.
RetryTask(t) ==
    /\ UserOp("retry")
    /\ t \in history
    /\ status[t] = "failed"
    /\ retries' = [retries EXCEPT ![t] = 0]
    /\ Dispatch(Push(queue, {t}), running, [status EXCEPT ![t] = "queued"], spawned)
    /\ UNCHANGED <<waiting, history, live, dead, cmd, sideVars, fileVars>>

\* DeleteTask: out of the queue, not saved.
DeleteTask(t) ==
    /\ UserOp("delete")
    /\ queue[t] > 0
    /\ queue' = Minus(queue, t)
    /\ sorted' = TRUE
    /\ UNCHANGED <<status, retries, running, waiting, history, runVars, sideVars, fileVars>>

\* MoveTask: two entries are swapped and each is put right as if the rest were a heap,
\* which may leave none.
MoveTask(t) ==
    /\ UserOp("move")
    /\ queue[t] > 0
    /\ sorted' \in {sorted, sorted /\ Queued(queue) = {t}}
    /\ UNCHANGED <<status, retries, queue, running, waiting, history, runVars, sideVars, fileVars>>

\* saveSchedConfigLocked after a change in memory; what follows needs its success.
Configured(c) ==
    \E ok \in Writes :
        /\ conf' = c
        /\ diskConf' = IF ok THEN c ELSE diskConf
        /\ \/ ok /\ ~c.paused /\ DispatchWith(queue, running, status, spawned, Limit(c), sorted)
           \/ (~ok \/ c.paused) /\ UNCHANGED <<queue, sorted, running, status, spawned>>
        /\ UNCHANGED <<retries, waiting, history, live, dead, cmd, sideVars, disk>>

\* PauseDispatch, ResumeDispatch, SetMaxConcurrent.
PauseDispatch == UserOp("knobs") /\ Configured([conf EXCEPT !.paused = TRUE])
ResumeDispatch == UserOp("knobs") /\ Configured([conf EXCEPT !.paused = FALSE])
SetMaxConcurrent(n) == UserOp("knobs") /\ Configured([conf EXCEPT !.max = n])

-----------------------------------------------------------------------------
(* Restart.                                                                *)

\* loadPersistedHistory: queued and paused tasks of the queue go back to it, waiting ones
\* go on to wait, everything else is kept in the history, what was running as failed.
ToQueue == {t \in Tasks : disk.place[t] = "queue" /\ disk.status[t] \in {"queued", "paused"}}
ToWait == {t \in Tasks : disk.place[t] = "waiting" /\ disk.status[t] = "waiting_retry"}
ToHistory == {t \in Tasks : disk.place[t] # "none"} \ (ToQueue \cup ToWait)

\* persistedTasks, I3: "an id is in one partition of a file only". It is not so after a
\* running task was pushed aside and the tail of its killed goroutine has queued it again.
FileOnce == disk.twice = {}

\* Mutant: dispatched before the configuration is read.
RestartEager ==
    LET st == [t \in Tasks |-> IF t \in ToQueue THEN "queued"
                               ELSE IF t \in ToHistory /\ disk.status[t] = "running" THEN "failed"
                               ELSE disk.status[t]]
    IN /\ crashes < MaxCrashes
       /\ FileOnce
       /\ crashes' = crashes + 1
       /\ retries' = disk.retries
       /\ waiting' = ToWait
       /\ history' = ToHistory
       /\ live' = Nobody /\ dead' = Nobody /\ cmd' = {}
       /\ kills' = {}
       /\ scan' = NoScan
       /\ conf' = diskConf
       /\ DispatchWith(Push(Nobody, ToQueue), {}, st, Nobody, InitMax, TRUE)
       /\ UNCHANGED <<age, disk, diskConf, ops>>

\* The controller goes down at any moment and comes up again: NewMasterScheduler and
\* Start, which reads the configuration before it dispatches. Bound: only from a file with
\* one entry of each id. Two entries come back as two objects, of which CancelTask ends
\* one and the other is dispatched: what follows such a restart is not modelled.
Restart ==
    LET st == [t \in Tasks |-> IF t \in ToQueue THEN "queued"
                               ELSE IF t \in ToHistory /\ disk.status[t] = "running" THEN "failed"
                               ELSE disk.status[t]]
    IN /\ crashes < MaxCrashes
       /\ FileOnce
       /\ crashes' = crashes + 1
       /\ retries' = disk.retries
       /\ waiting' = ToWait
       /\ history' = ToHistory
       /\ live' = Nobody /\ dead' = Nobody /\ cmd' = {}
       /\ kills' = {}
       /\ scan' = NoScan
       /\ conf' = diskConf
       /\ DispatchWith(Push(Nobody, ToQueue), {}, st, Nobody, Limit(diskConf), TRUE)
       /\ UNCHANGED <<age, disk, diskConf, ops>>

-----------------------------------------------------------------------------
Operations ==
    \/ \E t \in Tasks : \/ Terminate(t) \/ Requeue(t) \/ CancelQueued(t) \/ CancelParked(t)
                        \/ PauseTask(t) \/ ResumeTask(t) \/ RetryTask(t) \/ DeleteTask(t)
                        \/ MoveTask(t)
    \/ PauseDispatch \/ ResumeDispatch
    \/ \E n \in Sizes : SetMaxConcurrent(n)

RunEnds(t) ==
    \/ \E from \in {"spawned", "live", "dead"} : TailFails(t, from)
    \/ TailBackend(t)
    \/ TailSucceeds(t)
    \/ \E j \in Jobs, verdict \in {"pass", "blank", "reject"} : ReviewSucceeds(t, j, verdict)
    \/ FlowSuspends(t)
    \/ \E good \in BOOLEAN : FlowEnds(t, good)

Next ==
    \/ \E t \in Tasks : Submit(t) \/ Launch(t) \/ RunEnds(t) \/ KillTask(t)
    \/ ScanStart \/ ScanNothing \/ ScanApply \/ Reclaim
    \/ Operations
    \/ Restart

Spec == Init /\ [][Next]_vars

\* Goroutines and processes come to an end, and the recovery loop goes on.
Fairness ==
    /\ \A t \in Tasks : WF_vars(Launch(t) \/ RunEnds(t))
    /\ WF_vars(ScanStart \/ ScanApply)

FairSpec == Spec /\ Fairness

-----------------------------------------------------------------------------
(* Properties.                                                             *)

\* A slot in use has a goroutine that will give it back: an entry of s.running without
\* one would keep its slot for ever, as before the repair in TerminateTask.
NoSlotLeak == \A t \in running : Runners(t) > 0

\* A task is not left in the queue beside a free slot, unless a goroutine outside
\* s.running is still to come to its tail, which dispatches.
NoStrandedQueue ==
    Queued(queue) # {} /\ Cardinality(running) < Limit(conf)
        => \E t \in Tasks \ running : Runners(t) > 0

\* A job that is queued, running or in the history is in the file, so that a restart
\* finds it (saveTasksLocked: "a restart loses no task"). Zerg flows end without a save.
JobKept ==
    \A j \in Jobs \ ZergFlow :
        (queue[j] > 0 \/ j \in running \cup history) => disk.place[j] # "none"

\* A task is in one place, once, and has a goroutine exactly while it has a slot.
OnePlace ==
    \A t \in Tasks :
        /\ Runners(t) = IF t \in running THEN 1 ELSE 0
        /\ queue[t] <= 1
        /\ queue[t] > 0 => t \notin running \cup waiting
        /\ t \notin running \cap waiting

\* A cancelled job is not brought back by a scan that saw it waiting, a second entry in
\* the queue or a restart: only a goroutine of its own or of its review may still do so.
\* Of restarts this is said only where the file has one entry of each id (Restart).
Unheld(j) == \A t \in {j, ReviewOf[j], AgainOf[j]} \ {NoTask} : Runners(t) = 0
CancelFinal ==
    [][\A j \in Jobs : status[j] = "cancelled" /\ Unheld(j) /\ (crashes' # crashes => FileOnce)
                            => status'[j] \in {"cancelled", "absent"}]_vars

\* A job that is done is not run again, and a restart finds it done or, when it was
\* trimmed from the history, not at all; a review may fail it.
DoneFinal ==
    [][\A j \in Jobs : status[j] = "done" =>
           status'[j] \in IF crashes' = crashes THEN {"done", "failed"} ELSE {"done", "absent"}]_vars

\* While dispatching is paused nothing is started, and a restart keeps the pause.
PauseHolds ==
    [][conf.paused /\ (conf'.paused \/ crashes' # crashes)
            => \A t \in Tasks : Runners(t)' <= Runners(t)]_vars

Active(t) == queue[t] > 0 \/ t \in running \cup waiting \/ Runners(t) > 0

\* Retries, reviews and reworks come to an end: at last nothing is under way, unless
\* there is no slot to run it.
ComesToRest == <>[](Limit(conf) = 0 \/ \A t \in Tasks \ ZergFlow : ~Active(t))

\* persistedTasks, Waiting: a restart goes on to wait with the waiting tasks.
WaitingKept == \A t \in waiting : disk.place[t] # "none"
=============================================================================
