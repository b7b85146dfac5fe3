------------------------------ MODULE EggInfer ------------------------------
(***************************************************************************)
(* handleInferRequest and Manager.InferForward: one inference on an egg,   *)
(* its in-flight count, the breaker and the two watchdogs. inferLoop is    *)
(* the only caller and handles one request after the other.                *)
(***************************************************************************)
EXTENDS EggBook

-----------------------------------------------------------------------------
(* handleInferRequest and InferForward: the worker *)

WorkerStays == UNCHANGED <<procs, loading, want, ptr, res, job, rest>>

\* IsModelHealthy: the entry is ready and its engine answers.
Healthy(m) == procs[m] # NoEgg /\ egg[procs[m]].st = "ready" /\ CanAnswer(procs[m])

InferCall(m) ==
    /\ "infer" \in Events
    /\ pc[Worker] = "idle"
    /\ want' = [want EXCEPT ![Worker] = m]
    /\ job' = TRUE
    /\ \/ Healthy(m) /\ Goto(Worker, "forward")
       \/ Goto(Worker, "enter")
    /\ UNCHANGED <<procs, loading, egg, ptr, res, rest>>

InferRecheck ==
    /\ pc[Worker] = "recheck"
    /\ \/ /\ Healthy(want[Worker])
          /\ Goto(Worker, "forward")
          /\ UNCHANGED <<want, ptr, res, job>>
       \/ Finished(Worker)
    /\ UNCHANGED <<procs, loading, egg, rest>>

\* Mutant: the abandoned mark is not looked at.
InferForwardRevives ==
    LET cur == procs[want[Worker]]
    IN  /\ pc[Worker] = "forward"
        /\ cur # NoEgg
        /\ IF Serving(cur)
             THEN /\ ptr' = [ptr EXCEPT ![Worker] = cur]
                  /\ Goto(Worker, "acquire")
                  /\ UNCHANGED <<egg, want, res, job>>
             ELSE /\ egg' = [egg EXCEPT ![cur].st = "loading", ![cur].fails = 0]
                  /\ Finished(Worker)
        /\ UNCHANGED <<procs, loading, rest>>

\* The locked head of InferForward. A crashed entry is set to loading, and refused.
InferForward ==
    LET cur == procs[want[Worker]]
    IN  /\ pc[Worker] = "forward"
        /\ \/ /\ cur # NoEgg /\ ~Abandoned(cur)
              /\ Serving(cur) /\ egg[cur].port
              /\ ptr' = [ptr EXCEPT ![Worker] = cur]
              /\ Goto(Worker, "acquire")
              /\ UNCHANGED <<egg, want, res, job>>
           \/ /\ cur # NoEgg /\ ~Abandoned(cur) /\ egg[cur].st = "crashed"
              /\ egg' = [egg EXCEPT ![cur].st = "loading", ![cur].fails = 0]
              /\ Finished(Worker)
           \/ /\ cur # NoEgg => /\ egg[cur].st # "crashed" \/ Abandoned(cur)
                                /\ ~Serving(cur) \/ Abandoned(cur) \/ ~egg[cur].port
              /\ Finished(Worker) /\ UNCHANGED egg
        /\ UNCHANGED <<procs, loading, rest>>

\* Mutant: a draining egg takes requests.
AcquireDraining ==
    LET cur == procs[want[Worker]]
    IN  /\ pc[Worker] = "acquire"
        /\ cur # NoEgg
        /\ egg' = [egg EXCEPT ![cur].inflight = @ + 1]
        /\ held' = cur
        /\ Goto(Worker, "health")
        /\ UNCHANGED <<procs, loading, want, ptr, res, job, guard, reap>>

\* Mutant: the refusal keeps the count.
AcquireLeaks ==
    LET cur == procs[want[Worker]]
    IN  /\ pc[Worker] = "acquire"
        /\ cur # NoEgg
        /\ egg' = [egg EXCEPT ![cur].inflight = @ + 1]
        /\ IF Serving(cur)
             THEN held' = cur /\ Goto(Worker, "health") /\ UNCHANGED <<want, ptr, res, job>>
             ELSE Finished(Worker) /\ UNCHANGED held
        /\ UNCHANGED <<procs, loading, guard, reap>>

\* acquireInflight counts by name, so it may count on a newer egg than ptr.
AcquireInflight ==
    LET cur == procs[want[Worker]]
    IN  /\ pc[Worker] = "acquire"
        /\ IF cur # NoEgg /\ Serving(cur)
             THEN /\ egg' = [egg EXCEPT ![cur].st = "ready",
                                        ![cur].inflight = egg[cur].inflight + 1]
                  /\ held' = cur
                  /\ Goto(Worker, "health")
                  /\ UNCHANGED <<want, ptr, res, job>>
             ELSE Finished(Worker) /\ UNCHANGED <<egg, held>>
        /\ UNCHANGED <<procs, loading, guard, reap>>

\* One more failure of sp: the breaker stops it at the limit.
Failed(r) ==
    IF r.fails + 1 >= FailLimit
      THEN [Stopped(r) EXCEPT !.st = "crashed", !.fails = FailLimit]
      ELSE [r EXCEPT !.fails = r.fails + 1]

HealthCheck ==
    LET sp == ptr[Worker]
    IN  /\ pc[Worker] = "health"
        /\ \/ CanAnswer(sp) /\ Goto(Worker, "wait") /\ UNCHANGED egg
           \/ /\ egg' = Write(sp, Failed(egg[sp]))
              /\ Goto(Worker, IF egg[sp].fails + 1 >= FailLimit THEN "release" ELSE "retry")
        /\ WorkerStays

HealthRetry ==
    LET sp == ptr[Worker]
    IN  /\ pc[Worker] = "retry"
        /\ \/ /\ CanAnswer(sp)
              /\ egg' = Write(sp, [egg[sp] EXCEPT !.fails = 0])
              /\ Goto(Worker, "wait")
           \/ Goto(Worker, "release") /\ UNCHANGED egg
        /\ WorkerStays

\* The response header is back: the request counts as served and its body is guarded.
ForwardOK ==
    LET sp == ptr[Worker]
    IN  /\ pc[Worker] = "wait"
        /\ egg[sp].alive
        /\ guard.stage = "off"
        /\ egg' = Write(sp, [egg[sp] EXCEPT !.fails = 0, !.used = TRUE])
        /\ guard' = [stage |-> "watch", egg |-> sp]
        /\ Goto(Worker, "body")
        /\ UNCHANGED <<procs, loading, want, ptr, res, job, held, reap>>

\* A transport error, a client that left, or a fixed timeout: a failed health check counts.
ForwardFailed ==
    LET sp == ptr[Worker]
    IN  /\ pc[Worker] = "wait"
        /\ "fail" \in Events \/ ~egg[sp].alive
        /\ egg' \in {egg, Write(sp, Failed(egg[sp]))}
        /\ Goto(Worker, "release")
        /\ WorkerStays

\* recordStaleKill: past the cap the egg is abandoned.
StaleKilled(r) ==
    LET n == Capped(r.stale, MaxStaleKills + 1)
    IN  [r EXCEPT !.stale = n, !.st = IF n > MaxStaleKills THEN "crashed" ELSE r.st]

\* The watchdog judges the request stuck. EscalateStall counts the stall once more on top
\* of the recorded number; past the cap it neither cancels the request nor stops the engine.
ForwardStuck ==
    LET sp == ptr[Worker]
        n  == Capped(egg[sp].stale, MaxStaleKills + 1)
    IN  /\ "stall" \in Events
        /\ pc[Worker] = "wait"
        /\ egg' = Write(sp, StaleKilled(egg[sp]))
        /\ Goto(Worker, IF n > MaxStaleKills THEN "release"
                        ELSE IF n + 1 > MaxStaleKills THEN "hung" ELSE "grace")
        /\ WorkerStays

\* The cancelled request ends within the grace, or the engine is stopped without the lock.
StallEscalate ==
    LET sp == ptr[Worker]
    IN  /\ pc[Worker] = "grace"
        /\ egg' \in {egg, Write(sp, Stopped(egg[sp]))}
        /\ Goto(Worker, "note")
        /\ WorkerStays

\* The wait for a request nobody cancelled: it ends if the client leaves, the engine dies
\* or the engine answers after all.
HungEnds ==
    /\ pc[Worker] = "hung"
    /\ Goto(Worker, "note")
    /\ UNCHANGED egg
    /\ WorkerStays

\* noteWatchdogStuck: crashed, unless the entry is gone or pinned.
NotedStuck(sp) ==
    IF sp \in Resident /\ ~egg[sp].pinned
      THEN [egg EXCEPT ![sp].st = "crashed", ![sp].fails = Capped(egg[sp].fails, FailLimit)]
      ELSE egg

WatchdogNote ==
    /\ pc[Worker] = "note"
    /\ egg' = NotedStuck(ptr[Worker])
    /\ Goto(Worker, "release")
    /\ WorkerStays

GuardOff == [stage |-> "off", egg |-> NoEgg]


\* The body is read or broken off. Closing it ends a guard that waits; one that has just made
\* up its mind, on a sample or at the end of the grace, does not notice.
BodyClosed ==
    /\ pc[Worker] = "body"
    /\ \/ guard.stage \in {"watch", "grace"} /\ guard' = GuardOff
       \/ guard.stage # "off" /\ "stall" \in Events /\ UNCHANGED guard
       \/ guard.stage = "off" /\ UNCHANGED guard
    /\ Goto(Worker, "release")
    /\ UNCHANGED <<procs, loading, egg, want, ptr, res, job, held, reap>>

\* Mutant: no floor at zero.
ReleaseBelowZero ==
    LET cur == procs[want[Worker]]
    IN  /\ pc[Worker] = "release"
        /\ cur # NoEgg
        /\ egg' = [egg EXCEPT ![cur].inflight = @ - 1]
        /\ held' = NoEgg
        /\ Finished(Worker)
        /\ UNCHANGED <<procs, loading, guard, reap>>

\* Mutant: an egg that broke under the request is not released.
ReleaseReadyOnly ==
    LET cur == procs[want[Worker]]
    IN  /\ pc[Worker] = "release"
        /\ egg' = IF cur # NoEgg /\ egg[cur].st = "ready"
                    THEN [egg EXCEPT ![cur].inflight = 0, ![cur].st = "idle_armed"] ELSE egg
        /\ held' = NoEgg
        /\ Finished(Worker)
        /\ UNCHANGED <<procs, loading, guard, reap>>

\* releaseInflight, by name: the last request arms the idle window.
ReleaseInflight ==
    LET cur == procs[want[Worker]]
        n   == IF egg[cur].inflight > 0 THEN egg[cur].inflight - 1 ELSE 0
    IN  /\ pc[Worker] = "release"
        /\ IF cur = NoEgg THEN UNCHANGED egg
           ELSE egg' = [egg EXCEPT ![cur].inflight = n,
                          ![cur].st = IF n = 0 /\ egg[cur].st = "ready"
                                        THEN "idle_armed" ELSE egg[cur].st]
        /\ held' = NoEgg
        /\ Finished(Worker)
        /\ UNCHANGED <<procs, loading, guard, reap>>

-----------------------------------------------------------------------------
(* progressGuard: the watchdog of the response body, a goroutine of its own *)

GuardOnly == UNCHANGED <<procs, loading, pc, want, ptr, res, job, held, reap>>

\* First level: the request is cancelled and the stall recorded.
GuardJudge ==
    /\ "stall" \in Events
    /\ guard.stage = "watch"
    /\ egg' = Write(guard.egg, StaleKilled(egg[guard.egg]))
    /\ guard' = [guard EXCEPT !.stage = "soft"]
    /\ GuardOnly

\* The verdict is noted. A guard whose body is still open may give it a grace.
GuardNote ==
    /\ guard.stage = "soft"
    /\ egg' = NotedStuck(guard.egg)
    /\ \/ guard' = GuardOff
       \/ pc[Worker] = "body" /\ guard' = [guard EXCEPT !.stage = "grace"]
    /\ GuardOnly

\* Second level: the engine is stopped without the lock.
GuardHard ==
    /\ guard.stage = "grace"
    /\ egg' = Write(guard.egg, Stopped(egg[guard.egg]))
    /\ guard' = [guard EXCEPT !.stage = "hard"]
    /\ GuardOnly

GuardNoteHard ==
    /\ guard.stage = "hard"
    /\ egg' = NotedStuck(guard.egg)
    /\ guard' = GuardOff
    /\ GuardOnly

=============================================================================
