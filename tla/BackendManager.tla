--------------------------- MODULE BackendManager ---------------------------
(***************************************************************************)
(* The egg manager of one agent: the goroutines of /load, the inference    *)
(* worker and its watchdogs, the idle reaper and the operators' calls, all *)
(* on the book of EggBook.                                                 *)
(***************************************************************************)
EXTENDS EggStart, EggInfer

-----------------------------------------------------------------------------
(* ReapIdle: the idle reaper *)

ReapOnly == UNCHANGED <<loading, pc, want, ptr, res, job, held, guard>>

\* p2pickExpiredLocked: the expired ones among the idle eggs are won under the lock.
ReapPick ==
    /\ "reap" \in Events
    /\ reap = [todo |-> {}, cur |-> NoEgg]
    /\ \E won \in SUBSET {e \in Resident : /\ egg[e].st = "idle_armed"
                                           /\ egg[e].inflight = 0
                                           /\ ~egg[e].pinned} :
        /\ won # {}
        /\ egg' = [e \in Eggs |-> IF e \in won THEN [egg[e] EXCEPT !.st = "draining"]
                                               ELSE egg[e]]
        /\ reap' = [todo |-> won, cur |-> NoEgg]
    /\ UNCHANGED procs /\ ReapOnly

\* stopVictimProcess, outside the lock.
ReapStop ==
    /\ reap.cur = NoEgg
    /\ \E e \in reap.todo :
        /\ egg' = [egg EXCEPT ![e].alive = FALSE]
        /\ reap' = [todo |-> reap.todo \ {e}, cur |-> e]
    /\ UNCHANGED procs /\ ReapOnly

ReapFinalize ==
    /\ reap.cur # NoEgg
    /\ procs' = Without({reap.cur})
    /\ egg' = Forgotten({reap.cur})
    /\ reap' = [reap EXCEPT !.cur = NoEgg]
    /\ ReapOnly

-----------------------------------------------------------------------------
(* Operations that are one locked section, and the world *)

Evict(gone) ==
    /\ procs' = Without(gone)
    /\ egg' = StoppedAndForgotten(gone)
    /\ UNCHANGED <<loading, pc, want, ptr, res, job, held, guard, reap>>

\* POST /unload {"models": [m]}.
UnloadBy(m) ==
    /\ "unload" \in Events
    /\ Occupant(m) \cap Actionable(Resident) # {}
    /\ Evict(Occupant(m))

\* POST /unload without models: everything but the pinned.
UnloadAll ==
    /\ "unload all" \in Events
    /\ {e \in Resident : ~egg[e].pinned} # {}
    /\ Evict({e \in Resident : ~egg[e].pinned})

\* Manager.Stop: everything.
Stop ==
    /\ "stop" \in Events
    /\ Resident # {}
    /\ Evict(Resident)

EggOnly == UNCHANGED <<procs, loading, pc, want, ptr, res, job, held, guard, reap>>

\* POST /pin of a resident model, whatever its state.
Pin(m) ==
    /\ "pin" \in Events
    /\ procs[m] # NoEgg
    /\ egg' = [egg EXCEPT ![procs[m]].pinned = TRUE]
    /\ EggOnly

\* renewDefaultPin, on the residency patrol: only an egg that serves.
RenewDefaultPin ==
    /\ DefaultModel # NoModel
    /\ procs[DefaultModel] # NoEgg
    /\ Serving(procs[DefaultModel])
    /\ egg' = [egg EXCEPT ![procs[DefaultModel]].pinned = TRUE]
    /\ EggOnly

\* POST /unpin, or the time to live of the pin runs out.
Unpin(m) ==
    /\ procs[m] # NoEgg
    /\ egg' = [egg EXCEPT ![procs[m]].pinned = FALSE]
    /\ EggOnly

\* An engine dies by itself.
EngineDies(e) ==
    /\ "die" \in Events
    /\ egg[e].alive
    /\ egg' = [egg EXCEPT ![e].alive = FALSE]
    /\ EggOnly

-----------------------------------------------------------------------------
(* The specification *)

StartStep(t) ==
    \/ StartEnter(t) \/ StartRequest(t) \/ StartPoll(t) \/ StartPollTimeout(t)
    \/ StartPickVictim(t) \/ StartPrecheck(t) \/ StartRestoreVictim(t)
    \/ StartStopVictim(t) \/ StartForgetVictim(t) \/ StartNormal(t)
    \/ DoStartSelfHeal(t) \/ DoStartRefused(t) \/ DoStartBare(t) \/ DoStartHatch(t)
    \/ HatchCancelled(t) \/ HatchDone(t) \/ StartFinish(t) \/ StartReturn(t)

InferStep ==
    \/ InferRecheck \/ InferForward \/ AcquireInflight
    \/ HealthCheck \/ HealthRetry
    \/ ForwardOK \/ ForwardFailed \/ ForwardStuck
    \/ StallEscalate \/ WatchdogNote \/ BodyClosed \/ ReleaseInflight

GuardStep == GuardJudge \/ GuardNote \/ GuardHard \/ GuardNoteHard

ReapStep == ReapStop \/ ReapFinalize

Operator ==
    \/ \E m \in Models : UnloadBy(m) \/ Pin(m) \/ Unpin(m)
    \/ UnloadAll \/ Stop \/ RenewDefaultPin

Next ==
    \/ \E t \in Threads, m \in Models : StartCall(t, m)
    \/ \E m \in Models : InferCall(m)
    \/ \E t \in Threads : StartStep(t)
    \/ InferStep \/ HungEnds
    \/ GuardStep
    \/ ReapPick \/ ReapStep
    \/ Operator
    \/ \E e \in Eggs : EngineDies(e)

Spec == Init /\ [][Next]_vars

\* The worker waits for an engine that runs and on which no verdict has fallen. Nothing bounds
\* this: with the watchdog on, the client and the header have no timeout, and a watchdog that
\* sees progress, or an alarm level without a hard verdict, goes on for ever.
AwaitsEngine ==
    /\ pc[Worker] \in {"wait", "hung", "body"}
    /\ egg[ptr[Worker]].alive
    /\ pc[Worker] = "body" => guard.stage = "watch"

\* What the worker does by itself.
WorkerMoves ==
    \/ InferRecheck \/ InferForward \/ AcquireInflight
    \/ HealthCheck \/ HealthRetry
    \/ StallEscalate \/ WatchdogNote \/ ReleaseInflight

\* A dead engine breaks the connection, and a verdict on the body cancels its request.
BrokenOff == ~AwaitsEngine /\ (ForwardFailed \/ HungEnds \/ BodyClosed)

\* Goroutines run, the lock is not starved, and these waits of the code are bounded: the poll
\* by 120 s, the engine's start by waitForReady, the stop by SIGKILL, the grace of a watchdog;
\* the reaper's ticker comes back every 30 s and an idle window that stays open expires. No
\* engine has to answer, no watchdog has to come to a verdict, and no client has to call.
Fairness ==
    /\ \A t \in Threads : WF_vars(StartStep(t))
    /\ WF_vars(WorkerMoves)
    /\ WF_vars(BrokenOff)
    /\ WF_vars(GuardNote \/ GuardHard \/ GuardNoteHard)
    /\ WF_vars(ReapPick) /\ WF_vars(ReapStep)

FairSpec == Spec /\ Fairness

-----------------------------------------------------------------------------
(* What makes it correct *)

\* Every engine that runs on the machine is the registered egg of its model: none is left
\* behind by a load, an eviction, a reaper or a cancelled hatch (defect 19: a unit nobody
\* can stop any more).
NoOrphan == \A e \in Eggs : egg[e].alive => e \in Resident

\* All engines running at one time are of one service kind (llama xor ds4), whatever loads
\* and stops overlap: evictOtherKindsLocked and the registration are one locked section.
OneServiceKind ==
    \A d, e \in Eggs :
        egg[d].alive /\ egg[e].alive => KindOf[ModelOf[d]] = KindOf[ModelOf[e]]

\* Request merging: a model is loaded by one goroutine at a time, the one its loading slot
\* names, and whoever waits for a load waits for a slot that is taken.
Leads(t, m) == pc[t] \in {"load", "expand", "finish"} /\ want[t] = m

SingleFlight ==
    /\ \A t \in Threads, m \in Models : Leads(t, m) => loading[m] = t
    /\ \A m \in Models : loading[m] # NoThread => Leads(loading[m], m)
    /\ \A t \in Threads : pc[t] = "merge" => loading[want[t]] # NoThread

\* The in-flight count of a resident egg is the truth: it is non-zero exactly while the
\* worker has a request on that very egg. It is taken and given back by model name, so a
\* reload in between could have put it on another egg.
InflightTruthful ==
    \A e \in Resident : egg[e].inflight = IF held = e THEN 1 ELSE 0

\* The eggs some goroutine has won the right to stop and will stop or has stopped.
Dying ==
    reap.todo \cup {reap.cur}
        \cup {ptr[t] : t \in {u \in Threads : pc[u] \in {"precheck", "stop", "forget"}}}

\* No egg that is about to be stopped by a model switch or by the reaper serves a request:
\* draining refuses acquireInflight and is only entered at zero.
DyingNotServed == held # NoEgg => held \notin Dying

\* A pinned entry leaves the book only if it had stopped serving before (a load of its own
\* model replaces it, or its collection was decided before the pin), or at Manager.Stop.
PinRespected ==
    [][\A e \in Resident :
         egg[e].pinned /\ Serving(e) => e \in Resident' \/ Stop]_vars


\* An egg given up for good (max_stale_kills) stays crashed while it is in the book: no
\* request, release or restored victim brings it back, only a new load replaces it.
AbandonedStaysDown ==
    \A e \in Resident : Abandoned(e) => egg[e].st = "crashed"


-----------------------------------------------------------------------------
(* What comments of the code say, and the code does not do *)

\* "requests in flight are skipped (red line: never kill a running inference)": a directed
\* unload leaves the egg of the current request alone.
UnloadSparesInflight ==
    [][(\E m \in Models : UnloadBy(m)) /\ held \in Resident => held \in Resident']_vars

\* "a request that is really stuck is ended by the watchdog".
StuckRequestEnds == pc[Worker] = "hung" ~> pc[Worker] # "hung"

\* "wait for the egg in use to go idle; upper limit = the upstream timeout", and the call of
\* Start from within Start is "one recursion": a call of Start comes to an end.
StartReturns ==
    \A t \in Threads : pc[t] = "enter" ~> pc[t] \in {"idle", "recheck"}

=============================================================================
