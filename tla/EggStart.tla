------------------------------ MODULE EggStart ------------------------------
(***************************************************************************)
(* Manager.Start and doStart: how a model becomes resident, and which egg  *)
(* has to go for it.                                                       *)
(***************************************************************************)
EXTENDS EggBook

-----------------------------------------------------------------------------
(* Start: POST /load, the dequeue check and the automatic load of /infer *)

StartCall(t, m) ==
    /\ pc[t] = "idle"
    /\ Goto(t, "enter")
    /\ want' = [want EXCEPT ![t] = m]
    /\ UNCHANGED <<procs, loading, egg, ptr, res, job, rest>>

\* A load that would evict the resident default model is refused with 409.
DefaultPinConflict(m) ==
    /\ DefaultModel # NoModel
    /\ m # DefaultModel
    /\ m \in Registered
    /\ \E e \in Resident :
        /\ ModelOf[e] = DefaultModel
        /\ egg[e].st \notin {"crashed", "draining"}
        /\ \/ Cardinality(Resident) >= MaxResident
           \/ KindOf[DefaultModel] # KindOf[m]

StartEnter(t) ==
    /\ pc[t] = "enter"
    /\ IF DefaultPinConflict(want[t])
         THEN Finished(t)
         ELSE Goto(t, "request") /\ UNCHANGED <<want, ptr, res, job>>
    /\ UNCHANGED <<procs, loading, egg, rest>>

\* RequestModel: the map is walked in any order and the first egg that serves decides.
RequestModel(m, needUnload, blocked, egg2) ==
    \/ /\ ~\E e \in Resident : Serving(e)
       /\ ~needUnload /\ ~blocked /\ egg2 = egg
    \/ \E e \in Resident :
        /\ Serving(e)
        /\ \/ /\ ModelOf[e] = m
              /\ ~needUnload /\ ~blocked
              /\ egg2 = [egg EXCEPT ![e].st = "ready"]
           \/ /\ ModelOf[e] # m
              /\ egg[e].inflight # 0 \/ egg[e].pinned
              /\ ~needUnload /\ blocked /\ egg2 = egg
           \/ /\ ModelOf[e] # m
              /\ egg[e].inflight = 0 /\ ~egg[e].pinned
              /\ needUnload /\ ~blocked
              /\ egg2 = [egg EXCEPT ![e].st = "draining"]

StartRequest(t) ==
    /\ pc[t] = "request"
    /\ \E needUnload, blocked \in BOOLEAN :
        /\ RequestModel(want[t], needUnload, blocked, egg')
        /\ Goto(t, IF needUnload THEN "pick" ELSE IF blocked THEN "blocked" ELSE "normal")
    /\ UNCHANGED <<procs, loading, ptr, res, want, job, rest>>

\* The 500 ms poll of a blocked Start: winning the egg calls Start again.
StartPoll(t) ==
    /\ pc[t] = "blocked"
    /\ \E needUnload \in BOOLEAN :
        /\ RequestModel(want[t], needUnload, FALSE, egg')
        /\ Goto(t, IF needUnload THEN "enter" ELSE "normal")
    /\ UNCHANGED <<procs, loading, ptr, res, want, job, rest>>

\* 120 s without a chance: go on, the gates below answer.
StartPollTimeout(t) ==
    /\ pc[t] = "blocked"
    /\ Goto(t, "normal")
    /\ UNCHANGED <<procs, loading, egg, ptr, res, want, job, rest>>

\* The victim is any draining egg the map walk meets.
StartPickVictim(t) ==
    /\ pc[t] = "pick"
    /\ LET draining == {e \in Resident : egg[e].st = "draining"}
       IN  \/ /\ draining = {}
              /\ Goto(t, "normal") /\ UNCHANGED ptr
           \/ \E e \in draining :
                /\ ptr' = [ptr EXCEPT ![t] = e]
                /\ Goto(t, "precheck")
    /\ UNCHANGED <<procs, loading, egg, res, want, job, rest>>

\* hatchPrecheck may refuse in hatch mode only, and always refuses an unknown model.
StartPrecheck(t) ==
    /\ pc[t] = "precheck"
    /\ \/ HatchMode /\ Goto(t, "restore")
       \/ (HatchMode => want[t] \in Registered) /\ Goto(t, "stop")
    /\ UNCHANGED <<procs, loading, egg, ptr, res, want, job, rest>>

StartRestoreVictim(t) ==
    /\ pc[t] = "restore"
    /\ LET cur == procs[ModelOf[ptr[t]]]
       IN  IF cur # NoEgg /\ egg[cur].st = "draining"
             THEN egg' = [egg EXCEPT ![cur].st = "ready"]
             ELSE UNCHANGED egg
    /\ Reply(t, "err")
    /\ ptr' = [ptr EXCEPT ![t] = NoEgg]
    /\ UNCHANGED <<procs, loading, rest>>

\* stopVictimProcess, outside the lock: the entry and its port stay as they are.
StartStopVictim(t) ==
    /\ pc[t] = "stop"
    /\ egg' = [egg EXCEPT ![ptr[t]].alive = FALSE]
    /\ Goto(t, "forget")
    /\ UNCHANGED <<procs, loading, ptr, res, want, job, rest>>

StartForgetVictim(t) ==
    /\ pc[t] = "forget"
    /\ procs' = Without({ptr[t]})
    /\ egg' = Forgotten({ptr[t]})
    /\ ptr' = [ptr EXCEPT ![t] = NoEgg]
    /\ Goto(t, "normal")
    /\ UNCHANGED <<loading, res, want, job, rest>>

\* Mutant: no look at the loading slot.
StartNormalUnmerged(t) ==
    /\ pc[t] = "normal"
    /\ want[t] \in Registered
    /\ Goto(t, "load")
    /\ loading' = [loading EXCEPT ![want[t]] = t]
    /\ UNCHANGED <<procs, egg, ptr, res, want, job, rest>>

\* The locked entry of the load path: 404, reuse, join the running load, or lead one.
StartNormal(t) ==
    /\ pc[t] = "normal"
    /\ LET m == want[t]
           cur == procs[m]
       IN  \/ /\ m \notin Registered
              /\ Reply(t, "err") /\ UNCHANGED <<loading, egg>>
           \/ /\ m \in Registered
              /\ cur # NoEgg /\ Serving(cur)
              /\ egg' = [egg EXCEPT ![cur].st = "ready", ![cur].used = TRUE]
              /\ Reply(t, "ok") /\ UNCHANGED loading
           \/ /\ m \in Registered
              /\ cur # NoEgg => ~Serving(cur)
              /\ IF loading[m] # NoThread
                   THEN Goto(t, "merge") /\ UNCHANGED loading
                   ELSE Goto(t, "load") /\ loading' = [loading EXCEPT ![m] = t]
              /\ UNCHANGED <<egg, res, want, job>>
    /\ UNCHANGED <<procs, ptr, rest>>

-----------------------------------------------------------------------------
(* doStart: the load itself, one section under m.mu unless eggs are hatched *)

\* A draining entry of the same name whose unit is known is put back to work.
DoStartSelfHeal(t) ==
    LET old == procs[want[t]]
    IN  /\ pc[t] = "load"
        /\ HatchMode
        /\ old # NoEgg /\ egg[old].st = "draining"
        /\ egg' = [egg EXCEPT ![old].st = "ready", ![old].used = TRUE]
        /\ res' = [res EXCEPT ![t] = "ok"]
        /\ Goto(t, "finish")
        /\ UNCHANGED <<procs, loading, ptr, want, job, rest>>

\* Any other entry of the same name is stopped and dropped before the gates.
Occupant(m) == {procs[m]} \ {NoEgg}

Replaceable(m) ==
    \A e \in Occupant(m) : ~(HatchMode /\ egg[e].st = "draining")

Bystanders(m) == Resident \ Occupant(m)

\* A gate refuses: before any eviction (declaration, profile), because an egg of the
\* other service kind may not be evicted, or after evicting (memory, measured profile).
\* A child process whose functional probe fails ends the same way: stopped, not in the book.
DoStartRefused(t) ==
    LET m == want[t]
    IN  /\ pc[t] = "load"
        /\ Replaceable(m)
        /\ \E gone \in {{}} \cup {c.gone : c \in Clearances(Bystanders(m), m)} :
            /\ procs' = Without(gone \cup Occupant(m))
            /\ egg' = StoppedAndForgotten(gone \cup Occupant(m))
        /\ res' = [res EXCEPT ![t] = "err"]
        /\ Goto(t, "finish")
        /\ UNCHANGED <<loading, ptr, want, job, rest>>

\* Mutant: the entry of the same name is overwritten, not stopped.
RegisteringOver(m, new, fields) ==
    \E c \in Clearances(Bystanders(m), m) :
        /\ c.pass
        /\ procs' = [Without(c.gone) EXCEPT ![m] = new]
        /\ egg' = [StoppedAndForgotten(c.gone) EXCEPT ![new] = fields]

\* The gates are passed: the room is made and the entry of the new egg, in the state
\* the load leaves it in, is registered under the model's name.
Registering(m, new, fields) ==
    \E c \in Clearances(Bystanders(m), m) :
        /\ c.pass
        /\ procs' = [Without(c.gone) EXCEPT ![m] = new]
        /\ egg' = [StoppedAndForgotten(c.gone \cup Occupant(m)) EXCEPT ![new] = fields]

\* How a load that keeps its entry may end: no port, the process does not start, the
\* engine never becomes ready, or it serves.
KeptEntries ==
    {[FreshEgg EXCEPT !.st = "crashed"],
     [FreshEgg EXCEPT !.st = "crashed", !.port = TRUE],
     [FreshEgg EXCEPT !.st = "ready", !.alive = TRUE, !.port = TRUE]}

\* Child processes: the lock is held until the engine serves or the load has failed.
DoStartBare(t) ==
    LET m == want[t]
    IN  /\ pc[t] = "load"
        /\ ~HatchMode
        /\ \E new \in {e \in Eggs : Fresh(e, m)} :
            \E fields \in KeptEntries :
                /\ Registering(m, new, fields)
                /\ res' = [res EXCEPT ![t] = IF fields.alive THEN "ok" ELSE "err"]
        /\ Goto(t, "finish")
        /\ UNCHANGED <<loading, ptr, want, job, rest>>

\* Units: the entry is registered, the lock is given up while the egg is expanded.
DoStartHatch(t) ==
    LET m == want[t]
    IN  /\ pc[t] = "load"
        /\ HatchMode
        /\ Replaceable(m)
        /\ \E new \in {e \in Eggs : Fresh(e, m)} :
            \/ /\ Registering(m, new, [FreshEgg EXCEPT !.port = TRUE])
               /\ ptr' = [ptr EXCEPT ![t] = new]
               /\ Goto(t, "expand") /\ UNCHANGED res
            \/ /\ Registering(m, new, [FreshEgg EXCEPT !.st = "crashed"])
               /\ res' = [res EXCEPT ![t] = "err"]
               /\ Goto(t, "finish") /\ UNCHANGED ptr
        /\ UNCHANGED <<loading, want, job, rest>>

\* Mutant: the unit is started although its placeholder was collected.
HatchCancelledLate(t) ==
    /\ pc[t] = "expand"
    /\ procs[want[t]] # ptr[t]
    /\ egg' = [egg EXCEPT ![ptr[t]].alive = TRUE]
    /\ res' = [res EXCEPT ![t] = "err"]
    /\ ptr' = [ptr EXCEPT ![t] = NoEgg]
    /\ Goto(t, "finish")
    /\ UNCHANGED <<procs, loading, want, job, rest>>

\* Back under the lock: a placeholder that was collected meanwhile starts no unit.
HatchCancelled(t) ==
    /\ pc[t] = "expand"
    /\ procs[want[t]] # ptr[t]
    /\ res' = [res EXCEPT ![t] = "err"]
    /\ ptr' = [ptr EXCEPT ![t] = NoEgg]
    /\ Goto(t, "finish")
    /\ UNCHANGED <<procs, loading, egg, want, job, rest>>

\* The unit is started and verified: it serves, it never becomes ready (entry kept),
\* or its declaration, its start, its probe or its enclosure is bad (entry dropped).
HatchDone(t) ==
    LET new == ptr[t]
    IN  /\ pc[t] = "expand"
        /\ procs[want[t]] = new
        /\ \/ /\ egg' = [egg EXCEPT ![new].st = "ready", ![new].alive = TRUE]
              /\ res' = [res EXCEPT ![t] = "ok"] /\ UNCHANGED procs
           \/ /\ egg' = [egg EXCEPT ![new].st = "crashed", ![new].port = FALSE]
              /\ res' = [res EXCEPT ![t] = "err"] /\ UNCHANGED procs
           \/ /\ egg' = StoppedAndForgotten({new})
              /\ res' = [res EXCEPT ![t] = "err"] /\ procs' = Without({new})
        /\ ptr' = [ptr EXCEPT ![t] = NoEgg]
        /\ Goto(t, "finish")
        /\ UNCHANGED <<loading, want, job, rest>>


\* The slot is freed and closing the waiter hands the result to every merged caller.
StartFinish(t) ==
    LET m == want[t]
        merged == {u \in Threads : pc[u] = "merge" /\ want[u] = m}
    IN  /\ pc[t] = "finish"
        /\ loading' = [loading EXCEPT ![m] = NoThread]
        /\ pc' = [u \in Threads |-> IF u \in merged \cup {t} THEN "return" ELSE pc[u]]
        /\ res' = [u \in Threads |-> IF u \in merged THEN res[t] ELSE res[u]]
        /\ UNCHANGED <<procs, egg, ptr, want, job, rest>>

\* The deferred ensureDefaultPin, then the caller.
StartReturn(t) ==
    LET cur == procs[want[t]]
    IN  /\ pc[t] = "return"
        /\ IF want[t] = DefaultModel /\ cur # NoEgg /\ Serving(cur)
             THEN egg' = [egg EXCEPT ![cur].pinned = TRUE]
             ELSE UNCHANGED egg
        /\ Returned(t, res[t])
        /\ UNCHANGED <<procs, loading, rest>>

=============================================================================
