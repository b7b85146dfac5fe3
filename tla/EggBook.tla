------------------------------ MODULE EggBook -------------------------------
(***************************************************************************)
(* The egg manager of one agent (agent/internal/backend): which models are *)
(* resident on a machine, who may load them, who may stop them.            *)
(*                                                                         *)
(* One step is one section of the code that holds m.mu, or one action the  *)
(* code takes outside it (stopping a process, waiting for an engine).      *)
(* An egg is a *subproc: a later load of a model is another egg, so that a *)
(* goroutine holding an old pointer is told apart from the new entry.      *)
(*                                                                         *)
(* Data abstracted: a port is "non-zero or not", reqCount is "positive or  *)
(* not" (the code only ever compares it with 0 and never lowers it), a pin *)
(* is "unexpired or not", time stamps are left out (an idle egg may be     *)
(* found expired by any patrol), memory is a choice of the victims that    *)
(* the eviction order allows.                                              *)
(***************************************************************************)
EXTENDS Naturals, FiniteSets

CONSTANTS
    Models,        \* names a request may carry
    Registered,    \* the ones in the registry; the others get 404
    KindOf,        \* serviceKind of a model: llama or ds4
    Eggs,          \* identities of *subproc values
    ModelOf,       \* subproc.model
    Loaders,       \* goroutines of POST /load
    Worker,        \* the goroutine of inferLoop, the only caller of InferForward
    HatchMode,     \* ZERG_HATCH: eggs are systemd units (TRUE) or child processes
    MaxResident,   \* maxResident, 1 unless configured
    DefaultModel,  \* the pinned default model, or NoModel
    FailLimit,     \* failures that trip the breaker (3 in the code)
    MaxStaleKills, \* stalls one egg may collect (3 in the code)
    Events,        \* what the operators, the engines and the clients may do
    NoEgg, NoThread, NoModel

Threads == Loaders \cup {Worker}

ASSUME ModelsAssumption ==
    /\ Registered \subseteq Models
    /\ ModelOf \in [Eggs -> Models]
    /\ DOMAIN KindOf = Models
    /\ DefaultModel \in Models \cup {NoModel}
    /\ NoModel \notin Models

ASSUME NamesAssumption ==
    /\ Worker \notin Loaders
    /\ NoEgg \notin Eggs
    /\ NoThread \notin Threads

ASSUME BoundsAssumption ==
    /\ HatchMode \in BOOLEAN
    /\ MaxResident \in Nat \ {0}
    /\ FailLimit \in Nat \ {0}
    /\ MaxStaleKills \in Nat \ {0}
    /\ Events \subseteq {"unload", "unload all", "stop", "pin", "reap", "infer",
                        "die", "fail", "stall"}

VARIABLES
    procs,    \* m.procs: model -> the registered egg, or NoEgg
    loading,  \* m.loading: model -> the goroutine that loads it, or NoThread
    egg,      \* the fields of every subproc
    pc,       \* where each goroutine stands
    want,     \* the model a goroutine works for
    ptr,      \* the *subproc it carries across an unlock (victim, sp)
    res,      \* what its last Start answered
    job,      \* TRUE while the worker's Start serves an inference
    held,     \* the egg acquireInflight counted for the worker, or NoEgg
    guard,    \* the response-body watchdog: its stage and its egg
    reap      \* ReapIdle: eggs won and not yet stopped, and the one stopped

vars == <<procs, loading, egg, pc, want, ptr, res, job, held, guard, reap>>

\* What every step of a goroutine that only moves on leaves alone.
rest == <<held, guard, reap>>

-----------------------------------------------------------------------------
(* States and types *)

EggStates == {"loading", "ready", "idle_armed", "draining", "crashed"}

StartPCs == {"enter", "request", "blocked", "pick", "precheck", "restore", "stop",
             "forget", "normal", "merge", "load", "expand", "finish", "return"}

InferPCs == {"recheck", "forward", "acquire", "health", "retry", "wait", "grace",
             "hung", "note", "body", "release"}

Egg == [st : EggStates, alive : BOOLEAN, port : BOOLEAN, inflight : Nat,
        used : BOOLEAN, fails : Nat, stale : Nat, pinned : BOOLEAN]

\* Every variable has its type, and a goroutine that is not idle works for a model.
TypeOK ==
    /\ procs \in [Models -> Eggs \cup {NoEgg}]
    /\ loading \in [Models -> Threads \cup {NoThread}]
    /\ egg \in [Eggs -> Egg]
    /\ pc \in [Threads -> {"idle"} \cup StartPCs \cup InferPCs]
    /\ want \in [Threads -> Models \cup {NoModel}]
    /\ \A t \in Threads : pc[t] # "idle" => want[t] \in Models
    /\ ptr \in [Threads -> Eggs \cup {NoEgg}]
    /\ res \in [Threads -> {"ok", "err"}]
    /\ job \in BOOLEAN
    /\ held \in Eggs \cup {NoEgg}
    /\ guard \in [stage : {"off", "watch", "soft", "grace", "hard"},
                  egg : Eggs \cup {NoEgg}]
    /\ reap \in [todo : SUBSET Eggs, cur : Eggs \cup {NoEgg}]

FreshEgg == [st |-> "loading", alive |-> FALSE, port |-> FALSE, inflight |-> 0,
             used |-> FALSE, fails |-> 0, stale |-> 0, pinned |-> FALSE]

Init ==
    /\ procs = [m \in Models |-> NoEgg]
    /\ loading = [m \in Models |-> NoThread]
    /\ egg = [e \in Eggs |-> FreshEgg]
    /\ pc = [t \in Threads |-> "idle"]
    /\ want = [t \in Threads |-> NoModel]
    /\ ptr = [t \in Threads |-> NoEgg]
    /\ res = [t \in Threads |-> "err"]
    /\ job = FALSE
    /\ held = NoEgg
    /\ guard = [stage |-> "off", egg |-> NoEgg]
    /\ reap = [todo |-> {}, cur |-> NoEgg]

-----------------------------------------------------------------------------
(* The book of residents *)

Resident == {e \in Eggs : procs[ModelOf[e]] = e}

Serving(e) == egg[e].st \in {"ready", "idle_armed"}

\* An engine that answers; a live one may still fail a single health check.
CanAnswer(e) == egg[e].alive /\ egg[e].port

\* abandoned: set when staleKills passes the cap, never cleared on that egg.
Abandoned(e) == egg[e].stale > MaxStaleKills

\* A *subproc no goroutine and no map refers to: a new one may take its place.
Fresh(e, m) ==
    /\ ModelOf[e] = m
    /\ e \notin Resident \cup reap.todo
    /\ e \notin {held, guard.egg, reap.cur}
    /\ \A t \in Threads : ptr[t] # e

Without(gone) == [m \in Models |-> IF procs[m] \in gone THEN NoEgg ELSE procs[m]]

\* The fields of a subproc that has left the book are garbage: whoever still points to it
\* finds a dead engine, and nothing it writes there is read again. Only the engine counts.
Forgotten(gone) ==
    [e \in Eggs |-> IF e \in gone THEN [FreshEgg EXCEPT !.alive = egg[e].alive] ELSE egg[e]]

StoppedAndForgotten(gone) == [e \in Eggs |-> IF e \in gone THEN FreshEgg ELSE egg[e]]

\* A write through a pointer.
Write(e, r) == IF e \in Resident THEN [egg EXCEPT ![e] = r] ELSE egg

\* stopSubproc: the process ends and the port is cleared.
Stopped(r) == [r EXCEPT !.alive = FALSE, !.port = FALSE]

Capped(n, bound) == IF n < bound THEN n + 1 ELSE bound

-----------------------------------------------------------------------------
(* Who may be evicted *)

\* Mutant: the pin is not looked at.
ActionablePinned(S) == {e \in S : ~egg[e].used /\ egg[e].st # "loading"}

\* ActionBlockReason: served before (reqCount), pinned or loading is never evicted.
Actionable(S) ==
    {e \in S : ~egg[e].used /\ ~egg[e].pinned /\ egg[e].st # "loading"}

\* RankEvictions puts crashed eggs first; within a tier the order is data.
Ahead(d, e) == egg[d].st = "crashed" /\ egg[e].st # "crashed"

Prefixes(S) ==
    {V \in SUBSET Actionable(S) :
        \A v \in V, u \in Actionable(S) \ V : ~Ahead(u, v)}

\* evictIfNeededLocked: make room for one more, or as much room as can be made.
SlotVictims(S) ==
    LET over == IF Cardinality(S) < MaxResident THEN 0 ELSE Cardinality(S) - MaxResident + 1
    IN  {V \in Prefixes(S) :
            \/ Cardinality(V) = over
            \/ V = Actionable(S) /\ Cardinality(V) < over}

OtherKind(S, m) == {e \in S : KindOf[ModelOf[e]] # KindOf[m]}

\* Mutant: a protected egg of the other kind does not refuse the load.
ClearancesUnblocked(S, m) ==
    {c \in [gone : SUBSET S, pass : {TRUE}] :
        \E V \in SlotVictims(S) : c.gone = V \cup (OtherKind(S \ V, m) \cap Actionable(S \ V))}

\* What a load of m may evict on the way to its gates: slots, then the other
\* service kind, then memory. "pass" says that no egg of the other kind is left.
Clearances(S, m) ==
    {c \in [gone : SUBSET S, pass : BOOLEAN] :
        \E V \in SlotVictims(S) :
            LET left  == S \ V
                other == OtherKind(left, m)
                kin   == left \ (other \cap Actionable(left))
            IN  /\ c.pass = (other \subseteq Actionable(left))
                /\ IF c.pass
                     THEN \E M \in Prefixes(kin) : c.gone = V \cup other \cup M
                     ELSE c.gone = V \cup (other \cap Actionable(left))}

-----------------------------------------------------------------------------
(* Goroutines: where Start goes next *)

Goto(t, l) == pc' = [pc EXCEPT ![t] = l]

\* The end of a call: the goroutine keeps nothing.
Finished(t) ==
    /\ Goto(t, "idle")
    /\ want' = [want EXCEPT ![t] = NoModel]
    /\ ptr' = [ptr EXCEPT ![t] = NoEgg]
    /\ res' = [res EXCEPT ![t] = "err"]
    /\ job' = (job /\ t # Worker)

\* The end of Start: an inference goes on if its load succeeded.
Returned(t, r) ==
    IF t = Worker /\ job /\ r = "ok"
      THEN /\ Goto(t, "recheck")
           /\ UNCHANGED <<want, ptr, res, job>>
      ELSE Finished(t)

Reply(t, r) ==
    /\ Goto(t, "return")
    /\ res' = [res EXCEPT ![t] = r]
    /\ UNCHANGED <<want, job>>

=============================================================================
