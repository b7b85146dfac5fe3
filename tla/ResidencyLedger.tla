-------------------------- MODULE ResidencyLedger ---------------------------
(***************************************************************************)
(* The residency ledger of an agent (residency_ledger.go): the persistent  *)
(* evidence of which engine ran, and whether it vanished by itself or was  *)
(* unloaded. The patrol copies the book under m.mu, works on the ledger    *)
(* under resMu, and writes an event line per verdict before it replaces    *)
(* the ledger file; the agent may crash between any two of these.          *)
(*                                                                         *)
(* Abstracted: time stamps, the port half of the patrol (port_live and its *)
(* event), and write errors. A pid is never used twice. The throttle makes *)
(* a patrol that overlaps another one return early, so there is one.       *)
(***************************************************************************)
EXTENDS Naturals

CONSTANTS
    Models,      \* egg names
    Pids,        \* process identities, one per engine start
    MaxCrashes,  \* how often the agent may crash in a behaviour
    NoPid, NoModel

ASSUME LedgerAssumption ==
    /\ NoPid \notin Pids
    /\ NoModel \notin Models
    /\ MaxCrashes \in Nat

VARIABLES
    book,      \* m.procs: state and engine pid of every entry
    mu,        \* the model whose eviction holds m.mu, or NoModel
    alive,     \* the engines that run
    spent,     \* pids given out
    evicted,   \* pids the manager stopped in an eviction (history)
    reaped,    \* pids it stopped after it had won the egg as idle (history)
    patrol,    \* PatrolResidency: its stage, its copy of the book, the models to visit
    saving,    \* an eviction has marked the ledger and not saved it
    led,       \* m.residency
    loaded,    \* m.residencyLoaded
    disk,      \* egg-residency.json
    log,       \* egg-residency-events.jsonl
    crashes

bookVars == <<book, mu, alive, spent, evicted, reaped>>
ledgerVars == <<led, loaded, disk, log>>
vars == <<bookVars, patrol, saving, ledgerVars, crashes>>

-----------------------------------------------------------------------------

Entry == [st : {"absent", "loading", "serving", "draining", "crashed"},
          pid : Pids \cup {NoPid}]

Record == [state : {"none", "loaded", "vanished", "released"}, pid : Pids \cup {NoPid}]

Verdicts == {"vanished", "released"}

Absent == [st |-> "absent", pid |-> NoPid]

NoRecord == [state |-> "none", pid |-> NoPid]

PatrolOff == [stage |-> "off", lives |-> [m \in Models |-> Absent], todo |-> {}]

\* Every variable has its type.
TypeOK ==
    /\ book \in [Models -> Entry]
    /\ mu \in Models \cup {NoModel}
    /\ alive \subseteq Pids /\ spent \subseteq Pids
    /\ evicted \subseteq Pids /\ reaped \subseteq Pids
    /\ patrol \in [stage : {"off", "taken", "visit"}, lives : [Models -> Entry],
                   todo : SUBSET Models]
    /\ saving \in BOOLEAN
    /\ led \in [Models -> Record] /\ disk \in [Models -> Record]
    /\ loaded \in BOOLEAN
    /\ log \subseteq Verdicts \X Pids
    /\ crashes \in Nat

Init ==
    /\ book = [m \in Models |-> Absent]
    /\ mu = NoModel
    /\ alive = {} /\ spent = {} /\ evicted = {} /\ reaped = {}
    /\ patrol = PatrolOff
    /\ saving = FALSE
    /\ led = [m \in Models |-> NoRecord]
    /\ loaded = FALSE
    /\ disk = [m \in Models |-> NoRecord]
    /\ log = {}
    /\ crashes = 0

-----------------------------------------------------------------------------
(* The book, as the ledger sees it *)

BookOnly == UNCHANGED <<mu, evicted, reaped, patrol, saving, ledgerVars, crashes>>

\* doStart registers a placeholder; an entry of the same name that does not serve is
\* stopped and dropped without a word to the ledger.
Place(m) ==
    /\ mu = NoModel
    /\ book[m].st \in {"absent", "crashed", "draining"}
    /\ book' = [book EXCEPT ![m] = [st |-> "loading", pid |-> NoPid]]
    /\ alive' = alive \ {book[m].pid}
    /\ UNCHANGED spent /\ BookOnly

\* hatchStartLocked: the engine serves, never gets ready, or the entry is dropped.
Hatched(m) ==
    /\ mu = NoModel
    /\ book[m] = [st |-> "loading", pid |-> NoPid]
    /\ \/ \E p \in Pids \ spent :
            /\ book' = [book EXCEPT ![m] = [st |-> "serving", pid |-> p]]
            /\ alive' = alive \cup {p}
            /\ spent' = spent \cup {p}
       \/ /\ book' \in {[book EXCEPT ![m].st = "crashed"], [book EXCEPT ![m] = Absent]}
          /\ UNCHANGED <<alive, spent>>
    /\ BookOnly

\* The breaker or a watchdog: judged crashed, with or without stopping the engine; a child
\* process that was stopped has no pid any more, a unit keeps it.
Broken(m) ==
    /\ mu = NoModel
    /\ book[m].st = "serving"
    /\ \/ /\ book' = [book EXCEPT ![m].st = "crashed"]
          /\ alive' \in {alive, alive \ {book[m].pid}}
       \/ /\ book' = [book EXCEPT ![m] = [st |-> "crashed", pid |-> NoPid]]
          /\ alive' = alive \ {book[m].pid}
    /\ UNCHANGED spent /\ BookOnly

\* An engine ends by itself.
EngineDies(p) ==
    /\ p \in alive
    /\ alive' = alive \ {p}
    /\ UNCHANGED <<book, spent>> /\ BookOnly

\* ReapIdle and the early collection of Start: the egg is won under m.mu, ...
Drain(m) ==
    /\ mu = NoModel
    /\ book[m].st = "serving"
    /\ book' = [book EXCEPT ![m].st = "draining"]
    /\ UNCHANGED <<alive, spent>> /\ BookOnly

\* restoreVictimLocked and the self-heal of doStart put it back to work, ...
Restore(m) ==
    /\ mu = NoModel
    /\ book[m].st = "draining"
    /\ book' = [book EXCEPT ![m].st = "serving"]
    /\ UNCHANGED <<alive, spent>> /\ BookOnly

\* ... or it is stopped outside the lock ...
ReapStop(m) ==
    /\ book[m].st = "draining" /\ book[m].pid \in alive
    /\ alive' = alive \ {book[m].pid}
    /\ reaped' = reaped \cup {book[m].pid}
    /\ UNCHANGED <<book, mu, spent, evicted, patrol, saving, ledgerVars, crashes>>

\* ... and deleted from the book if it is still there, which is all.
ReapFinalize(m) ==
    /\ mu = NoModel
    /\ book[m].pid \in reaped \/ (book[m].st = "draining" /\ book[m].pid \notin alive)
    /\ book' = [book EXCEPT ![m] = Absent]
    /\ UNCHANGED <<alive, spent>> /\ BookOnly

-----------------------------------------------------------------------------
(* evictSubprocLocked and markResidencyReleased *)

ResMuFree == patrol.stage # "visit" /\ ~saving

\* Mutant: the ledger is not told of the eviction.
EvictUnlocked(m) ==
    /\ mu = NoModel
    /\ book[m].st # "absent"
    /\ alive' = alive \ {book[m].pid}
    /\ evicted' = evicted \cup ({book[m].pid} \ {NoPid})
    /\ book' = [book EXCEPT ![m] = Absent]
    /\ UNCHANGED <<mu, spent, reaped, patrol, saving, ledgerVars, crashes>>

\* The engine is stopped and the entry deleted under m.mu, which is kept.
Evict(m) ==
    /\ mu = NoModel
    /\ book[m].st # "absent"
    /\ alive' = alive \ {book[m].pid}
    /\ evicted' = evicted \cup ({book[m].pid} \ {NoPid})
    /\ book' = [book EXCEPT ![m] = Absent]
    /\ mu' = m
    /\ UNCHANGED <<spent, reaped, patrol, saving, ledgerVars, crashes>>

\* residencyLoadLocked: the file is read once in the life of the agent.
Ledger == IF loaded THEN led ELSE disk

\* Mutant: the event line is written only after the file was replaced.
EvictMarkQuiet ==
    /\ mu # NoModel /\ ResMuFree
    /\ loaded' = TRUE
    /\ IF Ledger[mu].state = "loaded"
         THEN /\ led' = [Ledger EXCEPT ![mu].state = "released"]
              /\ disk' = led'
              /\ saving' = TRUE /\ UNCHANGED mu
         ELSE led' = Ledger /\ mu' = NoModel /\ UNCHANGED <<disk, saving>>
    /\ UNCHANGED <<book, alive, spent, evicted, reaped, patrol, log, crashes>>

\* A loaded record becomes released and its event line is written.
EvictMark ==
    /\ mu # NoModel /\ ResMuFree
    /\ loaded' = TRUE
    /\ IF Ledger[mu].state = "loaded"
         THEN /\ led' = [Ledger EXCEPT ![mu].state = "released"]
              /\ log' = log \cup ({<<"released", Ledger[mu].pid>>} \cap (Verdicts \X Pids))
              /\ saving' = TRUE /\ UNCHANGED mu
         ELSE led' = Ledger /\ mu' = NoModel /\ UNCHANGED <<log, saving>>
    /\ UNCHANGED <<book, alive, spent, evicted, reaped, patrol, disk, crashes>>

\* residencySaveLocked: the file is replaced in one rename.
EvictSave ==
    /\ saving
    /\ disk' = led
    /\ saving' = FALSE
    /\ mu' = NoModel
    /\ UNCHANGED <<book, alive, spent, evicted, reaped, patrol, led, loaded, log, crashes>>

-----------------------------------------------------------------------------
(* PatrolResidency *)

\* residencyLiveSnapshot, under m.mu.
PatrolSnapshot ==
    /\ patrol.stage = "off"
    /\ mu = NoModel
    /\ patrol' = [stage |-> "taken", lives |-> book, todo |-> Models]
    /\ UNCHANGED <<bookVars, saving, ledgerVars, crashes>>

\* Mutant: the ledger file is not read first.
PatrolLockBlank ==
    /\ patrol.stage = "taken" /\ ResMuFree
    /\ patrol' = [patrol EXCEPT !.stage = "visit"]
    /\ loaded' = TRUE
    /\ UNCHANGED <<bookVars, saving, led, disk, log, crashes>>

PatrolLock ==
    /\ patrol.stage = "taken" /\ ResMuFree
    /\ patrol' = [patrol EXCEPT !.stage = "visit"]
    /\ led' = Ledger
    /\ loaded' = TRUE
    /\ UNCHANGED <<bookVars, saving, disk, log, crashes>>

\* An egg in the copy of the book: recorded on the evidence of a live engine, or the pid of
\* its record is brought up to date.
VisitManaged(m) ==
    LET lv == patrol.lives[m]
    IN  /\ lv.st # "absent"
        /\ led' = CASE lv.st \in {"draining", "crashed"} -> led
                    [] led[m].state = "loaded" -> [led EXCEPT ![m].pid = lv.pid]
                    [] lv.pid \in alive -> [led EXCEPT ![m] = [state |-> "loaded", pid |-> lv.pid]]
                    [] OTHER -> led
        /\ UNCHANGED log

\* Mutant: the process is not looked at.
VisitUnmanagedBlind(m) ==
    /\ patrol.lives[m].st = "absent"
    /\ IF led[m].state = "loaded" /\ led[m].pid # NoPid
         THEN /\ led' = [led EXCEPT ![m].state = "vanished"]
              /\ log' = log \cup {<<"vanished", led[m].pid>>}
         ELSE UNCHANGED <<led, log>>

\* An egg that is not: a loaded record whose process is gone is judged vanished.
VisitUnmanaged(m) ==
    /\ patrol.lives[m].st = "absent"
    /\ IF led[m].state = "loaded" /\ led[m].pid \in Pids \ alive
         THEN /\ led' = [led EXCEPT ![m].state = "vanished"]
              /\ log' = log \cup {<<"vanished", led[m].pid>>}
         ELSE UNCHANGED <<led, log>>

PatrolVisit(m) ==
    /\ patrol.stage = "visit"
    /\ m \in patrol.todo
    /\ VisitManaged(m) \/ VisitUnmanaged(m)
    /\ patrol' = [patrol EXCEPT !.todo = patrol.todo \ {m}]
    /\ UNCHANGED <<bookVars, saving, loaded, disk, crashes>>

PatrolSave ==
    /\ patrol.stage = "visit" /\ patrol.todo = {}
    /\ disk' = led
    /\ patrol' = PatrolOff
    /\ UNCHANGED <<bookVars, saving, led, loaded, log, crashes>>

-----------------------------------------------------------------------------

\* The agent ends and starts again: memory is lost, the files stay, units are swept by the
\* GC at start (gcLeftoverEggsAtStartup) and child processes may live on.
Crash ==
    /\ crashes < MaxCrashes
    /\ crashes' = crashes + 1
    /\ alive' \in SUBSET alive
    /\ book' = [m \in Models |-> Absent]
    /\ mu' = NoModel
    /\ patrol' = PatrolOff
    /\ saving' = FALSE
    /\ led' = [m \in Models |-> NoRecord]
    /\ loaded' = FALSE
    /\ UNCHANGED <<spent, evicted, reaped, disk, log>>

PatrolStep == PatrolSnapshot \/ PatrolLock \/ (\E m \in Models : PatrolVisit(m)) \/ PatrolSave

EvictStep == EvictMark \/ EvictSave

Next ==
    \/ \E m \in Models : Place(m) \/ Hatched(m) \/ Broken(m)
    \/ \E m \in Models : Drain(m) \/ Restore(m) \/ ReapStop(m) \/ ReapFinalize(m)
    \/ \E m \in Models : Evict(m)
    \/ \E p \in Pids : EngineDies(p)
    \/ EvictStep \/ PatrolStep \/ Crash

Spec == Init /\ [][Next]_vars

-----------------------------------------------------------------------------
(* What makes it correct *)

\* "no record is deleted": an egg that has a record in the file keeps one, whatever crashes
\* and whoever is the first to write after a restart.
RecordKept ==
    [][\A m \in Models : disk[m].state # "none" => disk'[m].state # "none"]_vars

\* The file never knows more than the event log: a verdict that can be read in the file has
\* its event line, also after a crash between the two writes.
VerdictLogged ==
    \A m \in Models :
        disk[m].state \in Verdicts /\ disk[m].pid \in Pids => <<disk[m].state, disk[m].pid>> \in log

\* A "vanished" line is never written of a process that runs, although the patrol works with
\* a copy of the book that may be out of date.
VanishedIsDead == \A p \in Pids : <<"vanished", p>> \in log => p \notin alive

\* "an explicit unload is recorded as released, never as vanished", of evictions: no engine
\* that this life of the agent evicted is reported as lost, by any patrol with any old copy
\* of the book. The reaper does not tell the ledger, and a crash between the stop of an
\* eviction and its mark leaves a loaded record behind.
UnloadNotVanished == crashes = 0 => \A p \in evicted : <<"vanished", p>> \notin log

=============================================================================
