----------------------- MODULE ResidencyLedgerProofs -----------------------
(***************************************************************************)
(* Proofs about the residency ledger, for any number of eggs, engines and  *)
(* crashes.                                                                *)
(*                                                                         *)
(* VanishedIsDead is kept because a pid is spent once: the ledger, its     *)
(* file, the book and the patrol's copy of the book name only pids that    *)
(* were given out, and a pid that was is never alive again once it is      *)
(* dead. VerdictLogged is kept because the ledger in memory obeys it too.  *)
(***************************************************************************)
EXTENDS ResidencyLedger, TLAPS

PidsSpent ==
    /\ alive \subseteq spent
    /\ \A m \in Models : /\ book[m].pid \in spent \cup {NoPid}
                         /\ patrol.lives[m].pid \in spent \cup {NoPid}
                         /\ led[m].pid \in spent \cup {NoPid}
                         /\ disk[m].pid \in spent \cup {NoPid}
    /\ \A p \in Pids : <<"vanished", p>> \in log => p \in spent

MemoryLogged ==
    \A m \in Models :
        led[m].state \in Verdicts /\ led[m].pid \in Pids => <<led[m].state, led[m].pid>> \in log

IInv == TypeOK /\ PidsSpent /\ MemoryLogged /\ VerdictLogged /\ VanishedIsDead

\* The empty ledger satisfies the invariant.
LEMMA InitOK == Init => IInv
<1> SUFFICES ASSUME Init PROVE IInv
  OBVIOUS
<1>1. Absent \in Entry /\ NoRecord \in Record /\ Absent.pid = NoPid /\ NoRecord.pid = NoPid
      /\ NoRecord.state \notin Verdicts
  BY DEF Absent, Entry, NoRecord, Record, Verdicts
<1>2. TypeOK
  BY <1>1 DEF Init, TypeOK, PatrolOff
<1>3. PidsSpent
  BY <1>1 DEF Init, PidsSpent, PatrolOff
<1>4. MemoryLogged /\ VerdictLogged /\ VanishedIsDead
  BY <1>1 DEF Init, MemoryLogged, VerdictLogged, VanishedIsDead
<1> QED BY <1>2, <1>3, <1>4 DEF IInv

\* What the first reader of the ledger after a start finds obeys what the file obeys.
LEMMA LedgerOK ==
  ASSUME IInv
  PROVE  /\ Ledger \in [Models -> Record]
         /\ \A m \in Models : Ledger[m].pid \in spent \cup {NoPid}
         /\ \A m \in Models :
              Ledger[m].state \in Verdicts /\ Ledger[m].pid \in Pids
                => <<Ledger[m].state, Ledger[m].pid>> \in log
  BY DEF IInv, TypeOK, PidsSpent, MemoryLogged, VerdictLogged, Ledger

\* No step of the book, of an eviction, of the patrol, and no crash breaks the invariant.
LEMMA StepOK == IInv /\ [Next]_vars => IInv'
<1> SUFFICES ASSUME IInv, [Next]_vars PROVE IInv'
  OBVIOUS
<1> USE LedgerAssumption
<1>book. ASSUME NEW m \in Models, Place(m) \/ Hatched(m) \/ Broken(m)
         PROVE  IInv'
  <2>1. /\ book' \in [Models -> Entry]
        /\ spent \subseteq spent' /\ spent' \subseteq Pids
        /\ alive' \subseteq spent' /\ alive' \cap spent \subseteq alive
        /\ \A n \in Models : book'[n].pid \in spent' \cup {NoPid}
    <3>1. CASE Place(m)
      BY <3>1 DEF IInv, TypeOK, PidsSpent, Place, Entry, Absent
    <3>2. CASE Hatched(m)
      <4>1. CASE \E p \in Pids \ spent :
                   /\ book' = [book EXCEPT ![m] = [st |-> "serving", pid |-> p]]
                   /\ alive' = alive \cup {p}
                   /\ spent' = spent \cup {p}
        BY <4>1 DEF IInv, TypeOK, PidsSpent, Entry
      <4>2. CASE /\ book' \in {[book EXCEPT ![m].st = "crashed"], [book EXCEPT ![m] = Absent]}
                 /\ UNCHANGED <<alive, spent>>
        <5>1. Absent \in Entry /\ Absent.pid = NoPid
          BY DEF Absent, Entry
        <5>2. CASE book' = [book EXCEPT ![m].st = "crashed"]
          BY <4>2, <5>2 DEF IInv, TypeOK, PidsSpent, Entry
        <5>3. CASE book' = [book EXCEPT ![m] = Absent]
          BY <4>2, <5>1, <5>3 DEF IInv, TypeOK, PidsSpent
        <5> QED BY <4>2, <5>2, <5>3
      <4> QED BY <3>2, <4>1, <4>2 DEF Hatched
    <3>3. CASE Broken(m)
      <4>1. spent' = spent /\ alive' \subseteq alive
        BY <3>3 DEF Broken
      <4>2. book' \in {[book EXCEPT ![m].st = "crashed"],
                       [book EXCEPT ![m] = [st |-> "crashed", pid |-> NoPid]]}
        BY <3>3 DEF Broken
      <4>3. CASE book' = [book EXCEPT ![m].st = "crashed"]
        BY <4>1, <4>3 DEF IInv, TypeOK, PidsSpent, Entry
      <4>4. CASE book' = [book EXCEPT ![m] = [st |-> "crashed", pid |-> NoPid]]
        <5>1. [st |-> "crashed", pid |-> NoPid] \in Entry
          BY DEF Entry
        <5> QED BY <4>1, <4>4, <5>1 DEF IInv, TypeOK, PidsSpent
      <4> QED BY <4>2, <4>3, <4>4
    <3> QED BY <1>book, <3>1, <3>2, <3>3
  <2>2. UNCHANGED <<mu, evicted, reaped, patrol, saving, led, loaded, disk, log, crashes>>
    BY <1>book DEF Place, Hatched, Broken, BookOnly, ledgerVars
  <2> QED BY <2>1, <2>2 DEF IInv, TypeOK, PidsSpent, MemoryLogged, VerdictLogged, VanishedIsDead
<1>reap. ASSUME NEW m \in Models, Drain(m) \/ Restore(m) \/ ReapStop(m) \/ ReapFinalize(m)
         PROVE  IInv'
  <2>1. /\ book' \in [Models -> Entry]
        /\ alive' \subseteq alive
        /\ reaped' \subseteq Pids
        /\ \A n \in Models : book'[n].pid \in spent \cup {NoPid}
    <3>1. CASE Drain(m)
      BY <3>1 DEF IInv, TypeOK, PidsSpent, Drain, BookOnly, Entry
    <3>4. CASE Restore(m)
      BY <3>4 DEF IInv, TypeOK, PidsSpent, Restore, BookOnly, Entry
    <3>2. CASE ReapStop(m)
      BY <3>2 DEF IInv, TypeOK, PidsSpent, ReapStop, Entry
    <3>3. CASE ReapFinalize(m)
      BY <3>3 DEF IInv, TypeOK, PidsSpent, ReapFinalize, BookOnly, Entry, Absent
    <3> QED BY <1>reap, <3>1, <3>2, <3>3, <3>4
  <2>2. UNCHANGED <<mu, spent, evicted, patrol, saving, led, loaded, disk, log, crashes>>
    BY <1>reap DEF Drain, Restore, ReapStop, ReapFinalize, BookOnly, ledgerVars
  <2> QED BY <2>1, <2>2 DEF IInv, TypeOK, PidsSpent, MemoryLogged, VerdictLogged, VanishedIsDead
<1>evict. ASSUME NEW m \in Models, Evict(m)
          PROVE  IInv'
  <2>1. /\ book' \in [Models -> Entry]
        /\ alive' \subseteq alive
        /\ evicted' \subseteq Pids
        /\ mu' \in Models
        /\ \A n \in Models : book'[n].pid \in spent \cup {NoPid}
    BY <1>evict DEF IInv, TypeOK, PidsSpent, Evict, Entry, Absent
  <2>2. UNCHANGED <<spent, reaped, patrol, saving, led, loaded, disk, log, crashes>>
    BY <1>evict DEF Evict, ledgerVars
  <2> QED BY <2>1, <2>2 DEF IInv, TypeOK, PidsSpent, MemoryLogged, VerdictLogged, VanishedIsDead
<1>dies. ASSUME NEW p \in Pids, EngineDies(p)
         PROVE  IInv'
  BY <1>dies DEF EngineDies, BookOnly, ledgerVars, IInv, TypeOK, PidsSpent, MemoryLogged,
     VerdictLogged, VanishedIsDead
<1>mark. CASE EvictMark
  <2>0. UNCHANGED <<book, alive, spent, evicted, reaped, patrol, disk, crashes>> /\ loaded' = TRUE
    BY <1>mark DEF EvictMark
  <2>1. mu \in Models
    BY <1>mark DEF EvictMark, IInv, TypeOK
  <2>2. CASE Ledger[mu].state = "loaded"
    <3>1. /\ led' = [Ledger EXCEPT ![mu].state = "released"]
          /\ log' = log \cup ({<<"released", Ledger[mu].pid>>} \cap (Verdicts \X Pids))
          /\ saving' = TRUE /\ mu' = mu
      BY <1>mark, <2>2 DEF EvictMark
    <3>2. led' \in [Models -> Record]
      BY <3>1, <2>1, LedgerOK DEF Record
    <3>3. \A n \in Models : led'[n].pid = Ledger[n].pid
      BY <3>1, <2>1, LedgerOK DEF Record
    <3>4. /\ \A n \in Models : n # mu => led'[n] = Ledger[n]
          /\ led'[mu].state = "released"
      BY <3>1, <2>1, LedgerOK DEF Record
    <3>5. log \subseteq log' /\ log' \subseteq Verdicts \X Pids
      BY <3>1 DEF IInv, TypeOK
    <3>6. \A p \in Pids : <<"vanished", p>> \in log' => <<"vanished", p>> \in log
      BY <3>1
    <3>7. Ledger[mu].pid \in Pids => <<"released", Ledger[mu].pid>> \in log'
      BY <3>1 DEF Verdicts
    <3>8. TypeOK'
      BY <2>0, <3>1, <3>2, <3>5 DEF IInv, TypeOK
    <3>9. PidsSpent'
      BY <2>0, <3>3, <3>6, LedgerOK DEF IInv, PidsSpent
    <3>10. MemoryLogged'
      BY <3>3, <3>4, <3>5, <3>7, LedgerOK DEF MemoryLogged
    <3>11. VerdictLogged' /\ VanishedIsDead'
      BY <2>0, <3>5, <3>6 DEF IInv, VerdictLogged, VanishedIsDead
    <3> QED BY <3>8, <3>9, <3>10, <3>11 DEF IInv
  <2>3. CASE Ledger[mu].state # "loaded"
    <3>1. led' = Ledger /\ mu' = NoModel /\ UNCHANGED <<log, saving>>
      BY <1>mark, <2>3 DEF EvictMark
    <3> QED BY <2>0, <3>1, LedgerOK DEF IInv, TypeOK, PidsSpent, MemoryLogged, VerdictLogged, VanishedIsDead
  <2> QED BY <2>2, <2>3
<1>save. CASE EvictSave
  BY <1>save DEF EvictSave, IInv, TypeOK, PidsSpent, MemoryLogged, VerdictLogged, VanishedIsDead
<1>snap. CASE PatrolSnapshot
  BY <1>snap DEF PatrolSnapshot, bookVars, ledgerVars, IInv, TypeOK, PidsSpent, MemoryLogged,
     VerdictLogged, VanishedIsDead
<1>lock. CASE PatrolLock
  <2>1. /\ patrol'.lives = patrol.lives
        /\ patrol' \in [stage : {"off", "taken", "visit"}, lives : [Models -> Entry],
                        todo : SUBSET Models]
    BY <1>lock DEF PatrolLock, IInv, TypeOK
  <2>2. /\ led' = Ledger /\ loaded' = TRUE
        /\ UNCHANGED <<book, mu, alive, spent, evicted, reaped, saving, disk, log, crashes>>
    BY <1>lock DEF PatrolLock, bookVars
  <2> QED BY <2>1, <2>2, LedgerOK DEF IInv, TypeOK, PidsSpent, MemoryLogged, VerdictLogged, VanishedIsDead
<1>visit. ASSUME NEW m \in Models, PatrolVisit(m)
          PROVE  IInv'
  <2>1. /\ patrol'.lives = patrol.lives
        /\ patrol' \in [stage : {"off", "taken", "visit"}, lives : [Models -> Entry],
                        todo : SUBSET Models]
    BY <1>visit DEF PatrolVisit, IInv, TypeOK
  <2>2. UNCHANGED <<book, mu, alive, spent, evicted, reaped, saving, loaded, disk, crashes>>
    BY <1>visit DEF PatrolVisit, bookVars
  <2>3. CASE VisitManaged(m)
    <3>1. /\ led' \in [Models -> Record] /\ log' = log
          /\ \A n \in Models : led'[n].pid \in spent \cup {NoPid}
          /\ \A n \in Models : led'[n] = led[n] \/ led'[n].state = "loaded"
      BY <2>3 DEF VisitManaged, IInv, TypeOK, PidsSpent, Entry, Record
    <3>2. MemoryLogged'
      BY <3>1 DEF IInv, MemoryLogged, Verdicts
    <3> QED BY <2>1, <2>2, <3>1, <3>2 DEF IInv, TypeOK, PidsSpent, VerdictLogged, VanishedIsDead
  <2>4. CASE VisitUnmanaged(m)
    <3>1. CASE led[m].state = "loaded" /\ led[m].pid \in Pids \ alive
      <4>1. /\ led' = [led EXCEPT ![m].state = "vanished"]
            /\ log' = log \cup {<<"vanished", led[m].pid>>}
        BY <2>4, <3>1 DEF VisitUnmanaged
      <4>2. /\ led' \in [Models -> Record]
            /\ \A n \in Models : led'[n].pid = led[n].pid
            /\ \A n \in Models : n # m => led'[n] = led[n]
            /\ led'[m].state = "vanished"
        BY <4>1 DEF IInv, TypeOK, Record
      <4>3. log' \subseteq Verdicts \X Pids
        BY <4>1, <3>1 DEF IInv, TypeOK, Verdicts
      <4>4. \A p \in Pids : <<"vanished", p>> \in log' => <<"vanished", p>> \in log \/ p = led[m].pid
        BY <4>1
      <4>5. TypeOK'
        BY <2>1, <2>2, <4>2, <4>3 DEF IInv, TypeOK
      <4>6. PidsSpent'
        BY <2>1, <2>2, <3>1, <4>2, <4>4 DEF IInv, PidsSpent, TypeOK
      <4>7. MemoryLogged'
        BY <4>1, <4>2 DEF IInv, MemoryLogged
      <4>8. VerdictLogged' /\ VanishedIsDead'
        BY <2>2, <3>1, <4>1, <4>4 DEF IInv, VerdictLogged, VanishedIsDead
      <4> QED BY <4>5, <4>6, <4>7, <4>8 DEF IInv
    <3>2. CASE ~(led[m].state = "loaded" /\ led[m].pid \in Pids \ alive)
      <4>1. UNCHANGED <<led, log>>
        BY <2>4, <3>2 DEF VisitUnmanaged
      <4> QED BY <2>1, <2>2, <4>1 DEF IInv, TypeOK, PidsSpent, MemoryLogged, VerdictLogged, VanishedIsDead
    <3> QED BY <3>1, <3>2
  <2> QED BY <1>visit, <2>3, <2>4 DEF PatrolVisit
<1>psave. CASE PatrolSave
  BY <1>psave DEF PatrolSave, bookVars, PatrolOff, Absent, Entry, IInv, TypeOK, PidsSpent, MemoryLogged,
     VerdictLogged, VanishedIsDead
<1>crash. CASE Crash
  <2>1. Absent \in Entry /\ NoRecord \in Record /\ Absent.pid = NoPid /\ NoRecord.pid = NoPid
        /\ NoRecord.state \notin Verdicts
    BY DEF Absent, Entry, NoRecord, Record, Verdicts
  <2>2. alive' \subseteq alive /\ UNCHANGED <<spent, evicted, reaped, disk, log>>
    BY <1>crash DEF Crash
  <2>3. TypeOK'
    <3>1. book' \in [Models -> Entry] /\ led' \in [Models -> Record]
      BY <1>crash, <2>1 DEF Crash
    <3>2. patrol' \in [stage : {"off", "taken", "visit"}, lives : [Models -> Entry],
                       todo : SUBSET Models]
      BY <1>crash, <2>1 DEF Crash, PatrolOff
    <3>3. mu' = NoModel /\ saving' = FALSE /\ loaded' = FALSE /\ crashes' \in Nat
      BY <1>crash DEF Crash, IInv, TypeOK
    <3> QED BY <2>2, <3>1, <3>2, <3>3 DEF IInv, TypeOK
  <2>4. PidsSpent'
    BY <1>crash, <2>1, <2>2 DEF Crash, PatrolOff, IInv, PidsSpent
  <2>5. MemoryLogged'
    BY <1>crash, <2>1 DEF Crash, MemoryLogged
  <2>6. VerdictLogged' /\ VanishedIsDead'
    BY <2>2 DEF IInv, VerdictLogged, VanishedIsDead
  <2> QED BY <2>3, <2>4, <2>5, <2>6 DEF IInv
<1>stutter. CASE UNCHANGED vars
  BY <1>stutter DEF vars, bookVars, ledgerVars, IInv, TypeOK, PidsSpent, MemoryLogged, VerdictLogged, VanishedIsDead
<1> QED
  BY <1>book, <1>reap, <1>evict, <1>dies, <1>mark, <1>save, <1>snap, <1>lock, <1>visit, <1>psave,
     <1>crash, <1>stutter DEF Next, EvictStep, PatrolStep

\* Every behaviour of the ledger keeps its types, and no patrol, whatever its copy of the
\* book, writes "vanished" of a process that runs.
THEOREM LedgerCorrect == Spec => [](TypeOK /\ VanishedIsDead)
<1>1. IInv => TypeOK /\ VanishedIsDead
  BY DEF IInv
<1> QED BY InitOK, StepOK, <1>1, PTL DEF Spec

\* Every verdict in the file has its event line, through crashes between the two writes.
THEOREM VerdictLoggedEver == Spec => []VerdictLogged
<1>1. IInv => VerdictLogged
  BY DEF IInv
<1> QED BY InitOK, StepOK, <1>1, PTL DEF Spec

-----------------------------------------------------------------------------
(* Who writes the file has read it, and what is in the file is in memory. *)

ReadFirst ==
    /\ saving \/ patrol.stage = "visit" => loaded
    /\ loaded => \A m \in Models : disk[m].state # "none" => led[m].state # "none"

\* A step keeps ReadFirst, and no step drops a record from the file.
LEMMA StepKeeps ==
  ASSUME IInv, ReadFirst, [Next]_vars
  PROVE  /\ ReadFirst'
         /\ \A m \in Models : disk[m].state # "none" => disk'[m].state # "none"
<1>0. /\ Ledger \in [Models -> Record]
      /\ \A m \in Models : disk[m].state # "none" => Ledger[m].state # "none"
  BY LedgerOK DEF ReadFirst, Ledger
<1>book. ASSUME NEW m \in Models, Place(m) \/ Hatched(m) \/ Broken(m) \/ Drain(m) \/ Restore(m)
                                  \/ ReapStop(m) \/ ReapFinalize(m) \/ Evict(m)
         PROVE  UNCHANGED <<patrol, saving, led, loaded, disk>>
  BY <1>book DEF Place, Hatched, Broken, Drain, Restore, ReapStop, ReapFinalize, Evict, BookOnly, ledgerVars
<1>dies. ASSUME NEW p \in Pids, EngineDies(p)
         PROVE  UNCHANGED <<patrol, saving, led, loaded, disk>>
  BY <1>dies DEF EngineDies, BookOnly, ledgerVars
<1>mark. CASE EvictMark
  <2>1. loaded' /\ UNCHANGED <<patrol, disk>>
    BY <1>mark DEF EvictMark
  <2>2. \A m \in Models : Ledger[m].state # "none" => led'[m].state # "none"
    BY <1>mark, <1>0 DEF EvictMark, Record, IInv, TypeOK
  <2> QED BY <1>0, <2>1, <2>2 DEF ReadFirst
<1>save. CASE EvictSave
  BY <1>save DEF EvictSave, ReadFirst
<1>snap. CASE PatrolSnapshot
  BY <1>snap DEF PatrolSnapshot, ledgerVars, ReadFirst
<1>lock. CASE PatrolLock
  BY <1>lock, <1>0 DEF PatrolLock, ReadFirst
<1>visit. ASSUME NEW m \in Models, PatrolVisit(m)
          PROVE  ReadFirst' /\ disk' = disk
  <2>1. UNCHANGED <<saving, loaded, disk>> /\ patrol'.stage = "visit" /\ patrol.stage = "visit"
    BY <1>visit DEF PatrolVisit, IInv, TypeOK
  <2>2. \A n \in Models : led[n].state # "none" => led'[n].state # "none"
    <3>1. CASE VisitManaged(m)
      BY <3>1 DEF VisitManaged, IInv, TypeOK, Record
    <3>2. CASE VisitUnmanaged(m)
      BY <3>2 DEF VisitUnmanaged, IInv, TypeOK, Record
    <3> QED BY <1>visit, <3>1, <3>2 DEF PatrolVisit
  <2> QED BY <2>1, <2>2 DEF ReadFirst
<1>psave. CASE PatrolSave
  BY <1>psave DEF PatrolSave, PatrolOff, ReadFirst
<1>crash. CASE Crash
  BY <1>crash DEF Crash, PatrolOff, ReadFirst
<1>same. ASSUME UNCHANGED <<patrol, saving, led, loaded, disk>>
         PROVE  /\ ReadFirst'
                /\ \A m \in Models : disk[m].state # "none" => disk'[m].state # "none"
  BY <1>same DEF ReadFirst
<1>stutter. CASE UNCHANGED vars
  BY <1>stutter, <1>same DEF vars, ledgerVars
<1> QED
  BY <1>book, <1>dies, <1>mark, <1>save, <1>snap, <1>lock, <1>visit, <1>psave, <1>crash, <1>same,
     <1>stutter DEF Next, EvictStep, PatrolStep

\* No behaviour of patrols, evictions and crashes ever drops a record from the ledger file.
THEOREM RecordKeptEver == Spec => RecordKept
<1>1. Init => IInv /\ ReadFirst
  BY InitOK DEF Init, ReadFirst, PatrolOff
<1>2. IInv /\ ReadFirst /\ [Next]_vars => (IInv /\ ReadFirst)'
  BY StepOK, StepKeeps
<1>3. IInv /\ ReadFirst /\ [Next]_vars
        => [\A m \in Models : disk[m].state # "none" => disk'[m].state # "none"]_vars
  BY StepKeeps
<1> QED BY <1>1, <1>2, <1>3, PTL DEF Spec, RecordKept

-----------------------------------------------------------------------------
(* An eviction is never reported as a loss. The eviction keeps m.mu until  *)
(* the ledger knows of it, and the patrol copies the book under m.mu: a    *)
(* copy without the egg is older than its engine, or younger than its mark.*)

\* The pids that the book, the patrol's copy of it and the ledger have for an egg.
Names(m) == {book[m].pid, patrol.lives[m].pid, Ledger[m].pid} \ {NoPid}
Owned == \A m, n \in Models : m # n => Names(m) \cap Names(n) = {}

\* Evicted, and the ledger has not been told yet.
Pending(m) == mu = m /\ ~saving

BookClean ==
    /\ evicted \subseteq spent \ alive
    /\ saving => mu # NoModel
    /\ \A m \in Models : /\ book[m].st = "absent" => book[m].pid = NoPid
                         /\ book[m].pid \notin evicted

\* A loaded record of an engine that was evicted is about to be marked.
LedgerTold ==
    \A m \in Models :
        Ledger[m].state = "loaded" /\ Ledger[m].pid \in evicted => Pending(m)

\* A copy of the book that still has an evicted engine brings it back into no record that
\* was marked, and one without the egg has nothing to say of the engine in its record.
PatrolTold ==
    \A m \in Models :
        /\ patrol.lives[m].pid \in evicted /\ Ledger[m].state = "loaded" => Pending(m)
        /\ patrol.stage # "off" /\ patrol.lives[m].st = "absent" /\ Ledger[m].state = "loaded"
             => Ledger[m].pid \notin evicted \cup ({book[m].pid} \ {NoPid})

\* What was reported as lost was not evicted, and cannot be any more.
LogTold ==
    \A p \in Pids : <<"vanished", p>> \in log
                        => p \notin evicted /\ \A m \in Models : book[m].pid # p

EvictInv == Owned /\ BookClean /\ LedgerTold /\ PatrolTold /\ LogTold

LEMMA OwnedKept ==
  ASSUME Owned, \A n \in Models : Names(n)' \subseteq Names(n)
  PROVE  Owned'
  BY DEF Owned

\* Every pid that is named was given out.
LEMMA NamesSpent ==
  ASSUME IInv
  PROVE  /\ book \in [Models -> Entry] /\ evicted \subseteq Pids /\ NoPid \notin evicted
         /\ alive \subseteq spent /\ spent \subseteq Pids
         /\ \A n \in Models : /\ book[n].pid \in spent \cup {NoPid} /\ Names(n) \subseteq spent
                              /\ Ledger[n].pid \in spent \cup {NoPid}
         /\ \A p \in Pids : <<"vanished", p>> \in log => p \in spent
<1>1. \A n \in Models : /\ book[n].pid \in spent \cup {NoPid}
                        /\ patrol.lives[n].pid \in spent \cup {NoPid}
                        /\ Ledger[n].pid \in spent \cup {NoPid}
  BY LedgerOK DEF IInv, PidsSpent
<1>2. NoPid \notin evicted
  BY LedgerAssumption DEF IInv, TypeOK
<1> QED BY <1>1, <1>2 DEF IInv, TypeOK, PidsSpent, Names

\* A step of the book but an eviction: an entry keeps its engine, loses it or gets a new one.
LEMMA BookMoves ==
  ASSUME IInv, EvictInv, NEW m \in Models, NEW x \in Entry,
         book' = [book EXCEPT ![m] = x], x.st = "absent" => x.pid = NoPid,
         x.pid \in {book[m].pid, NoPid} \cup (Pids \ spent),
         spent \subseteq spent', alive' \cap spent \subseteq alive,
         UNCHANGED <<mu, evicted, patrol, saving, led, loaded, disk, log>>
  PROVE  EvictInv'
<1>1. /\ book'[m] = x
      /\ \A n \in Models \ {m} : book'[n] = book[n]
      /\ Ledger' = Ledger
  BY NamesSpent DEF Ledger
<1>2. x.pid \notin evicted
  BY NamesSpent DEF EvictInv, BookClean
<1>3. Owned'
  <2> SUFFICES ASSUME NEW i \in Models, NEW j \in Models, i # j, NEW p, p \in Names(i)', p \in Names(j)'
               PROVE  FALSE
    BY DEF Owned
  <2>1. \A n \in Models : p \in Names(n)' => p \in Names(n) \/ (n = m /\ p \in Pids \ spent)
    BY <1>1 DEF Names
  <2>2. \A n \in Models : p \in Names(n) => p \in spent
    BY NamesSpent
  <2>3. p \notin Names(i) \/ p \notin Names(j)
    BY DEF EvictInv, Owned
  <2> QED BY <2>1, <2>2, <2>3
<1>4. BookClean'
  <2>1. evicted' \subseteq spent' \ alive' /\ (saving' => mu' # NoModel)
    BY DEF EvictInv, BookClean
  <2>2. \A n \in Models : /\ book'[n].st = "absent" => book'[n].pid = NoPid
                          /\ book'[n].pid \notin evicted'
    BY <1>1, <1>2 DEF EvictInv, BookClean
  <2> QED BY <2>1, <2>2 DEF BookClean
<1>5. LedgerTold'
  BY <1>1 DEF EvictInv, LedgerTold, Pending
<1>6. PatrolTold'
  <2> SUFFICES ASSUME NEW n \in Models
               PROVE  /\ patrol.lives[n].pid \in evicted /\ Ledger[n].state = "loaded" => Pending(n)
                      /\ patrol.stage # "off" /\ patrol.lives[n].st = "absent"
                           /\ Ledger[n].state = "loaded"
                           => Ledger[n].pid \notin evicted \cup ({book'[n].pid} \ {NoPid})
    BY <1>1 DEF PatrolTold, Pending
  <2>1. book'[n].pid \in {book[n].pid, NoPid} \cup (Pids \ spent)
    BY <1>1
  <2>2. Ledger[n].pid \in spent \cup {NoPid}
    BY NamesSpent
  <2> QED BY <2>1, <2>2 DEF EvictInv, PatrolTold
<1>7. LogTold'
  <2> SUFFICES ASSUME NEW p \in Pids, <<"vanished", p>> \in log, NEW n \in Models
               PROVE  p \notin evicted /\ book'[n].pid # p
    BY DEF LogTold
  <2>1. book'[n].pid \in {book[n].pid, NoPid} \cup (Pids \ spent)
    BY <1>1
  <2>2. p \in spent /\ p # NoPid
    BY NamesSpent, LedgerAssumption
  <2> QED BY <2>1, <2>2 DEF EvictInv, LogTold
<1> QED BY <1>3, <1>4, <1>5, <1>6, <1>7 DEF EvictInv

\* Evict: the only record that may have the engine is that of the egg, and m.mu is kept.
LEMMA EvictTold ==
  ASSUME IInv, EvictInv, NEW m \in Models, Evict(m)
  PROVE  EvictInv'
<1>1. /\ mu' = m /\ ~saving'
      /\ alive' = alive \ {book[m].pid}
      /\ evicted' = evicted \cup ({book[m].pid} \ {NoPid})
      /\ UNCHANGED <<spent, patrol, led, loaded, disk, log>>
      /\ Ledger' = Ledger
  BY DEF Evict, ledgerVars, Ledger, EvictInv, BookClean
<1>2. /\ book'[m].st = "absent" /\ book'[m].pid = NoPid
      /\ \A n \in Models \ {m} : book'[n] = book[n]
  BY NamesSpent DEF Evict, Absent
<1>3. Owned'
  <2>1. \A n \in Models : Names(n)' \subseteq Names(n)
    BY <1>1, <1>2 DEF Names
  <2> QED BY <2>1, OwnedKept DEF EvictInv
<1>4. \A n \in Models \ {m} : Names(n) \cap {book[m].pid} \subseteq {NoPid}
  BY DEF EvictInv, Owned, Names
<1>5. \A n \in Models \ {m} : /\ book[n].pid \in evicted' => book[n].pid \in evicted
                              /\ patrol.lives[n].pid \in evicted' => patrol.lives[n].pid \in evicted
                              /\ Ledger[n].pid \in evicted' => Ledger[n].pid \in evicted
  BY <1>1, <1>4 DEF Names
<1>6. BookClean'
  <2>1. evicted' \subseteq spent' \ alive'
    BY <1>1, NamesSpent DEF EvictInv, BookClean
  <2>2. \A n \in Models : /\ book'[n].st = "absent" => book'[n].pid = NoPid
                          /\ book'[n].pid \notin evicted'
    BY <1>1, <1>2, <1>5, NamesSpent DEF EvictInv, BookClean
  <2> QED BY <1>1, <2>1, <2>2 DEF BookClean
<1>7. Pending(m)' /\ \A n \in Models : ~Pending(n)
  BY <1>1, LedgerAssumption DEF Pending, Evict
<1>8. LedgerTold'
  BY <1>1, <1>5, <1>7 DEF EvictInv, LedgerTold
<1>9. PatrolTold'
  <2> SUFFICES ASSUME NEW n \in Models
               PROVE  /\ patrol.lives[n].pid \in evicted' /\ Ledger[n].state = "loaded"
                           => Pending(n)'
                      /\ patrol.stage # "off" /\ patrol.lives[n].st = "absent"
                           /\ Ledger[n].state = "loaded"
                           => Ledger[n].pid \notin evicted' \cup ({book'[n].pid} \ {NoPid})
    BY <1>1 DEF PatrolTold
  <2>1. CASE n = m
    BY <1>1, <1>2, <1>7, <2>1 DEF EvictInv, PatrolTold
  <2>2. CASE n # m
    BY <1>2, <1>5, <1>7, <2>2 DEF EvictInv, PatrolTold
  <2> QED BY <2>1, <2>2
<1>10. LogTold'
  <2> SUFFICES ASSUME NEW p \in Pids, <<"vanished", p>> \in log, NEW n \in Models
               PROVE  p \notin evicted' /\ book'[n].pid # p
    BY <1>1 DEF LogTold
  <2>1. p \notin evicted /\ book[m].pid # p /\ book[n].pid # p /\ p # NoPid
    BY LedgerAssumption DEF EvictInv, LogTold
  <2> QED BY <1>1, <1>2, <2>1
<1> QED BY <1>3, <1>6, <1>8, <1>9, <1>10 DEF EvictInv

\* The ledger is read, marked, or saved, and nothing is taken up into it: what it says of
\* an engine stays, but for the egg in m.mu, which is not pending any more.
LEMMA RecordMoves ==
  ASSUME IInv, EvictInv, UNCHANGED <<book, alive, spent, evicted>>,
         \A p \in Pids : <<"vanished", p>> \in log' => <<"vanished", p>> \in log,
         patrol'.lives = patrol.lives, patrol.stage = "off" => patrol'.stage = "off",
         saving' => mu' # NoModel,
         \A n \in Models : /\ Ledger'[n].pid = Ledger[n].pid
                           /\ Ledger'[n].state = "loaded"
                                => Ledger[n].state = "loaded" /\ (Pending(n) => Pending(n)')
  PROVE  EvictInv'
<1>1. Owned'
  <2>1. \A n \in Models : Names(n)' \subseteq Names(n)
    BY DEF Names
  <2> QED BY <2>1, OwnedKept DEF EvictInv
<1>2. BookClean' /\ LogTold'
  BY DEF EvictInv, BookClean, LogTold
<1>3. LedgerTold' /\ PatrolTold'
  BY DEF EvictInv, LedgerTold, PatrolTold
<1> QED BY <1>1, <1>2, <1>3 DEF EvictInv

\* EvictMark: the record of the egg is loaded no longer, and no other was pending.
LEMMA MarkTold ==
  ASSUME IInv, EvictInv, EvictMark
  PROVE  EvictInv'
<1>1. /\ UNCHANGED <<book, alive, spent, evicted, patrol>>
      /\ loaded' /\ mu \in Models /\ Ledger \in [Models -> Record] /\ Ledger' = led'
  BY LedgerOK DEF EvictMark, IInv, TypeOK, Ledger
<1>2. \A p \in Pids : <<"vanished", p>> \in log' => <<"vanished", p>> \in log
  BY DEF EvictMark
<1>3. saving' => mu' # NoModel
  BY DEF EvictMark, ResMuFree
<1>4. \A n \in Models : /\ Ledger'[n].pid = Ledger[n].pid
                        /\ Ledger'[n].state = "loaded" => Ledger[n].state = "loaded" /\ n # mu
  <2>1. CASE Ledger[mu].state = "loaded"
    <3>1. led' = [Ledger EXCEPT ![mu].state = "released"]
      BY <2>1 DEF EvictMark
    <3> QED BY <1>1, <3>1 DEF Record
  <2>2. CASE Ledger[mu].state # "loaded"
    BY <1>1, <2>2 DEF EvictMark
  <2> QED BY <2>1, <2>2
<1>5. \A n \in Models : n # mu => ~Pending(n)
  BY DEF Pending
<1>6. patrol'.lives = patrol.lives /\ patrol'.stage = patrol.stage
  BY <1>1
<1> QED BY <1>1, <1>2, <1>3, <1>4, <1>5, <1>6, RecordMoves

\* EvictSave: m.mu is given back by an eviction that has marked its record.
LEMMA SaveTold ==
  ASSUME IInv, EvictInv, ReadFirst, EvictSave
  PROVE  EvictInv'
<1>1. /\ UNCHANGED <<book, alive, spent, evicted, patrol, log>> /\ ~saving' /\ saving
      /\ Ledger' = Ledger
  BY DEF EvictSave, ReadFirst, Ledger
<1>2. \A n \in Models : ~Pending(n)
  BY <1>1 DEF Pending
<1>3. /\ \A n \in Models : Ledger'[n].pid = Ledger[n].pid /\ Ledger'[n].state = Ledger[n].state
      /\ patrol'.lives = patrol.lives /\ patrol'.stage = patrol.stage
  BY <1>1
<1> QED BY <1>1, <1>2, <1>3, RecordMoves

\* PatrolLock: what is read is what the file has.
LEMMA LockTold ==
  ASSUME IInv, EvictInv, PatrolLock
  PROVE  EvictInv'
<1>1. /\ UNCHANGED <<book, mu, alive, spent, evicted, saving, log>>
      /\ Ledger' = Ledger
      /\ patrol'.lives = patrol.lives /\ patrol.stage = "taken"
  BY DEF PatrolLock, bookVars, Ledger, IInv, TypeOK
<1>2. /\ \A n \in Models : Ledger'[n].pid = Ledger[n].pid /\ Ledger'[n].state = Ledger[n].state
      /\ \A n \in Models : Pending(n)' = Pending(n)
  BY <1>1 DEF Pending
<1>3. saving' => mu' # NoModel
  BY <1>1 DEF EvictInv, BookClean
<1> QED BY <1>1, <1>2, <1>3, RecordMoves

\* PatrolSnapshot: m.mu is free, so that every eviction has told the ledger.
LEMMA SnapshotTold ==
  ASSUME IInv, EvictInv, PatrolSnapshot
  PROVE  EvictInv'
<1>1. /\ UNCHANGED <<book, mu, alive, spent, evicted, saving, led, loaded, disk, log>>
      /\ mu = NoModel /\ patrol'.lives = book /\ Ledger' = Ledger
  BY DEF PatrolSnapshot, bookVars, ledgerVars, Ledger
<1>2. Owned'
  <2>1. \A n \in Models : Names(n)' \subseteq Names(n)
    BY <1>1 DEF Names
  <2> QED BY <2>1, OwnedKept DEF EvictInv
<1>3. BookClean' /\ LogTold' /\ LedgerTold'
  BY <1>1 DEF EvictInv, BookClean, LogTold, LedgerTold, Pending
<1>4. \A n \in Models : ~Pending(n)
  BY <1>1, LedgerAssumption DEF Pending
<1>5. PatrolTold'
  BY <1>1, <1>4 DEF EvictInv, PatrolTold, BookClean, LedgerTold
<1> QED BY <1>2, <1>3, <1>5 DEF EvictInv

\* PatrolSave: the copy is dropped.
LEMMA PatrolSaveTold ==
  ASSUME IInv, EvictInv, ReadFirst, PatrolSave
  PROVE  EvictInv'
<1>1. /\ UNCHANGED <<book, mu, alive, spent, evicted, saving, log>> /\ Ledger' = Ledger
      /\ patrol'.stage = "off" /\ \A n \in Models : patrol'.lives[n].pid = NoPid
  BY DEF PatrolSave, bookVars, ReadFirst, Ledger, PatrolOff, Absent
<1>2. Owned'
  <2>1. \A n \in Models : Names(n)' \subseteq Names(n)
    BY <1>1 DEF Names
  <2> QED BY <2>1, OwnedKept DEF EvictInv
<1>3. BookClean' /\ LogTold' /\ LedgerTold'
  BY <1>1 DEF EvictInv, BookClean, LogTold, LedgerTold, Pending
<1>4. PatrolTold'
  BY <1>1, NamesSpent DEF PatrolTold
<1> QED BY <1>2, <1>3, <1>4 DEF EvictInv

\* PatrolVisit: an engine is taken up into the ledger from the copy only if it runs, or in
\* a record that is still loaded; a record is judged only where the copy has no egg.
LEMMA VisitTold ==
  ASSUME IInv, EvictInv, ReadFirst, NEW m \in Models, PatrolVisit(m)
  PROVE  EvictInv'
<1>1. /\ UNCHANGED <<book, mu, alive, spent, evicted, saving>>
      /\ patrol'.lives = patrol.lives /\ patrol'.stage = "visit" /\ patrol.stage = "visit"
      /\ Ledger = led /\ Ledger' = led'
      /\ led \in [Models -> Record]
  BY DEF PatrolVisit, bookVars, Ledger, ReadFirst, IInv, TypeOK
<1>2. CASE VisitUnmanaged(m)
  <2>1. CASE led[m].state = "loaded" /\ led[m].pid \in Pids \ alive
    <3>1. /\ led' = [led EXCEPT ![m].state = "vanished"]
          /\ log' = log \cup {<<"vanished", led[m].pid>>}
          /\ patrol.lives[m].st = "absent"
      BY <1>2, <2>1 DEF VisitUnmanaged
    <3>2. \A n \in Models : /\ led'[n].pid = led[n].pid
                            /\ led'[n].state = "loaded" => led[n].state = "loaded"
      BY <1>1, <3>1 DEF Record
    <3>3. Owned'
      <4>1. \A n \in Models : Names(n)' \subseteq Names(n)
        BY <1>1, <3>2 DEF Names
      <4> QED BY <4>1, OwnedKept DEF EvictInv
    <3>4. BookClean'
      BY <1>1 DEF EvictInv, BookClean
    <3>5. LedgerTold' /\ PatrolTold'
      BY <1>1, <3>2 DEF EvictInv, LedgerTold, PatrolTold, Pending
    <3>6. led[m].pid \notin evicted /\ \A n \in Models : book[n].pid # led[m].pid
      <4>1. led[m].pid \notin evicted /\ book[m].pid # led[m].pid
        BY <1>1, <2>1, <3>1, LedgerAssumption DEF EvictInv, PatrolTold
      <4>2. ASSUME NEW n \in Models \ {m} PROVE book[n].pid # led[m].pid
        BY <1>1, <2>1, LedgerAssumption DEF EvictInv, Owned, Names
      <4> QED BY <4>1, <4>2
    <3>7. LogTold'
      BY <1>1, <3>1, <3>6 DEF EvictInv, LogTold
    <3> QED BY <3>3, <3>4, <3>5, <3>7 DEF EvictInv
  <2>2. CASE ~(led[m].state = "loaded" /\ led[m].pid \in Pids \ alive)
    <3>1. UNCHANGED <<led, log>>
      BY <1>2, <2>2 DEF VisitUnmanaged
    <3>2. /\ \A n \in Models : Ledger'[n].pid = Ledger[n].pid /\ Ledger'[n].state = Ledger[n].state
          /\ \A n \in Models : Pending(n)' = Pending(n)
      BY <1>1, <3>1 DEF Pending
    <3>3. saving' => mu' # NoModel
      BY <1>1 DEF EvictInv, BookClean
    <3> QED BY <1>1, <3>1, <3>2, <3>3, RecordMoves
  <2> QED BY <2>1, <2>2
<1>3. CASE VisitManaged(m)
  <2>1. /\ log' = log /\ patrol.lives[m].st # "absent"
        /\ \A n \in Models \ {m} : led'[n] = led[n]
        /\ led'[m].pid \in {led[m].pid, patrol.lives[m].pid}
        /\ led'[m].state = "loaded" =>
             \/ led[m].state = "loaded"
             \/ led'[m].pid = patrol.lives[m].pid /\ patrol.lives[m].pid \in alive
    BY <1>1, <1>3 DEF VisitManaged, Record, IInv, TypeOK, Entry
  <2>2. Owned'
    <3>1. \A n \in Models : Names(n)' \subseteq Names(n)
      BY <1>1, <2>1 DEF Names
    <3> QED BY <3>1, OwnedKept DEF EvictInv
  <2>3. BookClean' /\ LogTold'
    BY <1>1, <2>1 DEF EvictInv, BookClean, LogTold
  <2>4. patrol.lives[m].pid \in alive => patrol.lives[m].pid \notin evicted
    BY DEF EvictInv, BookClean
  <2>5. \A n \in Models : Pending(n)' = Pending(n)
    BY <1>1 DEF Pending
  <2>6. LedgerTold'
    BY <1>1, <2>1, <2>4, <2>5 DEF EvictInv, LedgerTold, PatrolTold
  <2>7. PatrolTold'
    BY <1>1, <2>1, <2>4, <2>5 DEF EvictInv, PatrolTold
  <2> QED BY <2>2, <2>3, <2>6, <2>7 DEF EvictInv
<1> QED BY <1>2, <1>3 DEF PatrolVisit

LEMMA NewState ==
  ASSUME NEW e \in Entry, NEW t \in {"serving", "draining", "crashed"}
  PROVE  LET x == [e EXCEPT !.st = t]
         IN  x \in Entry /\ x.pid = e.pid /\ x.st = t
  BY DEF Entry

\* An engine ends, by itself or by the hand of the reaper.
LEMMA EngineGone ==
  ASSUME IInv, EvictInv, alive' \subseteq alive,
         UNCHANGED <<book, spent, mu, evicted, patrol, saving, led, loaded, disk, log>>
  PROVE  EvictInv'
<1>1. Ledger' = Ledger
  BY DEF Ledger
<1> QED BY <1>1 DEF EvictInv, Owned, Names, BookClean, LedgerTold, PatrolTold, LogTold, Pending

\* Every step keeps it, as long as the agent does not crash.
LEMMA EvictInvStep ==
  ASSUME IInv, ReadFirst, EvictInv, crashes' = 0, [Next]_vars
  PROVE  EvictInv'
<1>1. ASSUME NEW m \in Models, Drain(m) \/ Restore(m)
      PROVE  EvictInv'
  <2>0. UNCHANGED <<alive, spent, mu, evicted, patrol, saving, led, loaded, disk, log>>
    BY <1>1 DEF Drain, Restore, BookOnly, ledgerVars
  <2>1. PICK t \in {"serving", "draining", "crashed"} : book' = [book EXCEPT ![m].st = t]
    BY <1>1 DEF Drain, Restore
  <2> DEFINE x == [book[m] EXCEPT !.st = t]
  <2>2. x \in Entry /\ x.st = t /\ x.pid = book[m].pid
    <3>1. book[m] \in Entry
      BY NamesSpent
    <3> QED BY <3>1, NewState
  <2>3. book' = [book EXCEPT ![m] = x] /\ t # "absent"
    BY <2>1
  <2> HIDE DEF x
  <2> QED BY <2>0, <2>2, <2>3, BookMoves
<1>10. ASSUME NEW m \in Models, ReapStop(m)
       PROVE  EvictInv'
  BY <1>10, EngineGone DEF ReapStop, ledgerVars
<1>11. ASSUME NEW m \in Models, ReapFinalize(m)
       PROVE  EvictInv'
  <2>1. /\ UNCHANGED <<alive, spent, mu, evicted, patrol, saving, led, loaded, disk, log>>
        /\ book' = [book EXCEPT ![m] = Absent]
    BY <1>11 DEF ReapFinalize, BookOnly, ledgerVars
  <2>2. Absent \in Entry /\ Absent.pid = NoPid
    BY DEF Absent, Entry
  <2> QED BY <2>1, <2>2, BookMoves
<1>2. ~Crash
  <2>1. crashes \in Nat
    BY DEF IInv, TypeOK
  <2> QED BY <2>1 DEF Crash
<1>3. ASSUME NEW m \in Models, Place(m)
      PROVE  EvictInv'
  <2> DEFINE x == [st |-> "loading", pid |-> NoPid]
  <2>1. x \in Entry /\ x.st = "loading" /\ x.pid = NoPid
    BY DEF Entry
  <2>2. /\ book' = [book EXCEPT ![m] = x] /\ spent' = spent /\ alive' \subseteq alive
        /\ UNCHANGED <<mu, evicted, patrol, saving, led, loaded, disk, log>>
    BY <1>3 DEF Place, BookOnly, ledgerVars
  <2> HIDE DEF x
  <2> QED BY <2>1, <2>2, BookMoves
<1>4. ASSUME NEW m \in Models, Hatched(m)
      PROVE  EvictInv'
  <2>0. UNCHANGED <<mu, evicted, patrol, saving, led, loaded, disk, log>>
    BY <1>4 DEF Hatched, BookOnly, ledgerVars
  <2>1. CASE \E p \in Pids \ spent : /\ book' = [book EXCEPT ![m] = [st |-> "serving", pid |-> p]]
                                     /\ alive' = alive \cup {p}
                                     /\ spent' = spent \cup {p}
    <3>1. PICK p \in Pids \ spent : /\ book' = [book EXCEPT ![m] = [st |-> "serving", pid |-> p]]
                                    /\ alive' = alive \cup {p}
                                    /\ spent' = spent \cup {p}
      BY <2>1
    <3> DEFINE x == [st |-> "serving", pid |-> p]
    <3>2. x \in Entry /\ x.st = "serving" /\ x.pid = p
      BY DEF Entry
    <3>3. /\ book' = [book EXCEPT ![m] = x] /\ spent \subseteq spent' /\ alive' \cap spent \subseteq alive
      BY <3>1
    <3> HIDE DEF x
    <3> QED BY <2>0, <3>2, <3>3, BookMoves
  <2>2. CASE book' = [book EXCEPT ![m].st = "crashed"] /\ UNCHANGED <<alive, spent>>
    <3> DEFINE x == [book[m] EXCEPT !.st = "crashed"]
    <3>1. x \in Entry /\ x.st = "crashed" /\ x.pid = book[m].pid
      BY NewState, NamesSpent
    <3>2. book' = [book EXCEPT ![m] = x]
      BY <2>2
    <3> HIDE DEF x
    <3> QED BY <2>0, <2>2, <3>1, <3>2, BookMoves
  <2>3. CASE book' = [book EXCEPT ![m] = Absent] /\ UNCHANGED <<alive, spent>>
    <3>1. Absent \in Entry /\ Absent.pid = NoPid
      BY DEF Absent, Entry
    <3> QED BY <2>0, <2>3, <3>1, BookMoves
  <2> QED BY <1>4, <2>1, <2>2, <2>3 DEF Hatched
<1>5. ASSUME NEW m \in Models, Broken(m)
      PROVE  EvictInv'
  <2>0. /\ UNCHANGED <<mu, evicted, patrol, saving, led, loaded, disk, log>>
        /\ spent' = spent /\ alive' \subseteq alive
    BY <1>5 DEF Broken, BookOnly, ledgerVars
  <2>1. PICK x \in Entry : /\ x.st = "crashed" /\ x.pid \in {book[m].pid, NoPid}
                           /\ book' = [book EXCEPT ![m] = x]
    <3>1. CASE book' = [book EXCEPT ![m].st = "crashed"]
      <4> DEFINE y == [book[m] EXCEPT !.st = "crashed"]
      <4>1. y \in Entry /\ y.st = "crashed" /\ y.pid = book[m].pid
        BY NewState, NamesSpent
      <4>2. book' = [book EXCEPT ![m] = y]
        BY <3>1
      <4> HIDE DEF y
      <4> QED BY <4>1, <4>2
    <3>2. CASE book' = [book EXCEPT ![m] = [st |-> "crashed", pid |-> NoPid]]
      <4> DEFINE y == [st |-> "crashed", pid |-> NoPid]
      <4>1. y \in Entry /\ y.st = "crashed" /\ y.pid = NoPid
        BY DEF Entry
      <4>2. book' = [book EXCEPT ![m] = y]
        BY <3>2
      <4> HIDE DEF y
      <4> QED BY <4>1, <4>2
    <3> QED BY <1>5, <3>1, <3>2 DEF Broken
  <2> QED BY <2>0, <2>1, BookMoves
<1>6. ASSUME NEW p \in Pids, EngineDies(p)
      PROVE  EvictInv'
  BY <1>6, EngineGone DEF EngineDies, BookOnly, ledgerVars
<1>7. CASE EvictStep
  BY <1>7, MarkTold, SaveTold DEF EvictStep
<1>8. CASE PatrolStep
  BY <1>8, SnapshotTold, LockTold, VisitTold, PatrolSaveTold DEF PatrolStep
<1>9. CASE UNCHANGED vars
  BY <1>9, EngineGone DEF vars, bookVars, ledgerVars
<1> QED
  BY <1>1, <1>2, <1>3, <1>4, <1>5, <1>6, <1>7, <1>8, <1>9, <1>10, <1>11, EvictTold DEF Next

\* No engine that this life of the agent evicted is ever reported as lost, by any patrol with
\* any old copy of the book, whatever the reaper unloads meanwhile.
THEOREM UnloadNotVanishedEver == Spec => []UnloadNotVanished
<1> DEFINE Inv == IInv /\ ReadFirst /\ (crashes = 0 => EvictInv)
<1>1. Init => Inv
  <2>0. Init => ReadFirst
    BY DEF Init, ReadFirst, PatrolOff
  <2> SUFFICES ASSUME Init PROVE EvictInv
    BY <2>0, InitOK
  <2>1. /\ mu = NoModel /\ ~saving /\ alive = {} /\ evicted = {} /\ log = {}
        /\ \A m \in Models : /\ book[m] = Absent /\ patrol.lives[m] = Absent
                             /\ Ledger[m] = NoRecord
    BY DEF Init, PatrolOff, Ledger
  <2>2. /\ Absent.pid = NoPid /\ Absent.st = "absent" /\ NoRecord.pid = NoPid
    BY DEF Absent, NoRecord
  <2> QED BY <2>1, <2>2 DEF EvictInv, Owned, Names, BookClean, LedgerTold, PatrolTold, LogTold
<1>2. Inv /\ [Next]_vars => Inv'
  <2> SUFFICES ASSUME Inv, [Next]_vars PROVE Inv'
    OBVIOUS
  <2>1. crashes' = 0 => crashes = 0
    <3>1. crashes' \in {crashes, crashes + 1} /\ crashes \in Nat
      BY DEF IInv, TypeOK, Next, vars, bookVars, ledgerVars, BookOnly, EvictStep, PatrolStep, Place,
         Hatched, Broken, Drain, Restore, ReapStop, ReapFinalize, Evict, EngineDies, EvictMark,
         EvictSave, PatrolSnapshot, PatrolLock, PatrolVisit, PatrolSave, Crash
    <3> QED BY <3>1
  <2> QED BY <2>1, StepOK, StepKeeps, EvictInvStep
<1>3. Inv => UnloadNotVanished
  BY DEF IInv, TypeOK, EvictInv, LogTold, UnloadNotVanished
<1> QED BY <1>1, <1>2, <1>3, PTL DEF Spec
=============================================================================
