------------------------------ MODULE RunRecord ------------------------------
(***************************************************************************)
(* The run record as a file: plugins/saga/scripts/run_record.py (update,   *)
(* record_lock, load, save, add_usage, set_next_step) and the orchestrate  *)
(* driver's own read-modify-write, Run.load and Run.save.                  *)
(*                                                                         *)
(* A writer takes the flock on <record>.lock, reads the record again,      *)
(* changes the copy, replaces the file and lets the lock go.  A driver     *)
(* loads the record with no lock, works for minutes on the rows in its     *)
(* memory, and saves them through the same lock.  The file is replaced     *)
(* whole (a temporary file and os.replace), so a read needs no lock and a  *)
(* process that dies leaves the old record or the new one; the kernel      *)
(* releases a dead process's lock.                                         *)
(***************************************************************************)
EXTENDS Naturals, FiniteSets

CONSTANTS Units,      \* the unit rows the record may hold
          Writers,    \* processes that run one update each: usage add or set_next_step
          Drivers,    \* orchestrate processes
          Nobody      \* no writer: the lock is free, the key was never written

ASSUME RecordAssumption == Writers \cap Drivers = {} /\ Nobody \notin Writers \cup Drivers

VARIABLES record,     \* the file
          lock,       \* the process that holds the flock
          pc,         \* the step each process is at
          job,        \* what each writer is to write: next_step, or the usage of a unit
          copy,       \* the record each process read under the lock
          held        \* each driver's memory: its rows and the foreign keys it last read

recordVars == <<record, lock, pc, job, copy, held>>

Procs == Writers \cup Drivers

NextStep == "next_step"

EmptyRows(value) == [u \in Units |-> value]

\* usage stands for the keys of a row that other writers own; the keys the Unit dataclass declares
\* belong to the driver alone and are left out.
EmptyRecord == [next_step |-> Nobody, units |-> {}, usage |-> EmptyRows({})]
EmptyMemory == [units |-> {}, known |-> {}, usage |-> EmptyRows({})]

RecordInit ==
  /\ record \in {[EmptyRecord EXCEPT !.units = rows] : rows \in SUBSET Units}
  /\ lock = Nobody
  /\ pc = [p \in Procs |-> "idle"]
  /\ job = [w \in Writers |-> NextStep]
  /\ copy = [p \in Procs |-> EmptyRecord]
  /\ held = [d \in Drivers |-> EmptyMemory]

Goto(p, step) == pc' = [pc EXCEPT ![p] = step]

-----------------------------------------------------------------------------
(***************************************************************************)
(* The driver outside its saves.                                           *)
(***************************************************************************)

\* Run.load: the rows and, apart from them, the keys the driver does not own.
Load(d) ==
  /\ pc[d] = "idle"
  /\ held' = [held EXCEPT ![d] = [units |-> record.units, known |-> record.units,
                                  usage |-> record.usage]]
  /\ Goto(d, "loaded")
  /\ UNCHANGED <<record, lock, job, copy>>

\* A command adds a row (expand, a minted repair worker) in memory.
AddRow(d, u) ==
  /\ pc[d] = "loaded"
  /\ u \notin held[d].units
  /\ held' = [held EXCEPT ![d].units = @ \cup {u}]
  /\ UNCHANGED <<record, lock, pc, job, copy>>

\* The command ends.
EndCommand(d) ==
  /\ pc[d] = "loaded"
  /\ Goto(d, "idle")
  /\ held' = [held EXCEPT ![d] = EmptyMemory]
  /\ UNCHANGED <<record, lock, job, copy>>

-----------------------------------------------------------------------------
(***************************************************************************)
(* The read-modify-write.                                                  *)
(***************************************************************************)

\* update is called, or Run.save.
StartUpdate(w) ==
  /\ pc[w] = "idle"
  /\ \E j \in Units \cup {NextStep} : job' = [job EXCEPT ![w] = j]
  /\ Goto(w, "locking")
  /\ UNCHANGED <<record, lock, copy, held>>

StartSave(d) ==
  /\ pc[d] = "loaded"
  /\ Goto(d, "locking")
  /\ UNCHANGED <<record, lock, job, copy, held>>

\* Mutant of AcquireLock: nobody waits for the lock.
LocksAnyhow(p) ==
  /\ pc[p] = "locking"
  /\ lock' = p
  /\ Goto(p, "reading")
  /\ UNCHANGED <<record, job, copy, held>>

\* flock(LOCK_EX) returns.
AcquireLock(p) ==
  /\ pc[p] = "locking"
  /\ lock = Nobody
  /\ lock' = p
  /\ Goto(p, "reading")
  /\ UNCHANGED <<record, job, copy, held>>

Reread(p) ==
  /\ pc[p] = "reading"
  /\ copy' = [copy EXCEPT ![p] = record]
  /\ Goto(p, "writing")
  /\ UNCHANGED <<record, lock, job, held>>

\* set_next_step's and add_usage's change of the record read.
Updated(w) ==
  IF job[w] = NextStep
    THEN [copy[w] EXCEPT !.next_step = w]
    ELSE [copy[w] EXCEPT !.usage[job[w]] = @ \cup {w}]

\* Mutant of Carried: the save carries forward the foreign keys it loaded.
CarriedFromLoad(d, u) ==
  IF u \notin held[d].known THEN {} ELSE held[d].usage[u]

\* _row_for_save: a row loaded from the record carries the foreign keys it has on disk now, or,
\* when it is gone from disk, those it had; a fresh row carries none.
Carried(d, u) ==
  IF u \notin held[d].known THEN {}
  ELSE IF u \in copy[d].units THEN copy[d].usage[u]
  ELSE held[d].usage[u]

\* Run.save: everything the driver does not own from the copy, its rows from memory.
Saved(d) ==
  [next_step |-> copy[d].next_step,
   units     |-> held[d].units,
   usage     |-> [u \in Units |-> IF u \in held[d].units THEN Carried(d, u) ELSE {}]]

\* Mutant of Applies: usage is added whether or not the record has the row.
AlwaysApplies(w) == TRUE

\* find_unit_row: usage is added to a row the record has.
Applies(w) == job[w] = NextStep \/ job[w] \in copy[w].units

Replace(p) ==
  /\ pc[p] = "writing"
  /\ \/ /\ p \in Writers
        /\ Applies(p)
        /\ record' = Updated(p)
        /\ UNCHANGED held
     \/ /\ p \in Drivers
        /\ record' = Saved(p)
        /\ held' = [held EXCEPT ![p].known = held[p].units, ![p].usage = Saved(p).usage]
  /\ Goto(p, "unlocking")
  /\ UNCHANGED <<lock, job, copy>>

\* The change is refused, or the write fails: the record is left alone and the lock is let go.
WriteNothing(p) ==
  /\ pc[p] = "writing"
  /\ Goto(p, "unlocking")
  /\ UNCHANGED <<record, lock, job, copy, held>>

\* Mutant of Unlock: a writer returns with the lock held.
KeepsLock(p) ==
  /\ pc[p] = "unlocking"
  /\ Goto(p, IF p \in Writers THEN "done" ELSE "loaded")
  /\ UNCHANGED <<record, lock, job, copy, held>>

Unlock(p) ==
  /\ pc[p] = "unlocking"
  /\ lock' = Nobody
  /\ Goto(p, IF p \in Writers THEN "done" ELSE "loaded")
  /\ copy' = [copy EXCEPT ![p] = EmptyRecord]
  /\ UNCHANGED <<record, job, held>>

\* A process is killed anywhere; its command is not resumed.
Crash(p) ==
  /\ pc[p] \notin {"idle", "done"}
  /\ lock' = IF lock = p THEN Nobody ELSE lock
  /\ Goto(p, IF p \in Writers THEN "done" ELSE "idle")
  /\ held' = IF p \in Drivers THEN [held EXCEPT ![p] = EmptyMemory] ELSE held
  /\ copy' = [copy EXCEPT ![p] = EmptyRecord]
  /\ UNCHANGED <<record, job>>

-----------------------------------------------------------------------------
LockedStep(p) == Reread(p) \/ Replace(p) \/ WriteNothing(p) \/ Unlock(p)

RecordNext ==
  \/ \E p \in Procs : AcquireLock(p) \/ LockedStep(p) \/ Crash(p)
  \/ \E w \in Writers : StartUpdate(w)
  \/ \E d \in Drivers : Load(d) \/ StartSave(d) \/ EndCommand(d) \/ \E u \in Units : AddRow(d, u)

RecordSpec == RecordInit /\ [][RecordNext]_recordVars

\* A process that holds the lock does a read and a write and lets go; flock serves its waiters, so
\* one that finds the lock free again and again gets it.
RecordFairness ==
  \A p \in Procs : WF_recordVars(LockedStep(p)) /\ SF_recordVars(AcquireLock(p))

FairRecordSpec == RecordSpec /\ RecordFairness

-----------------------------------------------------------------------------
(***************************************************************************)
(* Properties.                                                             *)
(***************************************************************************)

Records == [next_step : Writers \cup {Nobody}, units : SUBSET Units,
            usage : [Units -> SUBSET Writers]]

Memories == [units : SUBSET Units, known : SUBSET Units,
             usage : [Units -> SUBSET Writers]]

Steps == {"idle", "loaded", "locking", "reading", "writing", "unlocking", "done"}

\* The types, and that a row that is not there carries nothing.
RecordTypeOK ==
  /\ record \in Records
  /\ lock \in Procs \cup {Nobody}
  /\ pc \in [Procs -> Steps]
  /\ job \in [Writers -> Units \cup {NextStep}]
  /\ copy \in [Procs -> Records]
  /\ held \in [Drivers -> Memories]
  /\ \A u \in Units \ record.units : record.usage[u] = {}

\* "so change always sees every write that finished before it": between the read under the lock
\* and the replace nobody else writes the record, whichever process dies while it holds the lock.
ReadIsCurrent ==
  \A p \in Procs : pc[p] = "writing" => copy[p] = record

\* A usage addition that was written stays on its row through every save of a driver that loaded
\* the row before the addition: the row loses it only when a driver that never saw the row on the
\* record writes it afresh, or when a driver that does not hold the row drops it.
UsageIsKept ==
  [][\A u \in record.units \cap record'.units :
        \/ record.usage[u] \subseteq record'.usage[u]
        \/ \E d \in Drivers : u \in held[d].units \ held[d].known /\ Replace(d)]_recordVars

\* The file with its lock implements the record whose writes are single steps.
Atomic == INSTANCE AtomicRecord WITH known <- [d \in Drivers |-> held[d].known]

ImplementsAtomic == Atomic!Spec

\* Nobody waits for ever on the record: an update or a save that asks for the lock ends, whatever
\* other writers die with it.
EveryUpdateEnds ==
  \A p \in Procs : (pc[p] = "locking") ~> (pc[p] \in {"loaded", "idle", "done"})
=============================================================================
