--------------------------- MODULE RunRecordProofs ---------------------------
(***************************************************************************)
(* The lock protocol of the run record implements a record whose writes    *)
(* are single steps.  The argument: a process in its critical section      *)
(* holds the lock, so no two are in it (LockInv), so what one read under   *)
(* the lock is still the record when it replaces it (ReadIsCurrent).       *)
(***************************************************************************)
EXTENDS RunRecord, TLAPS

Critical == {"reading", "writing", "unlocking"}

\* A process in its critical section holds the lock; the lock belongs to nobody else.
LockInv == \A p \in Procs : pc[p] \in Critical => lock = p

RecordInv == RecordTypeOK /\ LockInv /\ ReadIsCurrent

-----------------------------------------------------------------------------
\* The invariant holds of a record nobody has opened yet.
LEMMA InitEstablishesInv == RecordInit => RecordInv
<1> SUFFICES ASSUME RecordInit PROVE RecordInv
  OBVIOUS
<1>1. PICK rows \in SUBSET Units : record = [EmptyRecord EXCEPT !.units = rows]
  BY DEF RecordInit
<1>2. RecordTypeOK
  <2>1. EmptyRecord \in Records /\ record \in Records
    BY <1>1 DEF EmptyRecord, Records, EmptyRows
  <2>2. \A u \in Units \ record.units : record.usage[u] = {}
    BY <1>1 DEF EmptyRecord, EmptyRows
  <2>3. EmptyMemory \in Memories
    BY DEF EmptyMemory, Memories, EmptyRows
  <2> QED BY <2>1, <2>2, <2>3 DEF RecordInit, RecordTypeOK, Steps
<1>3. LockInv /\ ReadIsCurrent
  BY DEF RecordInit, LockInv, ReadIsCurrent, Critical
<1> QED BY <1>2, <1>3 DEF RecordInv

\* What a writer makes of the record it read is a record, and leaves rows that are not there empty.
LEMMA UpdatedIsRecord ==
  ASSUME RecordInv, NEW w \in Writers, pc[w] = "writing", Applies(w)
  PROVE  /\ Updated(w) \in Records
         /\ \A u \in Units \ Updated(w).units : Updated(w).usage[u] = {}
<1> w \in Procs /\ copy[w] = record /\ record \in Records
  BY DEF RecordInv, ReadIsCurrent, RecordTypeOK, Procs
<1>1. CASE job[w] = NextStep
  BY <1>1 DEF Updated, Records, RecordInv, RecordTypeOK
<1>2. CASE job[w] # NextStep
  <2>1. job[w] \in record.units /\ job[w] \in Units
    BY <1>2 DEF Applies, RecordInv, RecordTypeOK
  <2>2. Updated(w) = [record EXCEPT !.usage[job[w]] = @ \cup {w}]
    BY <1>2 DEF Updated
  <2>3. Updated(w).units = record.units
    BY <2>2 DEF Records
  <2>4. Updated(w) \in Records
    BY <2>1, <2>2 DEF Records
  <2>5. \A u \in Units \ record.units : Updated(w).usage[u] = record.usage[u]
    BY <2>1, <2>2 DEF Records
  <2> QED BY <2>3, <2>4, <2>5 DEF RecordInv, RecordTypeOK
<1> QED BY <1>1, <1>2

\* What a driver saves is a record, and leaves rows it does not hold empty.
LEMMA SavedIsRecord ==
  ASSUME RecordInv, NEW d \in Drivers, pc[d] = "writing"
  PROVE  /\ Saved(d) \in Records
         /\ \A u \in Units \ Saved(d).units : Saved(d).usage[u] = {}
<1> d \in Procs /\ copy[d] = record /\ record \in Records /\ held[d] \in Memories
  BY DEF RecordInv, ReadIsCurrent, RecordTypeOK, Procs
<1>1. \A u \in Units : Carried(d, u) \in SUBSET Writers
  BY DEF Carried, Records, Memories
<1> QED BY <1>1 DEF Saved, Records, Memories

-----------------------------------------------------------------------------
\* A step of a process outside its critical section that leaves the record and the lock alone.
LEMMA OutsideStep ==
  ASSUME RecordInv, NEW p \in Procs, NEW s \in Steps \ Critical, Goto(p, s),
         UNCHANGED <<record, lock, copy>>, RecordTypeOK'
  PROVE  RecordInv'
<1>1. \A q \in Procs : pc'[q] \in Critical => pc'[q] = pc[q]
  BY DEF Goto, RecordInv, RecordTypeOK
<1>2. LockInv' /\ ReadIsCurrent'
  BY <1>1 DEF RecordInv, LockInv, ReadIsCurrent, Critical
<1> QED BY <1>2 DEF RecordInv

\* A step inside p's critical section: nobody else is in one.
LEMMA Alone ==
  ASSUME RecordInv, NEW p \in Procs, pc[p] \in Critical, NEW q \in Procs \ {p}
  PROVE  pc[q] \notin Critical
BY DEF RecordInv, LockInv

\* Every step keeps the invariant.
LEMMA NextKeepsInv == RecordInv /\ [RecordNext]_recordVars => RecordInv'
<1> SUFFICES ASSUME RecordInv, [RecordNext]_recordVars PROVE RecordInv'
  OBVIOUS
<1> USE DEF Steps, Critical
<1>types. /\ record \in Records
          /\ lock \in Procs \cup {Nobody}
          /\ pc \in [Procs -> Steps]
          /\ job \in [Writers -> Units \cup {NextStep}]
          /\ copy \in [Procs -> Records]
          /\ held \in [Drivers -> Memories]
          /\ \A u \in Units \ record.units : record.usage[u] = {}
  BY DEF RecordInv, RecordTypeOK
<1>empty. EmptyRecord \in Records /\ EmptyMemory \in Memories
  BY DEF EmptyRecord, EmptyMemory, Records, Memories, EmptyRows
<1>parts. Drivers \subseteq Procs /\ Writers \subseteq Procs /\ Writers \cap Drivers = {}
  BY RecordAssumption DEF Procs
<1>1. ASSUME NEW d \in Drivers, Load(d) PROVE RecordInv'
  <2>1. RecordTypeOK'
    BY <1>1, <1>types, <1>parts DEF Load, Goto, RecordTypeOK, Records, Memories
  <2> QED BY <2>1, <1>1, <1>parts, OutsideStep DEF Load
<1>2. ASSUME NEW d \in Drivers, NEW u \in Units, AddRow(d, u) PROVE RecordInv'
  <2>1. held' \in [Drivers -> Memories]
    BY <1>2, <1>types DEF AddRow, Memories
  <2>2. RecordTypeOK'
    BY <2>1, <1>2, <1>types DEF AddRow, RecordTypeOK
  <2> QED BY <2>2, <1>2 DEF AddRow, RecordInv, LockInv, ReadIsCurrent
<1>3. ASSUME NEW d \in Drivers, EndCommand(d) PROVE RecordInv'
  <2>1. RecordTypeOK'
    BY <1>3, <1>types, <1>parts, <1>empty DEF EndCommand, Goto, RecordTypeOK
  <2> QED BY <2>1, <1>3, <1>parts, OutsideStep DEF EndCommand
<1>4. ASSUME NEW w \in Writers, StartUpdate(w) PROVE RecordInv'
  <2>1. RecordTypeOK'
    BY <1>4, <1>types, <1>parts DEF StartUpdate, Goto, RecordTypeOK
  <2> QED BY <2>1, <1>4, <1>parts, OutsideStep DEF StartUpdate
<1>5. ASSUME NEW d \in Drivers, StartSave(d) PROVE RecordInv'
  <2>1. RecordTypeOK'
    BY <1>5, <1>types, <1>parts DEF StartSave, Goto, RecordTypeOK
  <2> QED BY <2>1, <1>5, <1>parts, OutsideStep DEF StartSave
<1>6. ASSUME NEW p \in Procs, AcquireLock(p) PROVE RecordInv'
  <2>1. RecordTypeOK'
    BY <1>6, <1>types DEF AcquireLock, Goto, RecordTypeOK
  <2>2. \A q \in Procs : pc[q] \notin Critical
    BY <1>6, RecordAssumption DEF AcquireLock, RecordInv, LockInv, Procs
  <2>3. \A q \in Procs : pc'[q] \in Critical => q = p /\ pc'[q] = "reading"
    BY <2>2, <1>6, <1>types DEF AcquireLock, Goto
  <2>4. LockInv' /\ ReadIsCurrent'
    BY <2>3, <1>6 DEF AcquireLock, LockInv, ReadIsCurrent
  <2> QED BY <2>1, <2>4 DEF RecordInv
<1>7. ASSUME NEW p \in Procs, Reread(p) PROVE RecordInv'
  <2>1. RecordTypeOK'
    BY <1>7, <1>types DEF Reread, Goto, RecordTypeOK
  <2>2. LockInv'
    BY <1>7, <1>types DEF Reread, Goto, RecordInv, LockInv
  <2>3. ReadIsCurrent'
    BY <1>7, <1>types DEF Reread, Goto, RecordInv, ReadIsCurrent
  <2> QED BY <2>1, <2>2, <2>3 DEF RecordInv
<1>8. ASSUME NEW p \in Procs, Replace(p) PROVE RecordInv'
  <2>1. record' \in Records /\ \A u \in Units \ record'.units : record'.usage[u] = {}
    <3>1. CASE p \in Writers
      BY <3>1, <1>8, <1>parts, UpdatedIsRecord DEF Replace
    <3>2. CASE p \in Drivers
      BY <3>2, <1>8, <1>parts, SavedIsRecord DEF Replace
    <3> QED BY <3>1, <3>2 DEF Procs
  <2>2. held' \in [Drivers -> Memories]
    <3>1. CASE p \in Drivers
      <4>1. Saved(p).usage \in [Units -> SUBSET Writers]
        BY <3>1, <1>8, SavedIsRecord DEF Replace, Records
      <4>2. held[p] \in Memories
        BY <3>1, <1>types
      <4> QED BY <3>1, <4>1, <4>2, <1>8, <1>types, <1>parts DEF Replace, Memories
    <3>2. CASE p \notin Drivers
      BY <3>2, <1>8, <1>types DEF Replace
    <3> QED BY <3>1, <3>2
  <2>3. RecordTypeOK'
    BY <2>1, <2>2, <1>8, <1>types DEF Replace, Goto, RecordTypeOK
  <2>4. \A q \in Procs : pc'[q] \in Critical => q = p /\ pc'[q] = "unlocking"
    BY <1>8, <1>types, Alone DEF Replace, Goto
  <2>5. LockInv' /\ ReadIsCurrent'
    BY <2>4, <1>8 DEF Replace, RecordInv, LockInv, ReadIsCurrent
  <2> QED BY <2>3, <2>5 DEF RecordInv
<1>9. ASSUME NEW p \in Procs, WriteNothing(p) PROVE RecordInv'
  <2>1. RecordTypeOK'
    BY <1>9, <1>types DEF WriteNothing, Goto, RecordTypeOK
  <2>2. LockInv' /\ ReadIsCurrent'
    BY <1>9, <1>types DEF WriteNothing, Goto, RecordInv, LockInv, ReadIsCurrent
  <2> QED BY <2>1, <2>2 DEF RecordInv
<1>10. ASSUME NEW p \in Procs, Unlock(p) PROVE RecordInv'
  <2>1. RecordTypeOK'
    BY <1>10, <1>types, <1>empty DEF Unlock, Goto, RecordTypeOK
  <2>2. \A q \in Procs : pc'[q] \notin Critical
    BY <1>10, <1>types, Alone DEF Unlock, Goto
  <2> QED BY <2>1, <2>2 DEF RecordInv, LockInv, ReadIsCurrent
<1>11. ASSUME NEW p \in Procs, Crash(p) PROVE RecordInv'
  <2>1. RecordTypeOK'
    BY <1>11, <1>types, <1>empty, <1>parts DEF Crash, Goto, RecordTypeOK
  <2>2. \A q \in Procs : pc'[q] \in Critical => q # p /\ pc'[q] = pc[q] /\ lock = q /\ copy'[q] = copy[q]
    BY <1>11, <1>types, <1>parts DEF Crash, Goto, RecordInv, LockInv
  <2>3. LockInv' /\ ReadIsCurrent'
    BY <2>2, <1>11 DEF Crash, RecordInv, LockInv, ReadIsCurrent
  <2> QED BY <2>1, <2>3 DEF RecordInv
<1>12. CASE UNCHANGED recordVars
  BY <1>12 DEF recordVars, RecordInv, RecordTypeOK, LockInv, ReadIsCurrent
<1> QED
  BY <1>1, <1>2, <1>3, <1>4, <1>5, <1>6, <1>7, <1>8, <1>9, <1>10, <1>11, <1>12
     DEF RecordNext, LockedStep

-----------------------------------------------------------------------------
\* The types hold, and rows that are not on the record carry nothing.
THEOREM RecordTypesHold == RecordSpec => []RecordTypeOK
<1>1. RecordInv => RecordTypeOK
  BY DEF RecordInv
<1> QED BY <1>1, InitEstablishesInv, NextKeepsInv, PTL DEF RecordSpec

\* What a process read under the lock is the record until it has replaced it.
THEOREM ReadStaysCurrent == RecordSpec => []ReadIsCurrent
<1>1. RecordInv => ReadIsCurrent
  BY DEF RecordInv
<1> QED BY <1>1, InitEstablishesInv, NextKeepsInv, PTL DEF RecordSpec

\* No save takes back a usage addition of a row its driver loaded.
THEOREM UsageStays == RecordSpec => UsageIsKept
<1> DEFINE Kept == \A u \in record.units \cap record'.units :
             \/ record.usage[u] \subseteq record'.usage[u]
             \/ \E d \in Drivers : u \in held[d].units \ held[d].known /\ Replace(d)
<1>1. RecordInv /\ [RecordNext]_recordVars => [Kept]_recordVars
  <2> SUFFICES ASSUME RecordInv, RecordNext,
                      NEW u \in record.units \cap record'.units,
                      ~(\E d \in Drivers : u \in held[d].units \ held[d].known /\ Replace(d))
               PROVE  record.usage[u] \subseteq record'.usage[u]
    OBVIOUS
  <2>units. u \in Units /\ record \in Records
    BY DEF RecordInv, RecordTypeOK, Records
  <2>1. ASSUME NEW p \in Procs, Replace(p) PROVE record.usage[u] \subseteq record'.usage[u]
    <3>1. copy[p] = record
      BY <2>1 DEF Replace, RecordInv, ReadIsCurrent
    <3>2. CASE p \in Writers
      <4>1. record' = Updated(p)
        BY <3>2, <2>1, RecordAssumption DEF Replace
      <4>2. job[p] \in Units \cup {NextStep}
        BY <3>2 DEF RecordInv, RecordTypeOK
      <4> QED BY <4>1, <4>2, <3>1, <2>units DEF Updated, Records
    <3>3. CASE p \in Drivers
      <4>1. record' = Saved(p)
        BY <3>3, <2>1, RecordAssumption DEF Replace
      <4>2. u \in held[p].units /\ u \in held[p].known
        BY <4>1, <3>3, <2>1 DEF Saved
      <4> QED BY <4>1, <4>2, <3>1, <2>units DEF Saved, Carried
    <3> QED BY <3>2, <3>3 DEF Procs
  <2>2. (~ \E p \in Procs : Replace(p)) => record' = record
    BY DEF RecordNext, LockedStep, AcquireLock, Reread, WriteNothing, Unlock, Crash, StartUpdate,
           Load, StartSave, EndCommand, AddRow
  <2> QED BY <2>1, <2>2
<1> QED BY <1>1, InitEstablishesInv, NextKeepsInv, PTL DEF RecordSpec, UsageIsKept

\* The lock protocol implements the record whose writes are single steps.
THEOREM LockedRecordIsAtomic == RecordSpec => ImplementsAtomic
<1> DEFINE known == [d \in Drivers |-> held[d].known]
<1>1. RecordInit => Atomic!Init
  BY DEF RecordInit, Atomic!Init, EmptyRecord, EmptyMemory, EmptyRows
<1>2. RecordInv /\ [RecordNext]_recordVars => [Atomic!Next]_(Atomic!vars)
  <2> SUFFICES ASSUME RecordInv, [RecordNext]_recordVars
               PROVE  Atomic!Next \/ UNCHANGED <<record, known>>
    BY DEF Atomic!vars
  <2>types. /\ held \in [Drivers -> Memories]
            /\ job \in [Writers -> Units \cup {NextStep}]
            /\ Writers \subseteq Procs /\ Drivers \subseteq Procs /\ Writers \cap Drivers = {}
    BY RecordAssumption DEF RecordInv, RecordTypeOK, Procs
  <2>1. ASSUME NEW d \in Drivers, Load(d) PROVE Atomic!Next
    <3>1. known' = [known EXCEPT ![d] = record.units] /\ record' = record
      BY <2>1, <2>types DEF Load
    <3> QED BY <3>1 DEF Atomic!Next, Atomic!Look
  <2>2. ASSUME NEW d \in Drivers, NEW u \in Units, AddRow(d, u) PROVE UNCHANGED <<record, known>>
    BY <2>2, <2>types DEF AddRow, Memories
  <2>3. ASSUME NEW d \in Drivers, held' = [held EXCEPT ![d] = EmptyMemory], record' = record
        PROVE  Atomic!Next
    <3>1. known' = [known EXCEPT ![d] = {}]
      BY <2>3, <2>types DEF EmptyMemory
    <3> QED BY <3>1, <2>3 DEF Atomic!Next, Atomic!Forget
  <2>4. ASSUME NEW w \in Writers, Replace(w) PROVE Atomic!Next
    <3>1. record' = Updated(w) /\ Applies(w) /\ copy[w] = record /\ UNCHANGED known
      BY <2>4, <2>types DEF Replace, RecordInv, ReadIsCurrent
    <3>2. CASE job[w] = NextStep
      BY <3>1, <3>2 DEF Updated, Atomic!Next, Atomic!SetNextStep
    <3>3. CASE job[w] # NextStep
      <4>1. job[w] \in Units /\ Atomic!AddUsage(w, job[w])
        BY <3>1, <3>3, <2>types DEF Updated, Applies, Atomic!AddUsage
      <4> QED BY <4>1 DEF Atomic!Next
    <3> QED BY <3>2, <3>3
  <2>5. ASSUME NEW d \in Drivers, Replace(d) PROVE Atomic!Next
    <3>1. /\ record' = Saved(d) /\ copy[d] = record /\ pc[d] = "writing"
          /\ held' = [held EXCEPT ![d].known = held[d].units, ![d].usage = Saved(d).usage]
      BY <2>5, <2>types DEF Replace, RecordInv, ReadIsCurrent
    <3>2. record' \in Records /\ record'.next_step = record.next_step
      BY <3>1, SavedIsRecord DEF Saved
    <3>3. \A u \in record'.units : Atomic!UsageAfterSave(d, u, record'.usage[u])
      <4> SUFFICES ASSUME NEW u \in record'.units
                   PROVE  Atomic!UsageAfterSave(d, u, record'.usage[u])
        OBVIOUS
      <4>1. u \in held[d].units /\ u \in Units /\ record'.usage[u] = Carried(d, u)
        BY <3>1, <3>2 DEF Saved, Records
      <4> QED BY <4>1, <3>1 DEF Carried, Atomic!UsageAfterSave
    <3>4. known' = [known EXCEPT ![d] = record'.units]
      BY <3>1, <2>types DEF Saved, Memories
    <3>5. record' \in [next_step : {record.next_step}, units : SUBSET Units,
                       usage : [Units -> SUBSET Writers]]
      BY <3>2 DEF Records
    <3> QED BY <3>3, <3>4, <3>5 DEF Atomic!Next, Atomic!SaveRows
  <2>6. ASSUME NEW p \in Procs, Crash(p) PROVE Atomic!Next \/ UNCHANGED <<record, known>>
    <3>1. CASE p \in Drivers
      BY <3>1, <2>3, <2>6 DEF Crash
    <3>2. CASE p \notin Drivers
      BY <3>2, <2>6 DEF Crash
    <3> QED BY <3>1, <3>2
  <2>7. ASSUME NEW p \in Procs, AcquireLock(p) \/ Reread(p) \/ WriteNothing(p) \/ Unlock(p)
        PROVE  UNCHANGED <<record, known>>
    BY <2>7 DEF AcquireLock, Reread, WriteNothing, Unlock
  <2>8. ASSUME NEW w \in Writers, StartUpdate(w) PROVE UNCHANGED <<record, known>>
    BY <2>8 DEF StartUpdate
  <2>9. ASSUME NEW d \in Drivers, StartSave(d) PROVE UNCHANGED <<record, known>>
    BY <2>9 DEF StartSave
  <2>10. ASSUME NEW d \in Drivers, EndCommand(d) PROVE Atomic!Next
    BY <2>10, <2>3 DEF EndCommand
  <2>11. CASE UNCHANGED recordVars
    BY <2>11 DEF recordVars
  <2> QED
    BY <2>1, <2>2, <2>4, <2>5, <2>6, <2>7, <2>8, <2>9, <2>10, <2>11
       DEF RecordNext, LockedStep, Procs
<1> QED BY <1>1, <1>2, InitEstablishesInv, NextKeepsInv, PTL DEF RecordSpec, ImplementsAtomic, Atomic!Spec
=============================================================================
