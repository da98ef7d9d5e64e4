-------------------------- MODULE ReviewLoopProofs --------------------------
(***************************************************************************)
(* Proofs about ReviewLoop for any controllers, workers and findings, any  *)
(* number of rounds and of commands killed, recurring findings included.   *)
(***************************************************************************)
EXTENDS ReviewLoop, TLAPS

Statuses == {"absent", "pending", "running", "done", "orphaned"}

\* The units that make repairs.
Makers == Workers \cup Spares

CommandOK ==
  /\ pc \in {"idle", "routing", "sending", "merging", "landing", "resubmitting"}
  /\ todo \subseteq Makers \X Findings
  /\ pc \in {"routing", "sending"} => ctl \in Controllers
  /\ pc = "landing" => unit \in Makers

SessionsOK ==
  /\ live \subseteq Units /\ produced \subseteq Makers
  /\ prompt \in [Units -> SUBSET Findings] /\ ahead \in [Units -> SUBSET Findings]
  /\ \A u \in Units : prompt[u] # {} => u \in Makers
  /\ emitted \in [Controllers -> Seq(SUBSET Findings)]
  /\ \A c \in Controllers : Len(emitted[c]) <= Rounds[c]

\* A unit that is not in the run carries nothing, one that is not launched has no session, no
\* prompt and no commits, and one that go may launch was minted for a finding.
RowsOK(run) ==
  /\ run \in Runs
  /\ \A u \in Units : run.rows[u].status = "absent" => run.rows[u].requests = {}
  /\ \A u \in Units : run.rows[u].status \in {"absent", "pending"} =>
       u \notin live /\ prompt[u] = {} /\ ahead[u] = {}
  /\ \A u \in Units : run.rows[u].status = "pending" => run.rows[u].minted \in Findings

\* A command changes requests and lifecycles on disk in the step that changes them in memory.
SameRequests(run, other) ==
  \A u \in Units : /\ run.rows[u].requests = other.rows[u].requests
                   /\ run.rows[u].life = other.rows[u].life
                   /\ run.rows[u].minted = other.rows[u].minted

\* What a step leaves of the requests, in every step and in most of them.
NoneTaken ==
  \A u \in Workers \cup Spares :
    \A f \in disk.rows[u].requests \ disk'.rows[u].requests :
      \/ pc = "landing" /\ unit = u
      \/ pc = "routing" /\ disk.rows[u].life = Life[ctl]

RequestsStay == \A u \in Units : disk'.rows[u].requests = disk.rows[u].requests

LoopIInv ==
  /\ CommandOK
  /\ SessionsOK
  /\ RowsOK(disk)
  /\ RowsOK(mem)
  /\ SameRequests(mem, disk)

-----------------------------------------------------------------------------
(***************************************************************************)
(* Changes of a run.                                                       *)
(***************************************************************************)
LEMMA RunParts ==
  ASSUME NEW run \in Runs
  PROVE  /\ run = [rows |-> run.rows, slots |-> run.slots]
         /\ run.rows \in [Units -> UnitRows]
         /\ run.slots \in [Controllers -> Slots]
BY DEF Runs

\* A unit's status changes.
LEMMA StatusChange ==
  ASSUME NEW run \in Runs, NEW u \in Units, NEW s \in Statuses,
         NEW new, new = [run EXCEPT !.rows[u].status = s]
  PROVE  /\ new \in Runs
         /\ SameRequests(new, run)
         /\ \A v \in Units : new.rows[v].status = IF v = u THEN s ELSE run.rows[v].status
         /\ new.slots = run.slots
<1>1. new = [run EXCEPT !.rows = [run.rows EXCEPT ![u] = [run.rows[u] EXCEPT !.status = s]]]
  OBVIOUS
<1>2. new = [rows |-> [run.rows EXCEPT ![u] = [run.rows[u] EXCEPT !.status = s]],
             slots |-> run.slots]
  BY <1>1, RunParts
<1>3. [run.rows[u] EXCEPT !.status = s] \in UnitRows
  BY RunParts DEF UnitRows, Statuses
<1>4. new \in Runs
  BY <1>2, <1>3, RunParts DEF Runs
<1>5. \A v \in Units : new.rows[v] = IF v = u THEN [run.rows[u] EXCEPT !.status = s]
                                              ELSE run.rows[v]
  BY <1>2, RunParts
<1>6. run.rows[u] \in UnitRows
  BY RunParts
<1>7. QED
  BY <1>2, <1>4, <1>5, <1>6 DEF SameRequests, UnitRows

\* A controller's slot changes.
LEMMA SlotChange ==
  ASSUME NEW run \in Runs, NEW slots \in [Controllers -> Slots],
         NEW new, new = [run EXCEPT !.slots = slots]
  PROVE  /\ new \in Runs
         /\ SameRequests(new, run)
         /\ new.rows = run.rows
         /\ new.slots = slots
<1>1. new = [rows |-> run.rows, slots |-> slots]
  BY RunParts
<1>2. QED
  BY <1>1, RunParts DEF Runs, SameRequests

\* The rows of a run that has other statuses are in order when the units that change are launched.
LEMMA RowsStay ==
  ASSUME SessionsOK, NEW run, RowsOK(run), NEW new \in Runs, SameRequests(new, run),
         \A v \in Units : \/ new.rows[v].status = run.rows[v].status
                          \/ new.rows[v].status \notin {"absent", "pending"}
  PROVE  RowsOK(new)
BY DEF RowsOK, SameRequests

-----------------------------------------------------------------------------
(***************************************************************************)
(* The initial state.                                                      *)
(***************************************************************************)
LEMMA InitHolds ==
  ASSUME LoopInit
  PROVE  LoopIInv
<1> USE LoopAssumption DEF LoopInit
<1>1. CommandOK
  BY DEF CommandOK
<1>2. SessionsOK
  BY DEF SessionsOK, Makers, Units
<1>3. disk.slots \in [Controllers -> Slots]
  BY DEF EmptySlot, Slots, Results
<1>4. \A u \in Units : disk.rows[u] = IF u \in Spares THEN Row("absent", Unscoped)
                                     ELSE Row(IF u \in Workers THEN "done" ELSE "running", Life[u])
  OBVIOUS
<1>5. \A u \in Units : disk.rows[u] \in UnitRows
  BY <1>4 DEF Row, UnitRows, Units
<1>6. disk \in Runs
  BY <1>3, <1>5 DEF Runs
<1>7. \A u \in Units : disk.rows[u].requests = {}
  BY <1>4 DEF Row
<1>8. \A u \in Units : /\ disk.rows[u].status = "absent" => u \in Spares
                       /\ disk.rows[u].status # "pending"
  BY <1>4 DEF Row
<1>9. RowsOK(disk)
  BY <1>6, <1>7, <1>8 DEF RowsOK
<1>10. QED
  BY <1>1, <1>2, <1>9 DEF LoopIInv, SameRequests

-----------------------------------------------------------------------------
(***************************************************************************)
(* review-result                                                           *)
(***************************************************************************)
LEMMA IngestStep ==
  ASSUME LoopIInv, NEW c \in Controllers, NEW n \in 1..Len(emitted[c]), Ingest(c, n)
  PROVE  LoopIInv' /\ RequestsStay
<1> DEFINE result == [round |-> n, blocking |-> emitted[c][n]]
           slots  == [disk.slots EXCEPT ![c] = [disk.slots[c] EXCEPT !.result = result, !.outcome = Nothing]]
<1> USE DEF LoopIInv
<1>1. disk \in Runs
  BY DEF RowsOK
<1>2. emitted[c] \in Seq(SUBSET Findings) /\ Len(emitted[c]) <= Rounds[c] /\ Rounds[c] \in Nat
  BY LoopAssumption DEF SessionsOK
<1>3. n \in 1..Rounds[c] /\ emitted[c][n] \in SUBSET Findings
  BY <1>2
<1>4. result \in Results
  BY <1>3 DEF Results
<1>5. disk.slots \in [Controllers -> Slots]
  BY <1>1, RunParts
<1>6. slots \in [Controllers -> Slots]
  BY <1>4, <1>5 DEF Slots
<1>7. disk' = [disk EXCEPT !.slots = slots] /\ mem' = disk'
  BY <1>1, <1>5, RunParts DEF Ingest, Save
<1> HIDE DEF slots
<1>8. disk' \in Runs /\ disk'.rows = disk.rows
  BY <1>1, <1>6, <1>7, SlotChange
<1>9. CommandOK' /\ SessionsOK'
  BY DEF Ingest, CommandOK, SessionsOK, sessionVars
<1>10. RowsOK(disk)' /\ RowsOK(mem)' /\ SameRequests(mem, disk)'
  BY <1>7, <1>8 DEF Ingest, RowsOK, SameRequests, sessionVars
<1>11. QED
  BY <1>8, <1>9, <1>10 DEF RequestsStay

\* Only Work findings of the result are routed, and no controller makes a repair.
LEMMA RoutingParts ==
  ASSUME NEW run \in Runs, NEW c \in Controllers
  PROVE  /\ Work(run.slots[c].result) \subseteq Findings
         /\ LifecycleUnits(run, c) \subseteq Units
         /\ \A u \in LifecycleUnits(run, c) : run.rows[u].status # "absent" /\ run.rows[u].life = Life[c]
         /\ \A f : Reusable(run, c, f) \subseteq Makers
<1>1. run.slots[c].result \in Results
  BY RunParts DEF Slots
<1>2. QED
  BY <1>1 DEF Work, Results, LifecycleUnits, Present, Reusable, RoleWorkers, Units, Makers

\* A minted unit was in no run before, and it is parked at least the finding it was minted for.
LEMMA RoutedRows ==
  ASSUME NEW run \in Runs, NEW c \in Controllers, NEW minted \in Mintings(run, c)
  PROVE  /\ Routed(run, c, minted) \in Runs
         /\ \A u \in Units :
              LET new == Routed(run, c, minted).rows[u]
              IN  \/ /\ run.rows[u].status = "absent"
                     /\ new.status = "pending" /\ new.minted \in Findings
                  \/ /\ u \in LifecycleUnits(run, c)
                     /\ new.status = run.rows[u].status
                     /\ new.minted = run.rows[u].minted
                  \/ new = run.rows[u]
<1> DEFINE work      == Work(run.slots[c].result)
           holder    == [f \in work |-> IF f \in DOMAIN minted THEN minted[f] ELSE Holder(run, c, f)]
           parked(u) == {f \in work : holder[f] = u}
           fresh(u)  == [Row("pending", Life[c]) EXCEPT
                           !.requests = parked(u), !.minted = CHOOSE f \in parked(u) : TRUE]
           row(u)    == IF u \in Range(minted) THEN fresh(u)
                        ELSE IF u \in LifecycleUnits(run, c)
                          THEN [run.rows[u] EXCEPT !.requests = (@ \ work) \cup parked(u)]
                        ELSE run.rows[u]
           slot      == [run.slots[c] EXCEPT
                           !.operator = run.slots[c].result.blocking \cap OperatorOwned,
                           !.pending  = work # {}]
<1>1. work \subseteq Findings
  BY RoutingParts
<1>2. /\ minted \in [Unheld(run, c) -> {u \in Spares : run.rows[u].status = "absent"}]
      /\ DOMAIN minted = Unheld(run, c)
      /\ Unheld(run, c) \subseteq work
  BY DEF Mintings, Injection, IsInjective, Unheld
<1>3. ASSUME NEW u \in Range(minted)
      PROVE  u \in Spares /\ run.rows[u].status = "absent" /\ parked(u) # {}
  <2>1. PICK f \in Unheld(run, c) : minted[f] = u
    BY <1>2, <1>3 DEF Range
  <2>2. f \in parked(u)
    BY <1>2, <2>1
  <2>3. QED
    BY <1>2, <2>1, <2>2
<1>4. ASSUME NEW u \in Range(minted)
      PROVE  fresh(u) \in UnitRows /\ fresh(u).status = "pending" /\ fresh(u).minted \in Findings
  <2> DEFINE m == CHOOSE f \in parked(u) : TRUE
  <2>1. m \in Findings /\ parked(u) \subseteq Findings
    BY <1>1, <1>3, <1>4
  <2>2. Life[c] \in Controllers \cup {Unscoped}
    BY LoopAssumption
  <2> DEFINE new == Row("pending", Life[c])
  <2>3. new \in UnitRows /\ new.status = "pending"
    BY <2>2 DEF Row, UnitRows
  <2>4. fresh(u) = [new EXCEPT !.requests = parked(u), !.minted = m]
    OBVIOUS
  <2> HIDE DEF m, parked, fresh, new
  <2>5. QED
    BY <2>1, <2>3, <2>4 DEF UnitRows
<1>5. ASSUME NEW u \in Units
      PROVE  row(u) \in UnitRows
  <2>1. run.rows[u] \in UnitRows /\ parked(u) \subseteq Findings
    BY <1>1, RunParts
  <2> HIDE DEF parked, fresh, work
  <2>2. [run.rows[u] EXCEPT !.requests = (@ \ work) \cup parked(u)] \in UnitRows
    BY <2>1 DEF UnitRows
  <2>3. QED
    BY <1>4, <2>1, <2>2
<1>6. slot \in Slots
  <2>1. /\ run.slots[c] \in Slots
        /\ run.slots[c].result.blocking \cap OperatorOwned \in SUBSET OperatorOwned
    BY RunParts
  <2>2. (work # {}) \in BOOLEAN
    OBVIOUS
  <2>3. ASSUME NEW o \in SUBSET OperatorOwned, NEW p \in BOOLEAN
        PROVE  [run.slots[c] EXCEPT !.operator = o, !.pending = p] \in Slots
    BY <2>1 DEF Slots
  <2>4. QED
    BY <2>1, <2>2, <2>3, Zenon
<1>7. Routed(run, c, minted) =
        [rows |-> [u \in Units |-> row(u)], slots |-> [run.slots EXCEPT ![c] = slot]]
  <2>1. ASSUME NEW o, NEW p
        PROVE  [run.slots EXCEPT ![c].operator = o, ![c].pending = p]
                 = [run.slots EXCEPT ![c] = [run.slots[c] EXCEPT !.operator = o, !.pending = p]]
    BY RunParts
  <2>2. QED
    BY <2>1, Zenon DEF Routed
<1>8. \A u \in Units : Routed(run, c, minted).rows[u] = row(u)
  <2> HIDE DEF row, slot
  <2>1. QED
    BY <1>7
<1>9. Routed(run, c, minted) \in Runs
  <2>1. [u \in Units |-> row(u)] \in [Units -> UnitRows]
    BY <1>5
  <2>2. [run.slots EXCEPT ![c] = slot] \in [Controllers -> Slots]
    BY <1>6, RunParts
  <2> HIDE DEF row, slot
  <2>3. QED
    BY <1>7, <2>1, <2>2 DEF Runs
<1>10. ASSUME NEW u \in Units, u \notin Range(minted), u \in LifecycleUnits(run, c)
       PROVE  row(u).status = run.rows[u].status /\ row(u).minted = run.rows[u].minted
  <2>1. run.rows[u] \in UnitRows
    BY RunParts
  <2>2. QED
    BY <1>10, <2>1 DEF UnitRows
<1> HIDE DEF fresh
<1>11. QED
  BY <1>3, <1>4, <1>8, <1>9, <1>10

LEMMA RouteStep ==
  ASSUME LoopIInv, Route
  PROVE  LoopIInv' /\ NoneTaken
<1> DEFINE minted == CHOOSE m \in Mintings(mem, ctl) : TRUE
           new    == Routed(mem, ctl, minted)
<1> USE DEF LoopIInv
<1>1. ctl \in Controllers /\ mem \in Runs /\ minted \in Mintings(mem, ctl)
  BY DEF Route, CommandOK, RowsOK
<1>2. disk' = new /\ mem' = new
  BY DEF Route, Save
<1>3. /\ new \in Runs
      /\ \A u \in Units :
           \/ /\ mem.rows[u].status = "absent"
              /\ new.rows[u].status = "pending" /\ new.rows[u].minted \in Findings
           \/ /\ u \in LifecycleUnits(mem, ctl)
              /\ new.rows[u].status = mem.rows[u].status
              /\ new.rows[u].minted = mem.rows[u].minted
           \/ new.rows[u] = mem.rows[u]
  BY <1>1, RoutedRows
<1>4. /\ Work(mem.slots[ctl].result) \subseteq Findings
      /\ \A u \in LifecycleUnits(mem, ctl) :
           mem.rows[u].status # "absent" /\ mem.rows[u].life = Life[ctl]
      /\ \A f : Reusable(mem, ctl, f) \subseteq Makers
  BY <1>1, RoutingParts
<1>5. todo' \subseteq Makers \X Findings
  <2>1. todo' = {<<Holder(mem, ctl, f), f>> :
                  f \in {g \in Work(mem.slots[ctl].result) : Reusable(mem, ctl, g) # {}}}
    BY DEF Route
  <2>2. ASSUME NEW f \in Work(mem.slots[ctl].result), Reusable(mem, ctl, f) # {}
        PROVE  Holder(mem, ctl, f) \in Makers /\ f \in Findings
    <3>1. Holder(mem, ctl, f) \in Reusable(mem, ctl, f)
      BY <2>2 DEF Holder
    <3>2. QED
      BY <1>4, <3>1
  <2>3. QED
    BY <2>1, <2>2
<1>6. CommandOK'
  BY <1>5 DEF Route, CommandOK
<1>7. SessionsOK'
  BY DEF Route, SessionsOK, sessionVars
<1> HIDE DEF new
<1>8. RowsOK(disk)' /\ RowsOK(mem)'
  <2>1. RowsOK(mem)
    OBVIOUS
  <2>2. RowsOK(new)
    BY <1>3, <1>4, <2>1 DEF RowsOK
  <2>3. live' = live /\ prompt' = prompt /\ ahead' = ahead
    BY DEF Route, sessionVars
  <2>4. QED
    BY <1>2, <2>2, <2>3 DEF RowsOK
<1>9. NoneTaken
  <2>1. pc = "routing"
    BY DEF Route
  <2>2. ASSUME NEW u \in Units, NEW f \in disk.rows[u].requests \ disk'.rows[u].requests
        PROVE  disk.rows[u].life = Life[ctl]
    BY <1>2, <1>3, <1>4 DEF RowsOK, SameRequests
  <2>3. QED
    BY <2>1, <2>2 DEF NoneTaken, Units
<1>10. QED
  BY <1>2, <1>6, <1>7, <1>8, <1>9 DEF SameRequests

\* A command that ends leaves what it saved.
LEMMA EndStep ==
  ASSUME LoopIInv, NEW saved, RowsOK(saved), SameRequests(saved, disk),
         EndCommand(saved), UNCHANGED sessionVars
  PROVE  LoopIInv' /\ RequestsStay
<1>1. disk' = saved /\ mem' = saved /\ pc' = "idle" /\ todo' = {}
  BY DEF EndCommand
<1>2. live' = live /\ prompt' = prompt /\ ahead' = ahead
  BY DEF sessionVars
<1>3. CommandOK'
  BY <1>1 DEF CommandOK
<1>4. SessionsOK'
  BY DEF LoopIInv, SessionsOK, sessionVars
<1>5. RowsOK(disk)' /\ RowsOK(mem)'
  BY <1>1, <1>2 DEF RowsOK
<1>6. QED
  BY <1>1, <1>3, <1>4, <1>5 DEF LoopIInv, SameRequests, RequestsStay

\* What is in memory has lost nothing, and so has what is on disk.
LEMMA DropStep ==
  ASSUME LoopIInv, EndCommand(mem) \/ EndCommand(disk), UNCHANGED sessionVars
  PROVE  LoopIInv' /\ RequestsStay
<1>1. RowsOK(mem) /\ RowsOK(disk) /\ SameRequests(mem, disk) /\ SameRequests(disk, disk)
  BY DEF LoopIInv, SameRequests
<1>2. QED
  BY <1>1, EndStep

LEMMA FinishRoutingStep ==
  ASSUME LoopIInv, FinishRouting
  PROVE  LoopIInv' /\ RequestsStay
<1>1. CASE withheld
  BY <1>1, DropStep DEF FinishRouting
<1>2. CASE ~withheld
  <2> DEFINE done  == Outcome(mem.slots[ctl].result)
             slots == [mem.slots EXCEPT ![ctl] = [mem.slots[ctl] EXCEPT !.outcome = done]]
             saved == [mem EXCEPT !.slots = slots]
  <2>1. ctl \in Controllers /\ RowsOK(mem) /\ mem \in Runs
    BY DEF LoopIInv, CommandOK, RowsOK, FinishRouting
  <2>2. mem.slots[ctl] \in Slots /\ done \in {"accepted", "repairs_requested"}
    BY <2>1, RunParts DEF Outcome
  <2> HIDE DEF done
  <2>3. [mem.slots[ctl] EXCEPT !.outcome = done] \in Slots
    BY <2>2 DEF Slots
  <2>4. slots \in [Controllers -> Slots]
    BY <2>1, <2>3, RunParts
  <2>5. EndCommand(saved)
    BY <1>2 DEF FinishRouting, done
  <2> HIDE DEF slots
  <2>6. saved \in Runs /\ SameRequests(saved, mem) /\ saved.rows = mem.rows
    BY <2>1, <2>4, SlotChange
  <2> HIDE DEF saved
  <2>7. RowsOK(saved) /\ SameRequests(saved, disk)
    BY <2>1, <2>6 DEF RowsOK, SameRequests, LoopIInv
  <2>8. QED
    BY <2>5, <2>7, EndStep DEF FinishRouting
<1>3. QED
  BY <1>1, <1>2

\* A session that is prompted is there, so its unit is launched, on disk and in memory.
LEMMA SendStep ==
  ASSUME LoopIInv, NEW u \in Units, NEW f \in Findings, Send(u, f)
  PROVE  LoopIInv' /\ RequestsStay
<1> USE DEF LoopIInv
<1>1. /\ ctl \in Controllers /\ u \in Makers
      /\ RowsOK(mem) /\ mem \in Runs
      /\ disk' = disk /\ live' = live /\ ahead' = ahead
  BY DEF CommandOK, RowsOK, Send
<1>2. CommandOK'
  BY DEF CommandOK, Send
<1>3. CASE mem' = mem /\ prompt' = prompt
  BY <1>1, <1>2, <1>3 DEF Send, SessionsOK, RowsOK, SameRequests, RequestsStay
<1>4. CASE Deliver(u, f)
  <2> DEFINE mid   == [mem EXCEPT !.rows[u].status = "running"]
             slots == [mem.slots EXCEPT
                         ![ctl] = [mem.slots[ctl] EXCEPT !.dispatched = @ \cup {f}]]
  <2>1. /\ mid \in Runs /\ SameRequests(mid, mem)
        /\ \A v \in Units : mid.rows[v].status = IF v = u THEN "running" ELSE mem.rows[v].status
    BY <1>1, StatusChange DEF Statuses
  <2>2. mid.slots = mem.slots
    BY <1>1, RunParts
  <2>3. mem.slots[ctl] \in Slots
    BY <1>1, RunParts
  <2>4. [mem.slots[ctl] EXCEPT !.dispatched = @ \cup {f}] \in Slots
    BY <2>3 DEF Slots
  <2>5. slots \in [Controllers -> Slots]
    BY <1>1, <2>4, RunParts
  <2>6. mem' = [mid EXCEPT !.slots = slots]
    BY <1>1, <1>4, <2>2, RunParts DEF Deliver
  <2> HIDE DEF mid, slots
  <2>7. mem' \in Runs /\ SameRequests(mem', mid) /\ mem'.rows = mid.rows
    BY <2>1, <2>5, <2>6, SlotChange
  <2>8. SessionsOK'
    BY <1>1, <1>4 DEF Send, Deliver, SessionsOK
  <2>9. RowsOK(mem')
    BY <1>1, <2>1, <2>7, RowsStay DEF SameRequests
  <2>10. \A v \in Units : prompt'[v] = IF v = u THEN prompt[u] \cup {f} ELSE prompt[v]
    BY <1>4 DEF Deliver, SessionsOK
  <2>11. u \in live /\ mem'.rows[u].status = "running"
    BY <1>4, <2>1, <2>7 DEF Deliver
  <2>12. RowsOK(mem)' /\ RowsOK(disk)'
    BY <1>1, <2>9, <2>10, <2>11 DEF RowsOK
  <2>13. SameRequests(mem, disk)'
    BY <1>1, <2>1, <2>7 DEF SameRequests
  <2>14. QED
    BY <1>1, <1>2, <2>8, <2>12, <2>13 DEF RequestsStay
<1>5. QED
  BY <1>3, <1>4 DEF Send, Skip, Withhold

-----------------------------------------------------------------------------
(***************************************************************************)
(* go, settle and clean.                                                   *)
(***************************************************************************)
LEMMA GoStep ==
  ASSUME LoopIInv, NEW c \in Controllers, NEW u \in Spares, Go(c, u)
  PROVE  LoopIInv' /\ RequestsStay
<1> USE DEF LoopIInv
<1>1. /\ u \in Units /\ u \in Makers
      /\ RowsOK(disk) /\ disk \in Runs /\ disk.rows[u].status = "pending"
      /\ disk.rows[u].minted \in Findings
      /\ disk' = [disk EXCEPT !.rows[u].status = "running"] /\ mem' = disk'
      /\ live' = live \cup {u} /\ ahead' = ahead
      /\ prompt' = [prompt EXCEPT ![u] = {disk.rows[u].minted}]
  BY DEF Go, Eligible, Save, RowsOK, Units, Makers
<1>2. CommandOK'
  BY DEF CommandOK, Go, commandVars
<1>3. SessionsOK'
  BY <1>1 DEF SessionsOK, Go
<1>4. /\ disk' \in Runs /\ SameRequests(disk', disk)
      /\ \A v \in Units : disk'.rows[v].status = IF v = u THEN "running" ELSE disk.rows[v].status
  BY <1>1, StatusChange DEF Statuses
<1>5. RowsOK(disk')
  <2>1. SessionsOK /\ RowsOK(disk)
    BY <1>1
  <2>2. QED
    BY <1>4, <2>1, RowsStay
<1>6. RowsOK(disk)'
  BY <1>1, <1>4, <1>5 DEF RowsOK, SessionsOK
<1>7. QED
  BY <1>1, <1>2, <1>3, <1>4, <1>6 DEF SameRequests, RequestsStay, RowsOK

LEMMA SettleStep ==
  ASSUME LoopIInv, NEW u \in Units, Settle(u)
  PROVE  LoopIInv' /\ RequestsStay
<1> USE DEF LoopIInv
<1>1. PICK s \in {"done", "orphaned"} : Save([disk EXCEPT !.rows[u].status = s])
  BY DEF Settle
<1>2. /\ RowsOK(disk) /\ disk \in Runs
      /\ disk' = [disk EXCEPT !.rows[u].status = s] /\ mem' = disk'
      /\ UNCHANGED <<live, prompt, ahead>>
  BY <1>1 DEF Settle, Save, RowsOK, sessionVars
<1>3. CommandOK' /\ SessionsOK'
  BY DEF CommandOK, SessionsOK, Settle, commandVars, sessionVars
<1>4. /\ disk' \in Runs /\ SameRequests(disk', disk)
      /\ \A v \in Units : disk'.rows[v].status = IF v = u THEN s ELSE disk.rows[v].status
  BY <1>2, StatusChange DEF Statuses
<1>5. RowsOK(disk')
  BY <1>2, <1>4, RowsStay
<1>6. RowsOK(disk)'
  BY <1>2, <1>5 DEF RowsOK
<1>7. QED
  BY <1>2, <1>3, <1>4, <1>6 DEF SameRequests, RequestsStay, RowsOK

\* A session that ends takes its prompt with it.
LEMMA LeaveStep ==
  ASSUME LoopIInv, NEW u \in Units,
         live' = live \ {u}, prompt' = [prompt EXCEPT ![u] = {}],
         UNCHANGED <<runVars, commandVars, produced, ahead, reviewing, emitted, history>>
  PROVE  LoopIInv' /\ RequestsStay
<1>1. disk' = disk /\ mem' = mem /\ ahead' = ahead
  BY DEF runVars
<1>2. CommandOK'
  BY DEF LoopIInv, CommandOK, commandVars
<1>3. SessionsOK'
  BY DEF LoopIInv, SessionsOK
<1>4. \A v \in Units : prompt'[v] = IF v = u THEN {} ELSE prompt[v]
  BY DEF LoopIInv, SessionsOK
<1>5. RowsOK(disk)' /\ RowsOK(mem)'
  BY <1>1, <1>4 DEF LoopIInv, RowsOK
<1>6. QED
  BY <1>1, <1>2, <1>3, <1>5 DEF LoopIInv, SameRequests, RequestsStay

-----------------------------------------------------------------------------
(***************************************************************************)
(* merge and the sessions.                                                 *)
(***************************************************************************)

\* Steps that change no unit's row and send no prompt.
LEMMA RowsSame ==
  ASSUME LoopIInv, CommandOK', SessionsOK',
         UNCHANGED <<disk, mem, live, prompt>>,
         \A u \in Units : ahead'[u] = {} \/ ahead'[u] = ahead[u]
  PROVE  LoopIInv' /\ RequestsStay
BY DEF LoopIInv, RowsOK, SameRequests, RequestsStay

LEMMA StartMergeStep ==
  ASSUME LoopIInv, StartMerge
  PROVE  LoopIInv' /\ RequestsStay
<1>1. CommandOK' /\ SessionsOK'
  BY DEF LoopIInv, CommandOK, SessionsOK, StartMerge, sessionVars
<1>2. QED
  BY <1>1, RowsSame DEF StartMerge, runVars, sessionVars

LEMMA EndTurnsStep ==
  ASSUME LoopIInv, EndTurns
  PROVE  LoopIInv' /\ RequestsStay
<1>1. CommandOK' /\ SessionsOK'
  BY DEF LoopIInv, CommandOK, SessionsOK, EndTurns, sessionVars
<1>2. QED
  BY <1>1, RowsSame DEF EndTurns, runVars, sessionVars

LEMMA AdvanceStep ==
  ASSUME LoopIInv, NEW u \in Workers \cup Spares, Advance(u)
  PROVE  LoopIInv' /\ RequestsStay
<1>1. ahead' = [ahead EXCEPT ![u] = {}] /\ u \in Makers
  BY DEF Advance, Makers
<1>2. CommandOK' /\ SessionsOK'
  BY <1>1 DEF LoopIInv, CommandOK, SessionsOK, Advance
<1>3. \A v \in Units : ahead'[v] = {} \/ ahead'[v] = ahead[v]
  BY <1>1 DEF LoopIInv, SessionsOK
<1>4. QED
  BY <1>2, <1>3, RowsSame DEF Advance, runVars

\* The unit that lands drops its own requests.
LEMMA LandUnitStep ==
  ASSUME LoopIInv, LandUnit
  PROVE  LoopIInv' /\ NoneTaken
<1> DEFINE new == [mem EXCEPT !.rows[unit].requests = {}]
           row == [mem.rows[unit] EXCEPT !.requests = {}]
<1>1. /\ unit \in Units /\ RowsOK(mem) /\ mem \in Runs /\ pc = "landing"
      /\ disk' = new /\ mem' = new
      /\ UNCHANGED <<live, prompt, ahead>>
  BY DEF LoopIInv, CommandOK, RowsOK, LandUnit, Save, Makers, Units, sessionVars
<1>2. CommandOK' /\ SessionsOK'
  BY DEF LoopIInv, CommandOK, SessionsOK, LandUnit, sessionVars
<1>3. mem.rows[unit] \in UnitRows
  BY <1>1, RunParts
<1>4. /\ row \in UnitRows /\ row.status = mem.rows[unit].status /\ row.requests = {}
      /\ row.minted = mem.rows[unit].minted /\ row.life = mem.rows[unit].life
  BY <1>3 DEF UnitRows
<1>5. new = [rows |-> [mem.rows EXCEPT ![unit] = row], slots |-> mem.slots]
  <2>1. new = [mem EXCEPT !.rows = [mem.rows EXCEPT ![unit] = row]]
    OBVIOUS
  <2>2. mem = [rows |-> mem.rows, slots |-> mem.slots]
    BY <1>1, RunParts
  <2> HIDE DEF new, row
  <2>3. QED
    BY <2>1, <2>2
<1> HIDE DEF new, row
<1>6. new \in Runs
  BY <1>1, <1>4, <1>5, RunParts DEF Runs
<1>7. \A u \in Units : new.rows[u] = IF u = unit THEN row ELSE mem.rows[u]
  <2>1. mem.rows \in [Units -> UnitRows]
    BY <1>1, RunParts
  <2>2. QED
    BY <1>5, <2>1
<1>8. RowsOK(disk)' /\ RowsOK(mem)'
  BY <1>1, <1>4, <1>6, <1>7 DEF RowsOK
<1>9. NoneTaken
  BY <1>1, <1>7 DEF NoneTaken, LoopIInv, SameRequests, Units
<1>10. QED
  BY <1>1, <1>2, <1>8, <1>9 DEF LoopIInv, SameRequests

LEMMA ResubmitStep ==
  ASSUME LoopIInv, NEW c \in Controllers, Resubmit(c)
  PROVE  LoopIInv' /\ RequestsStay
<1> USE DEF LoopIInv
<1> DEFINE mid   == [mem EXCEPT !.rows[c].status = "running"]
           slots == [mem.slots EXCEPT ![c] = [mem.slots[c] EXCEPT !.pending = FALSE]]
<1>1. /\ c \in Units /\ RowsOK(mem) /\ mem \in Runs
      /\ UNCHANGED <<disk, live, prompt, ahead>>
  BY DEF Units, RowsOK, Resubmit
<1>2. CommandOK' /\ SessionsOK'
  BY DEF CommandOK, SessionsOK, Resubmit, commandVars
<1>3. /\ mid \in Runs /\ SameRequests(mid, mem)
      /\ \A v \in Units : mid.rows[v].status = IF v = c THEN "running" ELSE mem.rows[v].status
  BY <1>1, StatusChange DEF Statuses
<1>4. mid.slots = mem.slots
  BY <1>1, RunParts
<1>5. mem.slots[c] \in Slots
  BY <1>1, RunParts
<1>6. [mem.slots[c] EXCEPT !.pending = FALSE] \in Slots
  BY <1>5 DEF Slots
<1>7. slots \in [Controllers -> Slots]
  BY <1>1, <1>6, RunParts
<1>8. mem' = [mid EXCEPT !.slots = slots]
  BY <1>1, <1>4, RunParts DEF Resubmit
<1> HIDE DEF mid, slots
<1>9. mem' \in Runs /\ SameRequests(mem', mid) /\ mem'.rows = mid.rows
  BY <1>3, <1>7, <1>8, SlotChange
<1>10. RowsOK(mem')
  BY <1>1, <1>3, <1>9, RowsStay DEF SameRequests
<1>11. RowsOK(mem)' /\ RowsOK(disk)'
  BY <1>1, <1>10 DEF RowsOK
<1>12. QED
  BY <1>1, <1>2, <1>3, <1>9, <1>11 DEF SameRequests, RequestsStay

LEMMA EmitStep ==
  ASSUME LoopIInv, NEW c \in Controllers, Emit(c)
  PROVE  LoopIInv' /\ RequestsStay
<1>1. PICK blocking \in SUBSET Reviews[c] : emitted' = [emitted EXCEPT ![c] = Append(@, blocking)]
  BY DEF Emit
<1>2. /\ emitted \in [Controllers -> Seq(SUBSET Findings)]
      /\ blocking \in SUBSET Findings
      /\ Len(emitted[c]) < Rounds[c] /\ Rounds[c] \in Nat
  BY LoopAssumption DEF LoopIInv, SessionsOK, Emit
<1>3. emitted[c] \in Seq(SUBSET Findings)
  BY <1>2
<1>4. /\ Append(emitted[c], blocking) \in Seq(SUBSET Findings)
      /\ Len(Append(emitted[c], blocking)) <= Rounds[c]
  BY <1>2, <1>3
<1>5. /\ emitted' \in [Controllers -> Seq(SUBSET Findings)]
      /\ \A d \in Controllers : Len(emitted'[d]) <= Rounds[d]
  BY <1>1, <1>2, <1>4 DEF LoopIInv, SessionsOK
<1>6. CommandOK' /\ SessionsOK'
  BY <1>5 DEF LoopIInv, CommandOK, SessionsOK, Emit, commandVars
<1>7. QED
  BY <1>6, RowsSame DEF Emit, runVars

LEMMA CommitStep ==
  ASSUME LoopIInv, NEW u \in Units, NEW f \in Findings, Commit(u, f)
  PROVE  LoopIInv' /\ RequestsStay
<1> USE DEF LoopIInv
<1>1. /\ u \in live /\ u \in Makers
      /\ disk' = disk /\ mem' = mem /\ live' = live
      /\ prompt' = [prompt EXCEPT ![u] = @ \ {f}]
      /\ ahead' = [ahead EXCEPT ![u] = @ \cup {f}]
      /\ produced' = produced \cup {u} /\ emitted' = emitted
  BY DEF Commit, SessionsOK, runVars
<1>2. CommandOK'
  BY DEF CommandOK, Commit, commandVars
<1>3. SessionsOK'
  BY <1>1 DEF SessionsOK
<1>4. \A v \in Units : v # u => prompt'[v] = prompt[v] /\ ahead'[v] = ahead[v]
  BY <1>1 DEF SessionsOK
<1>5. RowsOK(disk)' /\ RowsOK(mem)'
  BY <1>1, <1>4 DEF RowsOK
<1>6. QED
  BY <1>1, <1>2, <1>3, <1>5 DEF SameRequests, RequestsStay

-----------------------------------------------------------------------------
(***************************************************************************)
(* The specification.                                                      *)
(***************************************************************************)
LEMMA StepHolds ==
  ASSUME LoopIInv, [LoopNext]_loopVars
  PROVE  LoopIInv' /\ NoneTaken
<1>1. RequestsStay => NoneTaken
  BY DEF RequestsStay, NoneTaken, Units
<1>2. ASSUME NEW c \in Controllers, NEW n \in 1..Len(emitted[c]), Ingest(c, n)
      PROVE  LoopIInv' /\ NoneTaken
  BY <1>1, <1>2, IngestStep
<1>3. ASSUME NEW c \in Controllers, NEW u \in Spares, Go(c, u)
      PROVE  LoopIInv' /\ NoneTaken
  BY <1>1, <1>3, GoStep
<1>4. ASSUME NEW c \in Controllers, Resubmit(c) \/ Emit(c)
      PROVE  LoopIInv' /\ NoneTaken
  BY <1>1, <1>4, ResubmitStep, EmitStep
<1>5. CASE Route
  BY <1>5, RouteStep
<1>6. CASE FinishRouting
  BY <1>1, <1>6, FinishRoutingStep
<1>7. ASSUME NEW u \in Units, NEW f \in Findings, Send(u, f) \/ Commit(u, f)
      PROVE  LoopIInv' /\ NoneTaken
  BY <1>1, <1>7, SendStep, CommitStep
<1>8. ASSUME NEW u \in Units, NEW f \in Findings, SendFails(u, f)
      PROVE  LoopIInv' /\ NoneTaken
  BY <1>1, <1>8, DropStep DEF SendFails
<1>9. ASSUME NEW u \in Units, Settle(u)
      PROVE  LoopIInv' /\ NoneTaken
  BY <1>1, <1>9, SettleStep
<1>10. ASSUME NEW u \in Units, Dies(u)
       PROVE  LoopIInv' /\ NoneTaken
  BY <1>1, <1>10, LeaveStep DEF Dies
<1>11. ASSUME NEW u \in Workers \cup Spares, Clean(u)
       PROVE  LoopIInv' /\ NoneTaken
  BY <1>1, <1>11, LeaveStep DEF Clean, Units
<1>12. ASSUME NEW u \in Workers \cup Spares, Advance(u)
       PROVE  LoopIInv' /\ NoneTaken
  BY <1>1, <1>12, AdvanceStep
<1>13. CASE StartMerge \/ EndTurns
  BY <1>1, <1>13, StartMergeStep, EndTurnsStep
<1>14. CASE LandUnit
  BY <1>14, LandUnitStep
<1>15. CASE EndMerge \/ Crash
  BY <1>1, <1>15, DropStep DEF EndMerge, Crash
<1>16. CASE UNCHANGED loopVars
  <2>1. CommandOK' /\ SessionsOK'
    BY <1>16 DEF LoopIInv, CommandOK, SessionsOK, loopVars, commandVars, sessionVars
  <2>2. QED
    BY <1>1, <1>16, <2>1, RowsSame DEF loopVars, runVars, sessionVars
<1>17. QED
  BY <1>2, <1>3, <1>4, <1>5, <1>6, <1>7, <1>8, <1>9, <1>10, <1>11, <1>12, <1>13, <1>14, <1>15, <1>16
     DEF LoopNext

LEMMA InvariantHolds == LoopSpec => []LoopIInv
<1>1. LoopIInv /\ [LoopNext]_loopVars => LoopIInv'
  BY StepHolds
<1>2. QED
  BY <1>1, InitHolds, PTL DEF LoopSpec

\* The run on disk and in memory keeps its shape, and no unit has commits ahead of a launch, with
\* commands killed anywhere and rows and slots saved at several points.
THEOREM LoopTypesHold == LoopSpec => []LoopTypeOK
<1>1. LoopIInv => LoopTypeOK
  BY DEF LoopIInv, LoopTypeOK, CommandOK, SessionsOK, RowsOK, Makers, Units
<1>2. QED
  BY <1>1, InvariantHolds, PTL

\* No request is taken from a worker by anything but that worker's merge or the next result of its
\* own controller: every command that ends, is killed or saves keeps the requests of the others.
THEOREM RequestsAreKept == LoopSpec => RequestsAreNotTaken
<1>1. LoopIInv /\ [LoopNext]_loopVars => [NoneTaken]_loopVars
  BY StepHolds
<1>2. LoopSpec => [][NoneTaken]_loopVars
  BY <1>1, InvariantHolds, PTL DEF LoopSpec
<1>3. QED
  BY <1>2 DEF RequestsAreNotTaken, NoneTaken
=============================================================================
