-------------------------- MODULE ReviewRepairProofs --------------------------
(***************************************************************************)
(* Proofs about what becomes of a repair in ReviewLoop: somebody has it in *)
(* hand, clean does not cut it short and a controller is not sent back to  *)
(* review before it landed.  Each holds for any controllers, workers,      *)
(* findings, rounds and sessions that go away, under hypotheses on which   *)
(* findings a worker may carry; the README shows what happens without them.*)
(***************************************************************************)
EXTENDS ReviewLoopProofs

\* The workers that can carry one repair only, and those of them that share it with no other worker
\* of their lifecycle.
Single == {u \in Workers : \A f, g \in Touches[u] : f = g}

Lone == {u \in Single : \A v \in Workers :
           Life[v] = Life[u] /\ Touches[u] \cap Touches[v] # {} => v = u}

\* The findings of the results saved for a controller so far.
Seen(run, c) ==
  LET result == run.slots[c].result
  IN  IF result = Nothing THEN {} ELSE UNION {emitted[c][k] : k \in 1..result.round}

Due(run, c) == Work(run.slots[c].result)

-----------------------------------------------------------------------------
(***************************************************************************)
(* What holds whatever the workers carry.                                  *)
(***************************************************************************)

\* Only a spare is ever not in the run, and nobody else is minted.
RowsKept(run) ==
  \A u \in Controllers \cup Workers :
    /\ run.rows[u].status # "absent"
    /\ run.rows[u].life = Life[u]
    /\ run.rows[u].minted = Nothing

\* A unit carries, is prompted for and commits only repairs on its paths.
OnPaths(run) ==
  \A u \in Units : \A f \in run.rows[u].requests \cup prompt[u] \cup ahead[u] :
    PathsOverlap(run, u, f)

\* A worker that is gone and still carries a request went away by itself: clean closes none that does.
GoneCarries(run) ==
  \A u \in Workers \ live : run.rows[u].requests # {} => u \in Mortal

\* A replacement is minted for a finding no live worker of the lifecycle could repair, then or later.
MintedAlone(run) ==
  \A s \in Spares, w \in Workers \cap live :
    run.rows[s].status # "absent" /\ run.rows[s].life = Life[w]
      => run.rows[s].minted \notin Touches[w]

\* A saved result is one the controller wrote, and what was prompted or minted was in a result.
ResultsSeen(run) ==
  \A c \in Controllers :
    LET result == run.slots[c].result
    IN  /\ result # Nothing => result.round \in 1..Len(emitted[c])
                               /\ result.blocking = emitted[c][result.round]
        /\ \A u \in LifecycleUnits(run, c) :
             /\ prompt[u] \subseteq Seen(run, c)
             /\ u \in Spares => run.rows[u].minted \in Seen(run, c)

BaseRun(run) ==
  /\ RowsKept(run)
  /\ OnPaths(run)
  /\ GoneCarries(run)
  /\ MintedAlone(run)
  /\ ResultsSeen(run)

OrphansGone(run) == \A u \in Units : run.rows[u].status = "orphaned" => u \notin live

\* What was sent was in a result.
SentSeen(run) == \A c \in Controllers : run.slots[c].dispatched \subseteq Seen(run, c)

\* What a command has in memory and not yet on disk are statuses, what it sent, outcomes and flags.
Alike ==
  /\ \A c \in Controllers : mem.slots[c].result = disk.slots[c].result
  /\ \A u \in Units : mem.rows[u].status = "absent" <=> disk.rows[u].status = "absent"
  /\ pc \notin {"sending", "resubmitting"} => mem = disk

\* A request still to be sent is a Work repair of the result, parked on a unit of the lifecycle.
TodoOK ==
  /\ pc # "sending" => todo = {}
  /\ \A u \in Units, f \in Findings :
       <<u, f>> \in todo => /\ u \in LifecycleUnits(mem, ctl)
                            /\ f \in mem.rows[u].requests
                            /\ f \in Due(mem, ctl)

\* While a merge is being recorded, a unit that carries one repair only has it on the branch.
LandingOK ==
  pc = "landing" =>
    /\ mem.rows[unit].status = "done"
    /\ unit \in Single \cup Spares =>
         \A c \in Controllers :
           unit \in LifecycleUnits(mem, c) => mem.rows[unit].requests \subseteq repaired[c]

BaseIInv ==
  /\ BaseRun(disk)
  /\ OrphansGone(disk) /\ OrphansGone(mem)
  /\ SentSeen(disk) /\ SentSeen(mem)
  /\ Alike
  /\ TodoOK
  /\ LandingOK
  /\ \A u \in Units : prompt[u] # {} => u \in live

-----------------------------------------------------------------------------
(***************************************************************************)
(* Who has a repair in hand.                                               *)
(***************************************************************************)

\* u repaired it, committed it, or is at work on it.
HeldBy(c, u, f) ==
  f \in repaired[c] \cup ahead[u] \cup prompt[u]

Held(run, c, f) ==
  f \in repaired[c] \/ \E u \in LifecycleUnits(run, c) : HeldBy(c, u, f)

\* A unit carries it that go has not launched, or whose session went away over it.
Waiting(run, c, f) ==
  \E u \in LifecycleUnits(run, c) : f \in run.rows[u].requests /\ u \notin live

InHand(run, c, f) == Held(run, c, f) \/ Waiting(run, c, f)

\* A repair that was sent is held, unless whoever it was sent to is gone and no worker is left for it.
SentIsHeld(run) ==
  \A c \in Controllers : \A f \in run.slots[c].dispatched \cap Due(run, c) :
    \/ Held(run, c, f)
    \/ \A w \in Workers \cap live : Life[w] = Life[c] => f \notin Touches[w]

\* A replacement that is there holds the repair it was minted for.
MintedHolds(run) ==
  \A c \in Controllers, s \in Spares \cap live :
    s \in LifecycleUnits(run, c) /\ run.rows[s].minted \in Due(run, c)
      => HeldBy(c, s, run.rows[s].minted)

\* A lone worker that is prompted for a repair carries the request for it.
LoneCarries(run) ==
  \A c \in Controllers, u \in Lone : Life[u] = Life[c] =>
    prompt[u] \cap Due(run, c) \subseteq run.rows[u].requests \cup repaired[c]

\* Once a replacement was minted for a repair, a replacement carries it until it landed.
MintedCarries(run) ==
  \A c \in Controllers, s \in Spares :
    s \in LifecycleUnits(run, c) /\ run.rows[s].minted \in Due(run, c) \ repaired[c]
      => \E v \in Spares \cap LifecycleUnits(run, c) :
           /\ run.rows[v].minted = run.rows[s].minted
           /\ run.rows[s].minted \in run.rows[v].requests

RoutedInHand(run) ==
  \A c \in Controllers : run.slots[c].outcome # Nothing =>
    \A f \in Due(run, c) : InHand(run, c, f)

HandRun(run) ==
  /\ SentIsHeld(run)
  /\ MintedHolds(run)
  /\ LoneCarries(run)
  /\ MintedCarries(run)
  /\ RoutedInHand(run)

\* While requests are being sent, what is not to be sent is in hand, unless one was withheld.
SendingOK ==
  /\ pc \in {"routing", "sending"} =>
       mem.slots[ctl].outcome = Nothing /\ disk.slots[ctl].outcome = Nothing
  /\ pc = "sending" =>
       \/ withheld
       \/ \A f \in Due(mem, ctl) : (\E u \in Units : <<u, f>> \in todo) \/ InHand(mem, ctl, f)

\* No finding blocks in two rounds of one controller.
Disjoint ==
  \A c \in Controllers : \A i, j \in 1..Len(emitted[c]) :
    i # j => emitted[c][i] \cap emitted[c][j] = {}

HandIInv ==
  /\ HandRun(disk)
  /\ HandRun(mem)
  /\ SendingOK
  /\ Disjoint

-----------------------------------------------------------------------------
(***************************************************************************)
(* What a controller waits for.                                            *)
(***************************************************************************)

\* A Work repair of the last result landed, or a unit of the lifecycle carries it.
Owed(run, c) ==
  \A f \in Due(run, c) \ repaired[c] :
    \E u \in LifecycleUnits(run, c) : f \in run.rows[u].requests

\* A pending controller waits for the repairs of the result it is pending on, but for the moment
\* between the save of a new result and its routing.
PendingOwed(run) ==
  \A c \in Controllers : run.slots[c].pending => Owed(run, c) \/ (pc = "routing" /\ ctl = c)

OwedIInv ==
  /\ PendingOwed(disk)
  /\ \A c \in Controllers : mem.slots[c].pending => disk.slots[c].pending
  /\ reviewing \in [Controllers -> BOOLEAN]
  /\ kills \in Nat

\* A replacement that has commits was in the run, and the repair it was minted for is committed.
MadeIInv ==
  \A s \in Spares \cap produced :
    /\ disk.rows[s].status # "absent"
    /\ \A c \in Controllers :
         s \in LifecycleUnits(disk, c) /\ disk.rows[s].minted \in Due(disk, c)
           => disk.rows[s].minted \in repaired[c] \cup ahead[s]

-----------------------------------------------------------------------------
(***************************************************************************)
(* What each command does to the rows and the slots.                       *)
(***************************************************************************)

\* Two runs that agree on everything but statuses, what was sent, outcomes and flags.
AlikeRuns(new, run) ==
  /\ SameRequests(new, run)
  /\ \A u \in Units : new.rows[u].status = "absent" <=> run.rows[u].status = "absent"
  /\ \A c \in Controllers : new.slots[c].result = run.slots[c].result

LEMMA AlikeFacts ==
  ASSUME NEW new, NEW run, AlikeRuns(new, run)
  PROVE  /\ AlikeRuns(run, new)
         /\ \A c \in Controllers : /\ LifecycleUnits(new, c) = LifecycleUnits(run, c)
                                   /\ Seen(new, c) = Seen(run, c)
                                   /\ Due(new, c) = Due(run, c)
         /\ \A u \in Units : \A f : PathsOverlap(new, u, f) <=> PathsOverlap(run, u, f)
BY DEF AlikeRuns, SameRequests, LifecycleUnits, Present, Seen, Due, PathsOverlap

LEMMA MemAlike ==
  ASSUME LoopIInv, Alike
  PROVE  AlikeRuns(mem, disk)
BY DEF LoopIInv, Alike, AlikeRuns

\* Two controllers never own a unit together.
LEMMA OneOwner ==
  ASSUME NEW c \in Controllers, NEW d \in Controllers, Life[c] = Life[d]
  PROVE  c = d
BY LoopAssumption

LEMMA SlotParts ==
  ASSUME NEW run \in Runs, NEW c \in Controllers
  PROVE  /\ run.slots[c] \in Slots
         /\ run.slots \in [Controllers -> Slots]
         /\ Due(run, c) \subseteq Findings
         /\ run.slots[c].result # Nothing => Due(run, c) \subseteq run.slots[c].result.blocking
         /\ run.slots[c].dispatched \subseteq Findings
BY RunParts, RoutingParts DEF Slots, Due, Work

LEMMA IngestFacts ==
  ASSUME LoopIInv, NEW c \in Controllers, NEW n \in 1..Len(emitted[c]), Ingest(c, n)
  PROVE  /\ mem' = disk' /\ disk'.rows = disk.rows
         /\ disk'.slots[c].result = [round |-> n, blocking |-> emitted[c][n]]
         /\ disk'.slots[c].outcome = Nothing
         /\ disk'.slots[c].dispatched = disk.slots[c].dispatched
         /\ disk'.slots[c].pending = disk.slots[c].pending
         /\ \A d \in Controllers : d # c => disk'.slots[d] = disk.slots[d]
<1> DEFINE result == [round |-> n, blocking |-> emitted[c][n]]
           slot   == [disk.slots[c] EXCEPT !.result = result, !.outcome = Nothing]
           slots  == [disk.slots EXCEPT ![c] = slot]
<1>1. disk \in Runs /\ disk.slots[c] \in Slots
  BY SlotParts DEF LoopIInv, RowsOK
<1>2. disk' = [disk EXCEPT !.slots = slots] /\ mem' = disk'
  BY <1>1, RunParts DEF Ingest, Save
<1>3. /\ slot.result = result /\ slot.outcome = Nothing
      /\ slot.dispatched = disk.slots[c].dispatched /\ slot.pending = disk.slots[c].pending
  BY <1>1 DEF Slots
<1> HIDE DEF slot
<1>4. disk' = [rows |-> disk.rows, slots |-> slots]
  BY <1>1, <1>2, RunParts
<1>5. slots[c] = slot /\ \A d \in Controllers : d # c => slots[d] = disk.slots[d]
  BY <1>1, RunParts
<1>6. QED
  BY <1>2, <1>3, <1>4, <1>5

LEMMA DeliverFacts ==
  ASSUME LoopIInv, NEW u \in Units, NEW f \in Findings, Send(u, f), Deliver(u, f)
  PROVE  /\ disk' = disk /\ ctl \in Controllers
         /\ SameRequests(mem', mem)
         /\ \A v \in Units : mem'.rows[v].status = IF v = u THEN "running" ELSE mem.rows[v].status
         /\ mem'.slots[ctl].result = mem.slots[ctl].result
         /\ mem'.slots[ctl].outcome = mem.slots[ctl].outcome
         /\ mem'.slots[ctl].pending = mem.slots[ctl].pending
         /\ mem'.slots[ctl].dispatched = mem.slots[ctl].dispatched \cup {f}
         /\ \A d \in Controllers : d # ctl => mem'.slots[d] = mem.slots[d]
<1> DEFINE mid   == [mem EXCEPT !.rows[u].status = "running"]
           slot  == [mem.slots[ctl] EXCEPT !.dispatched = @ \cup {f}]
           slots == [mem.slots EXCEPT ![ctl] = slot]
<1>1. ctl \in Controllers /\ mem \in Runs /\ mem.slots[ctl] \in Slots
  BY SlotParts DEF LoopIInv, CommandOK, RowsOK, Send
<1>2. /\ mid \in Runs /\ SameRequests(mid, mem) /\ mid.slots = mem.slots
      /\ \A v \in Units : mid.rows[v].status = IF v = u THEN "running" ELSE mem.rows[v].status
  BY <1>1, StatusChange DEF Statuses
<1>3. mem' = [mid EXCEPT !.slots = slots]
  BY <1>1, <1>2, RunParts DEF Deliver
<1>4. /\ slot.dispatched = mem.slots[ctl].dispatched \cup {f}
      /\ slot.result = mem.slots[ctl].result /\ slot.outcome = mem.slots[ctl].outcome
      /\ slot.pending = mem.slots[ctl].pending
  BY <1>1 DEF Slots
<1> HIDE DEF slot, mid
<1>5. mem' = [rows |-> mid.rows, slots |-> slots]
  BY <1>2, <1>3, RunParts
<1>6. slots[ctl] = slot /\ \A d \in Controllers : d # ctl => slots[d] = mem.slots[d]
  BY <1>1, RunParts
<1>7. SameRequests(mem', mem)
  BY <1>2, <1>5 DEF SameRequests
<1>8. QED
  BY <1>1, <1>2, <1>4, <1>5, <1>6, <1>7 DEF Send

LEMMA FinishFacts ==
  ASSUME LoopIInv, FinishRouting
  PROVE  /\ mem' = disk' /\ disk'.rows = mem.rows /\ ctl \in Controllers
         /\ disk'.slots[ctl].result = mem.slots[ctl].result
         /\ disk'.slots[ctl].dispatched = mem.slots[ctl].dispatched
         /\ disk'.slots[ctl].pending = mem.slots[ctl].pending
         /\ withheld => disk'.slots[ctl] = mem.slots[ctl]
         /\ \A d \in Controllers : d # ctl => disk'.slots[d] = mem.slots[d]
<1>1. ctl \in Controllers /\ mem \in Runs /\ mem.slots[ctl] \in Slots
  BY SlotParts DEF LoopIInv, CommandOK, RowsOK, FinishRouting
<1>2. CASE withheld
  BY <1>1, <1>2 DEF FinishRouting, EndCommand
<1>3. CASE ~withheld
  <2> DEFINE done  == Outcome(mem.slots[ctl].result)
             slot  == [mem.slots[ctl] EXCEPT !.outcome = done]
             slots == [mem.slots EXCEPT ![ctl] = slot]
  <2>1. disk' = [mem EXCEPT !.slots = slots] /\ mem' = disk'
    BY <1>1, <1>3, RunParts DEF FinishRouting, EndCommand
  <2>2. /\ slot.result = mem.slots[ctl].result /\ slot.dispatched = mem.slots[ctl].dispatched
        /\ slot.pending = mem.slots[ctl].pending
    BY <1>1 DEF Slots
  <2> HIDE DEF slot
  <2>3. disk' = [rows |-> mem.rows, slots |-> slots]
    BY <1>1, <2>1, RunParts
  <2>4. slots[ctl] = slot /\ \A d \in Controllers : d # ctl => slots[d] = mem.slots[d]
    BY <1>1, RunParts
  <2>5. QED
    BY <1>1, <1>3, <2>1, <2>2, <2>3, <2>4
<1>4. QED
  BY <1>2, <1>3

LEMMA GoFacts ==
  ASSUME LoopIInv, NEW c \in Controllers, NEW u \in Spares, Go(c, u)
  PROVE  /\ mem' = disk' /\ SameRequests(disk', disk) /\ disk'.slots = disk.slots
         /\ \A v \in Units : disk'.rows[v].status = IF v = u THEN "running" ELSE disk.rows[v].status
         /\ u \in Units /\ disk.rows[u].status = "pending"
         /\ live' = live \cup {u}
         /\ \A v \in Units : prompt'[v] = IF v = u THEN {disk.rows[u].minted} ELSE prompt[v]
         /\ prompt[u] = {} /\ u \notin live /\ disk.rows[u].minted \in Findings
<1>1. /\ disk \in Runs /\ u \in Units /\ disk.rows[u].status = "pending"
      /\ disk' = [disk EXCEPT !.rows[u].status = "running"] /\ mem' = disk'
  BY DEF LoopIInv, RowsOK, Units, Go, Eligible, Save
<1>2. /\ SameRequests(disk', disk) /\ disk'.slots = disk.slots
      /\ \A v \in Units : disk'.rows[v].status = IF v = u THEN "running" ELSE disk.rows[v].status
  BY <1>1, StatusChange DEF Statuses
<1>3. QED
  BY <1>1, <1>2 DEF Go, LoopIInv, SessionsOK, RowsOK

LEMMA SettleFacts ==
  ASSUME LoopIInv, NEW u \in Units, Settle(u)
  PROVE  /\ mem' = disk' /\ SameRequests(disk', disk) /\ disk'.slots = disk.slots
         /\ disk.rows[u].status = "running" /\ disk'.rows[u].status # "absent"
         /\ \A v \in Units : v # u => disk'.rows[v].status = disk.rows[v].status
         /\ disk'.rows[u].status = "orphaned" => u \notin live
<1>1. PICK s \in {"done", "orphaned"} :
        Save([disk EXCEPT !.rows[u].status = s]) /\ (s = "orphaned" => u \notin live)
  BY DEF Settle
<1>2. disk \in Runs /\ disk' = [disk EXCEPT !.rows[u].status = s] /\ mem' = disk'
  BY <1>1 DEF LoopIInv, RowsOK, Save
<1>3. /\ SameRequests(disk', disk) /\ disk'.slots = disk.slots
      /\ \A v \in Units : disk'.rows[v].status = IF v = u THEN s ELSE disk.rows[v].status
  BY <1>2, StatusChange DEF Statuses
<1>4. QED
  BY <1>1, <1>2, <1>3 DEF Settle

LEMMA LandFacts ==
  ASSUME LoopIInv, LandUnit
  PROVE  /\ mem' = disk' /\ unit \in Makers /\ unit \in Units /\ pc = "landing"
         /\ disk'.slots = mem.slots
         /\ \A u \in Units : /\ disk'.rows[u].status = mem.rows[u].status
                             /\ disk'.rows[u].life = mem.rows[u].life
                             /\ disk'.rows[u].minted = mem.rows[u].minted
                             /\ disk'.rows[u].requests = IF u = unit THEN {} ELSE mem.rows[u].requests
<1> DEFINE row == [mem.rows[unit] EXCEPT !.requests = {}]
           new == [mem EXCEPT !.rows[unit].requests = {}]
<1>1. unit \in Makers /\ unit \in Units /\ mem \in Runs /\ pc = "landing" /\ disk' = new /\ mem' = disk'
  BY DEF LoopIInv, CommandOK, RowsOK, LandUnit, Save, Makers, Units
<1>2. mem.rows \in [Units -> UnitRows] /\ mem = [rows |-> mem.rows, slots |-> mem.slots]
  BY <1>1, RunParts
<1>3. mem.rows[unit] \in UnitRows
  BY <1>1, <1>2
<1>4. /\ row.status = mem.rows[unit].status /\ row.requests = {}
      /\ row.minted = mem.rows[unit].minted /\ row.life = mem.rows[unit].life
  BY <1>3 DEF UnitRows
<1>5. new = [mem EXCEPT !.rows = [mem.rows EXCEPT ![unit] = row]]
  OBVIOUS
<1> HIDE DEF row, new
<1>6. new = [rows |-> [mem.rows EXCEPT ![unit] = row], slots |-> mem.slots]
  BY <1>2, <1>5
<1>7. \A u \in Units : new.rows[u] = IF u = unit THEN row ELSE mem.rows[u]
  BY <1>2, <1>6
<1>8. QED
  BY <1>1, <1>4, <1>6, <1>7

LEMMA ResubmitFacts ==
  ASSUME LoopIInv, NEW c \in Controllers, Resubmit(c)
  PROVE  /\ disk' = disk /\ SameRequests(mem', mem) /\ c \in Units
         /\ \A v \in Units : mem'.rows[v].status = IF v = c THEN "running" ELSE mem.rows[v].status
         /\ mem'.slots[c].result = mem.slots[c].result
         /\ mem'.slots[c].outcome = mem.slots[c].outcome
         /\ mem'.slots[c].dispatched = mem.slots[c].dispatched
         /\ mem'.slots[c].pending = FALSE
         /\ \A d \in Controllers : d # c => mem'.slots[d] = mem.slots[d]
<1> DEFINE mid   == [mem EXCEPT !.rows[c].status = "running"]
           slot  == [mem.slots[c] EXCEPT !.pending = FALSE]
           slots == [mem.slots EXCEPT ![c] = slot]
<1>1. c \in Units /\ mem \in Runs /\ mem.slots[c] \in Slots
  BY SlotParts DEF LoopIInv, RowsOK, Units
<1>2. /\ mid \in Runs /\ SameRequests(mid, mem) /\ mid.slots = mem.slots
      /\ \A v \in Units : mid.rows[v].status = IF v = c THEN "running" ELSE mem.rows[v].status
  BY <1>1, StatusChange DEF Statuses
<1>3. mem' = [mid EXCEPT !.slots = slots]
  BY <1>1, <1>2, RunParts DEF Resubmit
<1>4. /\ slot.dispatched = mem.slots[c].dispatched /\ slot.pending = FALSE
      /\ slot.result = mem.slots[c].result /\ slot.outcome = mem.slots[c].outcome
  BY <1>1 DEF Slots
<1> HIDE DEF slot, mid
<1>5. mem' = [rows |-> mid.rows, slots |-> slots]
  BY <1>2, <1>3, RunParts
<1>6. slots[c] = slot /\ \A d \in Controllers : d # c => slots[d] = mem.slots[d]
  BY <1>1, RunParts
<1> HIDE DEF slots
<1>7. SameRequests(mem', mem) /\ mem'.slots = slots /\ \A v \in Units : mem'.rows[v].status = mid.rows[v].status
  BY <1>2, <1>5 DEF SameRequests
<1>8. disk' = disk
  BY DEF Resubmit
<1>9. QED
  BY <1>1, <1>2, <1>4, <1>6, <1>7, <1>8

\* Who a repair goes to when no replacement is minted for it.
LEMMA HolderFacts ==
  ASSUME NEW run, NEW c, NEW f \in Due(run, c) \ Unheld(run, c)
  PROVE  /\ Holder(run, c, f) \in LifecycleUnits(run, c)
         /\ Reusable(run, c, f) # {} => Holder(run, c, f) \in Reusable(run, c, f)
         /\ Reusable(run, c, f) = {} => Holder(run, c, f) \in Assigned(run, c, f)
<1>1. Reusable(run, c, f) \cup Assigned(run, c, f) # {}
  BY DEF Unheld, Due
<1>2. /\ Reusable(run, c, f) # {} => Holder(run, c, f) \in Reusable(run, c, f)
      /\ Reusable(run, c, f) = {} => Holder(run, c, f) \in Assigned(run, c, f)
  BY <1>1 DEF Holder
<1>3. QED
  BY <1>1, <1>2 DEF Reusable, Assigned

\* A unit's row after its controller's result was routed.
MintedRow(run, c, f, old, new) ==
  /\ old.status = "absent" /\ new.status = "pending"
  /\ new.life = Life[c] /\ new.minted = f /\ new.requests = {f}

HolderRow(run, c, u, old, new) ==
  /\ new.status = old.status /\ new.life = old.life /\ new.minted = old.minted
  /\ new.requests = (old.requests \ Due(run, c))
                      \cup {f \in Due(run, c) \ Unheld(run, c) : Holder(run, c, f) = u}

SlotRouted(run, c, d, old, new) ==
  /\ new.result = old.result /\ new.outcome = old.outcome /\ new.dispatched = old.dispatched
  /\ new.pending = IF d = c THEN Due(run, c) # {} ELSE old.pending

LEMMA RoutedParts ==
  ASSUME NEW run \in Runs, NEW c \in Controllers, NEW minted \in Mintings(run, c)
  PROVE  /\ \A f \in Unheld(run, c) :
              /\ minted[f] \in Spares
              /\ MintedRow(run, c, f, run.rows[minted[f]], Routed(run, c, minted).rows[minted[f]])
         /\ \A u \in LifecycleUnits(run, c) :
              HolderRow(run, c, u, run.rows[u], Routed(run, c, minted).rows[u])
         /\ \A u \in Units : \/ \E f \in Unheld(run, c) : minted[f] = u
                             \/ u \in LifecycleUnits(run, c)
                             \/ Routed(run, c, minted).rows[u] = run.rows[u]
         /\ \A d \in Controllers : SlotRouted(run, c, d, run.slots[d], Routed(run, c, minted).slots[d])
<1> DEFINE work      == Work(run.slots[c].result)
           holder    == [f \in work |-> IF f \in DOMAIN minted THEN minted[f] ELSE Holder(run, c, f)]
           parked(u) == {f \in work : holder[f] = u}
           fresh(u)  == [Row("pending", Life[c]) EXCEPT
                           !.requests = parked(u), !.minted = CHOOSE f \in parked(u) : TRUE]
           kept(u)   == [run.rows[u] EXCEPT !.requests = (@ \ work) \cup parked(u)]
           row(u)    == IF u \in Range(minted) THEN fresh(u)
                        ELSE IF u \in LifecycleUnits(run, c) THEN kept(u)
                        ELSE run.rows[u]
           slot      == [run.slots[c] EXCEPT
                           !.operator = run.slots[c].result.blocking \cap OperatorOwned,
                           !.pending  = work # {}]
<1>1. /\ minted \in [Unheld(run, c) -> {u \in Spares : run.rows[u].status = "absent"}]
      /\ DOMAIN minted = Unheld(run, c)
      /\ \A f, g \in Unheld(run, c) : minted[f] = minted[g] => f = g
      /\ Unheld(run, c) \subseteq work
      /\ work = Due(run, c)
  BY DEF Mintings, Injection, IsInjective, Unheld, Due
<1>2. \A u \in LifecycleUnits(run, c) : u \in Units /\ run.rows[u].status # "absent"
  BY RoutingParts
<1>3. Routed(run, c, minted) =
        [rows |-> [u \in Units |-> row(u)], slots |-> [run.slots EXCEPT ![c] = slot]]
  <2>1. ASSUME NEW o, NEW p
        PROVE  [run.slots EXCEPT ![c].operator = o, ![c].pending = p]
                 = [run.slots EXCEPT ![c] = [run.slots[c] EXCEPT !.operator = o, !.pending = p]]
    BY RunParts
  <2>2. QED
    BY <2>1, Zenon DEF Routed
<1>4. \A u \in Units : Routed(run, c, minted).rows[u] = row(u)
  <2> HIDE DEF row, slot
  <2>1. QED
    BY <1>3
<1>5. \A u : u \in Range(minted) <=> \E f \in Unheld(run, c) : minted[f] = u
  BY <1>1 DEF Range
<1>6. ASSUME NEW f \in Unheld(run, c)
      PROVE  parked(minted[f]) = {f}
  <2>1. run.rows[minted[f]].status = "absent"
    BY <1>1
  <2>2. \A g \in work \ Unheld(run, c) : Holder(run, c, g) # minted[f]
    BY <1>1, <1>2, <2>1, HolderFacts
  <2>3. QED
    BY <1>1, <2>2
<1>7. ASSUME NEW f \in Unheld(run, c)
      PROVE  /\ minted[f] \in Spares
             /\ MintedRow(run, c, f, run.rows[minted[f]], Routed(run, c, minted).rows[minted[f]])
  <2>1. minted[f] \in Spares /\ minted[f] \in Units /\ run.rows[minted[f]].status = "absent"
    BY <1>1 DEF Units
  <2>2. Routed(run, c, minted).rows[minted[f]] = fresh(minted[f])
    BY <1>4, <1>5, <2>1
  <2>3. fresh(minted[f]) = [Row("pending", Life[c]) EXCEPT !.requests = {f}, !.minted = f]
    BY <1>6
  <2> HIDE DEF fresh
  <2>4. QED
    BY <2>1, <2>2, <2>3 DEF MintedRow, Row
<1>8. ASSUME NEW u \in LifecycleUnits(run, c)
      PROVE  HolderRow(run, c, u, run.rows[u], Routed(run, c, minted).rows[u])
  <2>1. u \in Units /\ u \notin Range(minted)
    BY <1>1, <1>2, <1>5
  <2>2. Routed(run, c, minted).rows[u] = kept(u)
    BY <1>4, <2>1
  <2>3. parked(u) = {f \in Due(run, c) \ Unheld(run, c) : Holder(run, c, f) = u}
    BY <1>1, <1>5, <2>1
  <2>4. run.rows[u] \in UnitRows
    BY <2>1, RunParts
  <2> HIDE DEF parked
  <2>5. QED
    BY <1>1, <2>2, <2>3, <2>4 DEF HolderRow, UnitRows
<1>9. ASSUME NEW u \in Units, u \notin LifecycleUnits(run, c),
             ~\E f \in Unheld(run, c) : minted[f] = u
      PROVE  Routed(run, c, minted).rows[u] = run.rows[u]
  BY <1>4, <1>5, <1>9
<1>10. ASSUME NEW d \in Controllers
       PROVE  SlotRouted(run, c, d, run.slots[d], Routed(run, c, minted).slots[d])
  <2>1. run.slots[c] \in Slots /\ run.slots \in [Controllers -> Slots]
    BY SlotParts
  <2>2. ASSUME NEW o, NEW p
        PROVE  LET s == [run.slots[c] EXCEPT !.operator = o, !.pending = p]
               IN  /\ s.result = run.slots[c].result /\ s.outcome = run.slots[c].outcome
                   /\ s.dispatched = run.slots[c].dispatched
                   /\ s.pending = p
    BY <2>1 DEF Slots
  <2>3. /\ slot.result = run.slots[c].result /\ slot.outcome = run.slots[c].outcome
        /\ slot.dispatched = run.slots[c].dispatched
        /\ slot.pending = (work # {})
    BY <2>2, Zenon
  <2> HIDE DEF slot, row
  <2>4. Routed(run, c, minted).slots[d] = IF d = c THEN slot ELSE run.slots[d]
    BY <1>3, <2>1
  <2>5. QED
    BY <1>1, <2>3, <2>4, Zenon DEF SlotRouted
<1>11. QED
  BY <1>7, <1>8, <1>9, <1>10

LEMMA RouteFacts ==
  ASSUME LoopIInv, Route
  PROVE  /\ mem' = disk' /\ ctl \in Controllers /\ mem \in Runs
         /\ UNCHANGED <<live, prompt, ahead, emitted, repaired, ctl, withheld>>
         /\ \A f \in Unheld(mem, ctl) : \E s \in Spares :
              MintedRow(mem, ctl, f, mem.rows[s], mem'.rows[s])
         /\ \A u \in LifecycleUnits(mem, ctl) : HolderRow(mem, ctl, u, mem.rows[u], mem'.rows[u])
         /\ \A u \in Units :
              \/ \E f \in Unheld(mem, ctl) :
                   u \in Spares /\ MintedRow(mem, ctl, f, mem.rows[u], mem'.rows[u])
              \/ u \in LifecycleUnits(mem, ctl)
              \/ mem'.rows[u] = mem.rows[u]
         /\ \A d \in Controllers : SlotRouted(mem, ctl, d, mem.slots[d], mem'.slots[d])
<1>1. ctl \in Controllers /\ mem \in Runs
  BY DEF LoopIInv, Route, CommandOK, RowsOK
<1>2. PICK minted \in Mintings(mem, ctl) : mem' = Routed(mem, ctl, minted) /\ mem' = disk'
  BY Zenon DEF Route, Save
<1> DEFINE new == Routed(mem, ctl, minted)
<1>3. /\ \A f \in Unheld(mem, ctl) :
              /\ minted[f] \in Spares
              /\ MintedRow(mem, ctl, f, mem.rows[minted[f]], new.rows[minted[f]])
      /\ \A u \in LifecycleUnits(mem, ctl) :
              HolderRow(mem, ctl, u, mem.rows[u], new.rows[u])
      /\ \A u \in Units : \/ \E f \in Unheld(mem, ctl) : minted[f] = u
                          \/ u \in LifecycleUnits(mem, ctl)
                          \/ new.rows[u] = mem.rows[u]
      /\ \A d \in Controllers : SlotRouted(mem, ctl, d, mem.slots[d], new.slots[d])
  BY <1>1, RoutedParts, Zenon
<1>4. UNCHANGED <<live, prompt, ahead, emitted, repaired, ctl, withheld>>
  BY DEF Route, sessionVars, history
<1> HIDE DEF new
<1>5. \A f \in Unheld(mem, ctl) : \E s \in Spares :
        MintedRow(mem, ctl, f, mem.rows[s], mem'.rows[s])
  BY <1>2, <1>3 DEF new
<1>6. QED
  BY <1>1, <1>2, <1>3, <1>4, <1>5 DEF new

-----------------------------------------------------------------------------
(***************************************************************************)
(* What holds whatever the workers carry.                                  *)
(***************************************************************************)
LEMMA BaseAlike ==
  ASSUME NEW new, NEW run, AlikeRuns(new, run), BaseRun(run)
  PROVE  BaseRun(new)
<1>1. /\ \A c \in Controllers : /\ LifecycleUnits(new, c) = LifecycleUnits(run, c)
                                /\ Seen(new, c) = Seen(run, c)
      /\ \A u \in Units : \A f : PathsOverlap(new, u, f) <=> PathsOverlap(run, u, f)
  BY AlikeFacts
<1>2. /\ SameRequests(new, run)
      /\ \A u \in Units : new.rows[u].status = "absent" <=> run.rows[u].status = "absent"
      /\ \A c \in Controllers : new.slots[c].result = run.slots[c].result
  BY DEF AlikeRuns
<1>3. RowsKept(new) /\ GoneCarries(new) /\ MintedAlone(new)
  BY <1>2 DEF BaseRun, RowsKept, GoneCarries, MintedAlone, SameRequests, Units
<1>4. OnPaths(new)
  BY <1>1, <1>2 DEF BaseRun, OnPaths, SameRequests
<1>5. ResultsSeen(new)
  BY <1>1, <1>2 DEF BaseRun, ResultsSeen, SameRequests, LifecycleUnits, Present
<1>6. QED
  BY <1>3, <1>4, <1>5 DEF BaseRun

\* The run in memory is in order too.
LEMMA MemBase ==
  ASSUME LoopIInv, BaseIInv
  PROVE  /\ BaseRun(mem) /\ AlikeRuns(mem, disk)
         /\ mem \in Runs /\ disk \in Runs
         /\ pc \notin {"sending", "resubmitting"} => mem = disk
<1>1. AlikeRuns(mem, disk)
  BY MemAlike DEF BaseIInv
<1>2. BaseRun(mem)
  BY <1>1, BaseAlike DEF BaseIInv
<1>3. QED
  BY <1>1, <1>2 DEF LoopIInv, RowsOK, BaseIInv, Alike

\* A Work repair of the saved result was seen.
LEMMA DueSeen ==
  ASSUME NEW run \in Runs, BaseRun(run), NEW c \in Controllers
  PROVE  Due(run, c) \subseteq Seen(run, c)
<1> DEFINE result == run.slots[c].result
<1>1. CASE result = Nothing
  BY <1>1 DEF Due, Work
<1>2. CASE result # Nothing
  <2>1. result.round \in 1..Len(emitted[c]) /\ result.blocking = emitted[c][result.round]
    BY <1>2 DEF BaseRun, ResultsSeen
  <2>2. result.round \in 1..result.round
    BY <2>1
  <2>3. emitted[c][result.round] \subseteq UNION {emitted[c][k] : k \in 1..result.round}
    BY <2>2
  <2>4. Due(run, c) \subseteq emitted[c][result.round]
    BY <1>2, <2>1, SlotParts
  <2>5. QED
    BY <1>2, <2>3, <2>4 DEF Seen
<1>3. QED
  BY <1>1, <1>2

\* A step that keeps results, units and what they were minted for, takes requests only, and prompts
\* and commits what is on a unit's paths.
LEMMA BaseKept ==
  ASSUME BaseRun(disk), emitted' = emitted,
         \A u \in Units : /\ disk'.rows[u].status = "absent" <=> disk.rows[u].status = "absent"
                          /\ disk'.rows[u].life = disk.rows[u].life
                          /\ disk'.rows[u].minted = disk.rows[u].minted
                          /\ disk'.rows[u].requests \subseteq disk.rows[u].requests,
         \A c \in Controllers : disk'.slots[c].result = disk.slots[c].result,
         live' \cap Workers \subseteq live,
         \A u \in (Workers \cap live) \ live' : disk.rows[u].requests # {} => u \in Mortal,
         \A u \in Units : \A f \in prompt'[u] \ prompt[u] :
           /\ PathsOverlap(disk, u, f)
           /\ \A c \in Controllers : u \in LifecycleUnits(disk, c) => f \in Seen(disk, c),
         \A u \in Units : \A f \in ahead'[u] \ (ahead[u] \cup prompt[u]) : PathsOverlap(disk, u, f)
  PROVE  BaseRun(disk)'
<1>1. /\ \A c \in Controllers : /\ LifecycleUnits(disk, c)' = LifecycleUnits(disk, c)
                                /\ Seen(disk, c)' = Seen(disk, c)
      /\ \A u \in Units : \A f : PathsOverlap(disk, u, f)' <=> PathsOverlap(disk, u, f)
  <2>1. \A c \in Controllers : LifecycleUnits(disk, c)' = LifecycleUnits(disk, c)
    BY DEF LifecycleUnits, Present
  <2>2. \A c \in Controllers : Seen(disk, c)' = Seen(disk, c)
    BY DEF Seen
  <2>3. \A u \in Units : \A f : PathsOverlap(disk, u, f)' <=> PathsOverlap(disk, u, f)
    BY DEF PathsOverlap
  <2>4. QED
    BY <2>1, <2>2, <2>3
<1>2. RowsKept(disk)'
  BY DEF BaseRun, RowsKept, Units
<1>3. GoneCarries(disk)'
  BY DEF BaseRun, GoneCarries, Units
<1>4. MintedAlone(disk)'
  BY DEF BaseRun, MintedAlone, Units
<1>5. OnPaths(disk)'
  BY <1>1 DEF BaseRun, OnPaths
<1>6. ResultsSeen(disk)'
  <2>1. ASSUME NEW c \in Controllers, NEW u \in LifecycleUnits(disk, c)
        PROVE  /\ u \in Units
               /\ prompt'[u] \subseteq Seen(disk, c)
               /\ u \in Spares => disk'.rows[u].minted \in Seen(disk, c)
    BY DEF BaseRun, ResultsSeen, LifecycleUnits, Present
  <2>2. ASSUME NEW c \in Controllers
        PROVE  LET result == disk'.slots[c].result
               IN  result # Nothing => result.round \in 1..Len(emitted'[c])
                                       /\ result.blocking = emitted'[c][result.round]
    BY DEF BaseRun, ResultsSeen
  <2>3. QED
    BY <1>1, <2>1, <2>2 DEF ResultsSeen
<1>7. QED
  BY <1>2, <1>3, <1>4, <1>5, <1>6 DEF BaseRun

\* What the units have to carry out their repairs, however the command leaves the run.
LEMMA SavedBase ==
  ASSUME BaseRun(disk)', mem' = disk', OrphansGone(disk)', SentSeen(disk)', TodoOK', LandingOK',
         \A u \in Units : prompt'[u] # {} => u \in live'
  PROVE  BaseIInv'
BY DEF BaseIInv, OrphansGone, SentSeen, Seen, Alike

LEMMA InitBase ==
  ASSUME LoopInit
  PROVE  BaseIInv
<1> USE LoopAssumption DEF LoopInit
<1>1. \A u \in Units : disk.rows[u] = IF u \in Spares THEN Row("absent", Unscoped)
                                     ELSE Row(IF u \in Workers THEN "done" ELSE "running", Life[u])
  OBVIOUS
<1>2. \A u \in Units : /\ disk.rows[u].requests = {} /\ disk.rows[u].minted = Nothing
                       /\ disk.rows[u].status # "orphaned"
                       /\ disk.rows[u].status = "absent" <=> u \in Spares
                       /\ u \notin Spares => disk.rows[u].life = Life[u]
  BY <1>1 DEF Row
<1>3. \A c \in Controllers : disk.slots[c].result = Nothing /\ disk.slots[c].dispatched = {}
  BY DEF EmptySlot
<1>4. RowsKept(disk)
  BY <1>2 DEF RowsKept, Units
<1>5. OnPaths(disk) /\ GoneCarries(disk) /\ MintedAlone(disk)
  BY <1>2 DEF OnPaths, GoneCarries, MintedAlone, Units
<1>6. ResultsSeen(disk)
  BY <1>2, <1>3 DEF ResultsSeen, LifecycleUnits, Present
<1>7. OrphansGone(disk) /\ SentSeen(disk)
  BY <1>2, <1>3 DEF OrphansGone, SentSeen
<1>8. QED
  BY <1>4, <1>5, <1>6, <1>7 DEF BaseIInv, BaseRun, Alike, TodoOK, LandingOK, OrphansGone, SentSeen, Seen

\* The command stays where it is.
LEMMA CommandKept ==
  ASSUME BaseIInv, UNCHANGED <<mem, pc, ctl, todo, unit, repaired>>
  PROVE  TodoOK' /\ LandingOK'
<1>1. \A c : LifecycleUnits(mem, c)' = LifecycleUnits(mem, c) /\ Due(mem, c)' = Due(mem, c)
  BY DEF LifecycleUnits, Present, Due
<1>2. TodoOK' /\ LifecycleUnits(mem, ctl)' = LifecycleUnits(mem, ctl)
  BY <1>1 DEF BaseIInv, TodoOK, LifecycleUnits, Present, Due
<1>3. LandingOK'
  BY <1>1 DEF BaseIInv, LandingOK
<1>4. QED
  BY <1>2, <1>3

\* A step that leaves the run as it is, on disk and in memory.
LEMMA QuietBase ==
  ASSUME LoopIInv, BaseIInv, UNCHANGED <<disk, mem, emitted>>,
         live' \subseteq live,
         \A u \in (Workers \cap live) \ live' : disk.rows[u].requests # {} => u \in Mortal,
         \A u \in Units : prompt'[u] \subseteq prompt[u] /\ (prompt'[u] # {} => u \in live'),
         \A u \in Units : ahead'[u] \subseteq ahead[u] \cup prompt[u],
         pc' = pc \/ mem = disk,
         TodoOK', LandingOK'
  PROVE  BaseIInv'
<1>1. BaseRun(disk)'
  BY BaseKept DEF BaseIInv
<1>2. Alike'
  BY DEF BaseIInv, Alike
<1>3. /\ OrphansGone(disk)' /\ OrphansGone(mem)'
      /\ SentSeen(disk)' /\ SentSeen(mem)'
  BY DEF BaseIInv, OrphansGone, SentSeen, Seen
<1>4. QED
  BY <1>1, <1>2, <1>3 DEF BaseIInv

\* A command that ends leaves what it had in memory, or what was on disk.
LEMMA EndBase ==
  ASSUME LoopIInv, BaseIInv, UNCHANGED sessionVars,
         pc' = "idle", todo' = {}, mem' = disk',
         disk'.rows = mem.rows \/ disk' = disk,
         \A c \in Controllers : /\ disk'.slots[c].result = mem.slots[c].result
                                /\ \/ disk'.slots[c].dispatched = mem.slots[c].dispatched
                                   \/ disk' = disk
  PROVE  BaseIInv'
<1>1. /\ UNCHANGED <<live, prompt, ahead, emitted>>
      /\ AlikeRuns(mem, disk)
  BY MemBase DEF sessionVars
<1>2. /\ \A u \in Units : /\ disk'.rows[u].status = "absent" <=> disk.rows[u].status = "absent"
                          /\ disk'.rows[u].life = disk.rows[u].life
                          /\ disk'.rows[u].minted = disk.rows[u].minted
                          /\ disk'.rows[u].requests = disk.rows[u].requests
      /\ \A c \in Controllers : disk'.slots[c].result = disk.slots[c].result
  BY <1>1 DEF AlikeRuns, SameRequests
<1>3. BaseRun(disk)'
  BY <1>1, <1>2, BaseKept DEF BaseIInv
<1>4. OrphansGone(disk)'
  BY <1>1 DEF BaseIInv, OrphansGone
<1>5. SentSeen(disk)'
  BY <1>1, <1>2 DEF BaseIInv, SentSeen, Seen, AlikeRuns
<1>6. TodoOK' /\ LandingOK'
  BY DEF TodoOK, LandingOK
<1>7. \A u \in Units : prompt'[u] # {} => u \in live'
  BY <1>1 DEF BaseIInv
<1>8. QED
  BY <1>3, <1>4, <1>5, <1>6, <1>7, SavedBase

-----------------------------------------------------------------------------

\* A result that replaces another is of the same or a later round, so nothing seen is forgotten.
LEMMA IngestBase ==
  ASSUME LoopIInv, BaseIInv, NEW c \in Controllers, NEW n \in 1..Len(emitted[c]), Ingest(c, n)
  PROVE  BaseIInv'
<1>1. /\ mem' = disk' /\ disk'.rows = disk.rows
      /\ disk'.slots[c].result = [round |-> n, blocking |-> emitted[c][n]]
      /\ disk'.slots[c].dispatched = disk.slots[c].dispatched
      /\ \A d \in Controllers : d # c => disk'.slots[d] = disk.slots[d]
  BY IngestFacts
<1>2. /\ UNCHANGED <<live, prompt, ahead, emitted>>
      /\ pc = "idle" /\ pc' = "routing" /\ todo' = todo
  BY DEF Ingest, sessionVars
<1>3. /\ \A d : LifecycleUnits(disk, d)' = LifecycleUnits(disk, d)
      /\ \A u \in Units : \A f : PathsOverlap(disk, u, f)' <=> PathsOverlap(disk, u, f)
  BY <1>1 DEF LifecycleUnits, Present, PathsOverlap
<1>4. \A d \in Controllers : Seen(disk, d) \subseteq Seen(disk, d)'
  <2>1. CASE disk.slots[c].result = Nothing
    BY <1>1, <1>2, <2>1 DEF Seen
  <2>2. CASE disk.slots[c].result # Nothing
    <3>1. disk.slots[c].result.round \in 1..Len(emitted[c])
      BY <2>2 DEF BaseIInv, BaseRun, ResultsSeen
    <3>2. n \in Nat /\ n >= disk.slots[c].result.round
      BY <2>2, <3>1 DEF Ingest, Admitted
    <3>3. Nothing # [round |-> n, blocking |-> emitted[c][n]]
      <4>1. n \in Nat /\ emitted[c] \in Seq(SUBSET Findings)
        BY <3>2 DEF LoopIInv, SessionsOK
      <4>2. emitted[c][n] \in SUBSET Findings
        BY <4>1
      <4>3. QED
        BY <4>1, <4>2, LoopAssumption
    <3>4. \A k \in 1..disk.slots[c].result.round : k \in 1..n
      BY <3>1, <3>2
    <3>5. Seen(disk, c) \subseteq Seen(disk, c)'
      BY <1>1, <1>2, <2>2, <3>3, <3>4 DEF Seen
    <3>6. \A d \in Controllers : d # c => Seen(disk, d)' = Seen(disk, d)
      BY <1>1, <1>2 DEF Seen
    <3>7. QED
      BY <3>5, <3>6
  <2>3. QED
    BY <2>1, <2>2
<1>5. RowsKept(disk)' /\ GoneCarries(disk)' /\ MintedAlone(disk)' /\ OnPaths(disk)'
  BY <1>1, <1>2, <1>3 DEF BaseIInv, BaseRun, RowsKept, GoneCarries, MintedAlone, OnPaths
<1>6. ResultsSeen(disk)'
  <2>1. ASSUME NEW d \in Controllers
        PROVE  LET result == disk'.slots[d].result
               IN  result # Nothing => result.round \in 1..Len(emitted'[d])
                                       /\ result.blocking = emitted'[d][result.round]
    <3>1. CASE d = c
      BY <1>1, <1>2, <3>1
    <3>2. CASE d # c
      BY <1>1, <1>2, <3>2 DEF BaseIInv, BaseRun, ResultsSeen
    <3>3. QED
      BY <3>1, <3>2
  <2>2. ASSUME NEW d \in Controllers, NEW u \in LifecycleUnits(disk, d)'
        PROVE  /\ prompt'[u] \subseteq Seen(disk, d)'
               /\ u \in Spares => disk'.rows[u].minted \in Seen(disk, d)'
    BY <1>1, <1>2, <1>3, <1>4, <2>2 DEF BaseIInv, BaseRun, ResultsSeen
  <2>3. QED
    BY <2>1, <2>2 DEF ResultsSeen
<1>7. OrphansGone(disk)' /\ SentSeen(disk)'
  <2>1. \A d \in Controllers : disk'.slots[d].dispatched = disk.slots[d].dispatched
    BY <1>1
  <2>2. QED
    BY <1>1, <1>2, <1>4, <2>1 DEF BaseIInv, OrphansGone, SentSeen
<1>8. TodoOK' /\ LandingOK'
  BY <1>2 DEF BaseIInv, TodoOK, LandingOK
<1>9. \A u \in Units : prompt'[u] # {} => u \in live'
  BY <1>2 DEF BaseIInv
<1>10. QED
  BY <1>1, <1>5, <1>6, <1>7, <1>8, <1>9, SavedBase DEF BaseRun

\* A replacement is minted only when no live worker of the lifecycle has the path of the finding.
LEMMA RouteBase ==
  ASSUME LoopIInv, BaseIInv, Route
  PROVE  BaseIInv'
<1>1. /\ mem' = disk' /\ ctl \in Controllers /\ mem \in Runs /\ disk = mem
      /\ UNCHANGED <<live, prompt, ahead, emitted, repaired, ctl>>
      /\ BaseRun(mem) /\ OrphansGone(mem) /\ pc' = "sending"
      /\ \A d \in Controllers : /\ disk'.slots[d].result = mem.slots[d].result
                                /\ disk'.slots[d].dispatched = mem.slots[d].dispatched
  BY RouteFacts, MemBase DEF SlotRouted, Route, BaseIInv
<1>2. \A u \in LifecycleUnits(mem, ctl) : HolderRow(mem, ctl, u, mem.rows[u], disk'.rows[u])
  BY <1>1, RouteFacts
<1>3. \A u \in Units :
        \/ \E f \in Unheld(mem, ctl) :
             u \in Spares /\ MintedRow(mem, ctl, f, mem.rows[u], disk'.rows[u])
        \/ u \in LifecycleUnits(mem, ctl)
        \/ disk'.rows[u] = mem.rows[u]
  BY <1>1, RouteFacts
<1>4. ASSUME NEW u \in Units, mem.rows[u].status # "absent"
      PROVE  /\ disk'.rows[u].status = mem.rows[u].status
             /\ disk'.rows[u].life = mem.rows[u].life
             /\ disk'.rows[u].minted = mem.rows[u].minted
  BY <1>2, <1>3, <1>4 DEF MintedRow, HolderRow
<1>5. ASSUME NEW u \in Units, NEW f \in disk'.rows[u].requests, u \in LifecycleUnits(mem, ctl)
      PROVE  f \in mem.rows[u].requests \/ u \in Reusable(mem, ctl, f)
  <2>1. f \in mem.rows[u].requests \/ (f \in Due(mem, ctl) \ Unheld(mem, ctl) /\ Holder(mem, ctl, f) = u)
    BY <1>2, <1>5 DEF HolderRow
  <2>2. QED
    BY <2>1, HolderFacts DEF Assigned
<1>6. RowsKept(disk)'
  BY <1>1, <1>4 DEF BaseRun, RowsKept, Units
<1>7. OnPaths(disk)'
  <2>1. ASSUME NEW u \in Units, NEW f \in disk'.rows[u].requests \cup prompt[u] \cup ahead[u]
        PROVE  IF u \in Workers THEN f \in Touches[u] ELSE disk'.rows[u].minted = f
    <3>1. CASE mem.rows[u].status = "absent"
      <4>1. prompt[u] = {} /\ ahead[u] = {} /\ mem.rows[u].requests = {} /\ u \notin LifecycleUnits(mem, ctl)
        BY <3>1 DEF LoopIInv, RowsOK, LifecycleUnits, Present
      <4>2. QED
        BY <1>3, <2>1, <4>1, LoopAssumption DEF MintedRow
    <3>2. CASE mem.rows[u].status # "absent"
      <4>1. f \in mem.rows[u].requests \cup prompt[u] \cup ahead[u] \/ u \in Reusable(mem, ctl, f)
        BY <1>3, <1>5, <2>1, <3>2 DEF MintedRow
      <4>2. PathsOverlap(mem, u, f)
        BY <1>1, <4>1 DEF BaseRun, OnPaths, Reusable
      <4>3. QED
        BY <1>4, <3>2, <4>2 DEF PathsOverlap
    <3>3. QED
      BY <3>1, <3>2
  <2>2. QED
    BY <1>1, <2>1 DEF OnPaths, PathsOverlap
<1>8. GoneCarries(disk)'
  <2>1. ASSUME NEW u \in Workers \ live, disk'.rows[u].requests # {}
        PROVE  u \in Mortal
    <3>1. u \in Units /\ mem.rows[u].status # "absent"
      BY <1>1 DEF BaseRun, RowsKept, Units
    <3>2. mem.rows[u].requests # {}
      BY <1>3, <1>5, <2>1, <3>1 DEF MintedRow, Reusable
    <3>3. QED
      BY <1>1, <3>2 DEF BaseRun, GoneCarries
  <2>2. QED
    BY <1>1, <2>1 DEF GoneCarries
<1>9. MintedAlone(disk)'
  <2>1. ASSUME NEW s \in Spares, NEW w \in Workers \cap live,
               disk'.rows[s].status # "absent", disk'.rows[s].life = Life[w],
               disk'.rows[s].minted \in Touches[w]
        PROVE  FALSE
    <3>1. s \in Units /\ w \in Units /\ w \notin Controllers
      BY LoopAssumption DEF Units
    <3>2. CASE mem.rows[s].status = "absent"
      <4>1. PICK f \in Unheld(mem, ctl) : MintedRow(mem, ctl, f, mem.rows[s], disk'.rows[s])
        BY <1>3, <2>1, <3>1, <3>2 DEF LifecycleUnits, Present
      <4>2. w \in LifecycleUnits(mem, ctl)
        BY <1>1, <2>1, <3>1, <4>1 DEF MintedRow, LifecycleUnits, Present, BaseRun, RowsKept
      <4>3. w \in Reusable(mem, ctl, f)
        BY <1>1, <2>1, <3>1, <4>1, <4>2
           DEF Reusable, RoleWorkers, LifecycleUnits, Present, PathsOverlap, OrphansGone, MintedRow
      <4>4. QED
        BY <4>1, <4>3 DEF Unheld
    <3>3. CASE mem.rows[s].status # "absent"
      BY <1>1, <1>4, <2>1, <3>1, <3>3 DEF BaseRun, MintedAlone
    <3>4. QED
      BY <3>2, <3>3
  <2>2. QED
    BY <1>1, <2>1 DEF MintedAlone
<1>10. \A d \in Controllers : Seen(disk, d)' = Seen(mem, d)
  BY <1>1 DEF Seen
<1>11. ResultsSeen(disk)'
  <2>1. ASSUME NEW d \in Controllers, NEW u \in LifecycleUnits(disk, d)'
        PROVE  /\ prompt[u] \subseteq Seen(mem, d)
               /\ u \in Spares => disk'.rows[u].minted \in Seen(mem, d)
    <3>1. u \in Units /\ disk'.rows[u].status # "absent" /\ disk'.rows[u].life = Life[d]
      BY DEF LifecycleUnits, Present
    <3>2. CASE mem.rows[u].status = "absent"
      <4>1. PICK f \in Unheld(mem, ctl) : MintedRow(mem, ctl, f, mem.rows[u], disk'.rows[u])
        BY <1>3, <3>1, <3>2 DEF LifecycleUnits, Present
      <4>2. d = ctl /\ disk'.rows[u].minted = f /\ f \in Due(mem, ctl)
        BY <1>1, <3>1, <4>1, OneOwner DEF MintedRow, Unheld, Due
      <4>3. prompt[u] = {}
        BY <3>1, <3>2 DEF LoopIInv, RowsOK
      <4>4. QED
        BY <1>1, <4>2, <4>3, DueSeen
    <3>3. CASE mem.rows[u].status # "absent"
      BY <1>1, <1>4, <3>1, <3>3 DEF BaseRun, ResultsSeen, LifecycleUnits, Present
    <3>4. QED
      BY <3>2, <3>3
  <2>2. QED
    BY <1>1, <1>10, <2>1 DEF ResultsSeen, BaseRun
<1>12. OrphansGone(disk)'
  <2>1. ASSUME NEW u \in Units, disk'.rows[u].status = "orphaned"
        PROVE  mem.rows[u].status = "orphaned"
    BY <1>3, <1>4, <2>1 DEF MintedRow, LifecycleUnits, Present
  <2>2. QED
    BY <1>1, <2>1 DEF OrphansGone
<1>13. SentSeen(disk)'
  BY <1>1, <1>10 DEF BaseIInv, SentSeen
<1>14. LandingOK'
  BY <1>1 DEF LandingOK
<1>15. TodoOK'
  <2>1. ASSUME NEW u, NEW f, <<u, f>> \in todo'
        PROVE  f \in Due(mem, ctl) /\ u = Holder(mem, ctl, f) /\ u \in Reusable(mem, ctl, f)
    <3>1. PICK g \in {g \in Work(mem.slots[ctl].result) : Reusable(mem, ctl, g) # {}} :
            <<u, f>> = <<Holder(mem, ctl, g), g>>
      BY <2>1 DEF Route
    <3>2. g = f /\ u = Holder(mem, ctl, f)
      BY <3>1
    <3>3. f \in Due(mem, ctl) /\ Reusable(mem, ctl, f) # {}
      BY <3>1, <3>2 DEF Due
    <3>4. Holder(mem, ctl, f) \in Reusable(mem, ctl, f)
      BY <3>3 DEF Holder
    <3>5. QED
      BY <3>2, <3>3, <3>4
  <2>2. ASSUME NEW u \in Units, NEW f \in Findings, <<u, f>> \in todo'
        PROVE  /\ disk'.rows[u].status # "absent" /\ disk'.rows[u].life = Life[ctl]
               /\ f \in disk'.rows[u].requests
               /\ f \in Due(mem, ctl)
    <3>1. f \in Due(mem, ctl) /\ u = Holder(mem, ctl, f) /\ u \in Reusable(mem, ctl, f)
      BY <2>1, <2>2
    <3>2. u \in LifecycleUnits(mem, ctl) /\ f \notin Unheld(mem, ctl)
      BY <3>1 DEF Reusable, Unheld
    <3>3. mem.rows[u].status # "absent" /\ mem.rows[u].life = Life[ctl]
      BY <3>2 DEF LifecycleUnits, Present
    <3>4. f \in disk'.rows[u].requests
      BY <1>2, <3>1, <3>2 DEF HolderRow
    <3>5. QED
      BY <1>4, <3>1, <3>3, <3>4
  <2>3. QED
    BY <1>1, <2>2 DEF TodoOK, LifecycleUnits, Present, Due
<1>16. \A u \in Units : prompt'[u] # {} => u \in live'
  BY <1>1 DEF BaseIInv
<1>17. QED
  BY <1>1, <1>6, <1>7, <1>8, <1>9, <1>11, <1>12, <1>13, <1>14, <1>15, <1>16, SavedBase DEF BaseRun

LEMMA SendBase ==
  ASSUME LoopIInv, BaseIInv, NEW u \in Units, NEW f \in Findings, Send(u, f)
  PROVE  BaseIInv'
<1>1. /\ <<u, f>> \in todo /\ todo' = todo \ {<<u, f>>} /\ pc = "sending" /\ pc' = pc /\ ctl' = ctl
      /\ disk' = disk /\ UNCHANGED <<live, ahead, emitted>>
      /\ ctl \in Controllers
  BY DEF Send, LoopIInv, CommandOK
<1>2. LandingOK'
  BY <1>1 DEF LandingOK
<1>3. CASE mem' = mem /\ prompt' = prompt
  <2>1. /\ LifecycleUnits(mem, ctl)' = LifecycleUnits(mem, ctl)
        /\ Due(mem, ctl)' = Due(mem, ctl)
    BY <1>1, <1>3 DEF LifecycleUnits, Present, Due
  <2>2. TodoOK'
    BY <1>1, <1>3, <2>1 DEF BaseIInv, TodoOK
  <2>3. QED
    BY <1>1, <1>2, <1>3, <2>2, QuietBase DEF BaseIInv
<1>4. CASE Deliver(u, f)
  <2>1. /\ SameRequests(mem', mem)
        /\ \A v \in Units : mem'.rows[v].status = IF v = u THEN "running" ELSE mem.rows[v].status
        /\ \A d \in Controllers : mem'.slots[d].result = mem.slots[d].result
        /\ mem'.slots[ctl].dispatched = mem.slots[ctl].dispatched \cup {f}
        /\ \A d \in Controllers : d # ctl => mem'.slots[d] = mem.slots[d]
    BY <1>4, DeliverFacts
  <2>2. /\ u \in LifecycleUnits(mem, ctl) /\ f \in mem.rows[u].requests /\ f \in Due(mem, ctl)
        /\ u \in Units /\ mem.rows[u].status # "absent" /\ mem.rows[u].life = Life[ctl]
    BY <1>1 DEF BaseIInv, TodoOK, LifecycleUnits, Present
  <2>3. AlikeRuns(mem', mem)
    BY <2>1, <2>2 DEF AlikeRuns
  <2>4. BaseRun(mem) /\ AlikeRuns(mem, disk) /\ mem \in Runs
    BY MemBase
  <2>5. /\ \A c \in Controllers : /\ LifecycleUnits(mem', c) = LifecycleUnits(mem, c)
                                  /\ Due(mem', c) = Due(mem, c)
        /\ \A c \in Controllers : LifecycleUnits(mem, c) = LifecycleUnits(disk, c)
                                  /\ Seen(mem, c) = Seen(disk, c)
        /\ \A v \in Units : \A g : PathsOverlap(mem, v, g) <=> PathsOverlap(disk, v, g)
    BY <2>3, <2>4, AlikeFacts
  <2>6. f \in Seen(mem, ctl) /\ PathsOverlap(mem, u, f)
    BY <1>1, <2>2, <2>4, DueSeen DEF BaseRun, OnPaths
  <2>7. \A v \in Units : prompt'[v] = IF v = u THEN prompt[u] \cup {f} ELSE prompt[v]
    BY <1>4 DEF Deliver, LoopIInv, SessionsOK
  <2>8. ASSUME NEW c \in Controllers, u \in LifecycleUnits(disk, c)
        PROVE  c = ctl
    BY <1>1, <2>2, <2>5, <2>8, OneOwner DEF LifecycleUnits, Present
  <2>9. BaseRun(disk)'
    BY <1>1, <2>5, <2>6, <2>7, <2>8, BaseKept DEF BaseIInv
  <2>10. OrphansGone(mem)' /\ OrphansGone(disk)'
    BY <1>1, <2>1 DEF BaseIInv, OrphansGone
  <2>11. SentSeen(disk)'
    BY <1>1 DEF BaseIInv, SentSeen, Seen
  <2>12. \A c \in Controllers : Seen(mem, c)' = Seen(mem, c)
    BY <1>1, <2>1 DEF Seen
  <2>13. SentSeen(mem)'
    BY <1>1, <2>1, <2>6, <2>12 DEF BaseIInv, SentSeen
  <2>14. Alike'
    BY <1>1, <2>1, <2>2, <2>4 DEF Alike, AlikeRuns
  <2>15. LifecycleUnits(mem, ctl)' = LifecycleUnits(mem, ctl) /\ Due(mem, ctl)' = Due(mem, ctl)
    <3>1. LifecycleUnits(mem', ctl) = LifecycleUnits(mem, ctl) /\ Due(mem', ctl) = Due(mem, ctl)
      BY <1>1, <2>5
    <3>2. QED
      BY <1>1, <3>1 DEF LifecycleUnits, Present, Due
  <2>16. TodoOK'
    BY <1>1, <2>1, <2>15 DEF BaseIInv, TodoOK, SameRequests
  <2>17. \A v \in Units : prompt'[v] # {} => v \in live'
    BY <1>1, <1>4, <2>7 DEF BaseIInv, Deliver
  <2>18. QED
    BY <1>2, <2>9, <2>10, <2>11, <2>13, <2>14, <2>16, <2>17 DEF BaseIInv
<1>5. QED
  BY <1>3, <1>4 DEF Send, Skip, Withhold

LEMMA GoBase ==
  ASSUME LoopIInv, BaseIInv, NEW c \in Controllers, NEW u \in Spares, Go(c, u)
  PROVE  BaseIInv'
<1>1. /\ mem' = disk' /\ SameRequests(disk', disk) /\ disk'.slots = disk.slots
      /\ \A v \in Units : disk'.rows[v].status = IF v = u THEN "running" ELSE disk.rows[v].status
      /\ u \in Units /\ disk.rows[u].status = "pending"
      /\ live' = live \cup {u}
      /\ \A v \in Units : prompt'[v] = IF v = u THEN {disk.rows[u].minted} ELSE prompt[v]
  BY GoFacts
<1>2. UNCHANGED <<ahead, emitted>> /\ pc = "idle" /\ pc' = pc /\ todo' = todo
  BY DEF Go, commandVars
<1>3. u \notin Workers
  BY LoopAssumption
<1>4. BaseRun(disk)'
  <2>1. \A v \in Units : \A f \in prompt'[v] \ prompt[v] :
          /\ PathsOverlap(disk, v, f)
          /\ \A d \in Controllers : v \in LifecycleUnits(disk, d) => f \in Seen(disk, d)
    BY <1>1, <1>3 DEF PathsOverlap, BaseIInv, BaseRun, ResultsSeen
  <2>2. QED
    BY <1>1, <1>2, <1>3, <2>1, BaseKept DEF SameRequests, BaseIInv
<1>5. OrphansGone(disk)'
  BY <1>1 DEF BaseIInv, OrphansGone
<1>6. SentSeen(disk)'
  BY <1>1, <1>2 DEF BaseIInv, SentSeen, Seen
<1>7. TodoOK' /\ LandingOK'
  BY <1>2 DEF BaseIInv, TodoOK, LandingOK
<1>8. \A v \in Units : prompt'[v] # {} => v \in live'
  BY <1>1 DEF BaseIInv
<1>9. QED
  BY <1>1, <1>4, <1>5, <1>6, <1>7, <1>8, SavedBase

LEMMA SettleBase ==
  ASSUME LoopIInv, BaseIInv, NEW u \in Units, Settle(u)
  PROVE  BaseIInv'
<1>1. /\ mem' = disk' /\ SameRequests(disk', disk) /\ disk'.slots = disk.slots
      /\ disk.rows[u].status = "running" /\ disk'.rows[u].status # "absent"
      /\ \A v \in Units : v # u => disk'.rows[v].status = disk.rows[v].status
      /\ disk'.rows[u].status = "orphaned" => u \notin live
  BY SettleFacts
<1>2. UNCHANGED <<live, prompt, ahead, emitted>> /\ pc = "idle" /\ pc' = pc /\ todo' = todo
  BY DEF Settle, commandVars, sessionVars
<1>3. BaseRun(disk)'
  BY <1>1, <1>2, BaseKept DEF SameRequests, BaseIInv
<1>4. OrphansGone(disk)'
  BY <1>1, <1>2 DEF BaseIInv, OrphansGone
<1>5. SentSeen(disk)'
  BY <1>1, <1>2 DEF BaseIInv, SentSeen, Seen
<1>6. TodoOK' /\ LandingOK'
  BY <1>2 DEF BaseIInv, TodoOK, LandingOK
<1>7. \A v \in Units : prompt'[v] # {} => v \in live'
  BY <1>2 DEF BaseIInv
<1>8. QED
  BY <1>1, <1>3, <1>4, <1>5, <1>6, <1>7, SavedBase

\* A unit whose paths overlap one finding has that finding's commit ahead, and its request.
LEMMA AdvanceBase ==
  ASSUME LoopIInv, BaseIInv, NEW u \in Workers \cup Spares, Advance(u)
  PROVE  BaseIInv'
<1>1. /\ pc = "merging" /\ pc' = "landing" /\ unit' = u /\ ahead[u] # {}
      /\ UNCHANGED <<disk, mem, emitted, live, prompt, todo>>
      /\ mem.rows[u].status = "done" /\ u \in Units
      /\ \A v \in Units : ahead'[v] \subseteq ahead[v]
      /\ \A c \in Controllers :
           repaired'[c] = repaired[c] \cup (IF mem.rows[u].life = Life[c] THEN ahead[u] ELSE {})
  BY DEF Advance, runVars, LoopIInv, SessionsOK, Units
<1>2. BaseRun(mem) /\ mem = disk
  BY <1>1, MemBase
<1>3. TodoOK'
  BY <1>1 DEF BaseIInv, TodoOK
<1>4. LandingOK'
  <2>1. ASSUME NEW c \in Controllers, u \in LifecycleUnits(mem, c), u \in Single \cup Spares,
               NEW f \in mem.rows[u].requests
        PROVE  f \in repaired'[c]
    <3>1. PICK g \in ahead[u] : PathsOverlap(mem, u, g) /\ PathsOverlap(mem, u, f)
      BY <1>1, <1>2 DEF BaseRun, OnPaths
    <3>2. f = g
      BY <2>1, <3>1, LoopAssumption DEF PathsOverlap, Single
    <3>3. mem.rows[u].life = Life[c]
      BY <2>1 DEF LifecycleUnits
    <3>4. QED
      BY <1>1, <3>1, <3>2, <3>3
  <2>2. \A c \in Controllers : LifecycleUnits(mem, c)' = LifecycleUnits(mem, c)
    BY <1>1 DEF LifecycleUnits, Present
  <2>3. QED
    BY <1>1, <2>1, <2>2 DEF LandingOK
<1>5. \A v \in Units : prompt'[v] # {} => v \in live'
  BY <1>1 DEF BaseIInv
<1>6. QED
  BY <1>1, <1>2, <1>3, <1>4, <1>5, QuietBase

LEMMA LandBase ==
  ASSUME LoopIInv, BaseIInv, LandUnit
  PROVE  BaseIInv'
<1>1. /\ mem' = disk' /\ unit \in Units /\ disk'.slots = mem.slots
      /\ \A u \in Units : /\ disk'.rows[u].status = mem.rows[u].status
                          /\ disk'.rows[u].life = mem.rows[u].life
                          /\ disk'.rows[u].minted = mem.rows[u].minted
                          /\ disk'.rows[u].requests = IF u = unit THEN {} ELSE mem.rows[u].requests
  BY LandFacts
<1>2. /\ UNCHANGED <<live, prompt, ahead, emitted>>
      /\ pc = "landing" /\ pc' = "merging" /\ todo' = todo /\ mem = disk
  BY MemBase DEF LandUnit, sessionVars
<1>3. BaseRun(disk)'
  BY <1>1, <1>2, BaseKept DEF BaseIInv
<1>4. OrphansGone(disk)'
  BY <1>1, <1>2 DEF BaseIInv, OrphansGone
<1>5. SentSeen(disk)'
  BY <1>1, <1>2 DEF BaseIInv, SentSeen, Seen
<1>6. TodoOK' /\ LandingOK'
  BY <1>2 DEF BaseIInv, TodoOK, LandingOK
<1>7. \A v \in Units : prompt'[v] # {} => v \in live'
  BY <1>2 DEF BaseIInv
<1>8. QED
  BY <1>1, <1>3, <1>4, <1>5, <1>6, <1>7, SavedBase

LEMMA ResubmitBase ==
  ASSUME LoopIInv, BaseIInv, NEW c \in Controllers, Resubmit(c)
  PROVE  BaseIInv'
<1>1. /\ disk' = disk /\ SameRequests(mem', mem) /\ c \in Units
      /\ \A v \in Units : mem'.rows[v].status = IF v = c THEN "running" ELSE mem.rows[v].status
      /\ \A d \in Controllers : /\ mem'.slots[d].result = mem.slots[d].result
                                /\ mem'.slots[d].dispatched = mem.slots[d].dispatched
  BY ResubmitFacts
<1>2. /\ UNCHANGED <<live, prompt, ahead, emitted>>
      /\ pc = "resubmitting" /\ pc' = pc /\ todo' = todo
  BY DEF Resubmit, commandVars
<1>3. mem.rows[c].status # "absent" /\ AlikeRuns(mem, disk) /\ BaseRun(mem)
  BY MemBase DEF BaseRun, RowsKept
<1>4. BaseRun(disk)'
  BY <1>1, <1>2, BaseKept DEF BaseIInv
<1>5. OrphansGone(disk)' /\ OrphansGone(mem)'
  BY <1>1, <1>2 DEF BaseIInv, OrphansGone
<1>6. SentSeen(disk)' /\ SentSeen(mem)'
  BY <1>1, <1>2 DEF BaseIInv, SentSeen, Seen
<1>7. Alike'
  BY <1>1, <1>2, <1>3 DEF Alike, AlikeRuns
<1>8. TodoOK' /\ LandingOK'
  BY <1>2 DEF BaseIInv, TodoOK, LandingOK
<1>9. \A v \in Units : prompt'[v] # {} => v \in live'
  BY <1>2 DEF BaseIInv
<1>10. QED
  BY <1>4, <1>5, <1>6, <1>7, <1>8, <1>9 DEF BaseIInv

\* A result that is written later changes no earlier one.
LEMMA EmitFacts ==
  ASSUME LoopIInv, NEW c \in Controllers, Emit(c)
  PROVE  /\ UNCHANGED <<disk, mem, pc, ctl, todo, unit, withheld, live, prompt, ahead, repaired>>
         /\ \A d \in Controllers :
              /\ emitted[d] \in Seq(SUBSET Findings) /\ emitted'[d] \in Seq(SUBSET Findings)
              /\ Len(emitted'[d]) = IF d = c THEN Len(emitted[d]) + 1 ELSE Len(emitted[d])
              /\ \A k \in 1..Len(emitted[d]) : emitted'[d][k] = emitted[d][k]
         /\ ~Recurring => \A k \in 1..Len(emitted[c]) :
              emitted'[c][Len(emitted[c]) + 1] \cap emitted[c][k] = {}
<1>1. PICK blocking \in SUBSET (Reviews[c] \ (IF Recurring THEN {} ELSE Blocked(c))) :
        emitted' = [emitted EXCEPT ![c] = Append(@, blocking)]
  BY DEF Emit
<1>2. emitted \in [Controllers -> Seq(SUBSET Findings)] /\ blocking \in SUBSET Findings
  BY LoopAssumption DEF LoopIInv, SessionsOK
<1>3. \A d \in Controllers : emitted'[d] = IF d = c THEN Append(emitted[c], blocking) ELSE emitted[d]
  BY <1>1, <1>2
<1>4. emitted[c] \in Seq(SUBSET Findings)
  BY <1>2
<1>5. /\ Append(emitted[c], blocking) \in Seq(SUBSET Findings)
      /\ Len(Append(emitted[c], blocking)) = Len(emitted[c]) + 1
      /\ \A k \in 1..Len(emitted[c]) : Append(emitted[c], blocking)[k] = emitted[c][k]
      /\ Append(emitted[c], blocking)[Len(emitted[c]) + 1] = blocking
  BY <1>2, <1>4
<1>6. \A k \in 1..Len(emitted[c]) : emitted[c][k] \subseteq Blocked(c)
  BY <1>4 DEF Blocked, Range
<1>7. ~Recurring => \A k \in 1..Len(emitted[c]) : blocking \cap emitted[c][k] = {}
  BY <1>1, <1>6
<1>8. QED
  BY <1>2, <1>3, <1>5, <1>7 DEF Emit, runVars, commandVars, history

LEMMA EmitBase ==
  ASSUME LoopIInv, BaseIInv, NEW c \in Controllers, Emit(c)
  PROVE  BaseIInv'
<1>1. /\ UNCHANGED <<disk, mem, pc, ctl, todo, unit, withheld, live, prompt, ahead, repaired>>
      /\ \A d \in Controllers :
              /\ Len(emitted[d]) \in Nat
              /\ Len(emitted'[d]) \in {Len(emitted[d]), Len(emitted[d]) + 1}
              /\ \A k \in 1..Len(emitted[d]) : emitted'[d][k] = emitted[d][k]
  BY EmitFacts
<1>2. ASSUME NEW d \in Controllers, disk.slots[d].result # Nothing
      PROVE  LET result == disk.slots[d].result
             IN  /\ result.round \in 1..Len(emitted[d])
                 /\ result.round \in 1..Len(emitted'[d])
                 /\ result.blocking = emitted'[d][result.round]
                 /\ \A k \in 1..result.round : emitted'[d][k] = emitted[d][k]
  <2>1. /\ disk.slots[d].result.round \in 1..Len(emitted[d])
        /\ disk.slots[d].result.blocking = emitted[d][disk.slots[d].result.round]
    BY <1>2 DEF BaseIInv, BaseRun, ResultsSeen
  <2>2. QED
    BY <1>1, <2>1
<1>3. \A d \in Controllers : disk.slots[d].result = mem.slots[d].result
  BY DEF BaseIInv, Alike
<1>4. \A d \in Controllers : Seen(disk, d)' = Seen(disk, d)
  <2>1. ASSUME NEW d \in Controllers, disk.slots[d].result # Nothing
        PROVE  UNION {emitted'[d][k] : k \in 1..disk.slots[d].result.round}
                 = UNION {emitted[d][k] : k \in 1..disk.slots[d].result.round}
    BY <1>2, <2>1
  <2>2. QED
    BY <1>1, <2>1 DEF Seen
<1>5. \A d \in Controllers : Seen(mem, d)' = Seen(mem, d)
  <2>1. \A d \in Controllers : Seen(mem, d)' = Seen(disk, d)' /\ Seen(mem, d) = Seen(disk, d)
    BY <1>1, <1>3 DEF Seen
  <2>2. QED
    BY <1>4, <2>1
<1>6. RowsKept(disk)' /\ GoneCarries(disk)' /\ MintedAlone(disk)' /\ OnPaths(disk)'
  BY <1>1 DEF BaseIInv, BaseRun, RowsKept, GoneCarries, MintedAlone, OnPaths, PathsOverlap
<1>7. ResultsSeen(disk)'
  <2>1. \A d : LifecycleUnits(disk, d)' = LifecycleUnits(disk, d)
    BY <1>1 DEF LifecycleUnits, Present
  <2>2. QED
    BY <1>1, <1>2, <1>4, <2>1 DEF BaseIInv, BaseRun, ResultsSeen
<1>8. /\ OrphansGone(disk)' /\ OrphansGone(mem)'
      /\ SentSeen(disk)' /\ SentSeen(mem)'
  BY <1>1, <1>4, <1>5 DEF BaseIInv, OrphansGone, SentSeen
<1>9. Alike' /\ TodoOK' /\ LandingOK'
  BY <1>1, CommandKept DEF BaseIInv, Alike
<1>10. \A v \in Units : prompt'[v] # {} => v \in live'
  BY <1>1 DEF BaseIInv
<1>11. QED
  BY <1>6, <1>7, <1>8, <1>9, <1>10 DEF BaseIInv, BaseRun

LEMMA CommandBase ==
  ASSUME LoopIInv, BaseIInv,
         \/ FinishRouting \/ EndMerge \/ Crash \/ StartMerge \/ EndTurns
         \/ \E u \in Units, f \in Findings : SendFails(u, f)
  PROVE  BaseIInv'
<1>1. CASE FinishRouting
  <2>1. /\ mem' = disk' /\ disk'.rows = mem.rows
        /\ \A c \in Controllers : /\ disk'.slots[c].result = mem.slots[c].result
                                  /\ disk'.slots[c].dispatched = mem.slots[c].dispatched
    BY <1>1, FinishFacts
  <2>2. QED
    BY <1>1, <2>1, EndBase DEF FinishRouting, EndCommand
<1>2. CASE EndMerge \/ \E u \in Units, f \in Findings : SendFails(u, f)
  <2>1. EndCommand(mem) /\ UNCHANGED sessionVars
    BY <1>2 DEF EndMerge, SendFails
  <2>2. QED
    BY <2>1, EndBase DEF EndCommand
<1>3. CASE Crash
  <2>1. EndCommand(disk) /\ UNCHANGED sessionVars
    BY <1>3 DEF Crash
  <2>2. \A c \in Controllers : disk.slots[c].result = mem.slots[c].result
    BY DEF BaseIInv, Alike
  <2>3. QED
    BY <2>1, <2>2, EndBase DEF EndCommand
<1>4. CASE StartMerge \/ EndTurns
  <2>1. /\ UNCHANGED <<disk, mem, emitted, live, prompt, ahead, todo>>
        /\ pc \in {"idle", "merging"} /\ pc' \in {"merging", "resubmitting"}
    BY <1>4 DEF StartMerge, EndTurns, runVars, sessionVars
  <2>2. mem = disk /\ TodoOK' /\ LandingOK'
    BY <2>1 DEF BaseIInv, Alike, TodoOK, LandingOK
  <2>3. QED
    BY <2>1, <2>2, QuietBase DEF BaseIInv
<1>5. QED
  BY <1>1, <1>2, <1>3, <1>4

LEMMA SessionBase ==
  ASSUME LoopIInv, BaseIInv, NEW u \in Units,
         Dies(u) \/ (u \in Makers /\ Clean(u)) \/ \E f \in Findings : Commit(u, f)
  PROVE  BaseIInv'
<1>1. UNCHANGED <<disk, mem, emitted, pc, ctl, todo, unit, repaired>>
  BY DEF Dies, Clean, Commit, runVars, commandVars, history
<1>2. TodoOK' /\ LandingOK'
  BY <1>1, CommandKept
<1>3. CASE Dies(u) \/ Clean(u)
  <2>1. /\ live' = live \ {u} /\ ahead' = ahead
        /\ \A v \in Units : prompt'[v] = IF v = u THEN {} ELSE prompt[v]
        /\ u \in Mortal \/ disk.rows[u].requests = {}
    BY <1>3 DEF Dies, Clean, LoopIInv, SessionsOK
  <2>2. QED
    BY <1>1, <1>2, <2>1, QuietBase DEF BaseIInv
<1>4. CASE \E f \in Findings : Commit(u, f)
  <2>1. PICK f \in Findings : Commit(u, f)
    BY <1>4
  <2>2. /\ live' = live /\ u \in live /\ f \in prompt[u]
        /\ \A v \in Units : prompt'[v] \subseteq prompt[v]
        /\ \A v \in Units : ahead'[v] \subseteq ahead[v] \cup prompt[v]
    BY <2>1 DEF Commit, LoopIInv, SessionsOK
  <2>3. QED
    BY <1>1, <1>2, <2>2, QuietBase DEF BaseIInv
<1>5. QED
  BY <1>3, <1>4

LEMMA BaseStep ==
  ASSUME LoopIInv, BaseIInv, [LoopNext]_loopVars
  PROVE  BaseIInv'
<1>1. ASSUME NEW c \in Controllers,
             \/ \E n \in 1..Len(emitted[c]) : Ingest(c, n)
             \/ \E u \in Spares : Go(c, u)
             \/ Resubmit(c) \/ Emit(c)
      PROVE  BaseIInv'
  BY <1>1, IngestBase, GoBase, ResubmitBase, EmitBase
<1>2. CASE Route \/ LandUnit
  BY <1>2, RouteBase, LandBase
<1>3. ASSUME NEW u \in Units, NEW f \in Findings, Send(u, f) \/ SendFails(u, f) \/ Commit(u, f)
      PROVE  BaseIInv'
  BY <1>3, SendBase, CommandBase, SessionBase
<1>4. ASSUME NEW u \in Units, Settle(u) \/ Dies(u)
      PROVE  BaseIInv'
  BY <1>4, SettleBase, SessionBase
<1>5. ASSUME NEW u \in Workers \cup Spares, Clean(u) \/ Advance(u)
      PROVE  BaseIInv'
  BY <1>5, AdvanceBase, SessionBase DEF Units, Makers
<1>6. CASE FinishRouting \/ StartMerge \/ EndTurns \/ EndMerge \/ Crash
  BY <1>6, CommandBase
<1>7. CASE UNCHANGED loopVars
  <2>1. UNCHANGED <<disk, mem, emitted, live, prompt, ahead, pc, ctl, todo, unit, repaired>>
    BY <1>7 DEF loopVars, runVars, commandVars, sessionVars, history
  <2>2. QED
    BY <2>1, CommandKept, QuietBase DEF BaseIInv
<1>8. QED
  BY <1>1, <1>2, <1>3, <1>4, <1>5, <1>6, <1>7 DEF LoopNext

LEMMA BaseHolds == LoopSpec => [](LoopIInv /\ BaseIInv)
<1>1. LoopInit => LoopIInv /\ BaseIInv
  BY InitHolds, InitBase
<1>2. LoopIInv /\ BaseIInv /\ [LoopNext]_loopVars => LoopIInv' /\ BaseIInv'
  BY StepHolds, BaseStep
<1>3. QED
  BY <1>1, <1>2, PTL DEF LoopSpec

-----------------------------------------------------------------------------
(***************************************************************************)
(* What a controller waits for.                                            *)
(***************************************************************************)
LEMMA OwedInit ==
  ASSUME LoopInit
  PROVE  OwedIInv
<1>1. \A c \in Controllers : disk.slots[c].pending = FALSE /\ mem = disk
  BY DEF LoopInit, EmptySlot
<1>2. QED
  BY <1>1 DEF LoopInit, OwedIInv, PendingOwed

\* A step that takes no request and no repair away.
LEMMA OwedKept ==
  ASSUME OwedIInv,
         \A u \in Units : /\ disk'.rows[u].status = "absent" <=> disk.rows[u].status = "absent"
                          /\ disk'.rows[u].life = disk.rows[u].life
                          /\ disk'.rows[u].requests = disk.rows[u].requests,
         \A c \in Controllers : /\ disk'.slots[c].result = disk.slots[c].result
                                /\ disk'.slots[c].pending => disk.slots[c].pending
                                /\ mem'.slots[c].pending => disk'.slots[c].pending
                                /\ repaired[c] \subseteq repaired'[c],
         pc # "routing" \/ (pc' = pc /\ ctl' = ctl),
         reviewing' \in [Controllers -> BOOLEAN], kills' \in Nat
  PROVE  OwedIInv'
<1>1. ASSUME NEW c \in Controllers, Owed(disk, c)
      PROVE  Owed(disk, c)'
  <2>1. LifecycleUnits(disk, c)' = LifecycleUnits(disk, c) /\ Due(disk, c)' = Due(disk, c)
    BY DEF LifecycleUnits, Present, Due
  <2>2. QED
    BY <1>1, <2>1 DEF Owed, LifecycleUnits, Present
<1>2. PendingOwed(disk)'
  BY <1>1 DEF OwedIInv, PendingOwed
<1>3. QED
  BY <1>2 DEF OwedIInv

LEMMA IngestOwed ==
  ASSUME LoopIInv, OwedIInv, NEW c \in Controllers, NEW n \in 1..Len(emitted[c]), Ingest(c, n)
  PROVE  OwedIInv'
<1>1. /\ mem' = disk' /\ disk'.rows = disk.rows
      /\ \A d \in Controllers : d # c => disk'.slots[d] = disk.slots[d]
  BY IngestFacts
<1>2. /\ pc = "idle" /\ pc' = "routing" /\ ctl' = c /\ reviewing' = reviewing /\ kills' = kills
      /\ \A d \in Controllers : d # c => repaired'[d] = repaired[d]
  BY DEF Ingest, sessionVars
<1>3. ASSUME NEW d \in Controllers, d # c, Owed(disk, d)
      PROVE  Owed(disk, d)'
  BY <1>1, <1>2, <1>3 DEF Owed, LifecycleUnits, Present, Due
<1>4. PendingOwed(disk)'
  BY <1>1, <1>2, <1>3 DEF OwedIInv, PendingOwed
<1>5. QED
  BY <1>1, <1>2, <1>4 DEF OwedIInv

\* Routing a result parks every repair of it, and touches no other lifecycle.
LEMMA RouteOwed ==
  ASSUME LoopIInv, BaseIInv, OwedIInv, Route
  PROVE  OwedIInv'
<1>1. /\ mem' = disk' /\ ctl \in Controllers /\ mem \in Runs /\ mem = disk
      /\ repaired' = repaired /\ pc' = "sending" /\ ctl' = ctl
      /\ \A d \in Controllers : SlotRouted(mem, ctl, d, mem.slots[d], disk'.slots[d])
  BY RouteFacts, MemBase DEF Route
<1>2. \A u \in LifecycleUnits(mem, ctl) : HolderRow(mem, ctl, u, mem.rows[u], disk'.rows[u])
  BY <1>1, RouteFacts
<1>3. \A u \in Units :
        \/ \E f \in Unheld(mem, ctl) :
             u \in Spares /\ MintedRow(mem, ctl, f, mem.rows[u], disk'.rows[u])
        \/ u \in LifecycleUnits(mem, ctl)
        \/ disk'.rows[u] = mem.rows[u]
  BY <1>1, RouteFacts
<1>4. \A f \in Unheld(mem, ctl) : \E s \in Spares :
         MintedRow(mem, ctl, f, mem.rows[s], disk'.rows[s])
  BY <1>1, RouteFacts
<1>5. \A d \in Controllers : Due(disk, d)' = Due(mem, d)
  BY <1>1 DEF SlotRouted, Due
<1>6. ASSUME NEW f \in Due(mem, ctl)
      PROVE  \E u \in LifecycleUnits(disk, ctl)' : f \in disk'.rows[u].requests
  <2>1. CASE f \in Unheld(mem, ctl)
    <3>1. PICK s \in Spares : MintedRow(mem, ctl, f, mem.rows[s], disk'.rows[s])
      BY <1>4, <2>1
    <3>2. QED
      BY <1>1, <3>1 DEF MintedRow, LifecycleUnits, Present, Units
  <2>2. CASE f \notin Unheld(mem, ctl)
    <3>1. Holder(mem, ctl, f) \in LifecycleUnits(mem, ctl)
      BY <1>6, <2>2, HolderFacts
    <3>2. /\ disk'.rows[Holder(mem, ctl, f)].status = mem.rows[Holder(mem, ctl, f)].status
          /\ disk'.rows[Holder(mem, ctl, f)].life = mem.rows[Holder(mem, ctl, f)].life
          /\ f \in disk'.rows[Holder(mem, ctl, f)].requests
      BY <1>2, <1>6, <2>2, <3>1 DEF HolderRow
    <3>3. Holder(mem, ctl, f) \in LifecycleUnits(disk, ctl)'
      BY <1>1, <3>1, <3>2 DEF LifecycleUnits, Present
    <3>4. QED
      BY <3>2, <3>3
  <2>3. QED
    BY <2>1, <2>2
<1>7. ASSUME NEW d \in Controllers, d # ctl, Owed(disk, d)
      PROVE  Owed(disk, d)'
  <2>1. ASSUME NEW u \in LifecycleUnits(mem, d)
        PROVE  disk'.rows[u] = mem.rows[u] /\ u \in LifecycleUnits(disk, d)'
    <3>1. u \in Units /\ mem.rows[u].status # "absent" /\ mem.rows[u].life = Life[d]
      BY DEF LifecycleUnits, Present
    <3>2. u \notin LifecycleUnits(mem, ctl)
      BY <1>1, <1>7, <3>1, OneOwner DEF LifecycleUnits
    <3>3. disk'.rows[u] = mem.rows[u]
      BY <1>3, <3>1, <3>2 DEF MintedRow
    <3>4. QED
      BY <3>1, <3>3 DEF LifecycleUnits, Present
  <2>2. QED
    BY <1>1, <1>5, <1>7, <2>1 DEF Owed
<1>8. PendingOwed(disk)'
  <2>1. ASSUME NEW d \in Controllers, disk'.slots[d].pending
        PROVE  Owed(disk, d)'
    <3>1. CASE d = ctl
      BY <1>1, <1>5, <1>6, <3>1 DEF Owed
    <3>2. CASE d # ctl
      BY <1>1, <1>7, <2>1, <3>2 DEF OwedIInv, PendingOwed, SlotRouted
    <3>3. QED
      BY <3>1, <3>2
  <2>2. QED
    BY <2>1 DEF PendingOwed
<1>9. QED
  BY <1>1, <1>8 DEF OwedIInv, Route, sessionVars, history

\* A worker that can carry one repair only lands with the one it carries.
LEMMA LandOwed ==
  ASSUME LoopIInv, BaseIInv, OwedIInv, LandUnit, Workers \subseteq Single
  PROVE  OwedIInv'
<1>1. /\ mem' = disk' /\ unit \in Makers /\ disk'.slots = mem.slots
      /\ \A u \in Units : /\ disk'.rows[u].status = mem.rows[u].status
                          /\ disk'.rows[u].life = mem.rows[u].life
                          /\ disk'.rows[u].requests = IF u = unit THEN {} ELSE mem.rows[u].requests
  BY LandFacts
<1>2. /\ pc = "landing" /\ mem = disk
      /\ UNCHANGED <<repaired, kills, reviewing>>
  BY MemBase DEF LandUnit, sessionVars, history
<1>3. \A c \in Controllers : unit \in LifecycleUnits(mem, c) => mem.rows[unit].requests \subseteq repaired[c]
  BY <1>1, <1>2 DEF BaseIInv, LandingOK, Makers
<1>4. ASSUME NEW c \in Controllers, Owed(disk, c)
      PROVE  Owed(disk, c)'
  <2>1. /\ LifecycleUnits(disk, c)' = LifecycleUnits(mem, c) /\ Due(disk, c)' = Due(mem, c)
        /\ LifecycleUnits(mem, c) \subseteq Units
    BY <1>1 DEF LifecycleUnits, Present, Due
  <2>2. ASSUME NEW f \in Due(mem, c) \ repaired[c]
        PROVE  \E u \in LifecycleUnits(mem, c) : f \in disk'.rows[u].requests
    <3>1. PICK u \in LifecycleUnits(mem, c) : f \in mem.rows[u].requests
      BY <1>2, <1>4 DEF Owed
    <3>2. u # unit
      BY <1>3, <2>2, <3>1
    <3>3. QED
      BY <1>1, <2>1, <3>1, <3>2
  <2>3. QED
    BY <1>2, <2>1, <2>2 DEF Owed
<1>5. PendingOwed(disk)'
  BY <1>1, <1>2, <1>4 DEF OwedIInv, PendingOwed
<1>6. QED
  BY <1>1, <1>2, <1>5 DEF OwedIInv

LEMMA OwedStep ==
  ASSUME LoopIInv, BaseIInv, OwedIInv, [LoopNext]_loopVars, Workers \subseteq Single, MaxKills = 0
  PROVE  OwedIInv'
<1>1. /\ AlikeRuns(mem, disk)
      /\ reviewing \in [Controllers -> BOOLEAN] /\ kills \in Nat
      /\ \A c \in Controllers : mem.slots[c].pending => disk.slots[c].pending
  BY MemBase DEF OwedIInv
<1>2. ASSUME UNCHANGED <<disk, mem, kills>>, pc # "routing" \/ (pc' = pc /\ ctl' = ctl),
             \A c \in Controllers : repaired[c] \subseteq repaired'[c],
             reviewing' \in [Controllers -> BOOLEAN]
      PROVE  OwedIInv'
  BY <1>1, <1>2, OwedKept
<1>3. ASSUME pc \in {"sending", "resubmitting"}, mem' = disk', disk'.rows = mem.rows,
             \A c \in Controllers : /\ disk'.slots[c].result = mem.slots[c].result
                                    /\ disk'.slots[c].pending = mem.slots[c].pending,
             UNCHANGED <<repaired, reviewing, kills>>
      PROVE  OwedIInv'
  BY <1>1, <1>3, OwedKept DEF AlikeRuns, SameRequests
<1>4. ASSUME mem' = disk', SameRequests(disk', disk), disk'.slots = disk.slots,
             \A u \in Units : disk'.rows[u].status = "absent" <=> disk.rows[u].status = "absent",
             pc = "idle", UNCHANGED <<repaired, reviewing, kills>>
      PROVE  OwedIInv'
  BY <1>1, <1>4, OwedKept DEF SameRequests
<1>5. ASSUME NEW c \in Controllers, NEW n \in 1..Len(emitted[c]), Ingest(c, n)
      PROVE  OwedIInv'
  BY <1>5, IngestOwed
<1>6. ASSUME NEW c \in Controllers, NEW u \in Spares, Go(c, u)
      PROVE  OwedIInv'
  <2>1. /\ mem' = disk' /\ SameRequests(disk', disk) /\ disk'.slots = disk.slots
        /\ \A v \in Units : disk'.rows[v].status = "absent" <=> disk.rows[v].status = "absent"
    BY <1>6, GoFacts
  <2>2. QED
    BY <1>4, <1>6, <2>1 DEF Go, history
<1>7. ASSUME NEW c \in Controllers, Resubmit(c)
      PROVE  OwedIInv'
  <2>1. /\ disk' = disk
        /\ \A d \in Controllers : mem'.slots[d].pending => mem.slots[d].pending
    BY <1>7, ResubmitFacts
  <2>2. /\ reviewing' \in [Controllers -> BOOLEAN] /\ pc = "resubmitting"
        /\ UNCHANGED <<repaired, kills>>
    BY <1>1, <1>7 DEF Resubmit, history
  <2>3. QED
    BY <1>1, <2>1, <2>2, OwedKept
<1>8. ASSUME NEW c \in Controllers, Emit(c)
      PROVE  OwedIInv'
  BY <1>1, <1>2, <1>8 DEF Emit, runVars, commandVars, history
<1>9. CASE Route
  BY <1>9, RouteOwed
<1>10. CASE FinishRouting
  <2>1. /\ mem' = disk' /\ disk'.rows = mem.rows
        /\ \A c \in Controllers : /\ disk'.slots[c].result = mem.slots[c].result
                                  /\ disk'.slots[c].pending = mem.slots[c].pending
    BY <1>10, FinishFacts
  <2>2. QED
    BY <1>3, <1>10, <2>1 DEF FinishRouting, sessionVars, history
<1>11. ASSUME NEW u \in Units, NEW f \in Findings, Send(u, f)
       PROVE  OwedIInv'
  <2>1. CASE mem' = mem
    BY <1>1, <1>2, <1>11, <2>1 DEF Send, history
  <2>2. CASE Deliver(u, f)
    <3>1. /\ disk' = disk
          /\ \A c \in Controllers : mem'.slots[c].pending = mem.slots[c].pending
      BY <1>11, <2>2, DeliverFacts
    <3>2. QED
      BY <1>1, <1>11, <3>1, OwedKept DEF Send, history
  <2>3. QED
    BY <1>11, <2>1, <2>2 DEF Send, Skip, Withhold
<1>12. ASSUME NEW u \in Units, NEW f \in Findings, SendFails(u, f)
       PROVE  OwedIInv'
  BY <1>3, <1>12 DEF SendFails, EndCommand, sessionVars, history
<1>13. ASSUME NEW u \in Units, Dies(u) \/ \E f \in Findings : Commit(u, f)
       PROVE  OwedIInv'
  BY <1>1, <1>2, <1>13 DEF Dies, Commit, runVars, commandVars, history
<1>14. ASSUME NEW u \in Units, Settle(u)
       PROVE  OwedIInv'
  <2>1. /\ mem' = disk' /\ SameRequests(disk', disk) /\ disk'.slots = disk.slots
        /\ \A v \in Units : disk'.rows[v].status = "absent" <=> disk.rows[v].status = "absent"
    BY <1>14, SettleFacts
  <2>2. QED
    BY <1>4, <1>14, <2>1 DEF Settle, sessionVars, history
<1>15. ASSUME NEW u \in Workers \cup Spares, Clean(u)
       PROVE  OwedIInv'
  BY <1>1, <1>2, <1>15 DEF Clean, runVars, commandVars, history
<1>16. ASSUME NEW u \in Workers \cup Spares, Advance(u)
       PROVE  OwedIInv'
  BY <1>1, <1>2, <1>16 DEF Advance, runVars
<1>17. CASE LandUnit
  BY <1>17, LandOwed
<1>18. CASE EndMerge
  BY <1>3, <1>18 DEF EndMerge, EndCommand, sessionVars, history
<1>19. CASE Crash
  BY <1>1, <1>19 DEF Crash
<1>20. CASE StartMerge \/ EndTurns \/ UNCHANGED loopVars
  BY <1>1, <1>2, <1>20
     DEF StartMerge, EndTurns, loopVars, runVars, commandVars, sessionVars, history
<1>21. QED
  BY <1>5, <1>6, <1>7, <1>8, <1>9, <1>10, <1>11, <1>12, <1>13, <1>14, <1>15, <1>16, <1>17, <1>18,
     <1>19, <1>20 DEF LoopNext

\* A controller is resubmitted by merge only, when it is pending and its lifecycle carries nothing.
LEMMA ResubmitRepaired ==
  ASSUME LoopIInv, BaseIInv, OwedIInv, [LoopNext]_loopVars,
         NEW c \in Controllers, ~reviewing[c], reviewing'[c]
  PROVE  Work(disk.slots[c].result) \subseteq repaired[c]
<1>1. reviewing \in [Controllers -> BOOLEAN]
  BY DEF OwedIInv
<1>2. Resubmit(c)
  <2>1. ASSUME NEW d \in Controllers, d # c, Resubmit(d)
        PROVE  FALSE
    BY <1>1, <2>1 DEF Resubmit
  <2>2. ASSUME NEW d \in Controllers, Emit(d)
        PROVE  FALSE
    BY <1>1, <2>2 DEF Emit
  <2>3. ASSUME NEW d \in Controllers, NEW n \in 1..Len(emitted[d]), Ingest(d, n)
        PROVE  FALSE
    BY <2>3 DEF Ingest, sessionVars
  <2>4. ASSUME NEW d \in Controllers, NEW u \in Spares, Go(d, u)
        PROVE  FALSE
    BY <2>4 DEF Go
  <2>5. ASSUME NEW u \in Units, NEW f \in Findings, Send(u, f) \/ SendFails(u, f) \/ Commit(u, f)
        PROVE  FALSE
    BY <2>5 DEF Send, SendFails, Commit, sessionVars
  <2>6. ASSUME NEW u \in Units, Settle(u) \/ Dies(u)
        PROVE  FALSE
    BY <2>6 DEF Settle, Dies, sessionVars
  <2>7. ASSUME NEW u \in Workers \cup Spares, Clean(u) \/ Advance(u)
        PROVE  FALSE
    BY <2>7 DEF Clean, Advance
  <2>8. ~(Route \/ FinishRouting \/ StartMerge \/ LandUnit \/ EndTurns \/ EndMerge \/ Crash
          \/ UNCHANGED loopVars)
    BY DEF Route, FinishRouting, StartMerge, LandUnit, EndTurns, EndMerge, Crash, loopVars, sessionVars
  <2>9. QED
    BY <2>1, <2>2, <2>3, <2>4, <2>5, <2>6, <2>7, <2>8 DEF LoopNext
<1>3. /\ pc = "resubmitting" /\ mem.slots[c].pending
      /\ \A u \in LifecycleUnits(mem, c) : mem.rows[u].requests = {}
  BY <1>2 DEF Resubmit, Candidate, WorkIsClear
<1>4. Owed(disk, c)
  BY <1>3 DEF OwedIInv, PendingOwed
<1>5. \A u \in LifecycleUnits(disk, c) : disk.rows[u].requests = {}
  BY <1>3, MemBase, AlikeFacts DEF AlikeRuns, SameRequests, LifecycleUnits, Present
<1>6. QED
  BY <1>4, <1>5 DEF Owed, Due

\* A controller is sent back to review only when every Work repair of its last result is on the
\* run's branch, when no worker's paths overlap two findings and no command is killed: whatever was
\* withheld, could not be sent or was run again, whichever sessions went away, and with findings
\* that block again.
THEOREM ResubmittedHolds ==
  ASSUME Workers \subseteq Single, MaxKills = 0
  PROVE  LoopSpec => ResubmittedIsRepaired
<1>1. LoopInit => OwedIInv
  BY OwedInit
<1>2. LoopIInv /\ BaseIInv /\ OwedIInv /\ [LoopNext]_loopVars => OwedIInv'
  BY OwedStep
<1>3. LoopIInv /\ BaseIInv /\ OwedIInv /\ [LoopNext]_loopVars =>
        [\A c \in Controllers :
           ~reviewing[c] /\ reviewing'[c] => Work(disk.slots[c].result) \subseteq repaired[c]]_loopVars
  BY ResubmitRepaired
<1>4. LoopSpec => [][\A c \in Controllers :
           ~reviewing[c] /\ reviewing'[c] => Work(disk.slots[c].result) \subseteq repaired[c]]_loopVars
  BY <1>1, <1>2, <1>3, BaseHolds, PTL DEF LoopSpec
<1>5. QED
  BY <1>4 DEF ResubmittedIsRepaired

-----------------------------------------------------------------------------
(***************************************************************************)
(* Who has a repair in hand.                                               *)
(***************************************************************************)

\* A step that closes no session, takes no request and drops no repair that is held.
LEMMA HandKept ==
  ASSUME NEW run, NEW new, HandRun(run), AlikeRuns(new, run), live' = live,
         \A c \in Controllers : repaired[c] \subseteq repaired'[c],
         \A c \in Controllers : \A u \in LifecycleUnits(run, c) : \A f :
           HeldBy(c, u, f) => HeldBy(c, u, f)',
         \A c \in Controllers : \A f \in new.slots[c].dispatched \ run.slots[c].dispatched :
           Held(new, c, f)',
         \A u \in Lone : prompt'[u] \ prompt[u] \subseteq run.rows[u].requests,
         \A c \in Controllers : new.slots[c].outcome # Nothing =>
           run.slots[c].outcome # Nothing \/ \A f \in Due(run, c) : InHand(run, c, f)
  PROVE  /\ HandRun(new)'
         /\ \A c \in Controllers : \A f : InHand(run, c, f) => InHand(new, c, f)'
<1>1. \A c \in Controllers : LifecycleUnits(new, c) = LifecycleUnits(run, c) /\ Due(new, c) = Due(run, c)
  BY AlikeFacts
<1>2. /\ \A u \in Units : /\ new.rows[u].requests = run.rows[u].requests
                          /\ new.rows[u].minted = run.rows[u].minted
      /\ \A c : LifecycleUnits(run, c) \subseteq Units
      /\ Spares \subseteq Units /\ Lone \subseteq Units
  BY DEF AlikeRuns, SameRequests, LifecycleUnits, Present, Units, Lone, Single
<1>3. \A c \in Controllers : \A f : Held(run, c, f) => Held(new, c, f)'
  BY <1>1 DEF Held, LifecycleUnits, Present
<1>4. \A c \in Controllers : \A f : Waiting(run, c, f) => Waiting(new, c, f)'
  BY <1>1, <1>2 DEF Waiting, LifecycleUnits, Present
<1>5. \A c \in Controllers : \A f : InHand(run, c, f) => InHand(new, c, f)'
  BY <1>3, <1>4 DEF InHand
<1>6. SentIsHeld(new)'
  <2>1. ASSUME NEW c \in Controllers, NEW f \in new.slots[c].dispatched \cap Due(run, c)
        PROVE  \/ Held(new, c, f)'
               \/ \A w \in Workers \cap live : Life[w] = Life[c] => f \notin Touches[w]
    BY <1>3 DEF HandRun, SentIsHeld
  <2>2. QED
    BY <1>1, <2>1 DEF SentIsHeld, Due
<1>7. MintedHolds(new)'
  <2>1. ASSUME NEW c \in Controllers, NEW s \in Spares \cap live,
               s \in LifecycleUnits(run, c), new.rows[s].minted \in Due(run, c)
        PROVE  HeldBy(c, s, new.rows[s].minted)'
    BY <1>2, <2>1 DEF HandRun, MintedHolds
  <2>2. QED
    BY <1>1, <2>1 DEF MintedHolds, LifecycleUnits, Present, Due
<1>8. LoneCarries(new)'
  <2>1. ASSUME NEW c \in Controllers, NEW u \in Lone, Life[u] = Life[c],
               NEW f \in prompt'[u] \cap Due(run, c)
        PROVE  f \in new.rows[u].requests \cup repaired'[c]
    BY <1>2, <2>1 DEF HandRun, LoneCarries
  <2>2. QED
    BY <1>1, <2>1 DEF LoneCarries, Due
<1>9. MintedCarries(new)'
  <2>1. ASSUME NEW c \in Controllers, NEW s \in Spares, s \in LifecycleUnits(run, c),
               new.rows[s].minted \in Due(run, c) \ repaired'[c]
        PROVE  \E v \in Spares \cap LifecycleUnits(run, c) :
                 /\ new.rows[v].minted = new.rows[s].minted
                 /\ new.rows[s].minted \in new.rows[v].requests
    BY <1>2, <2>1 DEF HandRun, MintedCarries
  <2>2. QED
    BY <1>1, <2>1 DEF MintedCarries, LifecycleUnits, Present, Due
<1>10. RoutedInHand(new)'
  <2>1. ASSUME NEW c \in Controllers, new.slots[c].outcome # Nothing, NEW f \in Due(run, c)
        PROVE  InHand(new, c, f)'
    BY <1>5, <2>1 DEF HandRun, RoutedInHand
  <2>2. QED
    BY <1>1, <2>1 DEF RoutedInHand, Due
<1>11. QED
  BY <1>5, <1>6, <1>7, <1>8, <1>9, <1>10 DEF HandRun

\* A session that goes away: a repair it held is on a unit that carries it, or held by another.
LEMMA LeaveKept ==
  ASSUME NEW run, HandRun(run), BaseRun(run), NEW u \in Units,
         live' = live \ {u}, ahead' = ahead, repaired' = repaired,
         \A v \in Units : prompt'[v] = IF v = u THEN {} ELSE prompt[v],
         prompt[u] # {} => u \in Makers,
         u \in Workers => u \in Lone
  PROVE  /\ HandRun(run)'
         /\ \A c \in Controllers : \A f \in Due(run, c) : InHand(run, c, f) => InHand(run, c, f)'
<1>1. \A c : LifecycleUnits(run, c) \subseteq Units
  BY DEF LifecycleUnits, Present
<1>2. ASSUME NEW c \in Controllers, NEW v \in LifecycleUnits(run, c), NEW f, HeldBy(c, v, f)
      PROVE  \/ HeldBy(c, v, f)'
             \/ v = u /\ u \in Lone \cup Spares /\ f \in prompt[u] /\ PathsOverlap(run, u, f)
  BY <1>1, <1>2 DEF HeldBy, Makers, BaseRun, OnPaths
<1>3. ASSUME NEW c \in Controllers, NEW f, Waiting(run, c, f)
      PROVE  Waiting(run, c, f)'
  BY <1>3 DEF Waiting, LifecycleUnits, Present
<1>4. MintedHolds(run)'
  <2>1. ASSUME NEW c \in Controllers, NEW s \in Spares \cap live', s \in LifecycleUnits(run, c),
               run.rows[s].minted \in Due(run, c)
        PROVE  HeldBy(c, s, run.rows[s].minted)'
    <3>1. HeldBy(c, s, run.rows[s].minted) /\ s # u
      BY <2>1 DEF HandRun, MintedHolds
    <3>2. QED
      BY <1>2, <2>1, <3>1
  <2>2. QED
    BY <2>1 DEF MintedHolds, LifecycleUnits, Present, Due
<1>5. SentIsHeld(run)'
  <2>1. ASSUME NEW c \in Controllers, NEW f \in run.slots[c].dispatched \cap Due(run, c),
               ~Held(run, c, f)', NEW w \in Workers \cap live', Life[w] = Life[c], f \in Touches[w]
        PROVE  FALSE
    <3>1. Held(run, c, f)
      BY <2>1 DEF HandRun, SentIsHeld
    <3>2. PICK v \in LifecycleUnits(run, c) : HeldBy(c, v, f)
      BY <2>1, <3>1 DEF Held
    <3>3. /\ v = u /\ u \in Lone \cup Spares /\ PathsOverlap(run, u, f)
          /\ run.rows[u].status # "absent" /\ run.rows[u].life = Life[c]
      BY <1>2, <2>1, <3>2 DEF Held, LifecycleUnits, Present
    <3>4. w # u /\ w \in live /\ w \in Units
      BY <2>1 DEF Units
    <3>5. CASE u \in Lone
      <4>1. u \in Workers /\ f \in Touches[u] /\ Life[u] = Life[c]
        BY <3>3, <3>5 DEF Lone, Single, PathsOverlap, BaseRun, RowsKept
      <4>2. QED
        BY <2>1, <3>4, <3>5, <4>1 DEF Lone
    <3>6. CASE u \in Spares
      <4>1. run.rows[u].minted = f
        BY <3>3, <3>6, LoopAssumption DEF PathsOverlap
      <4>2. QED
        BY <2>1, <3>3, <3>4, <3>6, <4>1 DEF BaseRun, MintedAlone
    <3>7. QED
      BY <3>3, <3>5, <3>6
  <2>2. QED
    BY <2>1 DEF SentIsHeld, Due
<1>6. LoneCarries(run)'
  <2>1. \A v \in Lone : v \in Units /\ prompt'[v] \subseteq prompt[v]
    BY DEF Lone, Single, Units
  <2>2. QED
    BY <2>1 DEF HandRun, LoneCarries, Due
<1>7. MintedCarries(run)'
  BY DEF HandRun, MintedCarries, LifecycleUnits, Present, Due
<1>8. ASSUME NEW c \in Controllers, NEW f \in Due(run, c), InHand(run, c, f)
      PROVE  InHand(run, c, f)'
  <2>1. SUFFICES ASSUME ~Held(run, c, f)', ~Waiting(run, c, f)'
                 PROVE  FALSE
    BY DEF InHand
  <2>2. Held(run, c, f) /\ f \notin repaired[c]
    BY <1>3, <1>8, <2>1 DEF InHand, Held
  <2>3. PICK v \in LifecycleUnits(run, c) : HeldBy(c, v, f)
    BY <2>2 DEF Held
  <2>4. /\ v = u /\ u \in Lone \cup Spares /\ f \in prompt[u] /\ PathsOverlap(run, u, f)
        /\ u \in LifecycleUnits(run, c) /\ run.rows[u].life = Life[c]
    BY <1>2, <2>1, <2>3 DEF Held, LifecycleUnits, Present
  <2>5. CASE u \in Lone
    <3>1. u \in Workers /\ Life[u] = Life[c]
      BY <2>4, <2>5 DEF Lone, Single, BaseRun, RowsKept
    <3>2. f \in run.rows[u].requests
      BY <1>8, <2>2, <2>4, <2>5, <3>1 DEF HandRun, LoneCarries
    <3>3. QED
      BY <2>1, <2>4, <3>2 DEF Waiting, LifecycleUnits, Present
  <2>6. CASE u \in Spares
    <3>1. run.rows[u].minted = f
      BY <2>4, <2>6, LoopAssumption DEF PathsOverlap
    <3>2. PICK s \in Spares \cap LifecycleUnits(run, c) :
            run.rows[s].minted = f /\ f \in run.rows[s].requests
      BY <1>8, <2>2, <2>4, <2>6, <3>1 DEF HandRun, MintedCarries
    <3>3. CASE s \in live'
      <4>1. HeldBy(c, s, f)'
        BY <1>4, <1>8, <3>2, <3>3 DEF MintedHolds, LifecycleUnits, Present, Due
      <4>2. QED
        BY <2>1, <3>2, <4>1 DEF Held, LifecycleUnits, Present
    <3>4. CASE s \notin live'
      BY <2>1, <3>2, <3>4 DEF Waiting, LifecycleUnits, Present
    <3>5. QED
      BY <3>3, <3>4
  <2>7. QED
    BY <2>4, <2>5, <2>6
<1>9. RoutedInHand(run)'
  BY <1>8 DEF HandRun, RoutedInHand, Due
<1>10. QED
  BY <1>4, <1>5, <1>6, <1>7, <1>8, <1>9 DEF HandRun

\* A step outside the routing of a result.
LEMMA NotSending ==
  ASSUME pc' \notin {"routing", "sending"}
  PROVE  SendingOK'
BY DEF SendingOK

\* A step of a session, while a command may be sending.
LEMMA SendingKept ==
  ASSUME LoopIInv, BaseIInv, HandIInv,
         UNCHANGED <<disk, mem, pc, ctl, todo, withheld>>,
         \A c \in Controllers : \A f \in Due(mem, c) : InHand(mem, c, f) => InHand(mem, c, f)'
  PROVE  SendingOK'
<1>1. pc = "sending" => ctl \in Controllers
  BY DEF LoopIInv, CommandOK
<1>2. ASSUME pc = "sending", ~withheld, NEW f \in Due(mem, ctl)
      PROVE  (\E u \in Units : <<u, f>> \in todo) \/ InHand(mem, ctl, f)'
  <2>1. (\E u \in Units : <<u, f>> \in todo) \/ InHand(mem, ctl, f)
    BY <1>2 DEF HandIInv, SendingOK
  <2>2. InHand(mem, ctl, f) => \E c \in Controllers : c = ctl /\ InHand(mem, c, f)'
    BY <1>1, <1>2
  <2>3. QED
    BY <2>1, <2>2
<1>3. QED
  BY <1>2 DEF HandIInv, SendingOK, Due

\* A step that leaves the run and the sessions as they are.
LEMMA QuietHand ==
  ASSUME LoopIInv, BaseIInv, HandIInv, UNCHANGED <<disk, mem, live>>,
         \A c \in Controllers :
           /\ repaired[c] \subseteq repaired'[c]
           /\ \A u \in LifecycleUnits(disk, c) : ahead[u] \subseteq ahead'[u] \cup repaired'[c],
         \A u \in Units : prompt'[u] \subseteq prompt[u] /\ prompt[u] \subseteq prompt'[u] \cup ahead'[u]
  PROVE  /\ HandRun(disk)' /\ HandRun(mem)'
         /\ \A c \in Controllers : \A f : InHand(mem, c, f) => InHand(mem, c, f)'
<1>1. ASSUME NEW run, AlikeRuns(run, disk), HandRun(run)
      PROVE  /\ HandRun(run)'
             /\ \A c \in Controllers : \A f : InHand(run, c, f) => InHand(run, c, f)'
  <2>1. \A c \in Controllers : LifecycleUnits(run, c) = LifecycleUnits(disk, c)
                               /\ LifecycleUnits(disk, c) \subseteq Units
    BY <1>1, AlikeFacts DEF LifecycleUnits, Present
  <2>2. ASSUME NEW c \in Controllers, NEW u \in LifecycleUnits(run, c), NEW f, HeldBy(c, u, f)
        PROVE  HeldBy(c, u, f)'
    BY <2>1, <2>2 DEF HeldBy
  <2>3. AlikeRuns(run, run) /\ Lone \subseteq Units
    BY DEF AlikeRuns, SameRequests, Lone, Single, Units
  <2>4. QED
    BY <1>1, <2>2, <2>3, HandKept
<1>2. AlikeRuns(mem, disk) /\ AlikeRuns(disk, disk)
  BY MemBase DEF AlikeRuns, SameRequests
<1>3. QED
  BY <1>1, <1>2 DEF HandIInv

\* A result of a later round has no finding that was seen.
LEMMA NewResult ==
  ASSUME LoopIInv, BaseIInv, HandIInv, NEW c \in Controllers, NEW n \in 1..Len(emitted[c]),
         Ingest(c, n), disk.slots[c].result # [round |-> n, blocking |-> emitted[c][n]]
  PROVE  /\ Seen(disk, c) \cap emitted[c][n] = {}
         /\ Seen(disk, c) \cap Due(disk, c)' = {}
<1> DEFINE result == [round |-> n, blocking |-> emitted[c][n]]
<1>1. BaseRun(disk) /\ disk \in Runs
  BY DEF BaseIInv, LoopIInv, RowsOK
<1>2. Seen(disk, c) \cap emitted[c][n] = {}
  <2>1. CASE disk.slots[c].result = Nothing
    BY <2>1 DEF Seen
  <2>2. CASE disk.slots[c].result # Nothing
    <3> DEFINE round == disk.slots[c].result.round
    <3>1. /\ round \in 1..Len(emitted[c]) /\ n >= round
          /\ disk.slots[c].result.blocking = emitted[c][round]
      BY <1>1, <2>2 DEF Ingest, Admitted, BaseRun, ResultsSeen
    <3>2. disk.slots[c].result = [round |-> round, blocking |-> disk.slots[c].result.blocking]
      BY <1>1, <2>2, SlotParts DEF Slots, Results
    <3>3. round # n
      BY <3>1, <3>2
    <3>4. \A k \in 1..round : k \in 1..Len(emitted[c]) /\ k # n
      BY <3>1, <3>3
    <3>5. \A k \in 1..round : emitted[c][k] \cap emitted[c][n] = {}
      BY <3>4 DEF HandIInv, Disjoint
    <3>6. QED
      BY <2>2, <3>5 DEF Seen
  <2>3. QED
    BY <2>1, <2>2
<1>3. Due(disk, c)' \subseteq emitted[c][n]
  BY IngestFacts, LoopAssumption DEF Due, Work
<1>4. QED
  BY <1>2, <1>3

\* The result of a later round leaves what is in hand for the others.
LEMMA IngestHand ==
  ASSUME LoopIInv, BaseIInv, HandIInv, NEW c \in Controllers, NEW n \in 1..Len(emitted[c]),
         Ingest(c, n)
  PROVE  HandIInv'
<1> DEFINE result == [round |-> n, blocking |-> emitted[c][n]]
<1>1. /\ mem' = disk' /\ disk'.rows = disk.rows
      /\ disk'.slots[c].result = result
      /\ disk'.slots[c].outcome = Nothing
      /\ disk'.slots[c].dispatched = disk.slots[c].dispatched
      /\ \A d \in Controllers : d # c => disk'.slots[d] = disk.slots[d]
  BY IngestFacts
<1>2. /\ UNCHANGED <<live, prompt, ahead, emitted>>
      /\ pc = "idle" /\ pc' = "routing" /\ ctl' = c
      /\ \A d \in Controllers : d # c => repaired'[d] = repaired[d]
      /\ disk.slots[c].result = result => repaired'[c] = repaired[c]
  BY DEF Ingest, sessionVars, LoopIInv
<1>3. SendingOK' /\ Disjoint'
  BY <1>1, <1>2 DEF HandIInv, SendingOK, Disjoint
<1>4. HandRun(disk) /\ BaseRun(disk) /\ disk \in Runs
  BY DEF HandIInv, BaseIInv, LoopIInv, RowsOK
<1>5. CASE disk.slots[c].result = result
  <2>1. AlikeRuns(disk', disk)
    BY <1>1, <1>5 DEF AlikeRuns, SameRequests
  <2>2. \A d \in Controllers : repaired'[d] = repaired[d]
    BY <1>2, <1>5
  <2>3. \A d \in Controllers : \A u \in LifecycleUnits(disk, d) : \A f :
          HeldBy(d, u, f) => HeldBy(d, u, f)'
    BY <1>1, <1>2, <2>2 DEF HeldBy
  <2>4. \A d \in Controllers : /\ disk'.slots[d].dispatched = disk.slots[d].dispatched
                               /\ disk'.slots[d].outcome # Nothing => disk.slots[d].outcome # Nothing
    BY <1>1
  <2>5. HandRun(disk)'
    BY <1>2, <1>4, <2>1, <2>2, <2>3, <2>4, HandKept
  <2>6. QED
    BY <1>1, <1>3, <2>5 DEF HandIInv
<1>6. CASE disk.slots[c].result # result
  <2>1. Seen(disk, c) \cap emitted[c][n] = {}
    BY <1>6, NewResult
  <2>2. Due(disk, c)' \subseteq emitted[c][n]
    BY <1>1, LoopAssumption DEF Due, Work
  <2>3. \A d \in Controllers : d # c => Due(disk, d)' = Due(disk, d)
    BY <1>1 DEF Due
  <2>4. \A d : LifecycleUnits(disk, d)' = LifecycleUnits(disk, d)
    BY <1>1 DEF LifecycleUnits, Present
  <2>5. ASSUME NEW d \in Controllers, d # c, NEW u, NEW f
        PROVE  /\ HeldBy(d, u, f) => HeldBy(d, u, f)'
               /\ Held(disk, d, f) => Held(disk, d, f)'
               /\ InHand(disk, d, f) => InHand(disk, d, f)'
    BY <1>1, <1>2, <2>5 DEF HeldBy, Held, Waiting, InHand, LifecycleUnits, Present
  <2>6. SentIsHeld(disk)'
    <3>1. ASSUME NEW d \in Controllers, NEW f \in disk'.slots[d].dispatched \cap Due(disk, d)'
          PROVE  \/ Held(disk, d, f)'
                 \/ \A w \in Workers \cap live : Life[w] = Life[d] => f \notin Touches[w]
      <4>1. d # c
        BY <1>1, <2>1, <2>2, <3>1 DEF BaseIInv, SentSeen
      <4>2. QED
        BY <1>1, <1>4, <2>3, <2>5, <3>1, <4>1 DEF HandRun, SentIsHeld
    <3>2. QED
      BY <1>2, <3>1 DEF SentIsHeld
  <2>7. ASSUME NEW d \in Controllers, NEW s \in Spares, s \in LifecycleUnits(disk, d),
               disk.rows[s].minted \in Due(disk, d)'
        PROVE  d # c /\ disk.rows[s].minted \in Due(disk, d)
    BY <1>4, <2>1, <2>2, <2>3, <2>7 DEF BaseRun, ResultsSeen
  <2>8. MintedHolds(disk)'
    <3>1. ASSUME NEW d \in Controllers, NEW s \in Spares \cap live, s \in LifecycleUnits(disk, d),
                 disk.rows[s].minted \in Due(disk, d)'
          PROVE  HeldBy(d, s, disk.rows[s].minted)'
      BY <1>1, <1>4, <2>5, <2>7, <3>1 DEF HandRun, MintedHolds
    <3>2. QED
      BY <1>1, <1>2, <2>4, <3>1 DEF MintedHolds
  <2>9. LoneCarries(disk)'
    <3>1. ASSUME NEW d \in Controllers, NEW u \in Lone, Life[u] = Life[d],
                 NEW f \in prompt[u] \cap Due(disk, d)'
          PROVE  f \in disk.rows[u].requests \cup repaired'[d]
      <4>1. u \in LifecycleUnits(disk, d)
        BY <1>4, <3>1 DEF BaseRun, RowsKept, LifecycleUnits, Present, Lone, Single, Units
      <4>2. d # c
        BY <1>4, <2>1, <2>2, <3>1, <4>1 DEF BaseRun, ResultsSeen
      <4>3. QED
        BY <1>2, <1>4, <2>3, <3>1, <4>2 DEF HandRun, LoneCarries
    <3>2. QED
      BY <1>1, <1>2, <3>1 DEF LoneCarries
  <2>10. MintedCarries(disk)'
    <3>1. ASSUME NEW d \in Controllers, NEW s \in Spares, s \in LifecycleUnits(disk, d),
                 disk.rows[s].minted \in Due(disk, d)' \ repaired'[d]
          PROVE  \E v \in Spares \cap LifecycleUnits(disk, d) :
                   /\ disk.rows[v].minted = disk.rows[s].minted
                   /\ disk.rows[s].minted \in disk.rows[v].requests
      BY <1>2, <1>4, <2>7, <3>1 DEF HandRun, MintedCarries
    <3>2. QED
      BY <1>1, <2>4, <3>1 DEF MintedCarries
  <2>11. RoutedInHand(disk)'
    <3>1. ASSUME NEW d \in Controllers, disk'.slots[d].outcome # Nothing, NEW f \in Due(disk, d)'
          PROVE  InHand(disk, d, f)'
      BY <1>1, <1>4, <2>3, <2>5, <3>1 DEF HandRun, RoutedInHand
    <3>2. QED
      BY <3>1 DEF RoutedInHand
  <2>12. HandRun(disk)'
    BY <2>6, <2>8, <2>9, <2>10, <2>11 DEF HandRun
  <2>13. QED
    BY <1>1, <1>3, <2>12 DEF HandIInv
<1>7. QED
  BY <1>5, <1>6

\* A unit that is not live and carries a repair that no live worker could make is who holds it.
LEMMA HolderAway ==
  ASSUME LoopIInv, BaseIInv, BaseRun(mem), NEW c \in Controllers,
         NEW f \in Due(mem, c) \ Unheld(mem, c), Reusable(mem, c, f) = {}
  PROVE  Holder(mem, c, f) \notin live
<1> DEFINE h == Holder(mem, c, f)
<1>1. h \in Assigned(mem, c, f) /\ h \in LifecycleUnits(mem, c) /\ f \in Findings
  BY HolderFacts, SlotParts DEF LoopIInv, RowsOK
<1>2. /\ h \in Units /\ mem.rows[h].status \notin {"absent", "orphaned"}
      /\ mem.rows[h].life = Life[c] /\ f \in mem.rows[h].requests
  BY <1>1 DEF Assigned, LifecycleUnits, Present
<1>3. PathsOverlap(mem, h, f)
  BY <1>2 DEF BaseRun, OnPaths
<1>4. h \notin Controllers
  BY <1>1, <1>2, <1>3, LoopAssumption DEF PathsOverlap, BaseRun, RowsKept
<1>5. h \in live => h \in Reusable(mem, c, f)
  BY <1>1, <1>2, <1>3, <1>4 DEF Reusable, RoleWorkers, Present
<1>6. QED
  BY <1>5

\* A replacement minted for a repair keeps it from every worker, so a replacement holds it.
LEMMA HolderSpare ==
  ASSUME LoopIInv, BaseIInv, BaseRun(mem), NEW c \in Controllers, NEW s \in Spares,
         s \in LifecycleUnits(mem, c), mem.rows[s].minted \in Due(mem, c) \ Unheld(mem, c)
  PROVE  LET h == Holder(mem, c, mem.rows[s].minted)
         IN  h \in Spares /\ h \in LifecycleUnits(mem, c) /\ mem.rows[h].minted = mem.rows[s].minted
<1> DEFINE f == mem.rows[s].minted
           h == Holder(mem, c, f)
<1>1. h \in LifecycleUnits(mem, c) /\ f \in Findings
  BY HolderFacts, SlotParts DEF LoopIInv, RowsOK
<1>2. /\ h \in Units /\ mem.rows[h].status # "absent" /\ mem.rows[h].life = Life[c]
      /\ mem.rows[s].status # "absent" /\ mem.rows[s].life = Life[c]
  BY <1>1 DEF LifecycleUnits, Present
<1>3. PathsOverlap(mem, h, f)
  BY HolderFacts DEF Reusable, Assigned, BaseRun, OnPaths, LifecycleUnits, Present
<1>4. h \notin Controllers
  BY <1>1, <1>2, <1>3, LoopAssumption DEF PathsOverlap, BaseRun, RowsKept
<1>5. h \notin Workers
  <2>1. SUFFICES ASSUME h \in Workers
                 PROVE  FALSE
    OBVIOUS
  <2>2. f \in Touches[h] /\ Life[h] = Life[c] /\ h \notin Spares
    BY <1>2, <1>3, <2>1, LoopAssumption DEF PathsOverlap, BaseRun, RowsKept
  <2>3. h \notin live
    BY <1>2, <2>1, <2>2 DEF BaseRun, MintedAlone
  <2>4. h \notin Reusable(mem, c, f)
    BY <2>3 DEF Reusable
  <2>5. h \in Assigned(mem, c, f)
    BY <2>4, HolderFacts
  <2>6. QED
    BY <2>2, <2>3, <2>5 DEF Assigned, Eligible
<1>6. h \in Spares
  BY <1>2, <1>4, <1>5 DEF Units
<1>7. mem.rows[h].minted = f
  BY <1>3, <1>6, LoopAssumption DEF PathsOverlap
<1>8. QED
  BY <1>1, <1>6, <1>7

\* A lone worker at work on a repair is the only one it could go to.
LEMMA HolderLone ==
  ASSUME LoopIInv, BaseIInv, BaseRun(mem), NEW c \in Controllers, NEW u \in Lone, Life[u] = Life[c],
         NEW f \in prompt[u] \cap Due(mem, c)
  PROVE  u \in LifecycleUnits(mem, c) /\ f \notin Unheld(mem, c) /\ Holder(mem, c, f) = u
<1>1. /\ u \in Units /\ u \in Workers /\ u \notin Controllers /\ u \in live
      /\ mem.rows[u].status \notin {"absent", "orphaned"} /\ mem.rows[u].life = Life[c]
  BY LoopAssumption DEF Lone, Single, Units, BaseRun, RowsKept, BaseIInv, OrphansGone
<1>2. PathsOverlap(mem, u, f) /\ f \in Touches[u]
  BY <1>1 DEF BaseRun, OnPaths, PathsOverlap
<1>3. u \in LifecycleUnits(mem, c) /\ u \in Reusable(mem, c, f)
  BY <1>1, <1>2 DEF Reusable, RoleWorkers, LifecycleUnits, Present
<1>4. ASSUME NEW v \in Reusable(mem, c, f)
      PROVE  v = u
  <2>1. /\ v \in Units /\ v \notin Controllers /\ v \in live /\ PathsOverlap(mem, v, f)
        /\ mem.rows[v].status # "absent" /\ mem.rows[v].life = Life[c]
    BY DEF Reusable, RoleWorkers, LifecycleUnits, Present
  <2>2. CASE v \in Workers
    BY <1>2, <2>1, <2>2 DEF PathsOverlap, BaseRun, RowsKept, Lone
  <2>3. CASE v \in Spares
    <3>1. mem.rows[v].minted = f
      BY <2>1, <2>3, LoopAssumption DEF PathsOverlap
    <3>2. QED
      BY <1>1, <1>2, <2>1, <2>3, <3>1 DEF BaseRun, MintedAlone
  <2>4. QED
    BY <2>1, <2>2, <2>3 DEF Units
<1>5. f \notin Unheld(mem, c) /\ f \in Due(mem, c)
  BY <1>3 DEF Unheld
<1>6. Holder(mem, c, f) \in Reusable(mem, c, f)
  BY <1>3, <1>5, HolderFacts
<1>7. QED
  BY <1>3, <1>4, <1>5, <1>6

\* Routing a result leaves each repair of it to be sent, or with a unit that is not live.
LEMMA RouteHand ==
  ASSUME LoopIInv, BaseIInv, HandIInv, Route
  PROVE  HandIInv'
<1>1. /\ mem' = disk' /\ ctl \in Controllers /\ mem \in Runs /\ mem = disk
      /\ UNCHANGED <<live, prompt, ahead, emitted, repaired, ctl, withheld>>
      /\ pc = "routing" /\ pc' = "sending"
      /\ BaseRun(mem) /\ HandRun(mem)
      /\ mem.slots[ctl].outcome = Nothing
  BY RouteFacts, MemBase DEF Route, HandIInv, SendingOK
<1>2. \A u \in LifecycleUnits(mem, ctl) : HolderRow(mem, ctl, u, mem.rows[u], disk'.rows[u])
  BY <1>1, RouteFacts
<1>3. \A u \in Units :
        \/ \E f \in Unheld(mem, ctl) :
             u \in Spares /\ MintedRow(mem, ctl, f, mem.rows[u], disk'.rows[u])
        \/ u \in LifecycleUnits(mem, ctl)
        \/ disk'.rows[u] = mem.rows[u]
  BY <1>1, RouteFacts
<1>4. \A f \in Unheld(mem, ctl) : \E s \in Spares :
         MintedRow(mem, ctl, f, mem.rows[s], disk'.rows[s])
  BY <1>1, RouteFacts
<1>5. \A d \in Controllers : /\ Due(disk, d)' = Due(mem, d)
                             /\ disk'.slots[d].outcome = mem.slots[d].outcome
                             /\ disk'.slots[d].dispatched = mem.slots[d].dispatched
  <2>1. \A d \in Controllers : SlotRouted(mem, ctl, d, mem.slots[d], disk'.slots[d])
    BY <1>1, RouteFacts
  <2>2. QED
    BY <2>1 DEF SlotRouted, Due
<1>6. ASSUME NEW u \in Units, mem.rows[u].status # "absent"
      PROVE  /\ disk'.rows[u].status = mem.rows[u].status
             /\ disk'.rows[u].life = mem.rows[u].life
             /\ disk'.rows[u].minted = mem.rows[u].minted
  BY <1>2, <1>3, <1>6 DEF MintedRow, HolderRow
<1>7. ASSUME NEW d \in Controllers, NEW u \in LifecycleUnits(mem, d)
      PROVE  /\ u \in LifecycleUnits(disk, d)' /\ u \in Units
             /\ disk'.rows[u].status = mem.rows[u].status
             /\ disk'.rows[u].minted = mem.rows[u].minted
             /\ d # ctl => disk'.rows[u] = mem.rows[u]
  <2>1. u \in Units /\ mem.rows[u].status # "absent" /\ mem.rows[u].life = Life[d]
    BY DEF LifecycleUnits, Present
  <2>2. d # ctl => u \notin LifecycleUnits(mem, ctl)
    BY <1>1, <2>1, OneOwner DEF LifecycleUnits
  <2>3. QED
    BY <1>3, <1>6, <2>1, <2>2 DEF MintedRow, LifecycleUnits, Present
<1>8. ASSUME NEW d \in Controllers, NEW u \in LifecycleUnits(disk, d)', u \notin LifecycleUnits(mem, d)
      PROVE  /\ d = ctl /\ u \in Spares /\ u \notin live
             /\ \E f \in Unheld(mem, ctl) : MintedRow(mem, ctl, f, mem.rows[u], disk'.rows[u])
  <2>1. u \in Units /\ disk'.rows[u].status # "absent" /\ disk'.rows[u].life = Life[d]
    BY DEF LifecycleUnits, Present
  <2>2. mem.rows[u].status = "absent"
    BY <1>6, <1>8, <2>1 DEF LifecycleUnits, Present
  <2>3. PICK f \in Unheld(mem, ctl) :
          u \in Spares /\ MintedRow(mem, ctl, f, mem.rows[u], disk'.rows[u])
    BY <1>3, <2>1, <2>2 DEF LifecycleUnits, Present
  <2>4. u \notin live
    BY <2>1, <2>2 DEF LoopIInv, RowsOK
  <2>5. QED
    BY <1>1, <2>1, <2>3, <2>4, OneOwner DEF MintedRow
<1>9. ASSUME NEW d \in Controllers, NEW u \in LifecycleUnits(mem, d), NEW f, HeldBy(d, u, f)
      PROVE  HeldBy(d, u, f)'
  BY <1>1, <1>7, <1>9 DEF HeldBy
<1>10. ASSUME NEW d \in Controllers, NEW f, Held(mem, d, f)
       PROVE  Held(disk, d, f)'
  BY <1>1, <1>7, <1>9, <1>10 DEF Held
<1>11. ASSUME NEW d \in Controllers, d # ctl, NEW f, InHand(mem, d, f)
       PROVE  InHand(disk, d, f)'
  BY <1>1, <1>7, <1>10, <1>11 DEF InHand, Waiting
<1>12. SentIsHeld(disk)'
  <2>1. ASSUME NEW d \in Controllers, NEW f \in mem.slots[d].dispatched \cap Due(mem, d)
        PROVE  \/ Held(disk, d, f)'
               \/ \A w \in Workers \cap live : Life[w] = Life[d] => f \notin Touches[w]
    BY <1>1, <1>10 DEF HandRun, SentIsHeld
  <2>2. QED
    BY <1>1, <1>5, <2>1 DEF SentIsHeld
<1>13. MintedHolds(disk)'
  <2>1. ASSUME NEW d \in Controllers, NEW s \in Spares \cap live, s \in LifecycleUnits(disk, d)',
               disk'.rows[s].minted \in Due(mem, d)
        PROVE  HeldBy(d, s, mem.rows[s].minted) /\ mem.rows[s].minted = disk'.rows[s].minted
               /\ s \in LifecycleUnits(mem, d)
    <3>1. s \in LifecycleUnits(mem, d)
      BY <1>8, <2>1
    <3>2. mem.rows[s].minted = disk'.rows[s].minted
      BY <1>7, <3>1
    <3>3. QED
      BY <1>1, <2>1, <3>1, <3>2 DEF HandRun, MintedHolds
  <2>2. ASSUME NEW d \in Controllers, NEW s \in Spares \cap live, s \in LifecycleUnits(disk, d)',
               disk'.rows[s].minted \in Due(mem, d)
        PROVE  HeldBy(d, s, disk.rows[s].minted)'
    BY <1>9, <2>1, <2>2
  <2>3. QED
    BY <1>1, <1>5, <2>2 DEF MintedHolds
<1>14. LoneCarries(disk)'
  <2>1. ASSUME NEW d \in Controllers, NEW u \in Lone, Life[u] = Life[d],
               NEW f \in prompt[u] \cap Due(mem, d)
        PROVE  f \in disk'.rows[u].requests \cup repaired[d]
    <3>1. f \in mem.rows[u].requests \cup repaired[d]
      BY <1>1, <2>1 DEF HandRun, LoneCarries
    <3>2. u \in LifecycleUnits(mem, d) /\ f \notin Unheld(mem, d) /\ Holder(mem, d, f) = u
      BY <1>1, <2>1, HolderLone
    <3>3. CASE d = ctl
      BY <1>2, <2>1, <3>2, <3>3 DEF HolderRow
    <3>4. CASE d # ctl
      BY <1>7, <3>1, <3>2, <3>4
    <3>5. QED
      BY <3>3, <3>4
  <2>2. QED
    BY <1>1, <1>5, <2>1 DEF LoneCarries
<1>15. MintedCarries(disk)'
  <2>1. ASSUME NEW d \in Controllers, NEW s \in Spares, s \in LifecycleUnits(disk, d)',
               disk'.rows[s].minted \in Due(mem, d) \ repaired[d]
        PROVE  \E v \in Spares : /\ v \in LifecycleUnits(disk, d)'
                                 /\ disk'.rows[v].minted = disk'.rows[s].minted
                                 /\ disk'.rows[s].minted \in disk'.rows[v].requests
    <3>1. CASE s \notin LifecycleUnits(mem, d)
      <4>1. PICK f \in Unheld(mem, ctl) : MintedRow(mem, ctl, f, mem.rows[s], disk'.rows[s])
        BY <1>8, <2>1, <3>1
      <4>2. disk'.rows[s].minted \in disk'.rows[s].requests
        BY <4>1 DEF MintedRow
      <4>3. QED
        BY <2>1, <4>2
    <3>2. CASE s \in LifecycleUnits(mem, d) /\ d # ctl
      <4>1. mem.rows[s].minted = disk'.rows[s].minted
        BY <1>7, <3>2
      <4>2. PICK v \in Spares \cap LifecycleUnits(mem, d) :
              /\ mem.rows[v].minted = mem.rows[s].minted
              /\ mem.rows[s].minted \in mem.rows[v].requests
        BY <1>1, <2>1, <3>2, <4>1 DEF HandRun, MintedCarries
      <4>3. QED
        BY <1>7, <3>2, <4>1, <4>2
    <3>3. CASE s \in LifecycleUnits(mem, d) /\ d = ctl
      <4> DEFINE f == mem.rows[s].minted
      <4>1. f = disk'.rows[s].minted /\ f \in Due(mem, ctl) /\ s \in LifecycleUnits(mem, ctl)
        BY <1>7, <2>1, <3>3
      <4>2. CASE f \in Unheld(mem, ctl)
        <5>1. PICK v \in Spares : MintedRow(mem, ctl, f, mem.rows[v], disk'.rows[v])
          BY <1>4, <4>2
        <5>2. v \in LifecycleUnits(disk, d)'
          BY <3>3, <5>1 DEF MintedRow, LifecycleUnits, Present, Units
        <5>3. QED
          BY <4>1, <5>1, <5>2 DEF MintedRow
      <4>3. CASE f \notin Unheld(mem, ctl)
        <5>1. PICK h \in Spares : /\ h = Holder(mem, ctl, f) /\ h \in LifecycleUnits(mem, ctl)
                                  /\ mem.rows[h].minted = f
          BY <1>1, <4>1, <4>3, HolderSpare
        <5>2. f \in disk'.rows[h].requests
          BY <1>2, <4>1, <4>3, <5>1 DEF HolderRow
        <5>3. h \in LifecycleUnits(disk, d)' /\ disk'.rows[h].minted = f
          BY <1>7, <2>1, <3>3, <5>1
        <5>4. QED
          BY <4>1, <5>2, <5>3
      <4>4. QED
        BY <4>2, <4>3
    <3>4. QED
      BY <3>1, <3>2, <3>3
  <2>2. QED
    BY <1>1, <1>5, <2>1 DEF MintedCarries
<1>16. RoutedInHand(disk)'
  <2>1. ASSUME NEW d \in Controllers, disk'.slots[d].outcome # Nothing, NEW f \in Due(mem, d)
        PROVE  InHand(disk, d, f)'
    BY <1>1, <1>5, <1>11, <2>1 DEF HandRun, RoutedInHand
  <2>2. QED
    BY <1>5, <2>1 DEF RoutedInHand
<1>17. SendingOK'
  <2>1. ASSUME NEW f \in Due(mem, ctl), ~\E u \in Units : <<u, f>> \in todo'
        PROVE  \E u \in Units : /\ disk'.rows[u].status # "absent" /\ disk'.rows[u].life = Life[ctl]
                                /\ f \in disk'.rows[u].requests /\ u \notin live
    <3>1. CASE f \in Unheld(mem, ctl)
      <4>1. PICK s \in Spares : MintedRow(mem, ctl, f, mem.rows[s], disk'.rows[s])
        BY <1>4, <3>1
      <4>2. s \in Units /\ s \notin live
        BY <4>1 DEF MintedRow, LoopIInv, RowsOK, Units
      <4>3. QED
        BY <4>1, <4>2 DEF MintedRow
    <3>2. CASE f \notin Unheld(mem, ctl)
      <4> DEFINE h == Holder(mem, ctl, f)
      <4>1. h \in LifecycleUnits(mem, ctl) /\ h \in Units /\ mem.rows[h].life = Life[ctl]
            /\ mem.rows[h].status # "absent"
        BY <2>1, <3>2, HolderFacts DEF LifecycleUnits, Present
      <4>2. Reusable(mem, ctl, f) = {}
        <5>1. Reusable(mem, ctl, f) # {} => <<h, f>> \in todo'
          BY <2>1 DEF Route, Due
        <5>2. QED
          BY <2>1, <4>1, <5>1
      <4>3. h \notin live
        BY <1>1, <2>1, <3>2, <4>2, HolderAway
      <4>4. f \in disk'.rows[h].requests
        BY <1>2, <2>1, <3>2, <4>1 DEF HolderRow
      <4>5. QED
        BY <1>6, <4>1, <4>3, <4>4
    <3>3. QED
      BY <3>1, <3>2
  <2>2. \A f \in Due(mem, ctl) : (\E u \in Units : <<u, f>> \in todo') \/ Waiting(mem, ctl, f)'
    BY <1>1, <2>1 DEF Waiting, LifecycleUnits, Present
  <2>3. Due(mem, ctl)' = Due(mem, ctl)
    BY <1>1, <1>5 DEF Due
  <2>4. QED
    BY <1>1, <1>5, <2>2, <2>3 DEF SendingOK, InHand
<1>18. HandRun(disk)' /\ HandRun(mem)'
  <2>1. HandRun(disk)'
    BY <1>12, <1>13, <1>14, <1>15, <1>16 DEF HandRun
  <2>2. QED
    BY <1>1, <2>1
<1>19. Disjoint'
  BY <1>1 DEF HandIInv, Disjoint
<1>20. QED
  BY <1>17, <1>18, <1>19 DEF HandIInv

LEMMA InitHand ==
  ASSUME LoopInit
  PROVE  HandIInv
<1> USE DEF LoopInit
<1>1. \A c \in Controllers : /\ disk.slots[c].outcome = Nothing /\ disk.slots[c].dispatched = {}
                             /\ Due(disk, c) = {}
  BY DEF EmptySlot, Due, Work
<1>2. HandRun(disk)
  BY <1>1 DEF HandRun, SentIsHeld, MintedHolds, LoneCarries, MintedCarries, RoutedInHand
<1>3. SendingOK /\ Disjoint
  BY DEF SendingOK, Disjoint
<1>4. QED
  BY <1>2, <1>3 DEF HandIInv

\* A repair that was sent is held, or its unit is gone; one that is sent now is held.
LEMMA SendHand ==
  ASSUME LoopIInv, BaseIInv, HandIInv, NEW u \in Units, NEW f \in Findings, Send(u, f)
  PROVE  HandIInv'
<1>1. /\ <<u, f>> \in todo /\ todo' = todo \ {<<u, f>>} /\ pc = "sending" /\ pc' = pc /\ ctl' = ctl
      /\ disk' = disk /\ UNCHANGED <<live, ahead, emitted, repaired>>
      /\ ctl \in Controllers /\ u \in Makers
      /\ BaseRun(mem) /\ AlikeRuns(mem, disk) /\ HandRun(mem) /\ HandRun(disk)
  BY MemBase DEF Send, LoopIInv, CommandOK, HandIInv, history
<1>2. /\ u \in LifecycleUnits(mem, ctl) /\ f \in mem.rows[u].requests /\ f \in Due(mem, ctl)
      /\ u \in Units /\ mem.rows[u].status # "absent" /\ mem.rows[u].life = Life[ctl]
  BY <1>1 DEF BaseIInv, TodoOK, LifecycleUnits, Present
<1>3. Disjoint'
  BY <1>1 DEF HandIInv, Disjoint
<1>4. /\ mem.slots[ctl].outcome = Nothing /\ disk.slots[ctl].outcome = Nothing
      /\ withheld \/ \A g \in Due(mem, ctl) : (\E v \in Units : <<v, g>> \in todo) \/ InHand(mem, ctl, g)
  BY <1>1 DEF HandIInv, SendingOK
<1>5. \A v \in Units, g \in Due(mem, ctl) : <<v, g>> \in todo => <<v, g>> \in todo' \/ g = f
  BY <1>1
<1>6. CASE Skip(u, f) \/ Withhold(u, f)
  <2>1. mem' = mem /\ prompt' = prompt
    BY <1>6 DEF Skip, Withhold
  <2>2. HandRun(disk)' /\ HandRun(mem)' /\ \A c \in Controllers : \A g : InHand(mem, c, g) => InHand(mem, c, g)'
    BY <1>1, <2>1, QuietHand
  <2>3. CASE Withhold(u, f)
    BY <1>1, <1>3, <1>4, <2>1, <2>2, <2>3 DEF Withhold, HandIInv, SendingOK
  <2>4. CASE Skip(u, f)
    <3>1. InHand(mem, ctl, f)
      <4>1. CASE Held(mem, ctl, f)
        BY <4>1 DEF InHand
      <4>2. CASE u \notin live
        BY <1>2, <4>2 DEF InHand, Waiting
      <4>3. CASE ~Held(mem, ctl, f) /\ u \in live
        <5>1. \A w \in Workers \cap live : Life[w] = Life[ctl] => f \notin Touches[w]
          BY <1>1, <1>2, <2>4, <4>3 DEF Skip, HandRun, SentIsHeld
        <5>2. PathsOverlap(mem, u, f)
          BY <1>1, <1>2 DEF BaseRun, OnPaths
        <5>3. u \notin Workers
          BY <1>1, <1>2, <4>3, <5>1, <5>2 DEF PathsOverlap, BaseRun, RowsKept
        <5>4. u \in Spares /\ mem.rows[u].minted = f
          BY <1>1, <5>2, <5>3 DEF Makers, PathsOverlap
        <5>5. HeldBy(ctl, u, f)
          BY <1>1, <1>2, <4>3, <5>4 DEF HandRun, MintedHolds
        <5>6. QED
          BY <1>2, <4>3, <5>5 DEF Held
      <4>4. QED
        BY <4>1, <4>2, <4>3
    <3>2. \A g \in Due(mem, ctl) : InHand(mem, ctl, g) => \E c \in Controllers : c = ctl /\ InHand(mem, c, g)'
      BY <1>1, <2>2
    <3>3. withheld' = withheld
      BY <2>4 DEF Skip
    <3>4. withheld' \/ \A g \in Due(mem, ctl) : (\E v \in Units : <<v, g>> \in todo') \/ InHand(mem, ctl, g)'
      BY <1>1, <1>4, <1>5, <3>1, <3>2, <3>3
    <3>5. SendingOK'
      BY <1>1, <1>4, <2>1, <3>4 DEF SendingOK, Due
    <3>6. QED
      BY <1>3, <2>2, <3>5 DEF HandIInv
  <2>5. QED
    BY <1>6, <2>3, <2>4
<1>7. CASE Deliver(u, f)
  <2>1. /\ SameRequests(mem', mem)
        /\ \A v \in Units : mem'.rows[v].status = IF v = u THEN "running" ELSE mem.rows[v].status
        /\ mem'.slots[ctl].result = mem.slots[ctl].result
        /\ mem'.slots[ctl].outcome = mem.slots[ctl].outcome
        /\ mem'.slots[ctl].dispatched = mem.slots[ctl].dispatched \cup {f}
        /\ \A d \in Controllers : d # ctl => mem'.slots[d] = mem.slots[d]
    BY <1>7, DeliverFacts
  <2>2. \A v \in Units : prompt'[v] = IF v = u THEN prompt[u] \cup {f} ELSE prompt[v]
    BY <1>7 DEF Deliver, LoopIInv, SessionsOK
  <2>3. AlikeRuns(mem', mem) /\ AlikeRuns(disk, disk)
    BY <1>2, <2>1 DEF AlikeRuns, SameRequests
  <2>4. \A v \in Lone : prompt'[v] \ prompt[v] \subseteq mem.rows[v].requests
                       /\ prompt'[v] \ prompt[v] \subseteq disk.rows[v].requests
    BY <1>1, <1>2, <2>2 DEF Lone, Single, Units, AlikeRuns, SameRequests
  <2>5. ASSUME NEW c \in Controllers, NEW v \in LifecycleUnits(mem, c), NEW g, HeldBy(c, v, g)
        PROVE  HeldBy(c, v, g)'
    BY <1>1, <2>1, <2>2, <2>5 DEF HeldBy, LifecycleUnits, Present
  <2>6. ASSUME NEW c \in Controllers, NEW v \in LifecycleUnits(disk, c), NEW g, HeldBy(c, v, g)
        PROVE  HeldBy(c, v, g)'
    BY <1>1, <2>2, <2>6 DEF HeldBy, LifecycleUnits, Present
  <2>7. Held(mem, ctl, f)'
    <3>1. u \in LifecycleUnits(mem, ctl)' /\ f \in prompt'[u]
      BY <1>1, <1>2, <2>1, <2>2 DEF LifecycleUnits, Present, SameRequests
    <3>2. QED
      BY <3>1 DEF Held, HeldBy
  <2>8. ASSUME NEW c \in Controllers, NEW g \in mem'.slots[c].dispatched \ mem.slots[c].dispatched
        PROVE  Held(mem, c, g)'
    <3>1. c = ctl /\ g = f
      BY <2>1, <2>8
    <3>2. QED
      BY <1>1, <2>7, <3>1
  <2>9. HandRun(disk)'
    BY <1>1, <2>3, <2>4, <2>6, HandKept
  <2>10. \A c \in Controllers : mem'.slots[c].outcome # Nothing => mem.slots[c].outcome # Nothing
    BY <2>1
  <2>11. HandRun(mem)' /\ \A c \in Controllers : \A g : InHand(mem, c, g) => InHand(mem, c, g)'
    BY <1>1, <2>3, <2>4, <2>5, <2>8, <2>10, HandKept
  <2>12. \A g \in Due(mem, ctl) : InHand(mem, ctl, g) => InHand(mem, ctl, g)'
    <3>1. \A g \in Due(mem, ctl) : InHand(mem, ctl, g) => \E c \in Controllers : c = ctl /\ InHand(mem, c, g)'
      BY <1>1, <2>11
    <3>2. QED
      BY <1>1, <3>1
  <2>13. InHand(mem, ctl, f)' /\ withheld' = withheld
    BY <1>7, <2>7 DEF InHand, Deliver
  <2>14. withheld' \/ \A g \in Due(mem, ctl) : (\E v \in Units : <<v, g>> \in todo') \/ InHand(mem, ctl, g)'
    BY <1>4, <1>5, <2>12, <2>13
  <2>15. SendingOK'
    BY <1>1, <1>4, <2>1, <2>14 DEF SendingOK, Due
  <2>16. QED
    BY <1>3, <2>9, <2>11, <2>15 DEF HandIInv
<1>8. QED
  BY <1>6, <1>7 DEF Send

\* go launches a unit for the repair it carries.
LEMMA GoHand ==
  ASSUME LoopIInv, BaseIInv, HandIInv, NEW c \in Controllers, NEW u \in Spares, Go(c, u)
  PROVE  HandIInv'
<1>1. /\ mem' = disk' /\ SameRequests(disk', disk) /\ disk'.slots = disk.slots
      /\ \A v \in Units : disk'.rows[v].status = IF v = u THEN "running" ELSE disk.rows[v].status
      /\ u \in Units /\ disk.rows[u].status = "pending"
      /\ live' = live \cup {u}
      /\ \A v \in Units : prompt'[v] = IF v = u THEN {disk.rows[u].minted} ELSE prompt[v]
      /\ prompt[u] = {} /\ u \notin live
  BY GoFacts
<1>2. UNCHANGED <<ahead, repaired, emitted>> /\ pc = "idle" /\ pc' = pc
  BY DEF Go, commandVars, history
<1>3. BaseRun(disk) /\ HandRun(disk) /\ u \notin Workers
  BY LoopAssumption DEF BaseIInv, HandIInv
<1>4. \A d : /\ LifecycleUnits(disk, d)' = LifecycleUnits(disk, d)
             /\ LifecycleUnits(disk, d) \subseteq Units
             /\ Due(disk, d)' = Due(disk, d)
  BY <1>1 DEF LifecycleUnits, Present, Due, SameRequests
<1>5. ASSUME NEW d \in Controllers, NEW v \in LifecycleUnits(disk, d), NEW f, HeldBy(d, v, f)
      PROVE  HeldBy(d, v, f)'
  BY <1>1, <1>2, <1>4, <1>5 DEF HeldBy
<1>6. ASSUME NEW d \in Controllers, NEW f, Held(disk, d, f)
      PROVE  Held(disk, d, f)'
  BY <1>2, <1>4, <1>5, <1>6 DEF Held
<1>7. ASSUME NEW d \in Controllers
      PROVE  HeldBy(d, u, disk.rows[u].minted)'
  BY <1>1 DEF HeldBy, SameRequests
<1>8. ASSUME NEW d \in Controllers, NEW f, InHand(disk, d, f)
      PROVE  InHand(disk, d, f)'
  <2>1. CASE Held(disk, d, f)
    BY <1>6, <2>1 DEF InHand
  <2>2. CASE Waiting(disk, d, f)
    <3>1. PICK v \in LifecycleUnits(disk, d) : f \in disk.rows[v].requests /\ v \notin live
      BY <2>2 DEF Waiting
    <3>2. CASE v = u
      <4>1. disk.rows[u].minted = f
        BY <1>1, <1>3, <3>1, <3>2 DEF BaseRun, OnPaths, PathsOverlap
      <4>2. HeldBy(d, u, f)' /\ u \in LifecycleUnits(disk, d)'
        BY <1>1, <1>4, <3>1, <3>2, <4>1 DEF HeldBy
      <4>3. QED
        BY <4>2 DEF InHand, Held
    <3>3. CASE v # u
      BY <1>1, <1>4, <3>1, <3>3 DEF InHand, Waiting, SameRequests
    <3>4. QED
      BY <3>2, <3>3
  <2>3. QED
    BY <1>8, <2>1, <2>2 DEF InHand
<1>9. SentIsHeld(disk)'
  <2>1. \A w \in Workers : w \in live' => w \in live
    BY <1>1, <1>3
  <2>2. QED
    BY <1>1, <1>3, <1>4, <1>6, <2>1 DEF HandRun, SentIsHeld
<1>10. MintedHolds(disk)'
  <2>1. ASSUME NEW d \in Controllers, NEW s \in Spares \cap live', s \in LifecycleUnits(disk, d),
               disk'.rows[s].minted \in Due(disk, d)
        PROVE  HeldBy(d, s, disk.rows[s].minted)'
    <3>1. disk'.rows[s].minted = disk.rows[s].minted
      BY <1>1, <1>4, <2>1 DEF SameRequests
    <3>2. CASE s = u
      BY <1>7, <3>2
    <3>3. CASE s # u
      <4>1. HeldBy(d, s, disk.rows[s].minted)
        BY <1>1, <1>3, <2>1, <3>1, <3>3 DEF HandRun, MintedHolds
      <4>2. QED
        BY <1>5, <2>1, <3>1, <4>1
    <3>4. QED
      BY <3>2, <3>3
  <2>2. QED
    BY <1>4, <2>1 DEF MintedHolds
<1>11. LoneCarries(disk)'
  <2>1. \A v \in Lone : v \in Units /\ v # u
    BY <1>3 DEF Lone, Single, Units
  <2>2. QED
    BY <1>1, <1>2, <1>3, <1>4, <2>1 DEF HandRun, LoneCarries, SameRequests
<1>12. MintedCarries(disk)'
  BY <1>1, <1>2, <1>3, <1>4 DEF HandRun, MintedCarries, SameRequests
<1>13. RoutedInHand(disk)'
  BY <1>1, <1>3, <1>4, <1>8 DEF HandRun, RoutedInHand
<1>14. HandRun(disk)' /\ HandRun(mem)'
  BY <1>1, <1>9, <1>10, <1>11, <1>12, <1>13 DEF HandRun
<1>15. SendingOK' /\ Disjoint'
  BY <1>2, NotSending DEF HandIInv, Disjoint
<1>16. QED
  BY <1>14, <1>15 DEF HandIInv

\* A change of statuses, which have no say in who holds a repair.
LEMMA StatusHand ==
  ASSUME NEW run, NEW new, HandRun(run), SameRequests(new, run),
         \A u \in Units : new.rows[u].status = "absent" <=> run.rows[u].status = "absent",
         \A c \in Controllers : /\ new.slots[c].result = run.slots[c].result
                                /\ new.slots[c].dispatched = run.slots[c].dispatched
                                /\ new.slots[c].outcome # Nothing =>
                                     \/ run.slots[c].outcome # Nothing
                                     \/ \A f \in Due(run, c) : InHand(run, c, f),
         UNCHANGED <<live, prompt, ahead, repaired>>
  PROVE  HandRun(new)'
<1>1. AlikeRuns(new, run) /\ Lone \subseteq Units
  BY DEF AlikeRuns, Lone, Single, Units
<1>2. ASSUME NEW c \in Controllers, NEW u \in LifecycleUnits(run, c), NEW f, HeldBy(c, u, f)
      PROVE  HeldBy(c, u, f)'
  BY <1>2 DEF HeldBy, LifecycleUnits, Present
<1>3. QED
  BY <1>1, <1>2, HandKept

\* A command that ends leaves what it had in memory, or what was on disk, and the outcome it found.
LEMMA EndHand ==
  ASSUME LoopIInv, BaseIInv, HandIInv,
         \/ FinishRouting \/ EndMerge \/ Crash
         \/ \E u \in Units, f \in Findings : SendFails(u, f)
  PROVE  HandIInv'
<1>1. /\ UNCHANGED <<live, prompt, ahead, emitted, repaired>>
      /\ pc' = "idle" /\ mem' = disk'
      /\ HandRun(mem) /\ HandRun(disk)
  BY DEF FinishRouting, EndMerge, Crash, SendFails, EndCommand, sessionVars, history, HandIInv
<1>2. SendingOK' /\ Disjoint'
  BY <1>1, NotSending DEF HandIInv, Disjoint
<1>3. CASE disk' = mem \/ disk' = disk
  <2>1. ASSUME NEW run, HandRun(run)
        PROVE  HandRun(run)'
    BY <1>1, <2>1, StatusHand DEF SameRequests
  <2>2. HandRun(disk)'
    BY <1>1, <1>3, <2>1
  <2>3. QED
    BY <1>1, <1>2, <2>2 DEF HandIInv
<1>4. CASE FinishRouting /\ ~withheld
  <2>1. /\ disk'.rows = mem.rows /\ ctl \in Controllers
        /\ disk'.slots[ctl].result = mem.slots[ctl].result
        /\ disk'.slots[ctl].dispatched = mem.slots[ctl].dispatched
        /\ \A d \in Controllers : d # ctl => disk'.slots[d] = mem.slots[d]
    BY <1>4, FinishFacts
  <2>2. \A f \in Due(mem, ctl) : InHand(mem, ctl, f)
    BY <1>4 DEF FinishRouting, HandIInv, SendingOK
  <2>3. SameRequests(disk', mem)
    BY <2>1 DEF SameRequests
  <2>4. \A c \in Controllers : /\ disk'.slots[c].result = mem.slots[c].result
                               /\ disk'.slots[c].dispatched = mem.slots[c].dispatched
                               /\ disk'.slots[c].outcome # Nothing =>
                                    \/ mem.slots[c].outcome # Nothing
                                    \/ \A f \in Due(mem, c) : InHand(mem, c, f)
    BY <2>1, <2>2
  <2>5. HandRun(disk)'
    BY <1>1, <2>1, <2>3, <2>4, StatusHand
  <2>6. QED
    BY <1>1, <1>2, <2>5 DEF HandIInv
<1>5. CASE FinishRouting /\ withheld
  BY <1>3, <1>5 DEF FinishRouting, EndCommand
<1>6. QED
  BY <1>3, <1>4, <1>5 DEF EndMerge, Crash, SendFails, EndCommand

LEMMA SettleHand ==
  ASSUME LoopIInv, BaseIInv, HandIInv, NEW u \in Units, Settle(u)
  PROVE  HandIInv'
<1>1. /\ mem' = disk' /\ SameRequests(disk', disk) /\ disk'.slots = disk.slots
      /\ disk.rows[u].status = "running" /\ disk'.rows[u].status # "absent"
      /\ \A v \in Units : v # u => disk'.rows[v].status = disk.rows[v].status
  BY SettleFacts
<1>2. UNCHANGED <<live, prompt, ahead, emitted, repaired>> /\ pc' = "idle"
  BY DEF Settle, commandVars, sessionVars, history
<1>3. HandRun(disk)'
  BY <1>1, <1>2, StatusHand DEF HandIInv
<1>4. QED
  BY <1>1, <1>2, <1>3, NotSending DEF HandIInv, Disjoint

LEMMA ResubmitHand ==
  ASSUME LoopIInv, BaseIInv, HandIInv, NEW c \in Controllers, Resubmit(c)
  PROVE  HandIInv'
<1>1. /\ disk' = disk /\ SameRequests(mem', mem) /\ c \in Units
      /\ \A v \in Units : mem'.rows[v].status = IF v = c THEN "running" ELSE mem.rows[v].status
      /\ \A d \in Controllers : /\ mem'.slots[d].result = mem.slots[d].result
                                /\ mem'.slots[d].outcome = mem.slots[d].outcome
                                /\ mem'.slots[d].dispatched = mem.slots[d].dispatched
  BY ResubmitFacts
<1>2. /\ UNCHANGED <<live, prompt, ahead, emitted, repaired>> /\ pc' = "resubmitting"
      /\ mem.rows[c].status # "absent"
  BY <1>1, MemBase DEF Resubmit, commandVars, history, BaseRun, RowsKept
<1>3. HandRun(mem)'
  BY <1>1, <1>2, StatusHand DEF HandIInv
<1>4. HandRun(disk)'
  <2>1. ASSUME NEW run, HandRun(run)
        PROVE  HandRun(run)'
    BY <1>2, <2>1, StatusHand DEF SameRequests
  <2>2. QED
    BY <1>1, <2>1 DEF HandIInv
<1>5. QED
  BY <1>2, <1>3, <1>4, NotSending DEF HandIInv, Disjoint

\* What a unit had committed is on the branch.
LEMMA AdvanceHand ==
  ASSUME LoopIInv, BaseIInv, HandIInv, NEW u \in Workers \cup Spares, Advance(u)
  PROVE  HandIInv'
<1>1. /\ UNCHANGED <<disk, mem, live, prompt, emitted>> /\ pc' = "landing" /\ pc = "merging"
      /\ \A v \in Units : v # u => ahead'[v] = ahead[v]
      /\ \A c \in Controllers :
           repaired'[c] = repaired[c] \cup (IF mem.rows[u].life = Life[c] THEN ahead[u] ELSE {})
  BY DEF Advance, runVars, LoopIInv, SessionsOK
<1>2. mem = disk
  BY <1>1, MemBase
<1>3. \A c \in Controllers :
        /\ repaired[c] \subseteq repaired'[c]
        /\ \A v \in LifecycleUnits(disk, c) : ahead[v] \subseteq ahead'[v] \cup repaired'[c]
  BY <1>1, <1>2 DEF LifecycleUnits, Present
<1>4. HandRun(disk)' /\ HandRun(mem)'
  BY <1>1, <1>3, QuietHand
<1>5. QED
  BY <1>1, <1>4, NotSending DEF HandIInv, Disjoint

\* The requests that a merged unit drops were for repairs that landed.
LEMMA LandHand ==
  ASSUME LoopIInv, BaseIInv, HandIInv, LandUnit, Workers \subseteq Lone
  PROVE  HandIInv'
<1>1. /\ mem' = disk' /\ unit \in Makers /\ unit \in Units /\ disk'.slots = mem.slots
      /\ \A u \in Units : /\ disk'.rows[u].status = mem.rows[u].status
                          /\ disk'.rows[u].life = mem.rows[u].life
                          /\ disk'.rows[u].minted = mem.rows[u].minted
                          /\ disk'.rows[u].requests = IF u = unit THEN {} ELSE mem.rows[u].requests
  BY LandFacts
<1>2. /\ UNCHANGED <<live, prompt, ahead, emitted, repaired>>
      /\ pc = "landing" /\ pc' = "merging" /\ mem = disk
      /\ BaseRun(mem) /\ HandRun(mem)
  BY MemBase DEF LandUnit, sessionVars, history, HandIInv
<1>3. \A c : /\ LifecycleUnits(disk, c)' = LifecycleUnits(mem, c)
             /\ LifecycleUnits(mem, c) \subseteq Units
             /\ Due(disk, c)' = Due(mem, c)
  BY <1>1 DEF LifecycleUnits, Present, Due
<1>4. ASSUME NEW c \in Controllers, unit \in LifecycleUnits(mem, c)
      PROVE  mem.rows[unit].requests \subseteq repaired[c]
  BY <1>1, <1>2, <1>4 DEF BaseIInv, LandingOK, Makers, Lone
<1>5. ASSUME NEW c \in Controllers, NEW u \in LifecycleUnits(mem, c), NEW f, HeldBy(c, u, f)
      PROVE  HeldBy(c, u, f)'
  BY <1>1, <1>2, <1>3, <1>5 DEF HeldBy
<1>6. ASSUME NEW c \in Controllers, NEW f, Held(mem, c, f)
      PROVE  Held(disk, c, f)'
  BY <1>2, <1>3, <1>5, <1>6 DEF Held
<1>7. ASSUME NEW c \in Controllers, NEW f, InHand(mem, c, f)
      PROVE  InHand(disk, c, f)'
  <2>1. CASE Held(mem, c, f)
    BY <1>6, <2>1 DEF InHand
  <2>2. CASE Waiting(mem, c, f)
    <3>1. PICK u \in LifecycleUnits(mem, c) : f \in mem.rows[u].requests /\ u \notin live
      BY <2>2 DEF Waiting
    <3>2. CASE u = unit
      <4>1. f \in repaired'[c]
        BY <1>2, <1>4, <3>1, <3>2
      <4>2. QED
        BY <4>1 DEF InHand, Held
    <3>3. CASE u # unit
      BY <1>1, <1>2, <1>3, <3>1, <3>3 DEF InHand, Waiting
    <3>4. QED
      BY <3>2, <3>3
  <2>3. QED
    BY <1>7, <2>1, <2>2 DEF InHand
<1>8. SentIsHeld(disk)'
  BY <1>1, <1>2, <1>3, <1>6 DEF HandRun, SentIsHeld
<1>9. MintedHolds(disk)'
  <2>1. ASSUME NEW c \in Controllers, NEW s \in Spares \cap live, s \in LifecycleUnits(mem, c),
               disk'.rows[s].minted \in Due(mem, c)
        PROVE  HeldBy(c, s, disk.rows[s].minted)'
    <3>1. disk'.rows[s].minted = mem.rows[s].minted
      BY <1>1, <1>3, <2>1
    <3>2. HeldBy(c, s, mem.rows[s].minted)
      BY <1>2, <2>1, <3>1 DEF HandRun, MintedHolds
    <3>3. QED
      BY <1>5, <2>1, <3>1, <3>2
  <2>2. QED
    BY <1>2, <1>3, <2>1 DEF MintedHolds
<1>10. LoneCarries(disk)'
  <2>1. ASSUME NEW c \in Controllers, NEW u \in Lone, Life[u] = Life[c],
               NEW f \in prompt[u] \cap Due(mem, c)
        PROVE  f \in disk'.rows[u].requests \cup repaired[c]
    <3>1. f \in mem.rows[u].requests \cup repaired[c] /\ u \in Single /\ u \in Units
      BY <1>2, <2>1 DEF HandRun, LoneCarries, Lone, Single, Units
    <3>2. u \in LifecycleUnits(mem, c)
      BY <1>2, <2>1, <3>1 DEF BaseRun, RowsKept, LifecycleUnits, Present, Single
    <3>3. QED
      BY <1>1, <1>4, <3>1, <3>2
  <2>2. QED
    BY <1>2, <1>3, <2>1 DEF LoneCarries
<1>11. MintedCarries(disk)'
  <2>1. ASSUME NEW c \in Controllers, NEW s \in Spares, s \in LifecycleUnits(mem, c),
               disk'.rows[s].minted \in Due(mem, c) \ repaired[c]
        PROVE  \E v \in Spares \cap LifecycleUnits(mem, c) :
                 /\ disk'.rows[v].minted = disk'.rows[s].minted
                 /\ disk'.rows[s].minted \in disk'.rows[v].requests
    <3>1. disk'.rows[s].minted = mem.rows[s].minted
      BY <1>1, <1>3, <2>1
    <3>2. PICK v \in Spares \cap LifecycleUnits(mem, c) :
            mem.rows[v].minted = mem.rows[s].minted /\ mem.rows[s].minted \in mem.rows[v].requests
      BY <1>2, <2>1, <3>1 DEF HandRun, MintedCarries
    <3>3. v # unit
      BY <1>4, <2>1, <3>1, <3>2
    <3>4. QED
      BY <1>1, <1>3, <3>1, <3>2, <3>3
  <2>2. QED
    BY <1>2, <1>3, <2>1 DEF MintedCarries
<1>12. RoutedInHand(disk)'
  <2>1. ASSUME NEW c \in Controllers, disk'.slots[c].outcome # Nothing, NEW f \in Due(mem, c)
        PROVE  InHand(disk, c, f)'
    BY <1>1, <1>2, <1>7, <2>1 DEF HandRun, RoutedInHand
  <2>2. QED
    BY <1>3, <2>1 DEF RoutedInHand
<1>13. HandRun(disk)'
  BY <1>8, <1>9, <1>10, <1>11, <1>12 DEF HandRun
<1>14. QED
  BY <1>1, <1>2, <1>13, NotSending DEF HandIInv, Disjoint

\* A session that commits, goes away or is closed.
LEMMA SessionHand ==
  ASSUME LoopIInv, BaseIInv, HandIInv, Workers \subseteq Lone, NEW u \in Units,
         Dies(u) \/ Clean(u) \/ \E f \in Findings : Commit(u, f)
  PROVE  HandIInv'
<1>1. /\ UNCHANGED <<disk, mem, pc, ctl, todo, withheld, emitted, repaired>>
      /\ BaseRun(disk) /\ BaseRun(mem) /\ HandRun(disk) /\ HandRun(mem)
  BY MemBase DEF Dies, Clean, Commit, runVars, commandVars, history, BaseIInv, HandIInv
<1>2. Disjoint'
  BY <1>1 DEF HandIInv, Disjoint
<1>3. CASE Dies(u) \/ Clean(u)
  <2>1. /\ live' = live \ {u} /\ ahead' = ahead
        /\ \A v \in Units : prompt'[v] = IF v = u THEN {} ELSE prompt[v]
        /\ prompt[u] # {} => u \in Makers
    BY <1>3 DEF Dies, Clean, LoopIInv, SessionsOK
  <2>2. u \in Workers => u \in Lone
    OBVIOUS
  <2>3. /\ HandRun(disk)' /\ HandRun(mem)'
        /\ \A c \in Controllers : \A f \in Due(mem, c) : InHand(mem, c, f) => InHand(mem, c, f)'
    <3>1. ASSUME NEW run, HandRun(run), BaseRun(run)
          PROVE  /\ HandRun(run)'
                 /\ \A c \in Controllers : \A f \in Due(run, c) : InHand(run, c, f) => InHand(run, c, f)'
      BY <1>1, <2>1, <2>2, <3>1, LeaveKept
    <3>2. QED
      BY <1>1, <3>1
  <2>4. SendingOK'
    BY <1>1, <2>3, SendingKept
  <2>5. QED
    BY <1>2, <2>3, <2>4 DEF HandIInv
<1>4. CASE \E f \in Findings : Commit(u, f)
  <2>1. PICK f \in Findings : Commit(u, f)
    BY <1>4
  <2>2. /\ live' = live
        /\ \A v \in Units : /\ prompt'[v] \subseteq prompt[v]
                            /\ prompt[v] \subseteq prompt'[v] \cup ahead'[v]
                            /\ ahead[v] \subseteq ahead'[v]
    BY <2>1 DEF Commit, LoopIInv, SessionsOK
  <2>3. \A c : LifecycleUnits(disk, c) \subseteq Units
    BY DEF LifecycleUnits, Present
  <2>4. /\ HandRun(disk)' /\ HandRun(mem)'
        /\ \A c \in Controllers : \A g : InHand(mem, c, g) => InHand(mem, c, g)'
    BY <1>1, <2>2, <2>3, QuietHand
  <2>5. SendingOK'
    BY <1>1, <2>4, SendingKept
  <2>6. QED
    BY <1>2, <2>4, <2>5 DEF HandIInv
<1>5. QED
  BY <1>3, <1>4

\* A step that changes neither the runs nor what the workers have in hand.
LEMMA StillHand ==
  ASSUME LoopIInv, BaseIInv, HandIInv,
         UNCHANGED <<disk, mem, live, prompt, ahead, repaired>>,
         UNCHANGED <<pc, ctl, todo, withheld>> \/ pc' \notin {"routing", "sending"}
  PROVE  HandRun(disk)' /\ HandRun(mem)' /\ SendingOK'
<1>1. /\ HandRun(disk)' /\ HandRun(mem)'
      /\ \A c \in Controllers : \A f : InHand(mem, c, f) => InHand(mem, c, f)'
  BY QuietHand
<1>2. QED
  BY <1>1, NotSending, SendingKept

\* A controller writes a result with no finding of an earlier one.
LEMMA EmitHand ==
  ASSUME LoopIInv, BaseIInv, HandIInv, ~Recurring, NEW c \in Controllers, Emit(c)
  PROVE  HandIInv'
<1>1. /\ UNCHANGED <<disk, mem, pc, ctl, todo, withheld, live, prompt, ahead, repaired>>
      /\ \A d \in Controllers :
           /\ Len(emitted[d]) \in Nat
           /\ Len(emitted'[d]) = IF d = c THEN Len(emitted[d]) + 1 ELSE Len(emitted[d])
           /\ \A k \in 1..Len(emitted[d]) : emitted'[d][k] = emitted[d][k]
      /\ \A k \in 1..Len(emitted[c]) : emitted'[c][Len(emitted[c]) + 1] \cap emitted[c][k] = {}
  BY EmitFacts
<1>2. Disjoint'
  <2>1. ASSUME NEW d \in Controllers, NEW i \in 1..Len(emitted'[d]), NEW j \in 1..Len(emitted'[d]),
               i # j
        PROVE  emitted'[d][i] \cap emitted'[d][j] = {}
    <3>1. CASE i \in 1..Len(emitted[d]) /\ j \in 1..Len(emitted[d])
      BY <1>1, <2>1, <3>1 DEF HandIInv, Disjoint
    <3>2. CASE d = c /\ i = Len(emitted[c]) + 1
      <4>1. j \in 1..Len(emitted[c])
        BY <1>1, <2>1, <3>2
      <4>2. QED
        BY <1>1, <3>2, <4>1
    <3>3. CASE d = c /\ j = Len(emitted[c]) + 1
      <4>1. i \in 1..Len(emitted[c])
        BY <1>1, <2>1, <3>3
      <4>2. QED
        BY <1>1, <3>3, <4>1
    <3>4. QED
      BY <1>1, <2>1, <3>1, <3>2, <3>3
  <2>2. QED
    BY <2>1 DEF Disjoint
<1>3. QED
  BY <1>1, <1>2, StillHand DEF HandIInv

LEMMA HandStep ==
  ASSUME LoopIInv, BaseIInv, HandIInv, [LoopNext]_loopVars,
         ~Recurring, Workers \subseteq Lone
  PROVE  HandIInv'
<1>1. ASSUME NEW c \in Controllers,
             \/ \E n \in 1..Len(emitted[c]) : Ingest(c, n)
             \/ \E u \in Spares : Go(c, u)
             \/ Resubmit(c) \/ Emit(c)
      PROVE  HandIInv'
  BY <1>1, IngestHand, GoHand, ResubmitHand, EmitHand
<1>2. CASE Route \/ LandUnit
  BY <1>2, RouteHand, LandHand
<1>3. ASSUME NEW u \in Units, NEW f \in Findings, Send(u, f) \/ SendFails(u, f) \/ Commit(u, f)
      PROVE  HandIInv'
  BY <1>3, SendHand, EndHand, SessionHand
<1>4. ASSUME NEW u \in Units, Settle(u) \/ Dies(u)
      PROVE  HandIInv'
  BY <1>4, SettleHand, SessionHand
<1>5. ASSUME NEW u \in Workers \cup Spares, Clean(u) \/ Advance(u)
      PROVE  HandIInv'
  BY <1>5, AdvanceHand, SessionHand DEF Units
<1>6. CASE FinishRouting \/ EndMerge \/ Crash
  BY <1>6, EndHand
<1>7. CASE StartMerge \/ EndTurns \/ UNCHANGED loopVars
  <2>1. /\ UNCHANGED <<disk, mem, live, prompt, ahead, emitted, repaired>>
        /\ UNCHANGED <<pc, ctl, todo, withheld>> \/ pc' \notin {"routing", "sending"}
    BY <1>7 DEF StartMerge, EndTurns, loopVars, runVars, commandVars, sessionVars, history
  <2>2. QED
    BY <2>1, StillHand DEF HandIInv, Disjoint
<1>8. QED
  BY <1>1, <1>2, <1>3, <1>4, <1>5, <1>6, <1>7 DEF LoopNext

LEMMA HandHolds ==
  ASSUME Recurring = FALSE, Workers \subseteq Lone
  PROVE  LoopSpec => [](LoopIInv /\ BaseIInv /\ HandIInv)
<1>1. LoopInit => HandIInv
  BY InitHand
<1>2. LoopIInv /\ BaseIInv /\ HandIInv /\ [LoopNext]_loopVars => HandIInv'
  BY HandStep
<1>3. QED
  BY <1>1, <1>2, BaseHolds, PTL DEF LoopSpec

\* A result whose outcome is recorded has each of its repairs on the branch or in somebody's hand,
\* through kills, failed sends, withheld requests and sessions that go away.  A finding does not
\* block twice, and each worker carries one repair that is its alone.
THEOREM RoutedHolds ==
  ASSUME Recurring = FALSE, Workers \subseteq Lone
  PROVE  LoopSpec => []RoutedIsInHand
<1>1. ASSUME LoopIInv, BaseIInv, HandIInv, NEW c \in Controllers, disk.slots[c].outcome # Nothing,
             NEW f \in Work(disk.slots[c].result) \ repaired[c]
      PROVE  \E u \in LifecycleUnits(disk, c) :
               \/ f \in prompt[u] \cup ahead[u]
               \/ f \in disk.rows[u].requests /\ (disk.rows[u].status = "pending" \/ u \notin live)
  <2>1. InHand(disk, c, f) /\ f \notin repaired[c]
    BY <1>1 DEF HandIInv, HandRun, RoutedInHand, Due
  <2>2. QED
    BY <2>1 DEF InHand, Held, HeldBy, Waiting
<1>2. LoopIInv /\ BaseIInv /\ HandIInv => RoutedIsInHand
  BY <1>1 DEF RoutedIsInHand
<1>3. QED
  BY <1>2, HandHolds, PTL

\* A step that commits nothing, and drops no commit of a replacement for a repair that is still due.
LEMMA MadeKept ==
  ASSUME MadeIInv, produced' = produced,
         \A s \in Spares : disk.rows[s].status # "absent" =>
           /\ disk'.rows[s].status # "absent"
           /\ disk'.rows[s].life = disk.rows[s].life
           /\ disk'.rows[s].minted = disk.rows[s].minted,
         \A c \in Controllers : \A s \in Spares \cap LifecycleUnits(disk, c) :
           disk.rows[s].minted \in Due(disk, c)' =>
             /\ disk.rows[s].minted \in Due(disk, c)
             /\ disk.rows[s].minted \in repaired[c] \cup ahead[s] =>
                  disk.rows[s].minted \in repaired'[c] \cup ahead'[s]
  PROVE  MadeIInv'
<1>1. ASSUME NEW s \in Spares \cap produced
      PROVE  disk'.rows[s].status # "absent"
  BY <1>1 DEF MadeIInv
<1>2. ASSUME NEW c \in Controllers, NEW s \in Spares \cap produced, s \in LifecycleUnits(disk, c)',
             disk'.rows[s].minted \in Due(disk, c)'
      PROVE  disk'.rows[s].minted \in repaired'[c] \cup ahead'[s]
  <2>1. /\ disk.rows[s].status # "absent" /\ s \in Units
        /\ disk'.rows[s].life = disk.rows[s].life /\ disk'.rows[s].minted = disk.rows[s].minted
    BY <1>2 DEF MadeIInv, Units
  <2>2. s \in LifecycleUnits(disk, c)
    BY <1>2, <2>1 DEF LifecycleUnits, Present
  <2>3. QED
    BY <1>2, <2>1, <2>2 DEF MadeIInv
<1>3. QED
  BY <1>1, <1>2 DEF MadeIInv

\* A replacement's commits are the repair it was minted for.
LEMMA MadeStep ==
  ASSUME LoopIInv, BaseIInv, HandIInv, MadeIInv, [LoopNext]_loopVars
  PROVE  MadeIInv'
<1>1. /\ BaseRun(disk) /\ AlikeRuns(mem, disk) /\ Spares \subseteq Units
      /\ pc \notin {"sending", "resubmitting"} => mem = disk
  BY MemBase DEF BaseIInv, Units
<1>2. ASSUME NEW c \in Controllers, NEW n \in 1..Len(emitted[c]), Ingest(c, n)
      PROVE  MadeIInv'
  <2>1. /\ disk'.rows = disk.rows /\ UNCHANGED <<produced, ahead>>
        /\ disk'.slots[c].result = [round |-> n, blocking |-> emitted[c][n]]
        /\ \A d \in Controllers : d # c =>
             disk'.slots[d] = disk.slots[d] /\ repaired'[d] = repaired[d]
        /\ disk.slots[c].result = disk'.slots[c].result => repaired'[c] = repaired[c]
    <3>1. /\ disk'.rows = disk.rows
          /\ disk'.slots[c].result = [round |-> n, blocking |-> emitted[c][n]]
          /\ \A d \in Controllers : d # c => disk'.slots[d] = disk.slots[d]
      BY <1>2, IngestFacts
    <3>2. /\ UNCHANGED <<produced, ahead>>
          /\ \A d \in Controllers : d # c => repaired'[d] = repaired[d]
          /\ disk.slots[c].result = [round |-> n, blocking |-> emitted[c][n]]
               => repaired'[c] = repaired[c]
      BY <1>2 DEF Ingest, sessionVars, LoopIInv
    <3>3. QED
      BY <3>1, <3>2
  <2>2. ASSUME NEW d \in Controllers, NEW s \in Spares \cap LifecycleUnits(disk, d),
               disk.rows[s].minted \in Due(disk, d)'
        PROVE  disk.rows[s].minted \in Due(disk, d) /\ repaired'[d] = repaired[d]
    <3>1. CASE d # c \/ disk.slots[c].result = disk'.slots[c].result
      BY <2>1, <2>2, <3>1 DEF Due
    <3>2. CASE d = c /\ disk.slots[c].result # disk'.slots[c].result
      <4>1. disk.rows[s].minted \in Seen(disk, c)
        BY <1>1, <2>2, <3>2 DEF BaseRun, ResultsSeen
      <4>2. QED
        BY <1>2, <2>1, <2>2, <3>2, <4>1, NewResult
    <3>3. QED
      BY <3>1, <3>2
  <2>3. QED
    BY <2>1, <2>2, MadeKept
<1>3. ASSUME NEW c \in Controllers, NEW u \in Spares, Go(c, u)
      PROVE  MadeIInv'
  <2>1. /\ SameRequests(disk', disk) /\ disk'.slots = disk.slots
        /\ \A v \in Units : disk'.rows[v].status = IF v = u THEN "running" ELSE disk.rows[v].status
        /\ UNCHANGED <<produced, ahead, repaired>>
    BY <1>3, GoFacts DEF Go, history
  <2>2. QED
    BY <1>1, <2>1, MadeKept DEF SameRequests, Due
<1>4. CASE Route
  <2>1. /\ mem' = disk' /\ mem = disk /\ UNCHANGED <<produced, ahead, repaired>>
        /\ \A u \in LifecycleUnits(mem, ctl) : HolderRow(mem, ctl, u, mem.rows[u], disk'.rows[u])
        /\ \A u \in Units :
             \/ \E f \in Unheld(mem, ctl) :
                  u \in Spares /\ MintedRow(mem, ctl, f, mem.rows[u], disk'.rows[u])
             \/ u \in LifecycleUnits(mem, ctl)
             \/ disk'.rows[u] = mem.rows[u]
        /\ \A d \in Controllers : disk'.slots[d].result = disk.slots[d].result
    BY <1>1, <1>4, RouteFacts DEF Route, sessionVars, history, SlotRouted
  <2>2. \A s \in Spares : disk.rows[s].status # "absent" =>
          /\ disk'.rows[s].status = disk.rows[s].status
          /\ disk'.rows[s].life = disk.rows[s].life
          /\ disk'.rows[s].minted = disk.rows[s].minted
    BY <1>1, <2>1 DEF MintedRow, HolderRow
  <2>3. QED
    BY <2>1, <2>2, MadeKept DEF Due
<1>5. ASSUME NEW u \in Units, Settle(u)
      PROVE  MadeIInv'
  <2>1. /\ SameRequests(disk', disk) /\ disk'.slots = disk.slots
        /\ disk'.rows[u].status # "absent"
        /\ \A v \in Units : v # u => disk'.rows[v].status = disk.rows[v].status
        /\ UNCHANGED <<produced, ahead, repaired>>
    BY <1>5, SettleFacts DEF Settle, sessionVars, history
  <2>2. QED
    BY <1>1, <2>1, MadeKept DEF SameRequests, Due
<1>6. CASE FinishRouting \/ EndMerge \/ Crash \/ \E u \in Units, f \in Findings : SendFails(u, f)
  <2>1. /\ UNCHANGED <<produced, ahead, repaired>>
        /\ disk' = disk \/ (disk'.rows = mem.rows
                             /\ \A d \in Controllers : disk'.slots[d].result = mem.slots[d].result)
    BY <1>6, FinishFacts DEF FinishRouting, EndMerge, Crash, SendFails, EndCommand, sessionVars, history
  <2>2. QED
    BY <1>1, <2>1, MadeKept DEF AlikeRuns, SameRequests, Due
<1>7. CASE LandUnit
  <2>1. /\ disk'.slots = mem.slots /\ UNCHANGED <<produced, ahead, repaired>>
        /\ \A u \in Units : /\ disk'.rows[u].status = mem.rows[u].status
                            /\ disk'.rows[u].life = mem.rows[u].life
                            /\ disk'.rows[u].minted = mem.rows[u].minted
        /\ mem = disk
    BY <1>1, <1>7, LandFacts DEF LandUnit, sessionVars, history
  <2>2. QED
    BY <1>1, <2>1, MadeKept DEF Due
<1>8. ASSUME NEW u \in Workers \cup Spares, Advance(u)
      PROVE  MadeIInv'
  <2>1. /\ UNCHANGED <<disk, mem, produced>> /\ mem = disk
        /\ \A v \in Units : v # u => ahead'[v] = ahead[v]
        /\ \A c \in Controllers :
             repaired'[c] = repaired[c] \cup (IF mem.rows[u].life = Life[c] THEN ahead[u] ELSE {})
    BY <1>1, <1>8 DEF Advance, runVars, LoopIInv, SessionsOK
  <2>2. ASSUME NEW c \in Controllers, NEW s \in Spares \cap LifecycleUnits(disk, c)
        PROVE  repaired[c] \cup ahead[s] \subseteq repaired'[c] \cup ahead'[s]
    BY <1>1, <2>1 DEF LifecycleUnits, Present
  <2>3. QED
    BY <2>1, <2>2, MadeKept DEF Due
<1>9. ASSUME NEW u \in Units, NEW f \in Findings, Commit(u, f)
      PROVE  MadeIInv'
  <2>1. /\ UNCHANGED disk /\ repaired' = repaired /\ produced' = produced \cup {u}
        /\ \A v \in Units : ahead'[v] = IF v = u THEN ahead[u] \cup {f} ELSE ahead[v]
        /\ f \in prompt[u] /\ u \in live
    BY <1>9 DEF Commit, runVars, history, LoopIInv, SessionsOK
  <2>2. disk.rows[u].status # "absent" /\ PathsOverlap(disk, u, f)
    BY <1>1, <2>1 DEF LoopIInv, RowsOK, BaseRun, OnPaths
  <2>3. u \in Spares => disk.rows[u].minted = f
    BY <2>2, LoopAssumption DEF PathsOverlap
  <2>4. \A c : LifecycleUnits(disk, c)' = LifecycleUnits(disk, c) /\ Due(disk, c)' = Due(disk, c)
    BY <2>1 DEF LifecycleUnits, Present, Due
  <2>5. ASSUME NEW s \in Spares \cap produced'
        PROVE  /\ disk.rows[s].status # "absent"
               /\ \A c \in Controllers :
                    s \in LifecycleUnits(disk, c) /\ disk.rows[s].minted \in Due(disk, c)
                      => disk.rows[s].minted \in repaired[c] \cup ahead'[s]
    BY <1>1, <2>1, <2>2, <2>3 DEF MadeIInv
  <2>6. QED
    BY <2>1, <2>4, <2>5 DEF MadeIInv
<1>10. ASSUME UNCHANGED <<disk, produced, ahead, repaired>>
       PROVE  MadeIInv'
  BY <1>10, MadeKept DEF Due
<1>11. ASSUME NEW c \in Controllers, Resubmit(c) \/ Emit(c)
       PROVE  MadeIInv'
  BY <1>10, <1>11 DEF Resubmit, Emit, runVars, history
<1>12. ASSUME NEW u \in Units, NEW f \in Findings, Send(u, f)
       PROVE  MadeIInv'
  <2>1. UNCHANGED <<disk, produced, ahead, repaired>>
    BY <1>12 DEF Send, history
  <2>2. QED
    BY <1>10, <2>1
<1>13. ASSUME NEW u \in Units, Dies(u) \/ Clean(u)
       PROVE  MadeIInv'
  BY <1>10, <1>13 DEF Dies, Clean, runVars, history
<1>14. CASE StartMerge \/ EndTurns \/ UNCHANGED loopVars
  BY <1>10, <1>14 DEF StartMerge, EndTurns, loopVars, runVars, sessionVars, history
<1>15. QED
  BY <1>2, <1>3, <1>4, <1>5, <1>6, <1>7, <1>8, <1>9, <1>11, <1>12, <1>13, <1>14 DEF LoopNext, Units

\* clean --merged closes no session in the middle of a repair, through any number of kills and with
\* sessions settled whenever they are idle, when each worker carries one repair that is its alone and
\* no finding blocks twice: the request that keeps a worker is there as long as the repair is due,
\* and a replacement has no commits before it made its repair.
THEOREM CleanHolds ==
  ASSUME Recurring = FALSE, Workers \subseteq Lone
  PROVE  LoopSpec => CleanCutsNothing
<1>1. ASSUME LoopIInv, BaseIInv, HandIInv, MadeIInv, NEW u \in live, NEW c \in Controllers, Clean(u),
             disk.rows[u].life = Life[c]
      PROVE  prompt[u] \cap Work(disk.slots[c].result) \subseteq repaired[c]
  <2>1. /\ u \in Units /\ disk.rows[u].status = "done" /\ u \in produced
        /\ disk.rows[u].requests = {} /\ ahead[u] = {}
        /\ prompt[u] # {} => u \in Workers \cup Spares
        /\ BaseRun(disk) /\ HandRun(disk)
    BY <1>1 DEF Clean, LoopIInv, SessionsOK, BaseIInv, HandIInv, Makers
  <2>2. CASE u \in Workers
    <3>1. u \in Lone /\ Life[u] = Life[c]
      BY <1>1, <2>1, <2>2 DEF BaseRun, RowsKept
    <3>2. QED
      BY <2>1, <3>1 DEF HandRun, LoneCarries, Due
  <2>3. CASE u \in Spares
    <3>1. u \in LifecycleUnits(disk, c)
      BY <1>1, <2>1 DEF LifecycleUnits, Present
    <3>2. \A f \in prompt[u] : f = disk.rows[u].minted
      BY <2>1, <2>3, LoopAssumption DEF BaseRun, OnPaths, PathsOverlap
    <3>3. disk.rows[u].minted \in Due(disk, c) => disk.rows[u].minted \in repaired[c]
      BY <1>1, <2>1, <2>3, <3>1 DEF MadeIInv
    <3>4. QED
      BY <3>2, <3>3 DEF Due
  <2>4. QED
    BY <2>1, <2>2, <2>3
<1>2. LoopInit => MadeIInv
  BY LoopAssumption DEF LoopInit, MadeIInv
<1>3. LoopIInv /\ BaseIInv /\ HandIInv /\ MadeIInv /\ [LoopNext]_loopVars => MadeIInv'
  BY MadeStep
<1>4. LoopIInv /\ BaseIInv /\ HandIInv /\ MadeIInv /\ [LoopNext]_loopVars =>
        [\A u \in live \ live', c \in Controllers :
           Clean(u) /\ disk.rows[u].life = Life[c] =>
             prompt[u] \cap Work(disk.slots[c].result) \subseteq repaired[c]]_loopVars
  BY <1>1
<1>5. LoopSpec => [](LoopIInv /\ BaseIInv /\ HandIInv)
  BY HandHolds
<1>6. LoopSpec => [][\A u \in live \ live', c \in Controllers :
           Clean(u) /\ disk.rows[u].life = Life[c] =>
             prompt[u] \cap Work(disk.slots[c].result) \subseteq repaired[c]]_loopVars
  BY <1>2, <1>3, <1>4, <1>5, PTL DEF LoopSpec
<1>7. QED
  BY <1>6 DEF CleanCutsNothing
=============================================================================
