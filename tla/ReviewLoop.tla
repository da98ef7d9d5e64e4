------------------------------ MODULE ReviewLoop ------------------------------
(***************************************************************************)
(* The code-review repair loop of orchestrate.py: review-result ingests a  *)
(* controller's result and routes every blocking finding to a worker, go   *)
(* launches the replacements it minted, settle and merge bring the repairs *)
(* onto the run's branch, and merge resubmits the landed revision to the   *)
(* controller.                                                             *)
(*                                                                         *)
(* The coordinator runs one command at a time.  review-result and merge    *)
(* keep the run in memory and save it at several points; a command may be  *)
(* killed between two of them, and the coordinator then runs it again on   *)
(* what was saved.  A save is one step (RunRecord).  Sessions go on        *)
(* working while no command runs.                                          *)
(***************************************************************************)
EXTENDS Naturals, Sequences, Functions

CONSTANTS
  Controllers,    \* the run's Code Review controllers
  Workers,        \* the Work units the run starts with
  Open,           \* those of them whose session is open
  Spares,         \* the units a review may mint (a bound on the replacements)
  Findings,       \* the finding ids, which are stable across rounds
  Reviews,        \* the findings each controller's target can have
  OperatorOwned,  \* the findings owned by a human or the release
  Touches,        \* the findings whose path each worker's paths overlap
  Life,           \* the lifecycle each controller and worker declares, a controller, or Unscoped
  Unscoped,       \* no lifecycle declared
  Nothing,        \* no finding, no result, no unit
  StagedUnits,    \* the units whose composer may hold staged input
  Mortal,         \* the workers and minted units whose session may go away
  Recurring,      \* may a finding block again in a later round
  Rounds,         \* bound: the rounds each controller reviews
  MaxKills        \* bound: commands killed

Units == Controllers \cup Workers \cup Spares

ASSUME LoopAssumption ==
  /\ Spares \cap (Controllers \cup Workers) = {}
  /\ Controllers \cap Workers = {}
  /\ OperatorOwned \subseteq Findings
  /\ Open \subseteq Workers
  /\ Reviews \in [Controllers -> SUBSET Findings]
  /\ Touches \in [Workers -> SUBSET Findings]
  /\ Life \in [Controllers \cup Workers -> Controllers \cup {Unscoped}]
  /\ \A c \in Controllers : Life[c] \in {c, Unscoped}
  /\ (\E c \in Controllers : Life[c] = Unscoped) => \A c, d \in Controllers : c = d
  /\ Nothing \notin Findings
  /\ Nothing \notin [round : Nat, blocking : SUBSET Findings]
  /\ Rounds \in [Controllers -> Nat]
  /\ MaxKills \in Nat
  /\ \A c \in Controllers : \E u \in Workers : Life[u] \in {Life[c], Unscoped}

VARIABLES
  disk,       \* the run as saved: rows, a unit's row each, and slots, a controller's review state
  mem,        \* the run in the memory of the command that runs
  pc,         \* the step the command is at
  ctl,        \* the controller whose result review-result routes
  todo,       \* the dispatches it has still to send, and whether one was withheld
  withheld,
  unit,       \* the unit whose merge is being recorded, and the units merged by this command
  landed,
  live,       \* the units whose session is there
  produced,   \* the units whose branch has commits of its own
  prompt,     \* the repairs each session was prompted for and has not committed
  ahead,      \* the repairs committed on each unit's branch and not merged
  reviewing,  \* is the controller's session reviewing
  emitted,    \* the results each controller's session has written, blocking findings each
  repaired,   \* history: the repairs merged since each controller's result was ingested
  kills       \* commands killed so far

runVars == <<disk, mem>>
commandVars == <<pc, ctl, todo, withheld, unit, landed>>
sessionVars == <<live, produced, prompt, ahead, reviewing, emitted>>
history == <<repaired, kills>>
loopVars == <<runVars, commandVars, sessionVars, history>>

Row(status, life) ==
  [status |-> status, requests |-> {}, life |-> life, minted |-> Nothing]

EmptySlot == [result |-> Nothing, outcome |-> Nothing, pending |-> FALSE, operator |-> {},
              dispatched |-> {}]

\* The workers' first work is merged and the controllers review it.
LoopInit ==
  /\ disk = [rows |-> [u \in Units |->
               IF u \in Spares THEN Row("absent", Unscoped)
               ELSE Row(IF u \in Workers THEN "done" ELSE "running", Life[u])],
             slots |-> [c \in Controllers |-> EmptySlot]]
  /\ mem = disk
  /\ pc = "idle"
  /\ ctl = Nothing
  /\ todo = {}
  /\ withheld = FALSE
  /\ unit = Nothing
  /\ landed = {}
  /\ live = Controllers \cup Open
  /\ produced = Workers
  /\ prompt = [u \in Units |-> {}]
  /\ ahead = [u \in Units |-> {}]
  /\ reviewing = [c \in Controllers |-> TRUE]
  /\ emitted = [c \in Controllers |-> << >>]
  /\ repaired = [c \in Controllers |-> {}]
  /\ kills = 0

-----------------------------------------------------------------------------
(***************************************************************************)
(* Which unit a repair goes to.                                            *)
(***************************************************************************)

Present(run) == {u \in Units : run.rows[u].status # "absent"}

\* Mutant of LifecycleUnits: every unit of the run.
EveryUnit(run, c) == Present(run)

\* _lifecycle_units: the controller's own lifecycle, the units without one when it has none.
LifecycleUnits(run, c) == {u \in Present(run) : run.rows[u].life = Life[c]}

\* A worker without a lifecycle may serve a scoped controller as a template.
RoleWorkers(run, c) ==
  {u \in Present(run) \ Controllers : run.rows[u].life \in {Life[c], Unscoped}}

\* route_paths_overlap: a minted unit's paths are those of the finding it was minted for.
PathsOverlap(run, u, f) ==
  IF u \in Workers THEN f \in Touches[u] ELSE run.rows[u].minted = f

\* The live workers a repair may be sent to.
Reusable(run, c, f) ==
  {u \in LifecycleUnits(run, c) \cap RoleWorkers(run, c) :
     /\ PathsOverlap(run, u, f)
     /\ u \in live
     /\ run.rows[u].status # "orphaned"}

\* Run.eligible, for a minted unit: it waits for the controller it was minted by.
Eligible(run, c, u) ==
  /\ u \in Spares
  /\ run.rows[u].status = "pending"
  /\ run.rows[c].status = "done"

\* The units that carry the repair already and can still make it.
Assigned(run, c, f) ==
  {u \in LifecycleUnits(run, c) :
     /\ f \in run.rows[u].requests
     /\ run.rows[u].status # "orphaned"
     /\ u \in live \/ Eligible(run, c, u)}

Holder(run, c, f) ==
  IF Reusable(run, c, f) # {} THEN CHOOSE u \in Reusable(run, c, f) : TRUE
                              ELSE CHOOSE u \in Assigned(run, c, f) : TRUE

\* The Work repairs of a result, and those of them that need a replacement.
Work(result) == IF result = Nothing THEN {} ELSE result.blocking \ OperatorOwned

Unheld(run, c) ==
  {f \in Work(run.slots[c].result) : Reusable(run, c, f) \cup Assigned(run, c, f) = {}}

\* A replacement for each of those; which spare stands for it does not matter.
Mintings(run, c) == Injection(Unheld(run, c), {u \in Spares : run.rows[u].status = "absent"})

\* route_review_result, with minted the replacement of each repair that needs one: _park_fix_request
\* leaves one outstanding copy of a repair in the lifecycle.
Routed(run, c, minted) ==
  LET work   == Work(run.slots[c].result)
      holder == [f \in work |-> IF f \in DOMAIN minted THEN minted[f] ELSE Holder(run, c, f)]
      parked(u) == {f \in work : holder[f] = u}
      fresh(u)  == [Row("pending", Life[c]) EXCEPT
                      !.requests = parked(u), !.minted = CHOOSE f \in parked(u) : TRUE]
  IN  [rows |-> [u \in Units |->
         IF u \in Range(minted) THEN fresh(u)
         ELSE IF u \in LifecycleUnits(run, c)
           THEN [run.rows[u] EXCEPT !.requests = (@ \ work) \cup parked(u)]
         ELSE run.rows[u]],
       slots |-> [run.slots EXCEPT
         ![c].operator = run.slots[c].result.blocking \cap OperatorOwned,
         ![c].pending  = work # {}]]

-----------------------------------------------------------------------------
(***************************************************************************)
(* review-result                                                           *)
(***************************************************************************)

\* The command ends, or is killed: what it did not save is gone.
EndCommand(saved) ==
  /\ pc' = "idle"
  /\ disk' = saved
  /\ mem' = saved
  /\ todo' = {}
  /\ withheld' = FALSE
  /\ landed' = {}
  /\ ctl' = Nothing
  /\ unit' = Nothing

Save(run) == disk' = run /\ mem' = run

\* A byte-identical replay of a routed result does nothing; an accepted result is final and an
\* older round is refused.
Admitted(slot, result) ==
  /\ slot.result = result => slot.outcome = Nothing
  /\ slot.result \notin {Nothing, result} =>
       slot.outcome # "accepted" /\ result.round >= slot.result.round

\* Mutant of Ingest: the outcome of the last result stays until the new one is routed.
IngestKeepsOutcome(c, n) ==
  LET result == [round |-> n, blocking |-> emitted[c][n]]
  IN  /\ pc = "idle"
      /\ Admitted(disk.slots[c], result)
      /\ Save([disk EXCEPT !.slots[c].result = result])
      /\ pc' = "routing"
      /\ ctl' = c
      /\ repaired' = [repaired EXCEPT ![c] = IF disk.slots[c].result = result THEN @ ELSE {}]
      /\ UNCHANGED <<todo, withheld, unit, landed, sessionVars, kills>>

\* The result is saved verbatim, its outcome unset, before anything reads it.
Ingest(c, n) ==
  LET result == [round |-> n, blocking |-> emitted[c][n]]
  IN  /\ pc = "idle"
      /\ Admitted(disk.slots[c], result)
      /\ Save([disk EXCEPT !.slots[c].result = result, !.slots[c].outcome = Nothing])
      /\ pc' = "routing"
      /\ ctl' = c
      /\ repaired' = [repaired EXCEPT ![c] = IF disk.slots[c].result = result THEN @ ELSE {}]
      /\ UNCHANGED <<todo, withheld, unit, landed, sessionVars, kills>>

\* Every repair is parked on its holder and saved; those on live workers are still to be sent.
Route ==
  /\ pc = "routing"
  /\ Mintings(mem, ctl) # {}
  /\ Save(Routed(mem, ctl, CHOOSE minted \in Mintings(mem, ctl) : TRUE))
  /\ todo' = {<<Holder(mem, ctl, f), f>> :
                f \in {g \in Work(mem.slots[ctl].result) : Reusable(mem, ctl, g) # {}}}
  /\ pc' = "sending"
  /\ UNCHANGED <<ctl, withheld, unit, landed, sessionVars, history>>

\* dispatch_review_routing, one request: counted without a prompt when the slot says it was sent,
\* withheld when the composer holds staged input, else sent.
Skip(u, f) ==
  /\ f \in mem.slots[ctl].dispatched
  /\ UNCHANGED <<mem, withheld, prompt>>

Withhold(u, f) ==
  /\ f \notin mem.slots[ctl].dispatched
  /\ u \in StagedUnits
  /\ withheld' = TRUE
  /\ UNCHANGED <<mem, prompt>>

Deliver(u, f) ==
  /\ f \notin mem.slots[ctl].dispatched
  /\ u \in live
  /\ prompt' = [prompt EXCEPT ![u] = @ \cup {f}]
  /\ mem' = [mem EXCEPT !.rows[u].status = "running", !.slots[ctl].dispatched = @ \cup {f}]
  /\ UNCHANGED withheld

Send(u, f) ==
  /\ pc = "sending"
  /\ <<u, f>> \in todo
  /\ todo' = todo \ {<<u, f>>}
  /\ Skip(u, f) \/ Withhold(u, f) \/ Deliver(u, f)
  /\ UNCHANGED <<disk, pc, ctl, unit, landed, live, produced, ahead, reviewing, emitted, history>>

\* The prompt cannot be written (the session is gone, or the launcher's call fails): what was sent
\* so far is saved and the result stays retryable.
SendFails(u, f) ==
  /\ pc = "sending"
  /\ <<u, f>> \in todo
  /\ f \notin mem.slots[ctl].dispatched
  /\ EndCommand(mem)
  /\ UNCHANGED <<sessionVars, history>>

Outcome(result) == IF result.blocking = {} THEN "accepted" ELSE "repairs_requested"

\* The outcome is the completion marker: it is set when every request was routed.
FinishRouting ==
  /\ pc = "sending"
  /\ todo = {}
  /\ EndCommand(IF withheld THEN mem
                ELSE [mem EXCEPT !.slots[ctl].outcome = Outcome(mem.slots[ctl].result)])
  /\ UNCHANGED <<sessionVars, history>>

-----------------------------------------------------------------------------
(***************************************************************************)
(* go, settle and clean, as far as the loop needs them.                    *)
(***************************************************************************)

\* Mutant of Go: the launch is not recorded.
GoUnrecorded(c, u) ==
  /\ pc = "idle"
  /\ Eligible(disk, c, u)
  /\ u \in LifecycleUnits(disk, c)
  /\ live' = live \cup {u}
  /\ prompt' = [prompt EXCEPT ![u] = {disk.rows[u].minted}]
  /\ UNCHANGED <<runVars, commandVars, produced, ahead, reviewing, emitted, history>>

\* go launches a minted unit: its task is the request it was minted for.
Go(c, u) ==
  /\ pc = "idle"
  /\ Eligible(disk, c, u)
  /\ u \in LifecycleUnits(disk, c)
  /\ Save([disk EXCEPT !.rows[u].status = "running"])
  /\ live' = live \cup {u}
  /\ prompt' = [prompt EXCEPT ![u] = {disk.rows[u].minted}]
  /\ UNCHANGED <<commandVars, produced, ahead, reviewing, emitted, history>>

\* settle: a session that is idle at both readings, which it also is between two turns or prompts,
\* is done when it has commits or no branch to read; one that is gone without commits is orphaned.
Settle(u) ==
  /\ pc = "idle"
  /\ disk.rows[u].status = "running"
  /\ u \in live => u \in produced \cup Controllers
  /\ Save([disk EXCEPT !.rows[u].status =
              IF u \in produced \cup Controllers THEN "done" ELSE "orphaned"])
  /\ UNCHANGED <<commandVars, sessionVars, history>>

\* Mutant of Clean: an outstanding request does not keep its worker.
CleanAll(u) ==
  /\ pc = "idle"
  /\ disk.rows[u].status = "done"
  /\ u \in produced /\ ahead[u] = {}
  /\ live' = live \ {u}
  /\ prompt' = [prompt EXCEPT ![u] = {}]
  /\ UNCHANGED <<runVars, commandVars, produced, ahead, reviewing, emitted, history>>

\* clean --merged closes a unit whose work is landed and that carries no request.  A controller
\* has no branch and is never closed by it.
Clean(u) ==
  /\ pc = "idle"
  /\ disk.rows[u].requests = {}
  /\ disk.rows[u].status = "done"
  /\ u \in produced /\ ahead[u] = {}
  /\ live' = live \ {u}
  /\ prompt' = [prompt EXCEPT ![u] = {}]
  /\ UNCHANGED <<runVars, commandVars, produced, ahead, reviewing, emitted, history>>

-----------------------------------------------------------------------------
(***************************************************************************)
(* merge                                                                   *)
(***************************************************************************)

StartMerge ==
  /\ pc = "idle"
  /\ pc' = "merging"
  /\ UNCHANGED <<runVars, ctl, todo, withheld, unit, landed, sessionVars, history>>

\* A unit that is done and has commits ahead is merged: the branch has moved.
Advance(u) ==
  /\ pc = "merging"
  /\ mem.rows[u].status = "done"
  /\ ahead[u] # {}
  /\ ahead' = [ahead EXCEPT ![u] = {}]
  /\ repaired' = [c \in Controllers |->
                    repaired[c] \cup (IF mem.rows[u].life = Life[c] THEN ahead[u] ELSE {})]
  /\ unit' = u
  /\ pc' = "landing"
  /\ UNCHANGED <<runVars, ctl, todo, withheld, landed, live, produced, prompt, reviewing, emitted, kills>>

\* complete_landed_fix_requests, and the save of the merged unit.
LandUnit ==
  /\ pc = "landing"
  /\ Save([mem EXCEPT !.rows[unit].requests = {}])
  /\ landed' = landed \cup {unit}
  /\ pc' = "merging"
  /\ unit' = Nothing
  /\ UNCHANGED <<ctl, todo, withheld, sessionVars, history>>

\* Every unit had its turn; some may have been refused (a conflict).
EndTurns ==
  /\ pc = "merging"
  /\ pc' = "resubmitting"
  /\ UNCHANGED <<runVars, ctl, todo, withheld, unit, landed, sessionVars, history>>

\* Mutant of WorkIsClear: operator requests alone hold the resubmission.
OperatorIsClear(run, c) == run.slots[c].operator = {}

\* _resubmit_one: the controller's own work is clear.
WorkIsClear(run, c) ==
  /\ run.slots[c].operator = {}
  /\ \A u \in LifecycleUnits(run, c) : run.rows[u].requests = {}

\* resubmit_review_if_ready: of several scoped controllers, the ones whose lifecycle landed here.
Candidate(run, c) ==
  /\ run.slots[c].pending
  /\ Life[c] # Unscoped =>
       /\ run.rows[c].status # "running"
       /\ landed # {} => landed \cap LifecycleUnits(run, c) # {}

Resubmit(c) ==
  /\ pc = "resubmitting"
  /\ Candidate(mem, c)
  /\ WorkIsClear(mem, c)
  /\ reviewing' = [reviewing EXCEPT ![c] = TRUE]
  /\ mem' = [mem EXCEPT !.rows[c].status = "running", !.slots[c].pending = FALSE]
  /\ UNCHANGED <<disk, commandVars, live, produced, prompt, ahead, emitted, history>>

\* A controller whose resubmission is withheld on staged input or cannot be written keeps its
\* pending flag.
EndMerge ==
  /\ pc = "resubmitting"
  /\ EndCommand(mem)
  /\ UNCHANGED <<sessionVars, history>>

\* The command is killed.
Crash ==
  /\ pc # "idle"
  /\ kills < MaxKills
  /\ kills' = kills + 1
  /\ EndCommand(disk)
  /\ UNCHANGED <<sessionVars, repaired>>

-----------------------------------------------------------------------------
(***************************************************************************)
(* The sessions.                                                           *)
(***************************************************************************)

Blocked(c) == UNION Range(emitted[c])

\* A controller writes the result of its round.
Emit(c) ==
  /\ reviewing[c]
  /\ Len(emitted[c]) < Rounds[c]
  /\ \E blocking \in SUBSET (Reviews[c] \ (IF Recurring THEN {} ELSE Blocked(c))) :
       emitted' = [emitted EXCEPT ![c] = Append(@, blocking)]
  /\ reviewing' = [reviewing EXCEPT ![c] = FALSE]
  /\ UNCHANGED <<runVars, commandVars, live, produced, prompt, ahead, history>>

\* A worker commits a repair it was prompted for.
Commit(u, f) ==
  /\ u \in live
  /\ f \in prompt[u]
  /\ prompt' = [prompt EXCEPT ![u] = @ \ {f}]
  /\ ahead' = [ahead EXCEPT ![u] = @ \cup {f}]
  /\ produced' = produced \cup {u}
  /\ UNCHANGED <<runVars, commandVars, live, reviewing, emitted, history>>

\* A worker's session goes away, with what it had not committed.
Dies(u) ==
  /\ u \in live \cap Mortal
  /\ live' = live \ {u}
  /\ prompt' = [prompt EXCEPT ![u] = {}]
  /\ UNCHANGED <<runVars, commandVars, produced, ahead, reviewing, emitted, history>>

LoopNext ==
  \/ \E c \in Controllers : \/ \E n \in 1..Len(emitted[c]) : Ingest(c, n)
                            \/ \E u \in Spares : Go(c, u)
                            \/ Resubmit(c) \/ Emit(c)
  \/ Route \/ FinishRouting
  \/ \E u \in Units, f \in Findings : Send(u, f) \/ SendFails(u, f) \/ Commit(u, f)
  \/ \E u \in Units : Settle(u) \/ Dies(u)
  \/ \E u \in Workers \cup Spares : Clean(u) \/ Advance(u)
  \/ StartMerge \/ LandUnit \/ EndTurns \/ EndMerge \/ Crash

LoopSpec == LoopInit /\ [][LoopNext]_loopVars

-----------------------------------------------------------------------------
(***************************************************************************)
(* Properties.                                                             *)
(***************************************************************************)

Results == [round : UNION {1..Rounds[c] : c \in Controllers}, blocking : SUBSET Findings] \cup {Nothing}

UnitRows == [status   : {"absent", "pending", "running", "done", "orphaned"},
             requests : SUBSET Findings,
             life     : Controllers \cup {Unscoped},
             minted   : Findings \cup {Nothing}]

Slots == [result     : Results,
          outcome    : {Nothing, "accepted", "repairs_requested"},
          pending    : BOOLEAN,
          operator   : SUBSET OperatorOwned,
          dispatched : SUBSET Findings]

Runs == [rows : [Units -> UnitRows], slots : [Controllers -> Slots]]

LoopTypeOK ==
  /\ disk \in Runs /\ mem \in Runs
  /\ pc \in {"idle", "routing", "sending", "merging", "landing", "resubmitting"}
  /\ todo \subseteq Units \X Findings
  /\ live \subseteq Units /\ produced \subseteq Workers \cup Spares
  /\ prompt \in [Units -> SUBSET Findings] /\ ahead \in [Units -> SUBSET Findings]
  /\ \A u \in Units : disk.rows[u].status \in {"absent", "pending"} => ahead[u] = {}

\* "merge resubmits that lifecycle's landed revision" once all Work repairs land: a controller is
\* sent back to review only when every Work repair of its last result is on the run's branch,
\* whatever was withheld or run again in between.  The code keeps this while a worker carries one
\* request at a time and no command is killed: a merge clears all the requests of its worker, one
\* that was withheld included, and a result that was saved and not routed leaves pending as it was.
ResubmittedIsRepaired ==
  [][\A c \in Controllers :
        ~reviewing[c] /\ reviewing'[c] => Work(disk.slots[c].result) \subseteq repaired[c]]_loopVars

\* A result whose outcome is recorded will not be routed again, so each of its Work repairs is on
\* the branch, or somebody has it in hand: a session that was prompted for it, a unit that go will
\* launch for it, or a unit that died over it and still carries the request.  The code keeps this
\* while a worker carries one repair at a time and no finding blocks twice: a worker that is idle
\* between two repairs is settled and merged, both its requests are cleared, and clean closes it.
RoutedIsInHand ==
  \A c \in Controllers :
    disk.slots[c].outcome # Nothing =>
      \A f \in Work(disk.slots[c].result) \ repaired[c] :
        \E u \in LifecycleUnits(disk, c) :
          \/ f \in prompt[u] \cup ahead[u]
          \/ f \in disk.rows[u].requests /\ (disk.rows[u].status = "pending" \/ u \notin live)

\* "a fix never lands on another lifecycle's worker": a request leaves a worker's row when that
\* worker is merged, or when its own controller's result is routed again.
RequestsAreNotTaken ==
  [][\A u \in Workers \cup Spares :
        \A f \in disk.rows[u].requests \ disk'.rows[u].requests :
          \/ pc = "landing" /\ unit = u
          \/ pc = "routing" /\ disk.rows[u].life = Life[ctl]]_loopVars

\* A worker at work on a repair of the last result "is protected from cleanup until the repair
\* lands", whenever it looked idle to settle, as long as it carries one repair at a time.
CleanCutsNothing ==
  [][\A u \in live \ live', c \in Controllers :
        Clean(u) /\ disk.rows[u].life = Life[c] =>
          prompt[u] \cap Work(disk.slots[c].result) \subseteq repaired[c]]_loopVars
=============================================================================
