----------------------------- MODULE MergeTurn -----------------------------
(***************************************************************************)
(* plugins/saga/scripts/merge_turn.py: workers bring their lanes together  *)
(* on one destination branch.  status and take run wholly under the run    *)
(* record's file lock and are one step each; merge reads the record once,  *)
(* does its git work with no lock held, one git call at a time, and lands  *)
(* the merge keys it changed on a record read again under the lock.        *)
(* orchestrate's own `merge` (orchestrate.py, "the driver") merges onto the *)
(* parent branch beside them: it too records its turn in these rows, but   *)
(* with every save it writes the merge state of EVERY row from its copy.   *)
(*                                                                         *)
(* A commit is represented by the set of commits it reaches (itself        *)
(* included), so an ancestor is a subset and git's merge is a union with   *)
(* one new commit.  What a file holds is not modelled: a conflict and a    *)
(* regression are git's choice.                                            *)
(***************************************************************************)
EXTENDS Naturals

CONSTANTS Units,          \* the run's unit rows; each has a lane (a branch) of its own
          Procs,          \* processes running merge_turn.py merge
          ParentFlags,    \* do the invocations pass --parent-branch: a subset of BOOLEAN
          MaxCommits,     \* bound: commits made in the behaviour
          MaxTurns,       \* bound: invocations of merge_turn.py merge and of the driver
          DriverPaths,    \* bound: the worktree paths the driver may choose
          NoPath          \* merge_worktree: none

ASSUME MergeAssumption == /\ ParentFlags \subseteq BOOLEAN
                          /\ MaxCommits \in Nat
                          /\ MaxTurns \in Nat
                          /\ NoPath \notin DriverPaths
                          /\ Units \cap {"parent", "main"} = {}

VARIABLES rows,           \* the record's unit rows: the merge keys of each
          heads,          \* the local branches
          remoteMain,     \* the default branch on the remote
          compareRef,     \* <remote>/<default_branch>: where the last fetch saw it
          worktrees,      \* merge-turn worktrees on disk
          unfinished,     \* the driver's worktrees that hold an unfinished merge (MERGE_HEAD)
          made,           \* commits made so far
          turns,          \* invocations of either program's merge so far
          pc,             \* the git call each merge process is at
          turn,           \* what it keeps in memory during its turn
          driver          \* the driver's process: where it is and what it keeps in memory

gitVars   == <<heads, remoteMain, compareRef, worktrees, unfinished, made>>
turnVars  == <<turns, pc, turn>>
procVars  == <<turnVars, driver>>
mergeVars == <<rows, gitVars, procVars>>

\* No commit: merged_tip before the first merge.
NoTip == {}

Ready == [merge_state |-> "ready", merge_worktree |-> NoPath, merged_tip |-> NoTip]

\* Each unit's lane is the branch named for it; it starts with one commit of the unit's work.
Branches == Units \cup {"parent", "main"}

Root == 0

\* A turn's memory: the unit, the destination branch, the rows read and the rows as changed, the
\* destination's tip the turn started from and the merge commit it made.
NoTurn == [unit |-> "none", dest |-> "main", before |-> << >>, mine |-> << >>,
           tip |-> NoTip, merged |-> NoTip]

\* The driver's memory: the turn it has (unit, worktree, merge commit), the tip it merges onto, the
\* units it has not come to yet and its copy of the rows.
NoDriver == [step |-> "none", unit |-> "none", path |-> NoPath, tip |-> NoTip, merged |-> NoTip,
             left |-> {}, rows |-> << >>]

\* The steps between taking the turn and giving it back.
InTurn == {"fetching", "resolving", "adding", "merging", "guarding", "publishing",
           "cleaning", "refusing"}

\* The steps of the driver's turn.
InDriverTurn == {"taken", "merging", "publishing", "closing", "published", "landing"}

MergeInit ==
  /\ rows = [u \in Units |-> Ready]
  /\ heads = [b \in Branches |-> {Root} \cup ({b} \cap Units)]
  /\ remoteMain = {Root}
  /\ compareRef = {Root}
  /\ worktrees = {}
  /\ unfinished = {}
  /\ made = 0
  /\ turns = 0
  /\ pc = [p \in Procs |-> "idle"]
  /\ turn = [p \in Procs |-> NoTurn]
  /\ driver = NoDriver

-----------------------------------------------------------------------------
(***************************************************************************)
(* Who holds the turn.                                                     *)
(***************************************************************************)

\* Mutant of TurnIsLive: every recorded turn is taken for dead.
TurnIsNeverLive(row) == FALSE

\* turn_is_live: the recorded worktree is there and holds an unfinished merge.
TurnIsLive(row) == row.merge_worktree \in unfinished

Holders(record) ==
  {u \in Units : record[u].merge_state = "merging" /\ TurnIsLive(record[u])}

\* holder's mutation: a merging row whose turn is not live goes back to ready.
Release(record) ==
  [u \in Units |->
     IF record[u].merge_state = "merging" /\ ~TurnIsLive(record[u])
       THEN [record[u] EXCEPT !.merge_state = "ready", !.merge_worktree = NoPath]
       ELSE record[u]]

\* take_turn's outcome when nobody else's turn is live.
TakeTurn(record, u) == [Release(record) EXCEPT ![u].merge_state = "merging"]

\* merge_turn.py status
Status ==
  /\ rows' = Release(rows)
  /\ UNCHANGED <<gitVars, procVars>>

\* merge_turn.py take --unit u
Take(u) ==
  /\ Holders(rows) \subseteq {u}
  /\ rows' = TakeTurn(rows, u)
  /\ UNCHANGED <<gitVars, procVars>>

-----------------------------------------------------------------------------
(***************************************************************************)
(* merge_turn.py merge --unit u                                            *)
(***************************************************************************)

Goto(p, step) == pc' = [pc EXCEPT ![p] = step]

\* The process ends, however it ends: what it kept in memory is gone.
End(p) ==
  /\ Goto(p, "idle")
  /\ turn' = [turn EXCEPT ![p] = NoTurn]

\* The turn goes on to the next step, its memory unchanged.
GoOn(p, step) == Goto(p, step) /\ UNCHANGED turn

\* destination_branch, for a destination that merges.
Destination(parentFlag) == IF parentFlag THEN "parent" ELSE "main"

\* The record is read, the destination chosen and the turn taken on the copy in memory; a live
\* holder refuses it.
StartMerge(p, u) ==
  /\ pc[p] = "idle"
  /\ turns < MaxTurns
  /\ turns' = turns + 1
  /\ Holders(rows) \subseteq {u}
  /\ \E flag \in ParentFlags :
       turn' = [turn EXCEPT ![p] = [unit |-> u, dest |-> Destination(flag), before |-> rows,
                                    mine |-> TakeTurn(rows, u), tip |-> NoTip, merged |-> NoTip]]
  /\ Goto(p, "fetching")
  /\ UNCHANGED <<rows, gitVars, driver>>

\* fetch_comparison_branch: a failed fetch refuses the turn.
Fetch(p) ==
  /\ pc[p] = "fetching"
  /\ \/ compareRef' = remoteMain /\ GoOn(p, "resolving")
     \/ UNCHANGED compareRef /\ End(p)
  /\ UNCHANGED <<rows, heads, remoteMain, worktrees, unfinished, made, turns, driver>>

\* git rev-parse <destination>
Resolve(p) ==
  /\ pc[p] = "resolving"
  /\ turn' = [turn EXCEPT ![p].tip = heads[turn[p].dest]]
  /\ Goto(p, "adding")
  /\ UNCHANGED <<rows, gitVars, turns, driver>>

\* The turn's worktree is named for the unit and the destination's tip.
Path(u, onto) == <<u, onto>>
PathOf(p) == Path(turn[p].unit, turn[p].tip)

\* git worktree add --detach refuses a path that is there already.
AddWorktree(p) ==
  /\ pc[p] = "adding"
  /\ IF PathOf(p) \in worktrees
       THEN UNCHANGED worktrees /\ End(p)
       ELSE worktrees' = worktrees \cup {PathOf(p)} /\ GoOn(p, "merging")
  /\ UNCHANGED <<rows, heads, remoteMain, compareRef, unfinished, made, turns, driver>>

\* git merge --no-ff in the worktree: already up to date, a merge commit, or a failure (a conflict,
\* aborted at once).
Merge(p) ==
  LET lane == heads[turn[p].unit]
      onto == turn[p].tip
  IN  /\ pc[p] = "merging"
      /\ \/ /\ lane \subseteq onto
            /\ turn' = [turn EXCEPT ![p].merged = onto]
            /\ UNCHANGED made
            /\ Goto(p, "guarding")
         \/ /\ ~(lane \subseteq onto)
            /\ made < MaxCommits
            /\ made' = made + 1
            /\ turn' = [turn EXCEPT ![p].merged = onto \cup lane \cup {made'}]
            /\ Goto(p, "guarding")
         \/ UNCHANGED made /\ GoOn(p, "refusing")
      /\ UNCHANGED <<rows, heads, remoteMain, compareRef, worktrees, unfinished, turns, driver>>

\* regression_files: a result that contains the comparison branch reverts nothing; another may.
Guard(p) ==
  /\ pc[p] = "guarding"
  /\ \/ GoOn(p, "publishing")
     \/ ~(compareRef \subseteq turn[p].merged) /\ GoOn(p, "refusing")
  /\ UNCHANGED <<rows, gitVars, turns, driver>>

\* Mutants of Publish: update-ref without the expected tip; a failed update-ref goes unnoticed.
PublishBlindly(p) ==
  /\ pc[p] = "publishing"
  /\ heads' = [heads EXCEPT ![turn[p].dest] = turn[p].merged]
  /\ GoOn(p, "cleaning")
  /\ UNCHANGED <<rows, remoteMain, compareRef, worktrees, unfinished, made, turns, driver>>
PublishUnchecked(p) ==
  LET d == turn[p].dest
  IN  /\ pc[p] = "publishing"
      /\ heads' = IF heads[d] = turn[p].tip THEN [heads EXCEPT ![d] = turn[p].merged] ELSE heads
      /\ GoOn(p, "cleaning")
      /\ UNCHANGED <<rows, remoteMain, compareRef, worktrees, unfinished, made, turns, driver>>

\* git update-ref <destination> <merged tip> <destination tip> compares and swaps.
Publish(p) ==
  LET d == turn[p].dest
  IN  /\ pc[p] = "publishing"
      /\ IF heads[d] = turn[p].tip
           THEN heads' = [heads EXCEPT ![d] = turn[p].merged] /\ GoOn(p, "cleaning")
           ELSE UNCHANGED heads /\ GoOn(p, "refusing")
      /\ UNCHANGED <<rows, remoteMain, compareRef, worktrees, unfinished, made, turns, driver>>

\* Mutant of RemoveWorktree: the merged row still names the turn's worktree.
RowKeepsWorktree(p) ==
  /\ worktrees' = worktrees \ {PathOf(p)}
  /\ \/ pc[p] = "refusing" /\ End(p)
     \/ /\ pc[p] = "cleaning"
        /\ turn' = [turn EXCEPT ![p].mine[turn[p].unit] = [merge_state    |-> "merged",
                                                           merge_worktree |-> PathOf(p),
                                                           merged_tip     |-> turn[p].merged]]
        /\ Goto(p, "reintegrating")
  /\ UNCHANGED <<rows, heads, remoteMain, compareRef, unfinished, made, turns, driver>>

\* The finally block, and the merged row in memory when the merge was published.
RemoveWorktree(p) ==
  /\ worktrees' = worktrees \ {PathOf(p)}
  /\ \/ pc[p] = "refusing" /\ End(p)
     \/ /\ pc[p] = "cleaning"
        /\ turn' = [turn EXCEPT ![p].mine[turn[p].unit] = [merge_state    |-> "merged",
                                                      merge_worktree |-> NoPath,
                                                      merged_tip     |-> turn[p].merged]]
        /\ Goto(p, "reintegrating")
  /\ UNCHANGED <<rows, heads, remoteMain, compareRef, unfinished, made, turns, driver>>

\* _reintegrate_one: git fetch . advances a branch by a fast-forward or not at all.
FastForward(branch, to) ==
  /\ heads[branch] \subseteq to
  /\ heads' = [heads EXCEPT ![branch] = to]

\* The destination into a lane that the turn's rows show unmerged, or the comparison branch into
\* the parent.  A branch that is checked out, or has commits of its own, is reported pending.
Reintegrate(p) ==
  /\ pc[p] = "reintegrating"
  /\ \/ \E u \in Units \ {turn[p].unit} : /\ turn[p].mine[u].merge_state # "merged"
                                     /\ FastForward(u, heads[turn[p].dest])
     \/ turn[p].dest = "parent" /\ FastForward("parent", compareRef)
  /\ UNCHANGED <<rows, remoteMain, compareRef, worktrees, unfinished, made, procVars>>

\* Every branch was advanced or reported pending.
StopReintegrating(p) ==
  /\ pc[p] = "reintegrating"
  /\ GoOn(p, "landing")
  /\ UNCHANGED <<rows, gitVars, turns, driver>>

\* Mutant of LandedKey: whatever the turn changed is written.
LandsEveryChange(fresh, started, ended, owned) == IF ended # started THEN ended ELSE fresh

\* land_merge_keys, one key: written when the turn changed it and the row still holds the value the
\* turn started from, or is the merged unit's own.
LandedKey(fresh, started, ended, owned) ==
  IF ended # started /\ (owned \/ fresh = started) THEN ended ELSE fresh

LandMergeKeys(fresh, started, ended, owner) ==
  [u \in Units |->
     [merge_state    |-> LandedKey(fresh[u].merge_state, started[u].merge_state,
                                   ended[u].merge_state, u = owner),
      merge_worktree |-> LandedKey(fresh[u].merge_worktree, started[u].merge_worktree,
                                   ended[u].merge_worktree, u = owner),
      merged_tip     |-> LandedKey(fresh[u].merged_tip, started[u].merged_tip,
                                   ended[u].merged_tip, u = owner)]]

Land(p) ==
  /\ pc[p] = "landing"
  /\ rows' = LandMergeKeys(rows, turn[p].before, turn[p].mine, turn[p].unit)
  /\ End(p)
  /\ UNCHANGED <<gitVars, turns, driver>>

\* A git call outlives its timeout: the exception runs the finally block and ends the process.  An
\* update-ref that timed out may have taken effect.
TimesOut(p) ==
  /\ pc[p] \in {"merging", "guarding", "publishing", "cleaning"}
  /\ worktrees' = worktrees \ {PathOf(p)}
  /\ End(p)
  /\ UNCHANGED <<rows, heads, remoteMain, compareRef, unfinished, made, turns, driver>>

Crash(p) ==
  /\ pc[p] # "idle"
  /\ End(p)
  /\ UNCHANGED <<rows, gitVars, turns, driver>>

-----------------------------------------------------------------------------
(***************************************************************************)
(* Everybody else who moves a branch.                                      *)
(***************************************************************************)

\* A worker commits on its lane, or merges the parent branch into it.
LaneCommit(u) ==
  /\ made < MaxCommits
  /\ made' = made + 1
  /\ \E from \in {heads[u], heads["parent"]} :
       heads' = [heads EXCEPT ![u] = @ \cup from \cup {made'}]
  /\ UNCHANGED <<rows, remoteMain, compareRef, worktrees, unfinished, procVars>>

\* The worker who owns it merges the comparison branch into the parent branch, as a pending
\* re-integration asks.
ParentCommit ==
  /\ made < MaxCommits
  /\ made' = made + 1
  /\ heads' = [heads EXCEPT !["parent"] = @ \cup compareRef \cup {made'}]
  /\ UNCHANGED <<rows, remoteMain, compareRef, worktrees, unfinished, procVars>>

\* Somebody else's work reaches the default branch.
MainAdvances ==
  /\ made < MaxCommits
  /\ made' = made + 1
  /\ remoteMain' = remoteMain \cup {made'}
  /\ UNCHANGED <<rows, heads, compareRef, worktrees, unfinished, procVars>>

\* Somebody clears away a worktree that a driver which died left behind.
ClearLeftover ==
  /\ driver = NoDriver
  /\ \E path \in DriverPaths \cap worktrees :
       worktrees' = worktrees \ {path} /\ unfinished' = unfinished \ {path}
  /\ UNCHANGED <<rows, heads, remoteMain, compareRef, made, procVars>>

-----------------------------------------------------------------------------
(***************************************************************************)
(* orchestrate.py merge: the driver.                                       *)
(***************************************************************************)

\* Run.save: the merge state and worktree of every row from memory; merged_tip, which the driver
\* does not know, is carried over from the record on disk.
SaveRows(memory) ==
  rows' = [u \in Units |-> [memory[u] EXCEPT !.merged_tip = rows[u].merged_tip]]

\* The driver goes on to a step with its own row so changed.
DriverGoesOn(step, row) ==
  driver' = [driver EXCEPT !.step = step, !.rows[driver.unit] = row]

DriverRow == driver.rows[driver.unit]

\* Run.load, and the parent branch's tip.
DriverLoads ==
  /\ driver = NoDriver
  /\ turns < MaxTurns
  /\ turns' = turns + 1
  /\ driver' = [NoDriver EXCEPT !.step = "loaded", !.tip = heads["parent"],
                                !.left = Units, !.rows = rows]
  /\ UNCHANGED <<rows, gitVars, pc, turn>>

\* merge_turn_holder on the copy in memory, saved either way; a live holder refuses the command.
\* Then the fetch, which may refuse it too.
DriverChecks ==
  /\ driver.step = "loaded"
  /\ SaveRows(Release(driver.rows))
  /\ \/ UNCHANGED compareRef /\ driver' = NoDriver
     \/ /\ Holders(driver.rows) = {}
        /\ compareRef' = remoteMain
        /\ driver' = [driver EXCEPT !.step = "choosing", !.rows = Release(driver.rows)]
  /\ UNCHANGED <<heads, remoteMain, worktrees, unfinished, made, turnVars>>

\* A unit whose lane is ahead of the tip: a worktree at a fresh path, and the turn is recorded.
DriverTakes(u) ==
  /\ driver.step = "choosing"
  /\ u \in driver.left
  /\ ~(heads[u] \subseteq driver.tip)
  /\ \E path \in DriverPaths \ worktrees :
       /\ worktrees' = worktrees \cup {path}
       /\ driver' = [driver EXCEPT !.step = "taken", !.unit = u, !.path = path,
                                   !.left = @ \ {u},
                                   !.rows[u].merge_state = "merging",
                                   !.rows[u].merge_worktree = path]
       /\ SaveRows(driver'.rows)
  /\ UNCHANGED <<heads, remoteMain, compareRef, unfinished, made, turnVars>>

\* git merge --no-ff is at work in it: it will make a commit or stop on a conflict (NoTip).
DriverMerges ==
  /\ driver.step = "taken"
  /\ unfinished' = unfinished \cup {driver.path}
  /\ \/ /\ made < MaxCommits
        /\ made' = made + 1
        /\ driver' = [driver EXCEPT !.step = "merging",
                                    !.merged = driver.tip \cup heads[driver.unit] \cup {made'}]
     \/ UNCHANGED made /\ driver' = [driver EXCEPT !.step = "merging", !.merged = NoTip]
  /\ UNCHANGED <<rows, heads, remoteMain, compareRef, worktrees, turnVars>>

Refused == DriverGoesOn("closing", [DriverRow EXCEPT !.merge_state = "ready"])

\* git merge, or git merge --abort, is over.
DriverEndsMerge ==
  /\ driver.step = "merging"
  /\ unfinished' = unfinished \ {driver.path}
  /\ IF driver.merged = NoTip THEN Refused ELSE DriverGoesOn("publishing", DriverRow)
  /\ UNCHANGED <<rows, heads, remoteMain, compareRef, worktrees, made, turnVars>>

\* The regression guard, and update-ref's compare-and-swap.
DriverPublishes ==
  /\ driver.step = "publishing"
  /\ \/ /\ heads["parent"] = driver.tip
        /\ heads' = [heads EXCEPT !["parent"] = driver.merged]
        /\ DriverGoesOn("published", DriverRow)
     \/ heads["parent"] # driver.tip /\ UNCHANGED heads /\ Refused
     \/ ~(compareRef \subseteq driver.merged) /\ UNCHANGED heads /\ Refused
  /\ UNCHANGED <<rows, remoteMain, compareRef, worktrees, unfinished, made, turnVars>>

\* The finally block: the row names no worktree any more, the worktree goes, and the record is
\* saved.  An interrupt in the try comes here too, and ends the command.
DriverCloses ==
  /\ driver.step \in {"taken", "merging", "publishing", "closing", "published"}
  /\ worktrees' = worktrees \ {driver.path}
  /\ unfinished' = unfinished \ {driver.path}
  /\ LET row == [DriverRow EXCEPT !.merge_worktree = NoPath]
     IN  /\ SaveRows([driver.rows EXCEPT ![driver.unit] = row])
         /\ \/ driver.step = "closing" /\ DriverGoesOn("choosing", row)
            \/ driver.step = "published" /\ DriverGoesOn("landing", row)
            \/ driver' = NoDriver
  /\ UNCHANGED <<heads, remoteMain, compareRef, made, turnVars>>

\* The merged row, saved; the next unit is merged onto the new tip.
DriverLands ==
  /\ driver.step = "landing"
  /\ driver' = [driver EXCEPT !.step = "choosing", !.tip = driver.merged,
                              !.rows[driver.unit].merge_state = "merged"]
  /\ SaveRows(driver'.rows)
  /\ UNCHANGED <<gitVars, turnVars>>

\* The command ends, with a last save or none.  From "loaded" it is any other command of the
\* driver that saves the run it loaded (go, settle, wait ...).
DriverEnds ==
  /\ driver.step \in {"loaded", "choosing"}
  /\ UNCHANGED rows \/ SaveRows(driver.rows)
  /\ driver' = NoDriver
  /\ UNCHANGED <<gitVars, turnVars>>

\* The process is killed; the git merge it started goes on to its end or is killed with it.
DriverDies ==
  /\ driver # NoDriver
  /\ driver' = NoDriver
  /\ unfinished' \in {unfinished, unfinished \ {driver.path}}
  /\ UNCHANGED <<rows, heads, remoteMain, compareRef, worktrees, made, turnVars>>

DriverStep ==
  \/ DriverLoads
  \/ DriverChecks
  \/ \E u \in Units : DriverTakes(u)
  \/ DriverMerges
  \/ DriverEndsMerge
  \/ DriverPublishes
  \/ DriverCloses
  \/ DriverLands
  \/ DriverEnds
  \/ DriverDies

-----------------------------------------------------------------------------
MergeStep(p) ==
  \/ \E u \in Units : StartMerge(p, u)
  \/ Fetch(p)
  \/ Resolve(p)
  \/ AddWorktree(p)
  \/ Merge(p)
  \/ Guard(p)
  \/ Publish(p)
  \/ RemoveWorktree(p)
  \/ Reintegrate(p)
  \/ StopReintegrating(p)
  \/ Land(p)

MergeNext ==
  \/ Status
  \/ \E u \in Units : Take(u) \/ LaneCommit(u)
  \/ \E p \in Procs : MergeStep(p) \/ TimesOut(p) \/ Crash(p)
  \/ ParentCommit
  \/ MainAdvances
  \/ ClearLeftover
  \/ DriverStep

MergeSpec == MergeInit /\ [][MergeNext]_mergeVars

-----------------------------------------------------------------------------
\* Mutant of IntegrationComplete: a row counts as pending only while it is ready.
MergingCountsAsMerged ==
  \/ \A u, v \in Units : u = v
  \/ \A u \in Units : rows[u].merge_state # "ready"

\* integration_state: with one lane nothing is to be brought together; otherwise every row is
\* merged.
IntegrationComplete ==
  \/ \A u, v \in Units : u = v
  \/ \A u \in Units : rows[u].merge_state = "merged"

-----------------------------------------------------------------------------
(***************************************************************************)
(* Properties.                                                             *)
(***************************************************************************)

Commits == SUBSET (0..MaxCommits \cup Units)

Row == [merge_state    : {"ready", "merging", "merged"},
        merge_worktree : {NoPath} \cup DriverPaths,
        merged_tip     : Commits]

Turns == [unit : Units, dest : {"parent", "main"}, before : [Units -> Row],
          mine : [Units -> Row], tip : Commits, merged : Commits]

Drivers == [step : {"loaded", "choosing"} \cup InDriverTurn, unit : Units \cup {"none"},
            path : {NoPath} \cup DriverPaths, tip : Commits, merged : Commits,
            left : SUBSET Units, rows : [Units -> Row]]

ProcessesTypeOK ==
  /\ pc \in [Procs -> {"idle", "reintegrating", "landing"} \cup InTurn]
  /\ turn \in [Procs -> Turns \cup {NoTurn}]
  /\ \A p \in Procs : pc[p] # "idle" => turn[p] \in Turns

MergeTypeOK ==
  /\ rows \in [Units -> Row]
  /\ heads \in [Branches -> Commits]
  /\ remoteMain \in Commits
  /\ compareRef \in Commits
  /\ worktrees \subseteq (Units \X Commits) \cup DriverPaths
  /\ unfinished \subseteq DriverPaths
  /\ made \in 0..MaxCommits
  /\ turns \in 0..MaxTurns
  /\ ProcessesTypeOK
  /\ driver \in Drivers \cup {NoDriver}
  /\ driver.step \in InDriverTurn => driver.unit \in Units /\ driver.path \in DriverPaths

\* A merge is never lost: the work of a unit whose row says merged, and the commit the row names
\* when it names one (the driver names none and leaves an older name standing), are in a
\* destination branch, whatever turns and drivers overlap, die or land in whatever order.
RecordedMergeIsKept ==
  \A u \in Units :
    rows[u].merge_state = "merged" =>
      /\ rows[u].merged_tip # NoTip => u \in rows[u].merged_tip
      /\ \E d \in {"parent", "main"} : {u} \cup rows[u].merged_tip \subseteq heads[d]

\* When the record says that integration is complete, one branch holds the work of every unit:
\* what the combined-branch pass goes on to test.
IntegrationIsReal ==
  IntegrationComplete /\ Units # {} =>
    \/ \E u \in Units : Units = {u}
    \/ \E d \in {"parent", "main"} : Units \subseteq heads[d]

\* "Nothing is ever force-resolved": a turn, its re-integrations included, never takes a commit off
\* any branch, a surviving worker's lane included.
BranchesOnlyGrow ==
  [][\A b \in Branches : heads[b] \subseteq heads'[b]]_mergeVars

\* A turn that released a stale holder never puts back ready over the merge that holder landed in
\* the meantime: beside the driver, which saves the whole run it loaded, a merged row is reopened
\* by taking the turn for it and by nothing else.
OnlyTakeReopens ==
  [][\A u \in Units :
        rows[u].merge_state = "merged" /\ rows'[u].merge_state # "merged" =>
          Take(u) \/ DriverStep]_mergeVars

\* A process whose turn found u's row `merging` with nobody at work on it, and released it in its
\* copy of the rows.
ReleasedAsDead(p, u) ==
  /\ turn[p].before[u].merge_state = "merging"
  /\ turn[p].mine[u].merge_state = "ready"

\* The driver's turn while its git merge is at work keeps its row: no status and no take gives it
\* to another unit.  Two landings do change it: that of a turn of the unit itself, and that of a
\* turn which released the row as dead before the driver took it.  To that one's compare-and-set
\* the row is unchanged, because it says `merging` again.
LiveHolderKept ==
  [][\A u \in Units :
        /\ rows[u].merge_state = "merging"
        /\ rows[u].merge_worktree \in unfinished
        /\ rows'[u] # rows[u]
        =>
          \/ DriverStep
          \/ \E p \in Procs : Land(p) /\ (turn[p].unit = u \/ ReleasedAsDead(p, u))]_mergeVars

-----------------------------------------------------------------------------
(***************************************************************************)
(* What the documents say and the code does not do (see the README).       *)
(***************************************************************************)

\* "exactly one worker holds the merge turn at any moment"
OneTurnAtATime ==
  \A p, q \in Procs : pc[p] \in InTurn /\ pc[q] \in InTurn => p = q

\* "a turn that died is RELEASED": no worktree a dead turn left behind stands in the way of the
\* next turn of its unit.
DeadTurnBlocksNobody ==
  \A u \in Units :
    Path(u, heads["parent"]) \in worktrees =>
      \E p \in Procs : pc[p] \in InTurn /\ turn[p].unit = u
=============================================================================
