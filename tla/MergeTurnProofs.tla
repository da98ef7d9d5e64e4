-------------------------- MODULE MergeTurnProofs --------------------------
(***************************************************************************)
(* Proofs about MergeTurn, for every set of units and of processes and for *)
(* every bound.  The invariant says what each process knows at each step   *)
(* of its turn, the driver included: the merge commit it made extends the  *)
(* tip it will compare against, and a commit it published stays in its     *)
(* destination branch because no step takes a commit off a branch.         *)
(***************************************************************************)
EXTENDS MergeTurn, TLAPS

LEMMA RowsReleased ==
  ASSUME NEW record \in [Units -> Row], NEW u \in Units
  PROVE  /\ Release(record) \in [Units -> Row]
         /\ TakeTurn(record, u) \in [Units -> Row]
<1>1. ASSUME NEW row \in Row
      PROVE  /\ [row EXCEPT !.merge_state = "ready", !.merge_worktree = NoPath] \in Row
             /\ [row EXCEPT !.merge_state = "merging"] \in Row
  BY DEF Row
<1>2. Release(record) \in [Units -> Row]
  BY <1>1 DEF Release
<1>3. Release(record)[u] \in Row
  BY <1>2
<1>4. TakeTurn(record, u) = [Release(record) EXCEPT
                               ![u] = [Release(record)[u] EXCEPT !.merge_state = "merging"]]
  BY <1>2 DEF TakeTurn
<1>5. QED
  BY <1>1, <1>2, <1>3, <1>4

LEMMA RowsLanded ==
  ASSUME NEW fresh \in [Units -> Row], NEW started \in [Units -> Row],
         NEW ended \in [Units -> Row], NEW owner
  PROVE  LandMergeKeys(fresh, started, ended, owner) \in [Units -> Row]
BY DEF LandMergeKeys, LandedKey, Row

\* A new commit on top of others is a commit.
LEMMA NewCommits ==
  ASSUME made \in 0..MaxCommits, made < MaxCommits,
         NEW x \in Commits, NEW y \in Commits
  PROVE  /\ made + 1 \in 0..MaxCommits
         /\ x \cup y \cup {made + 1} \in Commits
BY MergeAssumption DEF Commits

\* One process goes on to another step with another memory, or ends.
LEMMA ProcessGoesOn ==
  ASSUME ProcessesTypeOK, NEW p \in Procs,
         NEW step \in {"idle", "reintegrating", "landing"} \cup InTurn,
         NEW new \in Turns \cup {NoTurn}, step # "idle" => new \in Turns,
         pc' = [pc EXCEPT ![p] = step], turn' = [turn EXCEPT ![p] = new]
  PROVE  ProcessesTypeOK'
BY DEF ProcessesTypeOK

LEMMA ProcessEnds ==
  ASSUME ProcessesTypeOK, NEW p \in Procs, End(p)
  PROVE  ProcessesTypeOK'
BY DEF ProcessesTypeOK, End, Goto

LEMMA ProcessKeepsMemory ==
  ASSUME ProcessesTypeOK, NEW p \in Procs, pc[p] # "idle",
         NEW step \in {"reintegrating", "landing"} \cup InTurn, GoOn(p, step)
  PROVE  ProcessesTypeOK'
BY DEF ProcessesTypeOK, GoOn, Goto, InTurn

LEMMA DriverRowChanges ==
  ASSUME MergeTypeOK, driver.step \in InDriverTurn
  PROVE  /\ driver \in Drivers /\ driver.unit \in Units /\ driver.path \in DriverPaths
         /\ DriverRow \in Row
         /\ \A row \in Row, step \in {"choosing"} \cup InDriverTurn :
              DriverGoesOn(step, row) =>
                /\ driver' \in Drivers
                /\ driver'.step = step /\ driver'.unit = driver.unit /\ driver'.path = driver.path
                /\ driver'.tip = driver.tip /\ driver'.merged = driver.merged
                /\ driver'.rows = [driver.rows EXCEPT ![driver.unit] = row]
<1>1. driver \in Drivers /\ driver.unit \in Units /\ driver.path \in DriverPaths
  BY DEF MergeTypeOK, NoDriver, InDriverTurn
<1>2. DriverRow \in Row
  BY <1>1 DEF DriverRow, Drivers
<1>3. ASSUME NEW row \in Row, NEW step \in {"choosing"} \cup InDriverTurn, DriverGoesOn(step, row)
      PROVE  /\ driver' \in Drivers
             /\ driver'.step = step /\ driver'.unit = driver.unit /\ driver'.path = driver.path
             /\ driver'.tip = driver.tip /\ driver'.merged = driver.merged
             /\ driver'.rows = [driver.rows EXCEPT ![driver.unit] = row]
  <2>1. driver' = [driver EXCEPT !.step = step,
                                 !.rows = [driver.rows EXCEPT ![driver.unit] = row]]
    BY <1>3 DEF DriverGoesOn
  <2>2. [driver.rows EXCEPT ![driver.unit] = row] \in [Units -> Row]
    BY <1>1, <1>3 DEF Drivers
  <2>3. QED
    BY <1>1, <1>3, <2>1, <2>2 DEF Drivers
<1>4. QED
  BY <1>1, <1>2, <1>3

LEMMA RowsSaved ==
  ASSUME rows \in [Units -> Row], NEW memory \in [Units -> Row], SaveRows(memory)
  PROVE  /\ rows' \in [Units -> Row]
         /\ \A u \in Units : /\ rows'[u].merge_state = memory[u].merge_state
                             /\ rows'[u].merge_worktree = memory[u].merge_worktree
                             /\ rows'[u].merged_tip = rows[u].merged_tip
BY DEF SaveRows, Row

LEMMA DriverTypeStep ==
  ASSUME MergeTypeOK, DriverStep
  PROVE  MergeTypeOK'
<1> USE MergeAssumption
<1>1. CASE DriverLoads
  <2>1. [NoDriver EXCEPT !.step = "loaded", !.tip = heads["parent"], !.left = Units,
                         !.rows = rows] \in Drivers
    BY DEF MergeTypeOK, NoDriver, Drivers, NoTip, Commits, Branches
  <2>2. driver'.step = "loaded"
    BY <1>1 DEF DriverLoads, NoDriver
  <2>3. QED
    BY <1>1, <2>1, <2>2 DEF DriverLoads, MergeTypeOK, ProcessesTypeOK, gitVars, InDriverTurn
<1>2. CASE DriverChecks
  <2>1. driver \in Drivers
    BY <1>2 DEF DriverChecks, MergeTypeOK, NoDriver
  <2>2. Release(driver.rows) \in [Units -> Row]
    BY <2>1 DEF Drivers, Release, Row
  <2>3. rows' \in [Units -> Row]
    BY <1>2, <2>2, RowsSaved DEF DriverChecks, MergeTypeOK
  <2>4. /\ driver' \in Drivers \cup {NoDriver}
        /\ driver'.step \notin InDriverTurn
    <3>1. driver' = NoDriver \/ driver' = [driver EXCEPT !.step = "choosing",
                                                         !.rows = Release(driver.rows)]
      BY <1>2 DEF DriverChecks
    <3>2. ASSUME driver' = [driver EXCEPT !.step = "choosing", !.rows = Release(driver.rows)]
          PROVE  driver' \in Drivers /\ driver'.step = "choosing"
      BY <2>1, <2>2, <3>2 DEF Drivers
    <3>3. QED
      BY <3>1, <3>2 DEF NoDriver, InDriverTurn
  <2>5. QED
    BY <1>2, <2>3, <2>4 DEF DriverChecks, MergeTypeOK, ProcessesTypeOK, turnVars
<1>3. ASSUME NEW u \in Units, DriverTakes(u)
      PROVE  MergeTypeOK'
  <2>1. driver \in Drivers
    BY <1>3 DEF DriverTakes, MergeTypeOK, NoDriver
  <2>2. PICK path \in DriverPaths :
          /\ worktrees' = worktrees \cup {path}
          /\ driver' = [driver EXCEPT !.step = "taken", !.unit = u, !.path = path,
                                      !.left = @ \ {u},
                                      !.rows[u].merge_state = "merging",
                                      !.rows[u].merge_worktree = path]
          /\ SaveRows(driver'.rows)
    BY <1>3 DEF DriverTakes
  <2> DEFINE row == [driver.rows[u] EXCEPT !.merge_state = "merging", !.merge_worktree = path]
             new == [driver.rows EXCEPT ![u] = row]
  <2>3. row \in Row /\ new \in [Units -> Row]
    BY <2>1 DEF Drivers, Row
  <2>4. driver' = [driver EXCEPT !.step = "taken", !.unit = u, !.path = path,
                                 !.left = @ \ {u}, !.rows = new]
    BY <2>1, <2>2, <2>3 DEF Drivers, Row
  <2>5. driver' \in Drivers /\ driver'.unit = u /\ driver'.rows = new
    BY <2>1, <2>3, <2>4 DEF Drivers, InDriverTurn
  <2>6. rows' \in [Units -> Row]
    BY <2>2, <2>3, <2>5, RowsSaved DEF MergeTypeOK
  <2>7. QED
    BY <1>3, <2>2, <2>5, <2>6 DEF DriverTakes, MergeTypeOK, ProcessesTypeOK, turnVars
<1>4. CASE DriverMerges
  <2>1. driver \in Drivers /\ driver.unit \in Units
    BY <1>4, DriverRowChanges DEF DriverMerges, InDriverTurn
  <2>2. PICK m \in Commits : driver' = [driver EXCEPT !.step = "merging", !.merged = m]
    <3>1. CASE driver' = [driver EXCEPT !.step = "merging", !.merged = NoTip]
      BY <3>1 DEF NoTip, Commits
    <3>2. CASE /\ made < MaxCommits /\ made' = made + 1
               /\ driver' = [driver EXCEPT !.step = "merging",
                                           !.merged = driver.tip \cup heads[driver.unit] \cup {made'}]
      <4>1. driver.tip \in Commits /\ heads[driver.unit] \in Commits
        BY <2>1 DEF MergeTypeOK, Drivers, Branches
      <4>2. driver.tip \cup heads[driver.unit] \cup {made'} \in Commits
        BY <3>2, <4>1, NewCommits DEF MergeTypeOK
      <4>3. QED
        BY <3>2, <4>2
    <3>3. QED
      BY <1>4, <3>1, <3>2 DEF DriverMerges
  <2>3. driver' \in Drivers /\ driver'.unit = driver.unit /\ driver'.path = driver.path
    BY <2>1, <2>2 DEF Drivers, InDriverTurn
  <2>4. made' \in 0..MaxCommits /\ unfinished' \subseteq DriverPaths \cup {driver.path}
    BY <1>4 DEF DriverMerges, MergeTypeOK
  <2>5. driver.path \in DriverPaths
    BY <1>4, DriverRowChanges DEF DriverMerges, InDriverTurn
  <2>6. QED
    BY <1>4, <2>1, <2>3, <2>4, <2>5 DEF DriverMerges, MergeTypeOK, ProcessesTypeOK, turnVars
<1>5. CASE DriverEndsMerge
  <2>1. DriverRow \in Row /\ [DriverRow EXCEPT !.merge_state = "ready"] \in Row
    BY <1>5, DriverRowChanges DEF DriverEndsMerge, InDriverTurn, Row
  <2>2. driver' \in Drivers /\ driver'.unit \in Units
    BY <1>5, <2>1, DriverRowChanges DEF DriverEndsMerge, Refused, InDriverTurn
  <2>3. driver.path \in DriverPaths
    BY <1>5 DEF DriverEndsMerge, MergeTypeOK, InDriverTurn
  <2>4. driver'.path = driver.path
    BY <1>5, <2>1, DriverRowChanges DEF DriverEndsMerge, Refused, InDriverTurn
  <2>5. QED
    BY <1>5, <2>2, <2>3, <2>4 DEF DriverEndsMerge, MergeTypeOK, ProcessesTypeOK, turnVars
<1>6. CASE DriverPublishes
  <2>1. /\ DriverRow \in Row /\ [DriverRow EXCEPT !.merge_state = "ready"] \in Row
        /\ driver.merged \in Commits
    BY <1>6, DriverRowChanges DEF DriverPublishes, InDriverTurn, Row, Drivers
  <2>2. driver' \in Drivers /\ driver'.unit \in Units /\ driver'.path = driver.path
    BY <1>6, <2>1, DriverRowChanges DEF DriverPublishes, Refused, InDriverTurn
  <2>3. heads' \in [Branches -> Commits]
    BY <1>6, <2>1 DEF DriverPublishes, MergeTypeOK
  <2>4. driver.path \in DriverPaths
    BY <1>6 DEF DriverPublishes, MergeTypeOK, InDriverTurn
  <2>5. QED
    BY <1>6, <2>2, <2>3, <2>4 DEF DriverPublishes, MergeTypeOK, ProcessesTypeOK, turnVars
<1>7. CASE DriverCloses
  <2> DEFINE row == [DriverRow EXCEPT !.merge_worktree = NoPath]
  <2>1. /\ driver \in Drivers /\ driver.unit \in Units /\ row \in Row
        /\ driver.path \in DriverPaths
    BY <1>7, DriverRowChanges DEF DriverCloses, InDriverTurn, Row, MergeTypeOK
  <2>2. [driver.rows EXCEPT ![driver.unit] = row] \in [Units -> Row]
    BY <2>1 DEF Drivers
  <2>3. rows' \in [Units -> Row]
    BY <1>7, <2>2, RowsSaved DEF DriverCloses, MergeTypeOK
  <2>4. CASE driver' = NoDriver
    BY <1>7, <2>3, <2>4 DEF DriverCloses, MergeTypeOK, ProcessesTypeOK, turnVars, NoDriver,
       InDriverTurn
  <2>5. CASE DriverGoesOn("choosing", row) \/ DriverGoesOn("landing", row)
    <3>1. driver' \in Drivers /\ driver'.unit \in Units /\ driver'.path \in DriverPaths
      BY <1>7, <2>1, <2>5, DriverRowChanges DEF DriverCloses, InDriverTurn
    <3>2. QED
      BY <1>7, <2>3, <3>1 DEF DriverCloses, MergeTypeOK, ProcessesTypeOK, turnVars
  <2>6. QED
    BY <1>7, <2>4, <2>5 DEF DriverCloses
<1>8. CASE DriverLands
  <2> DEFINE row == [DriverRow EXCEPT !.merge_state = "merged"]
             new == [driver.rows EXCEPT ![driver.unit] = row]
  <2>1. driver \in Drivers /\ driver.unit \in Units /\ row \in Row /\ new \in [Units -> Row]
    BY <1>8, DriverRowChanges DEF DriverLands, InDriverTurn, Row, Drivers
  <2>2. driver' = [driver EXCEPT !.step = "choosing", !.tip = driver.merged, !.rows = new]
    BY <1>8 DEF DriverLands, DriverRow
  <2>3. driver' \in Drivers /\ driver'.rows = new /\ driver'.step = "choosing"
    BY <2>1, <2>2 DEF Drivers
  <2>4. rows' \in [Units -> Row]
    BY <1>8, <2>1, <2>3, RowsSaved DEF DriverLands, MergeTypeOK
  <2>5. QED
    BY <1>8, <2>3, <2>4 DEF DriverLands, MergeTypeOK, ProcessesTypeOK, turnVars, gitVars,
       InDriverTurn
<1>9. CASE DriverEnds
  <2>1. driver.rows \in [Units -> Row]
    BY <1>9 DEF DriverEnds, MergeTypeOK, Drivers, NoDriver
  <2>2. rows' \in [Units -> Row]
    BY <1>9, <2>1, RowsSaved DEF DriverEnds, MergeTypeOK
  <2>3. QED
    BY <1>9, <2>2 DEF DriverEnds, MergeTypeOK, ProcessesTypeOK, turnVars, gitVars, NoDriver,
       InDriverTurn
<1>10. CASE DriverDies
  BY <1>10 DEF DriverDies, MergeTypeOK, ProcessesTypeOK, turnVars, NoDriver, InDriverTurn
<1>11. QED
  BY <1>1, <1>2, <1>3, <1>4, <1>5, <1>6, <1>7, <1>8, <1>9, <1>10 DEF DriverStep

LEMMA MergeTypeStep ==
  ASSUME MergeTypeOK, [MergeNext]_mergeVars
  PROVE  MergeTypeOK'
<1> USE MergeAssumption
<1>1. CASE Status
  BY <1>1, RowsReleased DEF Status, MergeTypeOK, ProcessesTypeOK, gitVars, procVars, turnVars, Release, Row
<1>2. ASSUME NEW u \in Units, Take(u)
      PROVE  MergeTypeOK'
  BY <1>2, RowsReleased DEF Take, MergeTypeOK, ProcessesTypeOK, gitVars, procVars, turnVars
<1>3. ASSUME NEW u \in Units, LaneCommit(u)
      PROVE  MergeTypeOK'
  <2>1. PICK from \in {heads[u], heads["parent"]} :
          heads' = [heads EXCEPT ![u] = @ \cup from \cup {made'}]
    BY <1>3 DEF LaneCommit
  <2>2. heads[u] \in Commits /\ from \in Commits
    BY <2>1 DEF MergeTypeOK, Branches
  <2>3. made' \in 0..MaxCommits /\ heads[u] \cup from \cup {made'} \in Commits
    BY <1>3, <2>2, NewCommits DEF LaneCommit, MergeTypeOK
  <2>4. heads' \in [Branches -> Commits]
    BY <2>1, <2>3 DEF MergeTypeOK, Branches
  <2>5. QED
    BY <1>3, <2>3, <2>4 DEF LaneCommit, MergeTypeOK, ProcessesTypeOK, procVars, turnVars
<1>4. CASE ParentCommit
  <2>1. made' \in 0..MaxCommits /\ heads["parent"] \cup compareRef \cup {made'} \in Commits
    BY <1>4, NewCommits DEF ParentCommit, MergeTypeOK, Branches
  <2>2. heads' \in [Branches -> Commits]
    BY <1>4, <2>1 DEF ParentCommit, MergeTypeOK, Branches
  <2>3. QED
    BY <1>4, <2>1, <2>2 DEF ParentCommit, MergeTypeOK, ProcessesTypeOK, procVars, turnVars
<1>5. CASE MainAdvances
  <2>1. made' \in 0..MaxCommits /\ remoteMain \cup {made'} \in Commits
    BY <1>5, NewCommits DEF MainAdvances, MergeTypeOK, Commits
  <2>2. QED
    BY <1>5, <2>1 DEF MainAdvances, MergeTypeOK, ProcessesTypeOK, procVars, turnVars
<1>6. CASE ClearLeftover
  BY <1>6 DEF ClearLeftover, MergeTypeOK, ProcessesTypeOK, procVars, turnVars
<1>7. ASSUME NEW p \in Procs, MergeStep(p) \/ TimesOut(p) \/ Crash(p)
      PROVE  MergeTypeOK'
  <2> DEFINE t == turn[p]
  <2>0. pc[p] # "idle" => t \in Turns
    BY DEF MergeTypeOK, ProcessesTypeOK
  <2>1. ASSUME NEW u \in Units, StartMerge(p, u)
        PROVE  MergeTypeOK'
    <3>1. TakeTurn(rows, u) \in [Units -> Row]
      BY RowsReleased DEF MergeTypeOK
    <3>2. PICK flag \in ParentFlags :
            turn' = [turn EXCEPT ![p] = [unit |-> u, dest |-> Destination(flag),
                                         before |-> rows, mine |-> TakeTurn(rows, u),
                                         tip |-> NoTip, merged |-> NoTip]]
      BY <2>1 DEF StartMerge
    <3>3. [unit |-> u, dest |-> Destination(flag), before |-> rows, mine |-> TakeTurn(rows, u),
           tip |-> NoTip, merged |-> NoTip] \in Turns
      BY <3>1 DEF MergeTypeOK, Turns, Destination, NoTip, Commits
    <3>4. ProcessesTypeOK'
      BY <2>1, <3>2, <3>3, ProcessGoesOn DEF StartMerge, Goto, MergeTypeOK, InTurn
    <3>5. QED
      BY <2>1, <3>4 DEF StartMerge, MergeTypeOK, gitVars
  <2>2. CASE Fetch(p)
    BY <2>2, ProcessEnds, ProcessKeepsMemory DEF Fetch, MergeTypeOK, InTurn
  <2>3. CASE Resolve(p)
    <3>1. [t EXCEPT !.tip = heads[t.dest]] \in Turns
      BY <2>0, <2>3 DEF Resolve, MergeTypeOK, Turns, Branches
    <3>2. turn' = [turn EXCEPT ![p] = [t EXCEPT !.tip = heads[t.dest]]]
      BY <2>3 DEF Resolve
    <3>3. ProcessesTypeOK'
      BY <2>3, <3>1, <3>2, ProcessGoesOn DEF Resolve, Goto, MergeTypeOK, InTurn
    <3>4. QED
      BY <2>3, <3>3 DEF Resolve, MergeTypeOK, gitVars
  <2>4. CASE AddWorktree(p)
    <3>1. PathOf(p) \in Units \X Commits
      BY <2>0, <2>4 DEF AddWorktree, PathOf, Path, Turns
    <3>2. QED
      BY <2>4, <3>1, ProcessEnds, ProcessKeepsMemory DEF AddWorktree, MergeTypeOK, InTurn
  <2>5. CASE Merge(p)
    <3>1. t \in Turns
      BY <2>0, <2>5 DEF Merge
    <3>2. heads[t.unit] \in Commits /\ t.tip \in Commits
      BY <3>1 DEF MergeTypeOK, Turns, Branches
    <3>3. ASSUME NEW m \in Commits, turn' = [turn EXCEPT ![p].merged = m],
                 Goto(p, "guarding")
          PROVE  ProcessesTypeOK'
      <4>1. [t EXCEPT !.merged = m] \in Turns
        BY <3>1 DEF Turns
      <4>2. turn' = [turn EXCEPT ![p] = [t EXCEPT !.merged = m]]
        BY <3>3
      <4>3. QED
        BY <3>3, <4>1, <4>2, ProcessGoesOn DEF Goto, MergeTypeOK, InTurn
    <3>4. CASE heads[t.unit] \subseteq t.tip
               /\ turn' = [turn EXCEPT ![p].merged = t.tip]
               /\ UNCHANGED made /\ Goto(p, "guarding")
      BY <2>5, <3>2, <3>3, <3>4 DEF Merge, MergeTypeOK
    <3>5. CASE made < MaxCommits /\ made' = made + 1
               /\ turn' = [turn EXCEPT ![p].merged = t.tip \cup heads[t.unit] \cup {made'}]
               /\ Goto(p, "guarding")
      <4>1. made' \in 0..MaxCommits /\ t.tip \cup heads[t.unit] \cup {made'} \in Commits
        BY <3>2, <3>5, NewCommits DEF MergeTypeOK
      <4>2. QED
        BY <2>5, <3>3, <3>5, <4>1 DEF Merge, MergeTypeOK
    <3>6. CASE UNCHANGED made /\ GoOn(p, "refusing")
      BY <2>5, <3>6, ProcessKeepsMemory DEF Merge, MergeTypeOK, InTurn
    <3>7. QED
      BY <2>5, <3>4, <3>5, <3>6 DEF Merge
  <2>6. CASE Guard(p)
    BY <2>6, ProcessKeepsMemory DEF Guard, MergeTypeOK, InTurn, gitVars
  <2>7. CASE Publish(p)
    <3>1. t.merged \in Commits
      BY <2>0, <2>7 DEF Publish, Turns
    <3>2. heads' \in [Branches -> Commits]
      BY <2>7, <3>1 DEF Publish, MergeTypeOK
    <3>3. ProcessesTypeOK'
      BY <2>7, ProcessKeepsMemory DEF Publish, MergeTypeOK, InTurn
    <3>4. QED
      BY <2>7, <3>2, <3>3 DEF Publish, MergeTypeOK
  <2>8. CASE RemoveWorktree(p)
    <3>1. CASE pc[p] = "refusing" /\ End(p)
      BY <2>8, <3>1, ProcessEnds DEF RemoveWorktree, MergeTypeOK
    <3>2. CASE pc[p] = "cleaning"
      <4> DEFINE row == [merge_state |-> "merged", merge_worktree |-> NoPath,
                         merged_tip |-> t.merged]
                 new == [t EXCEPT !.mine = [t.mine EXCEPT ![t.unit] = row]]
      <4>1. t \in Turns /\ row \in Row
        BY <2>0, <3>2 DEF Turns, Row
      <4>2. new \in Turns
        BY <4>1 DEF Turns
      <4>3. turn' = [turn EXCEPT ![p] = new] /\ pc' = [pc EXCEPT ![p] = "reintegrating"]
        BY <2>8, <3>2 DEF RemoveWorktree, Goto, End
      <4>4. ProcessesTypeOK'
        BY <4>2, <4>3, ProcessGoesOn DEF MergeTypeOK
      <4>5. QED
        BY <2>8, <4>4 DEF RemoveWorktree, MergeTypeOK
    <3>3. QED
      BY <2>8, <3>1, <3>2 DEF RemoveWorktree
  <2>9. CASE Reintegrate(p)
    <3>1. t.dest \in {"parent", "main"}
      BY <2>0, <2>9 DEF Reintegrate, Turns
    <3>2. heads' \in [Branches -> Commits]
      BY <2>9, <3>1 DEF Reintegrate, FastForward, MergeTypeOK, Branches
    <3>3. QED
      BY <2>9, <3>2 DEF Reintegrate, MergeTypeOK, ProcessesTypeOK, procVars, turnVars
  <2>10. CASE StopReintegrating(p)
    BY <2>10, ProcessKeepsMemory DEF StopReintegrating, MergeTypeOK, InTurn, gitVars
  <2>11. CASE Land(p)
    <3>1. rows' \in [Units -> Row]
      BY <2>0, <2>11, RowsLanded DEF Land, MergeTypeOK, Turns
    <3>2. QED
      BY <2>11, <3>1, ProcessEnds DEF Land, MergeTypeOK, gitVars
  <2>12. CASE TimesOut(p)
    BY <2>12, ProcessEnds DEF TimesOut, MergeTypeOK
  <2>13. CASE Crash(p)
    BY <2>13, ProcessEnds DEF Crash, MergeTypeOK, gitVars
  <2>14. QED
    BY <1>7, <2>1, <2>2, <2>3, <2>4, <2>5, <2>6, <2>7, <2>8, <2>9, <2>10, <2>11, <2>12, <2>13
       DEF MergeStep
<1>8. CASE UNCHANGED mergeVars
  BY <1>8 DEF mergeVars, gitVars, procVars, turnVars, MergeTypeOK, ProcessesTypeOK
<1>9. QED
  BY <1>1, <1>2, <1>3, <1>4, <1>5, <1>6, <1>7, <1>8, DriverTypeStep DEF MergeNext

\* Types of every variable: the record's rows, the branches and each process's memory.
THEOREM MergeTypeCorrect == MergeSpec => []MergeTypeOK
<1>1. MergeInit => MergeTypeOK
  <2> SUFFICES ASSUME MergeInit PROVE MergeTypeOK
    OBVIOUS
  <2>1. Ready \in Row
    BY DEF Ready, Row, NoTip, Commits
  <2>2. rows \in [Units -> Row] /\ driver.step \notin InDriverTurn
    BY <2>1 DEF MergeInit, NoDriver, InDriverTurn
  <2>3. ProcessesTypeOK
    BY DEF MergeInit, ProcessesTypeOK
  <2>4. heads \in [Branches -> Commits]
    BY MergeAssumption DEF MergeInit, Commits, Root
  <2>5. QED
    BY <2>2, <2>3, <2>4, MergeAssumption DEF MergeInit, MergeTypeOK, Commits, Root
<1>2. QED
  BY <1>1, MergeTypeStep, PTL DEF MergeSpec

-----------------------------------------------------------------------------
(***************************************************************************)
(* The invariant.                                                          *)
(***************************************************************************)

Kept(commit) == \E d \in {"parent", "main"} : commit \subseteq heads[d]

\* What the record says was merged is in a destination.
RowsSound ==
  \A u \in Units :
    /\ rows[u].merged_tip # NoTip => u \in rows[u].merged_tip /\ Kept(rows[u].merged_tip)
    /\ rows[u].merge_state = "merged" => Kept({u})

\* What a process knows at each step of its turn.
TurnSound(p) ==
  LET t == turn[p]
  IN  /\ \A u \in Units \ {t.unit} :
            /\ t.mine[u].merged_tip = t.before[u].merged_tip
            /\ t.mine[u] = t.before[u] \/ ReleasedAsDead(p, u)
      /\ pc[p] \in {"guarding", "publishing"} => t.tip \subseteq t.merged
      /\ pc[p] \in {"guarding", "publishing", "cleaning", "reintegrating", "landing"} =>
            t.unit \in t.merged
      /\ pc[p] \in {"cleaning", "reintegrating", "landing"} => t.merged \subseteq heads[t.dest]
      /\ pc[p] \in {"reintegrating", "landing"} =>
            t.mine[t.unit].merged_tip = t.merged /\ t.mine[t.unit].merge_state = "merged"

\* What the driver knows at each step of its turn, and what its copy of the rows says was merged.
DriverSound ==
  /\ driver.step # "none" =>
       \A u \in Units : driver.rows[u].merge_state = "merged" => Kept({u})
  /\ driver.step = "publishing" => driver.merged # NoTip
  /\ driver.step \in {"merging", "publishing"} /\ driver.merged # NoTip =>
       driver.tip \subseteq driver.merged /\ driver.unit \in driver.merged
  /\ driver.step \in {"published", "landing"} =>
       driver.unit \in driver.merged /\ driver.merged \subseteq heads["parent"]

MergeIInv ==
  /\ MergeTypeOK
  /\ \A u \in Units : u \in heads[u]
  /\ RowsSound
  /\ \A p \in Procs : pc[p] # "idle" => TurnSound(p)
  /\ DriverSound

HeadsGrow == \A b \in Branches : heads[b] \subseteq heads'[b]

\* No step takes a commit off a branch.
LEMMA GrowStep ==
  ASSUME MergeIInv, [MergeNext]_mergeVars
  PROVE  HeadsGrow
<1>1. CASE UNCHANGED heads
  BY <1>1 DEF HeadsGrow
<1>2. ASSUME NEW u \in Units, LaneCommit(u)
      PROVE  HeadsGrow
  BY <1>2 DEF LaneCommit, HeadsGrow, MergeIInv, MergeTypeOK
<1>3. CASE ParentCommit
  BY <1>3 DEF ParentCommit, HeadsGrow, MergeIInv, MergeTypeOK
<1>4. ASSUME NEW p \in Procs, Publish(p)
      PROVE  HeadsGrow
  BY <1>4 DEF Publish, HeadsGrow, MergeIInv, MergeTypeOK, TurnSound
<1>5. ASSUME NEW p \in Procs, Reintegrate(p)
      PROVE  HeadsGrow
  BY <1>5 DEF Reintegrate, FastForward, HeadsGrow, MergeIInv, MergeTypeOK
<1>6. ASSUME NEW p \in Procs, MergeStep(p), ~Publish(p), ~Reintegrate(p)
      PROVE  UNCHANGED heads
  BY <1>6 DEF MergeStep, StartMerge, Fetch, Resolve, AddWorktree, Merge, Guard, RemoveWorktree,
       StopReintegrating, Land, gitVars
<1>7. ASSUME NEW p \in Procs, TimesOut(p) \/ Crash(p)
      PROVE  UNCHANGED heads
  BY <1>7 DEF TimesOut, Crash, gitVars
<1>8. CASE DriverPublishes
  BY <1>8 DEF DriverPublishes, HeadsGrow, MergeIInv, MergeTypeOK, DriverSound
<1>9. ASSUME DriverStep, ~DriverPublishes
      PROVE  UNCHANGED heads
  BY <1>9 DEF DriverStep, DriverLoads, DriverChecks, DriverTakes, DriverMerges, DriverEndsMerge,
       DriverCloses, DriverLands, DriverEnds, DriverDies, gitVars
<1>10. ASSUME Status \/ (\E u \in Units : Take(u)) \/ MainAdvances \/ ClearLeftover
              \/ UNCHANGED mergeVars
       PROVE  UNCHANGED heads
  BY <1>10 DEF Status, Take, MainAdvances, ClearLeftover, gitVars, mergeVars
<1>11. QED
  BY <1>1, <1>2, <1>3, <1>4, <1>5, <1>6, <1>7, <1>8, <1>9, <1>10 DEF MergeNext

\* What was in a destination stays in it.
LEMMA KeptStays ==
  ASSUME HeadsGrow, NEW c, Kept(c)
  PROVE  Kept(c)'
BY DEF Kept, HeadsGrow, Branches

\* The driver's copy says that u's work was merged, or is about to.
DriverShows(u) ==
  /\ driver.step # "none"
  /\ \/ driver.rows[u].merge_state = "merged"
     \/ driver.step = "landing" /\ driver.unit = u

\* The driver writes merged, in the record or in its copy, only for a row that says so in one of
\* the two already, or for the unit whose merge it has published; it never writes a merged tip.
LEMMA DriverWrites ==
  ASSUME MergeTypeOK, DriverStep, NEW u \in Units
  PROVE  /\ rows'[u].merged_tip = rows[u].merged_tip
         /\ rows'[u].merge_state = "merged" => rows[u].merge_state = "merged" \/ DriverShows(u)
         /\ driver'.step # "none" /\ driver'.rows[u].merge_state = "merged" =>
              rows[u].merge_state = "merged" \/ DriverShows(u)
<1> DEFINE Goal == /\ rows'[u].merged_tip = rows[u].merged_tip
                   /\ rows'[u].merge_state = "merged" =>
                        rows[u].merge_state = "merged" \/ DriverShows(u)
                   /\ driver'.step # "none" /\ driver'.rows[u].merge_state = "merged" =>
                        rows[u].merge_state = "merged" \/ DriverShows(u)
<1>1. CASE DriverLoads
  BY <1>1 DEF DriverLoads, NoDriver
<1>2. CASE DriverChecks
  <2>1. driver \in Drivers /\ driver.step = "loaded"
    BY <1>2 DEF DriverChecks, MergeTypeOK, NoDriver
  <2> DEFINE new == Release(driver.rows)
  <2>2. new \in [Units -> Row]
    BY <2>1 DEF Drivers, Release, Row
  <2>3. new[u].merge_state = "merged" => driver.rows[u].merge_state = "merged"
    BY <2>1 DEF Drivers, Release, Row
  <2>4. SaveRows(new)
    BY <1>2 DEF DriverChecks
  <2>5. /\ rows'[u].merged_tip = rows[u].merged_tip
        /\ rows'[u].merge_state = new[u].merge_state
    BY <2>2, <2>4, RowsSaved DEF MergeTypeOK
  <2>6. driver' = NoDriver \/ driver' = [driver EXCEPT !.step = "choosing", !.rows = new]
    BY <1>2 DEF DriverChecks
  <2>7. driver'.step = "none" \/ driver'.rows = new
    <3>1. NoDriver.step = "none" /\ [driver EXCEPT !.step = "choosing", !.rows = new].rows = new
      BY <2>1 DEF Drivers, NoDriver
    <3>2. QED
      BY <2>6, <3>1
  <2>8. QED
    BY <2>1, <2>3, <2>5, <2>7 DEF DriverShows
<1>3. ASSUME NEW v \in Units, DriverTakes(v)
      PROVE  Goal
  <2>1. driver \in Drivers /\ driver.step = "choosing"
    BY <1>3 DEF DriverTakes, MergeTypeOK, NoDriver
  <2>2. PICK path \in DriverPaths :
          driver' = [driver EXCEPT !.step = "taken", !.unit = v, !.path = path,
                                   !.left = @ \ {v},
                                   !.rows[v].merge_state = "merging",
                                   !.rows[v].merge_worktree = path]
    BY <1>3 DEF DriverTakes
  <2> DEFINE row == [driver.rows[v] EXCEPT !.merge_state = "merging", !.merge_worktree = path]
             new == [driver.rows EXCEPT ![v] = row]
  <2>3. row \in Row /\ new \in [Units -> Row] /\ row.merge_state = "merging"
    BY <2>1 DEF Drivers, Row
  <2>4. driver' = [driver EXCEPT !.step = "taken", !.unit = v, !.path = path,
                                 !.left = @ \ {v}, !.rows = new]
    BY <2>1, <2>2, <2>3 DEF Drivers, Row
  <2>5. driver'.rows = new
    BY <2>1, <2>4 DEF Drivers
  <2>6. SaveRows(new)
    BY <1>3, <2>5 DEF DriverTakes
  <2>7. /\ rows'[u].merged_tip = rows[u].merged_tip
        /\ rows'[u].merge_state = new[u].merge_state
    BY <2>3, <2>6, RowsSaved DEF MergeTypeOK
  <2>8. new[u].merge_state = "merged" => driver.rows[u].merge_state = "merged"
    BY <2>1, <2>3 DEF Drivers
  <2>9. QED
    BY <2>1, <2>5, <2>7, <2>8 DEF DriverShows
<1>4. CASE DriverMerges
  <2>1. driver \in Drivers /\ driver.step = "taken"
    BY <1>4, DriverRowChanges DEF DriverMerges, InDriverTurn
  <2>2. PICK m : driver' = [driver EXCEPT !.step = "merging", !.merged = m]
    BY <1>4 DEF DriverMerges
  <2>3. driver'.rows = driver.rows /\ rows' = rows
    BY <1>4, <2>1, <2>2 DEF DriverMerges, Drivers
  <2>4. QED
    BY <2>1, <2>3 DEF DriverShows
<1>5. ASSUME driver.step \in InDriverTurn, rows' = rows,
             NEW row \in Row, row.merge_state \in {"ready", DriverRow.merge_state},
             NEW step \in {"choosing"} \cup InDriverTurn, DriverGoesOn(step, row)
      PROVE  Goal
  <2>1. driver'.rows = [driver.rows EXCEPT ![driver.unit] = row] /\ driver \in Drivers
    BY <1>5, DriverRowChanges
  <2>2. driver'.rows[u].merge_state = "merged" => driver.rows[u].merge_state = "merged"
    BY <1>5, <2>1 DEF Drivers, DriverRow
  <2>3. QED
    BY <1>5, <2>2 DEF DriverShows, InDriverTurn
<1>6. CASE DriverEndsMerge \/ DriverPublishes
  <2>1. driver.step \in InDriverTurn /\ rows' = rows
    BY <1>6 DEF DriverEndsMerge, DriverPublishes, InDriverTurn
  <2>2. DriverRow \in Row /\ [DriverRow EXCEPT !.merge_state = "ready"] \in Row
    BY <2>1, DriverRowChanges DEF Row
  <2>3. \/ \E step \in InDriverTurn : DriverGoesOn(step, DriverRow)
        \/ DriverGoesOn("closing", [DriverRow EXCEPT !.merge_state = "ready"])
    BY <1>6 DEF DriverEndsMerge, DriverPublishes, Refused, InDriverTurn
  <2>4. [DriverRow EXCEPT !.merge_state = "ready"].merge_state = "ready"
    BY <2>2 DEF Row
  <2>5. QED
    BY <1>5, <2>1, <2>2, <2>3, <2>4 DEF InDriverTurn
<1>7. CASE DriverCloses
  <2> DEFINE row == [DriverRow EXCEPT !.merge_worktree = NoPath]
             new == [driver.rows EXCEPT ![driver.unit] = row]
  <2>1. /\ driver \in Drivers /\ driver.unit \in Units /\ row \in Row /\ driver.step # "none"
        /\ DriverRow \in Row
    BY <1>7, DriverRowChanges DEF DriverCloses, InDriverTurn, Row
  <2>2. row.merge_state = driver.rows[driver.unit].merge_state
    BY <2>1 DEF DriverRow, Row
  <2>3. new \in [Units -> Row] /\ new[u].merge_state = driver.rows[u].merge_state
    BY <2>1, <2>2 DEF Drivers
  <2>4. /\ rows'[u].merged_tip = rows[u].merged_tip
        /\ rows'[u].merge_state = new[u].merge_state
    BY <1>7, <2>3, RowsSaved DEF DriverCloses, MergeTypeOK
  <2>5. CASE driver' = NoDriver
    BY <2>1, <2>3, <2>4, <2>5 DEF DriverShows, NoDriver
  <2>6. CASE DriverGoesOn("choosing", row) \/ DriverGoesOn("landing", row)
    <3>1. driver'.rows = new
      BY <1>7, <2>1, <2>6, DriverRowChanges DEF DriverCloses, InDriverTurn
    <3>2. QED
      BY <2>1, <2>3, <2>4, <3>1 DEF DriverShows
  <2>7. QED
    BY <1>7, <2>5, <2>6 DEF DriverCloses
<1>8. CASE DriverLands
  <2> DEFINE row == [DriverRow EXCEPT !.merge_state = "merged"]
             new == [driver.rows EXCEPT ![driver.unit] = row]
  <2>1. /\ driver \in Drivers /\ driver.unit \in Units /\ row \in Row /\ new \in [Units -> Row]
        /\ driver.step = "landing"
    BY <1>8, DriverRowChanges DEF DriverLands, InDriverTurn, Row, Drivers
  <2>2. driver' = [driver EXCEPT !.step = "choosing", !.tip = driver.merged, !.rows = new]
    BY <1>8 DEF DriverLands, DriverRow
  <2>3. driver'.rows = new
    BY <2>1, <2>2 DEF Drivers
  <2>4. /\ rows'[u].merged_tip = rows[u].merged_tip
        /\ rows'[u].merge_state = new[u].merge_state
    BY <1>8, <2>1, <2>3, RowsSaved DEF DriverLands, MergeTypeOK
  <2>5. new[u].merge_state = "merged" =>
          driver.rows[u].merge_state = "merged" \/ driver.unit = u
    BY <2>1 DEF Drivers
  <2>6. QED
    BY <2>1, <2>3, <2>4, <2>5 DEF DriverShows
<1>9. CASE DriverEnds
  <2>1. driver.rows \in [Units -> Row] /\ driver.step # "none" /\ driver'.step = "none"
    BY <1>9 DEF DriverEnds, MergeTypeOK, Drivers, NoDriver
  <2>2. CASE UNCHANGED rows
    BY <2>1, <2>2
  <2>3. CASE SaveRows(driver.rows)
    BY <2>1, <2>3, RowsSaved DEF MergeTypeOK, DriverShows
  <2>4. QED
    BY <1>9, <2>2, <2>3 DEF DriverEnds
<1>10. CASE DriverDies
  BY <1>10 DEF DriverDies, NoDriver
<1>11. QED
  BY <1>1, <1>2, <1>3, <1>4, <1>6, <1>7, <1>8, <1>9, <1>10 DEF DriverStep

\* Nobody else touches the driver's memory.
LEMMA DriverAlone ==
  ASSUME [MergeNext]_mergeVars, ~DriverStep
  PROVE  driver' = driver
<1>1. ASSUME NEW p \in Procs, MergeStep(p) \/ TimesOut(p) \/ Crash(p)
      PROVE  driver' = driver
  BY <1>1 DEF MergeStep, StartMerge, Fetch, Resolve, AddWorktree, Merge, Guard, Publish,
       RemoveWorktree, Reintegrate, StopReintegrating, Land, TimesOut, Crash, procVars, turnVars
<1>2. ASSUME \/ Status \/ (\E u \in Units : Take(u) \/ LaneCommit(u))
             \/ ParentCommit \/ MainAdvances \/ ClearLeftover \/ UNCHANGED mergeVars
      PROVE  driver' = driver
  BY <1>2 DEF Status, Take, LaneCommit, ParentCommit, MainAdvances, ClearLeftover, mergeVars,
       procVars, turnVars
<1>3. QED
  BY <1>1, <1>2 DEF MergeNext

\* The rows are written by status, take, a landing and the driver.
LEMMA RowsAlone ==
  ASSUME [MergeNext]_mergeVars, ~DriverStep, ~Status, ~(\E u \in Units : Take(u)),
         ~(\E p \in Procs : Land(p))
  PROVE  rows' = rows
<1>1. ASSUME NEW p \in Procs, MergeStep(p) \/ TimesOut(p) \/ Crash(p), ~Land(p)
      PROVE  rows' = rows
  BY <1>1 DEF MergeStep, StartMerge, Fetch, Resolve, AddWorktree, Merge, Guard, Publish,
       RemoveWorktree, Reintegrate, StopReintegrating, TimesOut, Crash
<1>2. ASSUME (\E u \in Units : LaneCommit(u)) \/ ParentCommit \/ MainAdvances \/ ClearLeftover
             \/ UNCHANGED mergeVars
      PROVE  rows' = rows
  BY <1>2 DEF LaneCommit, ParentCommit, MainAdvances, ClearLeftover, mergeVars
<1>3. QED
  BY <1>1, <1>2 DEF MergeNext

\* A turn of u's own lands.
OwnLanding(p, u) == Land(p) /\ turn[p].unit = u

\* What a landing writes in the row of another unit: nothing, or the release it had decided on.
LEMMA OtherLanding ==
  ASSUME MergeIInv, NEW p \in Procs, Land(p), NEW u \in Units, turn[p].unit # u
  PROVE  /\ rows'[u].merged_tip = rows[u].merged_tip
         /\ rows'[u].merge_state = "merged" <=> rows[u].merge_state = "merged"
         /\ rows'[u] = rows[u] \/ ReleasedAsDead(p, u)
<1>1. /\ turn[p] \in Turns /\ rows[u] \in Row
      /\ turn[p].mine[u].merged_tip = turn[p].before[u].merged_tip
      /\ turn[p].mine[u] = turn[p].before[u] \/ ReleasedAsDead(p, u)
  BY DEF Land, MergeIInv, MergeTypeOK, ProcessesTypeOK, TurnSound
<1>2. CASE turn[p].mine[u] = turn[p].before[u]
  BY <1>1, <1>2 DEF Land, LandMergeKeys, LandedKey, Row
<1>3. CASE ReleasedAsDead(p, u)
  BY <1>1, <1>3 DEF Land, LandMergeKeys, LandedKey, ReleasedAsDead
<1>4. QED
  BY <1>1, <1>2, <1>3

\* Where the merged tip and the merged state of a row come from.
LEMMA MergedFrom ==
  ASSUME MergeIInv, [MergeNext]_mergeVars, NEW u \in Units
  PROVE  /\ \/ rows'[u].merged_tip = rows[u].merged_tip
            \/ \E p \in Procs : OwnLanding(p, u) /\ rows'[u].merged_tip = turn[p].merged
         /\ rows'[u].merge_state = "merged" =>
              \/ rows[u].merge_state = "merged" \/ DriverShows(u)
              \/ \E p \in Procs : OwnLanding(p, u)
<1> USE DEF MergeIInv, MergeTypeOK, ProcessesTypeOK
<1>1. CASE DriverStep
  BY <1>1, DriverWrites
<1>2. CASE Status
  BY <1>2 DEF Status, Release, Row
<1>3. ASSUME NEW v \in Units, Take(v)
      PROVE  /\ rows'[u].merged_tip = rows[u].merged_tip
             /\ rows'[u].merge_state = "merged" => rows[u].merge_state = "merged"
  <2>1. rows' = [Release(rows) EXCEPT ![v].merge_state = "merging"]
    BY <1>3 DEF Take, TakeTurn
  <2>2. Release(rows) \in [Units -> Row]
    BY <1>3, RowsReleased
  <2>3. /\ Release(rows)[u].merged_tip = rows[u].merged_tip
        /\ Release(rows)[u].merge_state = "merged" => rows[u].merge_state = "merged"
    BY DEF Release, Row
  <2>4. QED
    BY <2>1, <2>2, <2>3 DEF Row
<1>4. ASSUME NEW p \in Procs, Land(p), turn[p].unit = u
      PROVE  rows'[u].merged_tip \in {rows[u].merged_tip, turn[p].merged}
  <2>1. TurnSound(p) /\ pc[p] = "landing"
    BY <1>4 DEF Land
  <2>2. QED
    BY <1>4, <2>1 DEF Land, LandMergeKeys, LandedKey, TurnSound
<1>5. CASE \E p \in Procs : Land(p)
  BY <1>4, <1>5, OtherLanding DEF OwnLanding
<1>6. QED
  BY <1>1, <1>2, <1>3, <1>5, RowsAlone

\* What a turn that lands has published.
LEMMA LandedIsKept ==
  ASSUME MergeIInv, NEW p \in Procs, Land(p)
  PROVE  /\ turn[p] \in Turns /\ turn[p].unit \in turn[p].merged
         /\ turn[p].merged \subseteq heads[turn[p].dest]
         /\ Kept(turn[p].merged) /\ Kept({turn[p].unit})
<1>1. turn[p] \in Turns /\ TurnSound(p) /\ pc[p] = "landing"
  BY DEF Land, MergeIInv, MergeTypeOK, ProcessesTypeOK
<1>2. turn[p].unit \in turn[p].merged /\ turn[p].merged \subseteq heads[turn[p].dest]
  BY <1>1 DEF TurnSound
<1>3. turn[p].dest \in {"parent", "main"}
  BY <1>1 DEF Turns
<1>4. QED
  BY <1>1, <1>2, <1>3 DEF Kept

\* What the driver's copy shows merged is merged.
LEMMA ShownIsKept ==
  ASSUME MergeIInv, NEW u \in Units, DriverShows(u)
  PROVE  Kept({u})
BY DEF MergeIInv, DriverShows, DriverSound, Kept

\* Every row stays sound.
LEMMA RowsStep ==
  ASSUME MergeIInv, [MergeNext]_mergeVars
  PROVE  RowsSound'
<1>0. HeadsGrow
  BY GrowStep
<1>1. ASSUME NEW u \in Units, rows'[u].merged_tip # NoTip
      PROVE  (u \in rows[u].merged_tip /\ Kept(rows[u].merged_tip))'
  <2>1. CASE rows'[u].merged_tip = rows[u].merged_tip
    <3>1. u \in rows[u].merged_tip /\ Kept(rows[u].merged_tip)
      BY <1>1, <2>1 DEF MergeIInv, RowsSound
    <3>2. Kept(rows[u].merged_tip)'
      BY <1>0, <3>1, <2>1 DEF Kept, HeadsGrow, Branches
    <3>3. QED
      BY <2>1, <3>1, <3>2 DEF Kept
  <2>2. ASSUME NEW p \in Procs, OwnLanding(p, u), rows'[u].merged_tip = turn[p].merged
        PROVE  (u \in rows[u].merged_tip /\ Kept(rows[u].merged_tip))'
    <3>1. u \in turn[p].merged /\ Kept(turn[p].merged)
      BY <2>2, LandedIsKept DEF OwnLanding
    <3>2. QED
      BY <1>0, <2>2, <3>1 DEF Kept, HeadsGrow, Branches
  <2>3. QED
    BY <2>1, <2>2, MergedFrom
<1>2. ASSUME NEW u \in Units, rows'[u].merge_state = "merged"
      PROVE  Kept({u})'
  <2>1. Kept({u})
    BY <1>2, MergedFrom, LandedIsKept, ShownIsKept DEF OwnLanding, MergeIInv, RowsSound
  <2>2. QED
    BY <1>0, <2>1, KeptStays
<1>3. QED
  BY <1>1, <1>2 DEF RowsSound

\* The driver goes on knowing what it knew, and learns what its step shows it.
LEMMA DriverSoundStep ==
  ASSUME MergeIInv, [MergeNext]_mergeVars
  PROVE  DriverSound'
<1>0. HeadsGrow /\ "parent" \in Branches
  BY GrowStep DEF Branches
<1>1. ASSUME NEW u \in Units, driver'.step # "none", driver'.rows[u].merge_state = "merged"
      PROVE  Kept({u})'
  <2>1. CASE ~DriverStep
    BY <1>0, <1>1, <2>1, DriverAlone, KeptStays DEF MergeIInv, DriverSound
  <2>2. CASE DriverStep
    <3>1. rows[u].merge_state = "merged" \/ DriverShows(u)
      BY <1>1, <2>2, DriverWrites DEF MergeIInv
    <3>2. Kept({u})
      BY <3>1, ShownIsKept DEF MergeIInv, RowsSound
    <3>3. QED
      BY <1>0, <3>2, KeptStays
  <2>3. QED
    BY <2>1, <2>2
<1> DEFINE Knows == /\ driver'.step = "publishing" => driver'.merged # NoTip
                    /\ driver'.step \in {"merging", "publishing"} /\ driver'.merged # NoTip =>
                         driver'.tip \subseteq driver'.merged /\ driver'.unit \in driver'.merged
                    /\ driver'.step \in {"published", "landing"} =>
                         /\ driver'.unit \in driver'.merged
                         /\ driver'.merged \subseteq heads'["parent"]
<1>2. Knows
  <2> USE DEF MergeIInv, DriverSound
  <2>1. CASE ~DriverStep
    BY <1>0, <2>1, DriverAlone DEF HeadsGrow
  <2>2. CASE driver'.step \notin {"merging", "publishing", "published", "landing"}
    BY <2>2
  <2>3. CASE DriverMerges
    <3>1. driver \in Drivers /\ driver.unit \in Units
      BY <2>3, DriverRowChanges DEF DriverMerges, InDriverTurn
    <3>2. PICK m : /\ driver' = [driver EXCEPT !.step = "merging", !.merged = m]
                   /\ m = NoTip \/ m = driver.tip \cup heads[driver.unit] \cup {made'}
      BY <2>3 DEF DriverMerges
    <3>3. /\ driver'.step = "merging" /\ driver'.tip = driver.tip
          /\ driver'.unit = driver.unit /\ driver'.merged = m
      BY <3>1, <3>2 DEF Drivers
    <3>4. driver.unit \in heads[driver.unit]
      BY <3>1
    <3>5. QED
      BY <3>2, <3>3, <3>4
  <2>4. CASE DriverEndsMerge
    <3>1. DriverRow \in Row /\ [DriverRow EXCEPT !.merge_state = "ready"] \in Row
      BY <2>4, DriverRowChanges DEF DriverEndsMerge, InDriverTurn, Row
    <3>2. CASE driver.merged = NoTip
      <4>1. driver'.step = "closing"
        <5>1. driver.step \in InDriverTurn /\ Refused
          BY <2>4, <3>2 DEF DriverEndsMerge, InDriverTurn
        <5>2. QED
          BY <3>1, <5>1, DriverRowChanges DEF Refused, InDriverTurn
      <4>2. QED
        BY <4>1
    <3>3. CASE driver.merged # NoTip
      <4>1. /\ driver'.step = "publishing" /\ driver'.tip = driver.tip
            /\ driver'.unit = driver.unit /\ driver'.merged = driver.merged
        BY <2>4, <3>1, <3>3, DriverRowChanges DEF DriverEndsMerge, InDriverTurn
      <4>2. driver.step = "merging"
        BY <2>4 DEF DriverEndsMerge
      <4>3. QED
        BY <3>3, <4>1, <4>2
    <3>4. QED
      BY <3>2, <3>3
  <2>5. CASE DriverPublishes
    <3>1. DriverRow \in Row /\ [DriverRow EXCEPT !.merge_state = "ready"] \in Row
      BY <2>5, DriverRowChanges DEF DriverPublishes, InDriverTurn, Row
    <3>2. CASE Refused
      <4>1. driver'.step = "closing"
        BY <2>5, <3>1, <3>2, DriverRowChanges DEF DriverPublishes, Refused, InDriverTurn
      <4>2. QED
        BY <4>1
    <3>3. CASE DriverGoesOn("published", DriverRow)
               /\ heads' = [heads EXCEPT !["parent"] = driver.merged]
      <4>1. /\ driver'.step = "published"
            /\ driver'.unit = driver.unit /\ driver'.merged = driver.merged
        BY <2>5, <3>1, <3>3, DriverRowChanges DEF DriverPublishes, InDriverTurn
      <4>2. heads'["parent"] = driver.merged
        BY <1>0, <3>3 DEF MergeTypeOK
      <4>3. driver.step = "publishing"
        BY <2>5 DEF DriverPublishes
      <4>4. QED
        BY <4>1, <4>2, <4>3
    <3>4. QED
      BY <2>5, <3>2, <3>3 DEF DriverPublishes
  <2>6. CASE DriverCloses /\ driver'.step = "landing"
    <3> DEFINE row == [DriverRow EXCEPT !.merge_worktree = NoPath]
    <3>1. row \in Row /\ driver.step \in InDriverTurn
      BY <2>6, DriverRowChanges DEF DriverCloses, InDriverTurn, Row
    <3>2. ~DriverGoesOn("choosing", row) /\ driver' # NoDriver
      <4>1. DriverGoesOn("choosing", row) => driver'.step = "choosing"
        BY <3>1, DriverRowChanges
      <4>2. NoDriver.step = "none"
        BY DEF NoDriver
      <4>3. QED
        BY <2>6, <4>1, <4>2
    <3>3. driver.step = "published" /\ DriverGoesOn("landing", row) /\ heads' = heads
      BY <2>6, <3>2 DEF DriverCloses
    <3>4. driver'.unit = driver.unit /\ driver'.merged = driver.merged
      BY <3>1, <3>3, DriverRowChanges DEF InDriverTurn
    <3>5. QED
      BY <2>6, <3>3, <3>4
  <2>7. ASSUME DriverStep, ~DriverMerges, ~DriverEndsMerge, ~DriverPublishes, ~DriverCloses
        PROVE  driver'.step \in {"none", "loaded", "choosing", "taken"}
    <3>1. CASE DriverLoads \/ DriverEnds \/ DriverDies
      <4>1. CASE DriverLoads
        BY <4>1 DEF DriverLoads, NoDriver
      <4>2. CASE DriverEnds \/ DriverDies
        BY <4>2 DEF DriverEnds, DriverDies, NoDriver
      <4>3. QED
        BY <3>1, <4>1, <4>2
    <3>2. CASE DriverChecks \/ (\E u \in Units : DriverTakes(u)) \/ DriverLands
      <4>1. driver \in Drivers
        <5>1. driver.step \in {"loaded", "choosing", "landing"}
          BY <3>2 DEF DriverChecks, DriverTakes, DriverLands
        <5>2. QED
          BY <5>1 DEF MergeTypeOK, NoDriver
      <4>2. CASE DriverChecks
        <5>1. NoDriver.step = "none"
          BY DEF NoDriver
        <5>2. \A x : [driver EXCEPT !.step = "choosing", !.rows = x].step = "choosing"
          BY <4>1 DEF Drivers
        <5>3. QED
          BY <4>2, <5>1, <5>2 DEF DriverChecks
      <4>3. CASE \E u \in Units : DriverTakes(u)
        <5>1. PICK u \in Units, path \in DriverPaths :
                driver' = [driver EXCEPT !.step = "taken", !.unit = u, !.path = path,
                                         !.left = @ \ {u},
                                         !.rows[u].merge_state = "merging",
                                         !.rows[u].merge_worktree = path]
          BY <4>3 DEF DriverTakes
        <5>2. QED
          BY <4>1, <5>1 DEF Drivers
      <4>4. CASE DriverLands
        BY <4>1, <4>4 DEF DriverLands, Drivers
      <4>5. QED
        BY <3>2, <4>2, <4>3, <4>4
    <3>3. QED
      BY <2>7, <3>1, <3>2 DEF DriverStep
  <2>8. ASSUME DriverCloses
        PROVE  driver'.step \in {"none", "choosing", "landing"}
    <3>1. [DriverRow EXCEPT !.merge_worktree = NoPath] \in Row /\ driver.step \in InDriverTurn
      BY <2>8, DriverRowChanges DEF DriverCloses, InDriverTurn, Row
    <3>2. QED
      BY <2>8, <3>1, DriverRowChanges DEF DriverCloses, InDriverTurn, NoDriver
  <2>9. QED
    BY <2>1, <2>2, <2>3, <2>4, <2>5, <2>6, <2>7, <2>8
<1>3. QED
  BY <1>1, <1>2 DEF DriverSound

\* A process whose step this is not knows what it knew.
LEMMA OthersStep ==
  ASSUME MergeIInv, HeadsGrow, NEW q \in Procs,
         pc'[q] = pc[q], turn'[q] = turn[q], pc[q] # "idle"
  PROVE  TurnSound(q)'
<1>1. turn[q] \in Turns /\ TurnSound(q)
  BY DEF MergeIInv, MergeTypeOK, ProcessesTypeOK
<1>2. turn[q].dest \in Branches
  BY <1>1 DEF Turns, Branches
<1>3. QED
  BY <1>1, <1>2 DEF TurnSound, ReleasedAsDead, HeadsGrow

\* A process's own step adds what it learns.
LEMMA OwnStep ==
  ASSUME MergeIInv, HeadsGrow, NEW p \in Procs,
         MergeStep(p) \/ TimesOut(p) \/ Crash(p), pc'[p] # "idle"
  PROVE  TurnSound(p)'
<1> USE DEF MergeIInv, MergeTypeOK, ProcessesTypeOK
<1> DEFINE t == turn[p]
<1>1. ASSUME NEW u \in Units, StartMerge(p, u)
      PROVE  TurnSound(p)'
  <2>1. PICK flag \in ParentFlags :
          turn' = [turn EXCEPT ![p] = [unit |-> u, dest |-> Destination(flag),
                                       before |-> rows, mine |-> TakeTurn(rows, u),
                                       tip |-> NoTip, merged |-> NoTip]]
    BY <1>1 DEF StartMerge
  <2>2. /\ turn'[p].unit = u
        /\ turn'[p].before = rows
        /\ turn'[p].mine = TakeTurn(rows, u)
    BY <2>1
  <2>3. pc'[p] = "fetching" /\ rows' = rows
    BY <1>1 DEF StartMerge, Goto
  <2>4. \A v \in Units \ {u} :
          /\ TakeTurn(rows, u)[v].merged_tip = rows[v].merged_tip
          /\ \/ TakeTurn(rows, u)[v] = rows[v]
             \/ rows[v].merge_state = "merging" /\ TakeTurn(rows, u)[v].merge_state = "ready"
    BY DEF TakeTurn, Release, Row
  <2>5. QED
    BY <2>2, <2>3, <2>4 DEF TurnSound, ReleasedAsDead
<1>2. ASSUME pc[p] # "idle", turn'[p] = t, pc'[p] \in {"resolving", "merging", "refusing"}
      PROVE  TurnSound(p)'
  BY <1>2 DEF TurnSound, ReleasedAsDead
<1>3. CASE Resolve(p)
  <2>1. turn'[p] = [t EXCEPT !.tip = heads[t.dest]] /\ pc'[p] = "adding" /\ t \in Turns
    BY <1>3 DEF Resolve, Goto
  <2>2. /\ turn'[p].unit = t.unit
        /\ turn'[p].before = t.before
        /\ turn'[p].mine = t.mine
    BY <2>1 DEF Turns
  <2>3. TurnSound(p)
    BY <1>3 DEF Resolve
  <2>4. QED
    BY <2>1, <2>2, <2>3 DEF TurnSound, ReleasedAsDead
<1>4. CASE Merge(p) /\ pc'[p] # "refusing"
  <2>1. /\ t \in Turns
        /\ TurnSound(p)
        /\ pc'[p] = "guarding"
    BY <1>4 DEF Merge, GoOn, Goto
  <2>2. t.unit \in heads[t.unit]
    BY <2>1 DEF Turns
  <2>3. PICK m : /\ turn' = [turn EXCEPT ![p].merged = m]
                 /\ t.tip \subseteq m
                 /\ heads[t.unit] \subseteq m
    <3>1. CASE heads[t.unit] \subseteq t.tip /\ turn' = [turn EXCEPT ![p].merged = t.tip]
      BY <3>1
    <3>2. CASE turn' = [turn EXCEPT ![p].merged = t.tip \cup heads[t.unit] \cup {made'}]
      <4> WITNESS t.tip \cup heads[t.unit] \cup {made'}
      <4>1. QED
        BY <3>2
    <3>3. QED
      BY <1>4, <3>1, <3>2, Zenon DEF Merge, GoOn, Goto
  <2>4. turn'[p] = [t EXCEPT !.merged = m]
    BY <2>3
  <2>5. /\ turn'[p].unit = t.unit
        /\ turn'[p].before = t.before
        /\ turn'[p].mine = t.mine
        /\ turn'[p].tip = t.tip
        /\ turn'[p].merged = m
    BY <2>1, <2>4 DEF Turns
  <2>6. QED
    BY <2>1, <2>2, <2>3, <2>5 DEF TurnSound, ReleasedAsDead
<1>5. CASE Guard(p) /\ pc'[p] # "refusing"
  BY <1>5 DEF Guard, GoOn, Goto, TurnSound, ReleasedAsDead
<1>6. CASE Publish(p) /\ pc'[p] # "refusing"
  <2>1. t \in Turns /\ TurnSound(p) /\ pc'[p] = "cleaning" /\ turn' = turn
    BY <1>6 DEF Publish, GoOn, Goto
  <2>2. t.merged = heads'[t.dest]
    BY <1>6, <2>1 DEF Publish, GoOn, Goto, Turns, Branches
  <2>3. QED
    BY <1>6, <2>1, <2>2 DEF Publish, TurnSound, ReleasedAsDead
<1>7. CASE RemoveWorktree(p) /\ pc[p] = "cleaning"
  <2> DEFINE row == [merge_state |-> "merged", merge_worktree |-> NoPath, merged_tip |-> t.merged]
  <2>1. t \in Turns /\ TurnSound(p) /\ pc'[p] = "reintegrating" /\ heads' = heads
    BY <1>7 DEF RemoveWorktree, Goto, End
  <2>2. turn'[p] = [t EXCEPT !.mine = [t.mine EXCEPT ![t.unit] = row]]
    BY <1>7 DEF RemoveWorktree, Goto, End
  <2>3. /\ turn'[p].unit = t.unit
        /\ turn'[p].before = t.before
        /\ turn'[p].dest = t.dest
        /\ turn'[p].merged = t.merged
        /\ turn'[p].mine = [t.mine EXCEPT ![t.unit] = row]
    BY <2>1, <2>2 DEF Turns
  <2>4. /\ turn'[p].mine[t.unit].merged_tip = t.merged
        /\ turn'[p].mine[t.unit].merge_state = "merged"
        /\ \A v \in Units \ {t.unit} : turn'[p].mine[v] = t.mine[v]
    BY <2>1, <2>3 DEF Turns
  <2>5. QED
    BY <1>7, <2>1, <2>3, <2>4 DEF TurnSound, ReleasedAsDead
<1>8. CASE Reintegrate(p)
  BY <1>8, OthersStep DEF Reintegrate, procVars, turnVars
<1>9. CASE StopReintegrating(p)
  BY <1>9 DEF StopReintegrating, GoOn, Goto, TurnSound, ReleasedAsDead, gitVars
<1>10. ASSUME \/ Fetch(p) \/ AddWorktree(p)
              \/ (Merge(p) \/ Guard(p) \/ Publish(p)) /\ pc'[p] = "refusing"
       PROVE  TurnSound(p)'
  <2>1. pc[p] # "idle" /\ turn'[p] = t /\ pc'[p] \in {"resolving", "merging", "refusing"}
    <3>1. CASE Fetch(p) \/ AddWorktree(p)
      BY <3>1 DEF Fetch, AddWorktree, GoOn, Goto, End
    <3>2. CASE (Merge(p) \/ Guard(p) \/ Publish(p)) /\ pc'[p] = "refusing"
      BY <3>2 DEF Merge, Guard, Publish, GoOn, Goto
    <3>3. QED
      BY <1>10, <3>1, <3>2
  <2>2. QED
    BY <1>2, <2>1
<1>11. ~(Land(p) \/ TimesOut(p) \/ Crash(p) \/ (RemoveWorktree(p) /\ pc[p] # "cleaning"))
  BY DEF Land, TimesOut, Crash, RemoveWorktree, End, Goto
<1>12. QED
  BY <1>1, <1>2, <1>3, <1>4, <1>5, <1>6, <1>7, <1>8, <1>9, <1>10, <1>11 DEF MergeStep

\* A process that a step leaves alone keeps its place and its memory.
LEMMA StepOf ==
  ASSUME MergeTypeOK, [MergeNext]_mergeVars, NEW q \in Procs,
         ~(MergeStep(q) \/ TimesOut(q) \/ Crash(q))
  PROVE  pc'[q] = pc[q] /\ turn'[q] = turn[q]
<1>1. ASSUME NEW p \in Procs, MergeStep(p) \/ TimesOut(p) \/ Crash(p), p # q
      PROVE  pc'[q] = pc[q] /\ turn'[q] = turn[q]
  BY <1>1 DEF MergeStep, StartMerge, Fetch, Resolve, AddWorktree, Merge, Guard, Publish,
       RemoveWorktree, Reintegrate, StopReintegrating, Land, TimesOut, Crash, GoOn, Goto, End,
       procVars, turnVars, MergeTypeOK, ProcessesTypeOK
<1>2. ASSUME \/ Status \/ (\E u \in Units : Take(u) \/ LaneCommit(u))
             \/ ParentCommit \/ MainAdvances \/ ClearLeftover \/ UNCHANGED mergeVars
      PROVE  pc' = pc /\ turn' = turn
  BY <1>2 DEF Status, Take, LaneCommit, ParentCommit, MainAdvances, ClearLeftover, mergeVars,
       procVars, turnVars
<1>3. CASE DriverStep
  BY <1>3 DEF DriverStep, DriverLoads, DriverChecks, DriverTakes, DriverMerges, DriverEndsMerge,
       DriverPublishes, DriverCloses, DriverLands, DriverEnds, DriverDies, turnVars
<1>4. QED
  BY <1>1, <1>2, <1>3 DEF MergeNext

LEMMA MergeIInvStep ==
  ASSUME MergeIInv, [MergeNext]_mergeVars
  PROVE  MergeIInv'
<1>1. MergeTypeOK' /\ RowsSound' /\ HeadsGrow /\ DriverSound'
  BY MergeTypeStep, RowsStep, GrowStep, DriverSoundStep DEF MergeIInv
<1>2. \A u \in Units : u \in heads'[u]
  BY <1>1 DEF MergeIInv, HeadsGrow, Branches
<1>3. ASSUME NEW q \in Procs, pc'[q] # "idle"
      PROVE  TurnSound(q)'
  <2>1. CASE MergeStep(q) \/ TimesOut(q) \/ Crash(q)
    BY <1>1, <1>3, <2>1, OwnStep
  <2>2. CASE ~(MergeStep(q) \/ TimesOut(q) \/ Crash(q))
    <3>1. pc'[q] = pc[q] /\ turn'[q] = turn[q]
      BY <2>2, StepOf DEF MergeIInv
    <3>2. QED
      BY <1>1, <1>3, <3>1, OthersStep
  <2>3. QED
    BY <2>1, <2>2
<1>4. QED
  BY <1>1, <1>2, <1>3 DEF MergeIInv

LEMMA MergeIInvHolds == MergeSpec => []MergeIInv
<1>1. MergeInit /\ MergeTypeOK => MergeIInv
  BY DEF MergeInit, MergeIInv, RowsSound, DriverSound, NoDriver, Ready, NoTip, Branches
<1>2. QED
  BY <1>1, MergeTypeCorrect, MergeIInvStep, PTL DEF MergeSpec

\* A merge that the record shows is never lost: whatever turns and drivers overlap, die or land
\* late, the work of a merged row's unit, and the commit the row names, are in a destination.
THEOREM MergesAreKept == MergeSpec => []RecordedMergeIsKept
<1>1. ASSUME MergeIInv, NEW u \in Units, rows[u].merge_state = "merged"
      PROVE  /\ rows[u].merged_tip # NoTip => u \in rows[u].merged_tip
             /\ \E d \in {"parent", "main"} : {u} \cup rows[u].merged_tip \subseteq heads[d]
  <2>1. CASE rows[u].merged_tip = NoTip
    BY <1>1, <2>1 DEF MergeIInv, RowsSound, Kept, NoTip
  <2>2. CASE rows[u].merged_tip # NoTip
    BY <1>1, <2>2 DEF MergeIInv, RowsSound, Kept
  <2>3. QED
    BY <2>1, <2>2
<1>2. MergeIInv => RecordedMergeIsKept
  BY <1>1 DEF RecordedMergeIsKept
<1>3. QED
  BY <1>2, MergeIInvHolds, PTL

\* No turn, its re-integrations included, and no driver takes a commit off any branch.
THEOREM NoCommitIsLost == MergeSpec => BranchesOnlyGrow
<1>1. MergeIInv /\ [MergeNext]_mergeVars
        => [\A b \in Branches : heads[b] \subseteq heads'[b]]_mergeVars
  BY GrowStep DEF HeadsGrow
<1>2. QED
  BY <1>1, MergeIInvHolds, PTL DEF MergeSpec, BranchesOnlyGrow

\* Beside the driver's saves, a merged row is reopened by taking the turn for its unit and by
\* nothing else: no landing of another unit's turn puts back the ready it gave a row it took for
\* stale.
THEOREM MergedRowsStay == MergeSpec => OnlyTakeReopens
<1>1. ASSUME MergeIInv, MergeNext, NEW u \in Units, rows[u].merge_state = "merged",
             rows'[u].merge_state # "merged"
      PROVE  Take(u) \/ DriverStep
  <2>1. CASE Status
    BY <1>1, <2>1 DEF Status, Release, MergeIInv, MergeTypeOK
  <2>2. ASSUME NEW v \in Units, Take(v)
        PROVE  Take(u)
    <3>1. Release(rows)[u] = rows[u] /\ Release(rows) \in [Units -> Row]
      BY <1>1, RowsReleased DEF Release, MergeIInv, MergeTypeOK
    <3>2. CASE v # u
      BY <1>1, <2>2, <3>1, <3>2 DEF Take, TakeTurn
    <3>3. QED
      BY <2>2, <3>2
  <2>3. ASSUME NEW p \in Procs, Land(p)
        PROVE  FALSE
    <3>1. TurnSound(p) /\ pc[p] = "landing"
      BY <1>1, <2>3 DEF MergeIInv, Land
    <3>2. CASE u = turn[p].unit
      BY <1>1, <2>3, <3>1, <3>2 DEF Land, LandMergeKeys, LandedKey, TurnSound
    <3>3. CASE u # turn[p].unit
      BY <1>1, <2>3, <3>3, OtherLanding
    <3>4. QED
      BY <3>2, <3>3
  <2>4. QED
    BY <1>1, <2>1, <2>2, <2>3, RowsAlone
<1>2. MergeIInv /\ [MergeNext]_mergeVars
        => [\A u \in Units : rows[u].merge_state = "merged" /\ rows'[u].merge_state # "merged"
                             => Take(u) \/ DriverStep]_mergeVars
  BY <1>1
<1>3. QED
  BY <1>2, MergeIInvHolds, PTL DEF MergeSpec, OnlyTakeReopens

-----------------------------------------------------------------------------
(***************************************************************************)
(* Integration, when every invocation passes --parent-branch, as the       *)
(* driver's merge does by what it is.                                      *)
(***************************************************************************)

\* Every turn merges onto the parent, which holds whatever a row, in the record or in the driver's
\* copy, says was merged.
OnParent ==
  /\ \A p \in Procs : pc[p] # "idle" => turn[p].dest = "parent"
  /\ \A u \in Units : rows[u].merge_state = "merged" \/ DriverShows(u) => u \in heads["parent"]

LEMMA DestinationStep ==
  ASSUME ParentFlags \subseteq {TRUE}, MergeIInv, OnParent, [MergeNext]_mergeVars
  PROVE  OnParent'
<1> USE DEF MergeIInv, MergeTypeOK, ProcessesTypeOK
<1>0. heads["parent"] \subseteq heads'["parent"]
  BY GrowStep DEF HeadsGrow, Branches
<1>1. ASSUME NEW p \in Procs, pc'[p] # "idle"
      PROVE  turn'[p].dest = "parent"
  <2>1. CASE pc'[p] = pc[p] /\ turn'[p] = turn[p]
    BY <1>1, <2>1 DEF OnParent
  <2>2. CASE \E u \in Units : StartMerge(p, u)
    <3>1. PICK u \in Units, flag \in ParentFlags :
            turn' = [turn EXCEPT ![p] = [unit |-> u, dest |-> Destination(flag),
                                         before |-> rows, mine |-> TakeTurn(rows, u),
                                         tip |-> NoTip, merged |-> NoTip]]
      BY <2>2 DEF StartMerge
    <3>2. QED
      BY <3>1 DEF Destination
  <2>3. CASE pc[p] # "idle" /\ turn' = turn
    BY <2>3 DEF OnParent
  <2>4. CASE \/ Resolve(p)
             \/ Merge(p)
             \/ RemoveWorktree(p) /\ pc[p] = "cleaning"
    <3>1. turn[p] \in Turns /\ turn[p].dest = "parent"
      BY <2>4 DEF Resolve, Merge, RemoveWorktree, OnParent
    <3>2. \/ turn' = turn
          \/ \E x : turn' = [turn EXCEPT ![p].tip = x]
          \/ \E x : turn' = [turn EXCEPT ![p].merged = x]
          \/ \E x : turn' = [turn EXCEPT ![p].mine[turn[p].unit] = x]
      BY <2>4, Zenon DEF Resolve, Merge, RemoveWorktree, GoOn, Goto, End
    <3>3. QED
      BY <3>1, <3>2 DEF Turns
  <2>5. ASSUME MergeStep(p) \/ TimesOut(p) \/ Crash(p), ~(\E u \in Units : StartMerge(p, u)),
               ~Resolve(p), ~Merge(p), ~(RemoveWorktree(p) /\ pc[p] = "cleaning")
        PROVE  pc[p] # "idle" /\ turn' = turn
    BY <1>1, <2>5 DEF MergeStep, Fetch, AddWorktree, Guard, Publish, RemoveWorktree, Reintegrate,
       StopReintegrating, Land, TimesOut, Crash, GoOn, Goto, End, procVars, turnVars
  <2>6. QED
    BY <2>1, <2>2, <2>3, <2>4, <2>5, StepOf
<1>2. ASSUME NEW p \in Procs, Land(p)
      PROVE  turn[p].unit \in heads["parent"]
  <2>1. turn[p].dest = "parent"
    BY <1>2 DEF Land, OnParent
  <2>2. QED
    BY <1>2, <2>1, LandedIsKept
<1>3. ASSUME NEW u \in Units, rows'[u].merge_state = "merged"
      PROVE  u \in heads'["parent"]
  BY <1>0, <1>2, <1>3, MergedFrom DEF OwnLanding, OnParent
<1>4. ASSUME NEW u \in Units, DriverShows(u)'
      PROVE  u \in heads'["parent"]
  <2>1. CASE ~DriverStep
    BY <1>0, <1>4, <2>1, DriverAlone DEF DriverShows, OnParent
  <2>2. CASE DriverStep /\ driver'.rows[u].merge_state = "merged"
    BY <1>0, <1>4, <2>2, DriverWrites DEF DriverShows, OnParent
  <2>3. CASE driver'.step = "landing" /\ driver'.unit = u
    BY <2>3, DriverSoundStep DEF DriverSound
  <2>4. QED
    BY <1>4, <2>1, <2>2, <2>3 DEF DriverShows
<1>5. QED
  BY <1>1, <1>3, <1>4 DEF OnParent

\* While the invocations pass --parent-branch, a record that says integration is complete is right:
\* the parent branch holds the work of every unit, whether the driver or a turn merged it.
THEOREM IntegrationHolds ==
  ASSUME ParentFlags \subseteq {TRUE}
  PROVE  MergeSpec => []IntegrationIsReal
<1>1. MergeInit => OnParent
  <2>1. ASSUME MergeInit
        PROVE  /\ driver.step = "none"
               /\ \A u \in Units : rows[u].merge_state = "ready"
               /\ \A p \in Procs : pc[p] = "idle"
    BY <2>1 DEF MergeInit, NoDriver, Ready
  <2>2. QED
    BY <2>1 DEF OnParent, DriverShows
<1>2. MergeIInv /\ OnParent /\ [MergeNext]_mergeVars => OnParent'
  BY DestinationStep
<1>3. ASSUME OnParent
      PROVE  IntegrationIsReal
  <2>1. CASE \A u, v \in Units : u = v
    BY <2>1 DEF IntegrationIsReal
  <2>2. CASE \A u \in Units : rows[u].merge_state = "merged"
    <3>1. ASSUME NEW u \in Units
          PROVE  u \in heads["parent"]
      BY <1>3, <2>2 DEF OnParent
    <3>2. QED
      BY <3>1 DEF IntegrationIsReal
  <2>3. CASE ~IntegrationComplete
    BY <2>3 DEF IntegrationIsReal
  <2>4. QED
    BY <2>1, <2>2, <2>3 DEF IntegrationComplete
<1>4. QED
  BY <1>1, <1>2, <1>3, MergeIInvHolds, PTL DEF MergeSpec

-----------------------------------------------------------------------------
(***************************************************************************)
(* The holder whose merge is in flight.                                    *)
(***************************************************************************)

\* The row of a holder whose merge is in flight is changed by the driver, by the landing of a turn
\* of its own unit, or by the landing of a turn that had found the row's last turn dead; neither
\* status nor take releases it, and a turn that found the holder alive never does.
THEOREM HolderIsKept == MergeSpec => LiveHolderKept
<1>1. ASSUME MergeIInv, MergeNext, NEW u \in Units,
             rows[u].merge_state = "merging", rows[u].merge_worktree \in unfinished,
             rows'[u] # rows[u]
      PROVE  \/ DriverStep
             \/ \E p \in Procs : Land(p) /\ (turn[p].unit = u \/ ReleasedAsDead(p, u))
  <2>1. rows[u] \in Row /\ Release(rows)[u] = rows[u]
    BY <1>1 DEF Release, TurnIsLive, MergeIInv, MergeTypeOK
  <2>2. CASE Status
    BY <1>1, <2>1, <2>2 DEF Status
  <2>3. ASSUME NEW v \in Units, Take(v)
        PROVE  FALSE
    <3>1. v = u
      BY <1>1, <2>3 DEF Take, Holders, TurnIsLive
    <3>2. rows'[u] = [rows[u] EXCEPT !.merge_state = "merging"]
      BY <1>1, <2>1, <2>3, <3>1, RowsReleased DEF Take, TakeTurn, MergeIInv, MergeTypeOK
    <3>3. QED
      BY <1>1, <2>1, <3>2 DEF Row
  <2>4. ASSUME NEW p \in Procs, Land(p), turn[p].unit # u
        PROVE  ReleasedAsDead(p, u)
    BY <1>1, <2>4, OtherLanding
  <2>5. QED
    BY <1>1, <2>2, <2>3, <2>4, RowsAlone
<1>2. MergeIInv /\ [MergeNext]_mergeVars
        => [\A u \in Units :
              /\ rows[u].merge_state = "merging"
              /\ rows[u].merge_worktree \in unfinished
              /\ rows'[u] # rows[u]
              =>
              \/ DriverStep
              \/ \E p \in Procs : Land(p) /\ (turn[p].unit = u \/ ReleasedAsDead(p, u))]_mergeVars
  BY <1>1
<1>3. QED
  BY <1>2, MergeIInvHolds, PTL DEF MergeSpec, LiveHolderKept
=============================================================================
