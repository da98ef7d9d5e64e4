# A verification project for infiquetra-agent-plugins

The repository is a catalogue of agent plugins, nearly all of them Python command lines that many
short-lived processes run beside each other. Its own core logic is what those processes agree on
while nobody is in charge: a run record (one JSON file under a file lock), a merge turn, a lease on
a shared environment, a release step, message streams. This project models that core in TLA+,
checks it with TLC on small instances and proves what matters most with TLAPS for every instance.

All paths below are relative to the repository; `saga` is `plugins/saga/scripts`.

## The system's parts

| Component | State it keeps | Operations | Talks to | What is hard | What makes it correct |
|---|---|---|---|---|---|
| environment lease (`saga/environment_lease.py`) | one git reference on a remote | acquire, read, release, operator's release | build loop, git remote | pushes and answers lost or late, races between hosts, dead holders | one winner; nobody is robbed; a returned lease stays returned, and only a late unanswered create holds the environment after it |
| combined-branch pass (`saga/build_loop.py --combined`) | one pass entry in memory; `combined_branch` on the record | baseline, acquire, deploy, test, teardown, release, land | lease, run record, merge turn | interrupts and kills anywhere, failing teardown or release, waiting for ever | alone in the environment from deploy to teardown; a green pass is whole; three waits reach the operator |
| build loop, unit iterations (`saga/build_loop.py`) | `build_loop` on a unit row | run checks, land an iteration | run record | the record changes under an unlocked run | the iteration lands on its own row only |
| merge turn (`saga/merge_turn.py`) | merge keys of the unit rows, git branches, worktrees | status, take, merge (with both re-integrations) | run record, git, orchestrate | no lock during git work; dead turns; late landings | no merge, commit or merged row is lost |
| run record (`saga/run_record.py`) | `issue-N.json` | load, save, update under `flock` | every role | read-modify-write by many writers | no update is lost; readers see whole records |
| orchestrate driver, units (`plugins/orchestrate`) | a row per unit, its block on the record | start, go, wait, settle, expand, merge, clean | run record, panes, git, agent-launcher | killed commands, sessions that stop on their own, saves from memory | one session per unit, on work that exists; go launches within the width; its rows keep what it does not own |
| orchestrate driver, review loop | a review slot per controller, fix requests on the unit rows | review-result, go, merge (resubmit), clean | Code Review controllers, workers | routing is several saves and prompts; two controllers share workers; retries | a blocking finding stays in somebody's hand until its repair lands; only then is the controller asked again |
| release step (`saga/release_step.py`) | `release` on the record, the pull request | merge, deploy, functional test, closeout | GitHub, record | a crash between the merge and the record; repair rounds | a merged request is recorded once; the allowance is kept |
| redis channel (`plugins/redis-channel/server`) | streams, consumer group, presence keys | connect, consume, reply, sweep | redis, the agent session | redelivery, sweep against registration, name collisions | no accepted message is dropped |
| review state and consensus (`saga/review_*.py`) | review cycles on the record | start, record, decide | record | cycle cap, reviewers that disagree or fail | a capped review ends with its proof |
| lifecycle, board, reconcile (`saga/lifecycle_state.py`, `board_progression.py`, `reconcile_controller.py`) | envelope log, board fields | advance, project, reconcile | GitHub project | the board lags behind or was edited | reconciliation converges |
| outcome job, deploy handoff, admission | files and record keys | schedule, hand over, ask | record, trackers | retries of what was done | nothing is done twice |
| fleet-core (`retry_backoff.py`, `merge_guard.py`) | breaker counters | call, trip, reset | its callers | the boundaries of counters | the breaker opens and closes at its limits |
| voice, agent-launcher, mission-control, agy, codex, deploy, hermes-profile-evolution, unifi, home-lab-ops, house-style | turn records, panes, external services | mostly input and output | external programs | | |

`PROJECT.json` lists every component with its status and the reason where it is not modelled, and
every hazard at its line with the properties that watch it or the reason why none does.

## The modules

| Module | Models |
|---|---|
| `SharedEnvironment` | the abstract promise: the environment is granted to one invocation at a time, used only while granted, taken back only when no longer used |
| `EnvironmentLease` | the git reference lease and the polling loop around it |
| `CombinedPass` | `--combined` passes over the lease (EXTENDS `EnvironmentLease`) |
| `MergeTurn` | `merge_turn.py` status, take and merge, with workers and `orchestrate.py merge` (the driver) beside it |
| `AtomicRecord` | the abstract promise of the run record: every write is one step on the record as it is |
| `RunRecord` | the record as a file under a lock, its one-key writers and the driver's load and save |
| `UnitLaunch` | `orchestrate.py` go, settle, wait, expand and the prompts of review: the life of a unit |
| `ReviewLoop` | `orchestrate.py` review-result, and the parts of go, settle, merge and clean that carry a repair |
| `MCCombinedPass`, `MCMergeTurn`, `MCRunRecord`, `MCUnitLaunch`, `MCReviewLoop` | symmetry, constraints and the instances of the runs |
| `EnvironmentLeaseProofs`, `CombinedPassProofs`, `MergeTurnProofs`, `RunRecordProofs`, `UnitLaunchProofs`, `ReviewLoopProofs`, `ReviewRepairProofs` (EXTENDS `ReviewLoopProofs`) | theorems |

`CombinedPass` extends `EnvironmentLease`, which implements `SharedEnvironment`; `RunRecord`
implements `AtomicRecord`. `MergeTurn`, `UnitLaunch` and `ReviewLoop` take one locked save of the
record as one step, which is what `RunRecord` shows it to be.

Definitions whose comment says "Mutant of ..." are faulty variants of the definition that follows
them. No specification uses them: they show that a property would notice the fault.

### EnvironmentLease

`ref` is what the remote's reference points at. A push is two steps: `SendAcquire` or `SendRelease`
puts it into `pushes`, and `RemoteDecides` compares and swaps; `answer` is on its way until
`AcquireSucceeds` or `ReleaseSucceeds` reads it. `AcquirePushFails` and `ReleasePushFails` also
stand for a git call that timed out or lost its answer, so the remote may decide a push after its
sender has moved on. `lpc` is the place in `acquire`/`release`: `reading` and `confirming` are the
`git ls-remote` after a failed push. A commit is `<<invocation, attempt>>`, because the nonce
paragraph makes every attempt's object id fresh. The holder's text and its staleness are reports and
change nothing. A `fetch` of the holder that fails still reads as held, so reading is one step.
`OidOf` is the attempt an invocation is at; earlier attempts of the same wait have object ids of
their own and may still be on their way, and `unanswered` remembers which of them the invocation went
on from without the remote's answer.
`Vanish` is a process that died or an exception that left the call. `OperatorReleases` is the
command line's `release --expect`; `CarefulOperator` says that operators keep to the documented
rule and release only the leases of runs that ended.

### CombinedPass

One process runs one pass: `Begin` (declaration and HEAD read), `Build` (baseline and review gate),
`WaitForLease`/`LeaseCall`, `StartDeploy`, `Deploy`, `Test`, `Teardown` with the call to `release`,
`Released`, `Land`. `problems` keeps the set of results other than `pass`, which is all that
`_pass_status` looks at. `Interrupt` is SIGTERM or Ctrl-C: between deploy and teardown it runs the
`finally` block, elsewhere it leaves at once; either way `run_combined_pass` records the pass and
re-raises. `Crash` is a kill. `Land` is `apply_combined_pass` under the file lock, `ExitCode` what
the command line returns. All invocations belong to one run record; each finds a shared, private or
waived declaration. The refusals before a pass starts (exit 2) change nothing and are left out, as
is the text of commands.

### MergeTurn

A commit is the set of commits it reaches, so "is an ancestor" is inclusion, a merge is a union with
one new commit, and a fast-forward is a replacement by a superset. `status` and `take` run under the
record's lock and are one step. `merge` reads the record once (`StartMerge`) and then makes one git
call per step: `Fetch`, `Resolve`, `AddWorktree`, `Merge`, `Guard`, `Publish` (update-ref with the
expected tip), `RemoveWorktree` (the `finally` block), `Reintegrate` (any number of fast-forwards,
the rest reported pending), `Land` (`land_merge_keys` on a fresh record). A refused turn ends with
its changes in memory only. `TimesOut` is a git call that outlives its timeout, `Crash` a kill. What
files hold is not modelled: a conflict is git's choice, and the guard may refuse any merge that does
not contain the fetched default branch. `LaneCommit`, `ParentCommit` and `MainAdvances` are workers
and other pushes.

Beside these processes runs the driver, `orchestrate.py merge`: `DriverLoads`, `DriverChecks` (stale
turns released, the save, the fetch), then per unit `DriverTakes` (a fresh worktree, and `merging`
saved with it), `DriverMerges` and `DriverEndsMerge` (between them the worktree holds an unfinished
merge, which is what `turn_is_live` looks for), `DriverPublishes`, `DriverCloses` (the `finally`
block), `DriverLands`. It may start at any moment, refuse, be interrupted (`DriverCloses` may end the
command) or die (`DriverDies`, with or without its git merge). Each of its saves writes the merge
state and the worktree of every row from the copy it loaded (`SaveRows`) and carries `merged_tip`
over, which is not a key of the driver's; `DriverEnds` from `loaded` is any other driver command that
saves the run it loaded. One driver command runs at a time, as the skill has it. `DriverPaths` bounds
the fresh paths; `ClearLeftover` is somebody removing the worktree of a driver that died, and a
removal that fails is left out.

### RunRecord

`record` keeps one key that writers of the whole record own (`next_step`), the rows there are
(`units`), and what other writers put on a row (`usage`, which stands for every key the `Unit`
dataclass does not declare). A writer runs one `update`: `AcquireLock`, `Reread`, `Replace` or
`WriteNothing`, `Unlock`. A driver `Load`s with no lock, works on its memory (`AddRow`), and saves
through the same lock any number of times: `Saved` takes everything it does not own from the copy
read under the lock, `Carried` is `_row_for_save`. `Crash` is a kill: `os.replace` leaves the old
record or the new one, and the kernel drops the lock. The keys a driver owns are its own by design;
that two overlapping drivers overwrite each other's is documented and not a property here.

`AtomicRecord` has no lock, no copies and no memory but the rows a driver has seen; the refinement
maps `known` to that part of the driver's memory.

### UnitLaunch

`disk` is a status and "has a tab" per unit, `mem` the copy a command works on. `Go` takes a slice
of the eligible units as wide as `Room`; then, unit by unit, `PassOver` or `Persist` (the save before
the launcher is called) and `Launched`, with every outcome the launcher may have: a session and its
identity, a session whose identity is not known, staged input in the composer, a failure. `failed`
also stands for `account_mismatch` and `prompt_undelivered`, which no command treats otherwise.
`Interrupted` is a keyboard interrupt during the launch, `Killed` a kill at any step. `SettleFirst`
and `SettleSecond` are the two readings; sessions go on between them (`Turns`, `Commits`). An agent
that is blocked or whose state is unknown counts as working. `WaitStarts`/`WaitEnds` is a wait, which
saves the copy it loaded, `Expand` adds a unit. `Prompt` is a repair that `review-result` sends to a
session, or the resubmission `merge` sends to a controller: the row goes to running in memory, without
asking `launch_room`, and `EndPrompts` saves it; a kill between the two leaves a session at work whose
row still says done. A replacement that `review-result` mints is a row like one of `expand`'s, and
which unit is prompted for what is `ReviewLoop`'s. `launch_room` counts open role panes too, which
are taken to be none. One command runs at a time, as the orchestrate skill has it.

### ReviewLoop

`disk` is the run as saved: a row per unit (status, the fix requests it carries, its lifecycle, the
finding a replacement was minted for) and a review slot per controller. `Ingest`, `Route`, `Send`
(`Skip`, `Withhold`, `Deliver`) or `SendFails`, `FinishRouting` are `review-result` between its saves
and its prompts. `Routed` is `route_review_result`: `Reusable` live workers first, then units
`Assigned` already, then a minted replacement. `Go`, `Settle` and `Clean` are those commands for the
units of the loop; `Settle` takes for done whatever is idle at both readings and has commits, a worker
between two prompts and a controller between two turns included. `StartMerge`, `Advance` (the branch has moved), `LandUnit` (its requests are
cleared and saved), `EndTurns`, `Resubmit`, `EndMerge` are `merge`; any resubmission may be withheld
or fail, and `EndMerge` then leaves its flag set. `Crash` kills a command between
two saves; the coordinator may run any command again, on what was saved. Controllers emit results,
workers commit repairs, sessions die. A run has one unscoped controller or any number of scoped ones.

Abstracted: a template for a replacement always exists (`LoopAssumption`; the refusal "no Work worker
declares owner role" is left out); a launch of a replacement succeeds (`UnitLaunch` has the ones that
do not); the text of prompts; results of another schema than the review run's, as far as they
differ in more than the outcome; the paths of a finding, replaced by whose paths it overlaps.

## The runs

| Run | Shows | Bounds |
|---|---|---|
| `pass_shared` | `OneWinner`, `ReturnedStaysReturned`, `NeverTakenOver`: the lease protocol. `OneRunAtATime`, `ImplementsShared`: from deploy to teardown an invocation is alone and holds the lease. `GreenPassIsWhole`: what lands green was not interrupted and gave back the lease it won. `ImplementsEnvironment`: refinement | 2 invocations, 2 attempts each, lost pushes, interrupts, all three declarations |
| `pass_liveness` | `EveryPassEnds`, `LeaseComesBack` under fairness | 2 invocations, 2 attempts, lost pushes |
| `waits_surface` | `WaitsSurface`: the third wait in a row is an environment stop. `BrokenLeaseNeverGreen`: an operator breaks a live run's lease; that pass cannot land green | 4 invocations, at most two at once, one dead and one broken lease, one attempt, careless operator, shared environment |
| `merge_turns` | `RecordedMergeIsKept`, `IntegrationIsReal`, `BranchesOnlyGrow`, `OnlyTakeReopens`, `LiveHolderKept` | 2 units, 2 processes and the driver with one worktree path, 2 invocations of any of them, 2 commits, every turn with `--parent-branch` |
| `run_record` | `ImplementsAtomic`: the locked file is an atomic record. `ReadIsCurrent`, `UsageIsKept`: no update is lost. `EveryUpdateEnds`: no waiter is stuck | 1 row, 2 writers, 2 drivers, any number of saves, every process may die |
| `unit_launch` | `LaunchedOnce`, `BuildsOnWork`, `WidthHeld`, `EndedStays` | 5 units: one without a branch, one that builds on it, one that expand adds and that builds on another, one that waits for two; width 2; any number of commands, prompts and kills |
| `review_loop` | `RoutedIsInHand`, `ResubmittedIsRepaired`, `RequestsAreNotTaken`, `CleanCutsNothing` | 2 scoped controllers, 2 and 1 rounds, 2 findings of which both controllers have one, a worker of each controller and a template of nobody's, one replacement, one staged composer, one mortal session, `MaxKills` = 1 |
| `interrupted_release`, `mixed_destinations`, `one_turn`, `dead_turn`, `fix_never_sent` | violations of what the documents say; see below | as above |

Why the bounds are enough to be interesting: two invocations make every race of one holder and one
waiter, two attempts make an earlier attempt's push arrive after a later one was released; three and
more invocations and attempts are covered by the theorems. Four invocations are what three waits on
a dead holder need. Two turns on two units overlap at every pair of git calls, one process can
re-merge a merged unit, and a turn and the driver meet at every pair of their steps. Two drivers and two writers make every pair of writers, with a
third process dying between them; rows do not interact, so one is enough. In `unit_launch` units
that are launched and units that are prompted meet at a width of two, and edges of both kinds are
waited for. In
`review_loop` one finding is common to both controllers, so routing, minting and stripping meet; the
second round of one controller meets requests of the first; and the kill may come between any two
saves. With one replacement, routing stops in the few states where a second would be minted; the
theorems have any number. `RoutedIsInHand`, `ResubmittedIsRepaired` and `CleanCutsNothing` do not hold of every instance:
"What is proved" gives the hypotheses under which they hold for all values, and what happens without
each. So one kill leaves `ResubmittedIsRepaired` standing in this instance, and a second kill, or one
kill in an instance with more findings, does not.

`MaxCommits`, `MaxTurns`, `MaxAttempts`, `Rounds`, `Spares` and `MaxKills` bound counters the code does
not bound; they are constants of the modules, and the theorems hold for every value.

Deadlock is not checked: every process stops when its work is done, and a run ends when the
coordinator types nothing more.

**Fairness.** `FairPassSpec` has weak fairness of each invocation's own steps: every command and
every git call of the pass has a timeout, so a live process always goes on; and of the remote
deciding pushes it has received. Nothing obliges anyone to start, interrupt or kill a process, or an
operator to act, and the network may lose what it likes.

`FairRecordSpec` has weak fairness of the steps a process takes while it holds the record's lock
(a read, a replace, an unlock: no waiting in them) and strong fairness of getting the lock: it is
free again and again, and `flock` serves those who wait. Nothing obliges a process to ask for it, or
to stay alive: `Crash` has no fairness and may come at any step.

`UnitLaunch` and `ReviewLoop` state no fairness: commands are typed by a coordinator whom nothing
obliges, so nothing there must happen.

## What is proved

`EnvironmentLeaseProofs`, from `LeaseAssumption` only, for any set of invocations, any number of
attempts, any loss or delay:

- `TypeCorrect`, `ReturnedForGood`; and while `CarefulOperator`: `LeaseIsExclusive`,
  `NobodyTakesOver`, `LeaseImplementsEnvironment`.
- `ReturnedStaysReturned` is not inductive: the danger is a create that is still on its way. The
  strengthening `LeaseIInv` says that a delete on its way is for a lease its invocation stopped using
  (`DeletesAreOwn`), that once an attempt was accepted no create of the same object is on its way
  (`CreateIsOver`), and what an `ok` on its way means for the reference (`AcceptedCreates`,
  `AcceptedDeletes`). `CreatesAccounted` says of every create that may still take effect that its
  attempt went unanswered, or is the invocation's last and still stands. `HolderHolds` adds that an invocation which
  believes it holds the lease is named by the reference; this is what a careless operator breaks, and
  why the exclusive results assume a careful one.
- The refinement maps `grantee` to the holder of `ref` and `users` to the invocations that hold it.

`MergeTurnProofs`, from `MergeAssumption`, for any units, processes and bounds:

- `MergeTypeCorrect`, `NoCommitIsLost` (every branch only grows), `MergesAreKept`, `MergedRowsStay`.
- While the invocations pass `--parent-branch` (`ParentFlags \subseteq {TRUE}`; the driver always
  merges onto the parent branch): `IntegrationHolds` (`IntegrationIsReal`). `OnParent` adds to
  `MergeIInv` that every turn merges onto it and that it holds the work of every unit that a row on
  disk or in anybody's memory says was merged.
- `HolderIsKept` (`LiveHolderKept`): only a landing writes old memory into the row of a live holder,
  and a landing writes what its turn changed. A turn whose copy shows the row at anything but
  `merging` with a dead worktree changed nothing of it.
- `RecordedMergeIsKept` needs `MergeIInv`: each lane holds its own commit, the merged tip in a turn's
  memory holds the unit's commit and, once published, is in the destination branch (`TurnSound`), the
  same of the driver (`DriverSound`), and the rows that turns and the driver read and will write from
  are themselves sound (`RowsSound`), because a late landing, or a late save of the driver, writes
  from that memory.

`CombinedPassProofs`, from the theorems of the lease, for any invocations, revisions, modes and
attempts, with interrupts, crashes and an operator who may be careless:

- A pass only touches the lease through the lease's own steps (the lemma `PassFollowsLease`), so every
  theorem of `EnvironmentLeaseProofs` holds of `PassSpec` too.
- `PassTypeCorrect` ties the place of a pass to the place of the lease call it is in (`FollowsLease`).
- `GreenIsWhole`, `BrokenIsNeverGreen` need `HistoryIInv`, what the lease's history says of the
  present: an object id stands for one attempt, the operator breaks only leases that were taken
  (`TakenOnce`), and one that was reported returned was never broken (`ReturnedUnbroken`); and
  `CleanIsOver` with `EntriesAreTrue`: a pass that ends without an environment problem was not
  interrupted and settled its lease, and a green entry is that of such a pass.
- `WaitsDoSurface` (`WaitsSurface`), by no induction over the entries: a pass whose lease was refused
  ran nothing after it, so the refusal is all its entry holds (`Barred`), and an entry that ends a
  streak of such entries was landed by a process that said so (`ExitsAreTrue`), because it counted
  the entries that were landed before its own under the same lock.
- While `CarefulOperator`: `OneRunInEnvironment`, and `PassImplementsShared`, in which `users` are
  the passes between deploy and teardown.

`RunRecordProofs`, from `RecordAssumption`, for any units, writers and drivers:

- `RecordTypesHold`, `ReadStaysCurrent`, `UsageStays`, `LockedRecordIsAtomic`. The invariant is that
  whoever is between its read and its unlock is the one that holds the lock, and that the copy of
  whoever is about to write is the record. A crash keeps both, because the lock goes with its holder.

`UnitLaunchProofs`, from `LaunchAssumption`, for any units, edges and width:

- `LaunchTypesHold`, `NoSecondSession`, `SessionsBuildOnWork`, `EndsAreKept`, `WidthIsHeld`.
- `LaunchIInv`: while a command runs its copy is what is on disk, but for the rows it prompted, each of
  which has a session (`PromptsChange`); the units of a slice are pending and without a session unless
  they have a tab; the unit being launched is saved as running and has no session yet; a unit that was
  never launched has none. The width adds that while go is at work what is running and what is left of
  the slice together fit in it (`ClaimFits`): nothing is known of the width before, because prompts
  ask for no room, but a slice is only taken where there is some.

`ReviewLoopProofs`, from `LoopAssumption`, for any controllers, workers and findings, any number of
rounds and kills, recurring findings included:

- `LoopTypesHold`, and `RequestsAreKept` (`RequestsAreNotTaken`): nothing takes a request from a
  worker but its own merge and the next result of its own controller.
- `LoopIInv`: the run in memory and the run on disk carry the same requests and lifecycles at every
  step, because a command saves them in the step that changes them; that is why a kill or a failed
  prompt takes none. A unit that is not in the run carries nothing, so minting a replacement
  overwrites no request; one that is not launched has no session, prompt or commits; and one that
  `go` may launch was minted for a finding.

`ReviewRepairProofs`, from `LoopAssumption` and the hypotheses named, for any controllers, workers,
findings, rounds, replacements, staged composers and failing prompts. `Single` is the workers whose
paths overlap one finding at most, `Lone` those of them that share it with no other worker of their
lifecycle. The hypotheses say which runs the code keeps its promise in; the code itself checks none
of them, and TLC finds the counterexample quoted when one is dropped.

| Theorem | Hypotheses | Without them |
|---|---|---|
| `RoutedHolds` (`RoutedIsInHand`) | `Recurring = FALSE`; `Workers \subseteq Lone`. Any kills | a finding that blocks twice is not sent twice (`fix_never_sent`). A worker with two repairs, prompted for both, commits one and is idle between the two: it is settled done and merged, and both requests are cleared. When two workers share their one finding and the one that was sent it dies, the result is routed again and the request goes to the other, counted as sent: nobody is prompted |
| `ResubmittedHolds` (`ResubmittedIsRepaired`) | `Workers \subseteq Single`; `MaxKills = 0`. Recurring findings, any mortal session | a worker with two requests, settled and merged after the first, has both cleared. A command killed between the save of a new result and its routing leaves the pending flag of the last round |
| `CleanHolds` (`CleanCutsNothing`) | `Recurring = FALSE`; `Workers \subseteq Lone`. Any kills | a worker with two findings, prompted for both, is settled and merged for the first: that clears both requests, and clean closes it at work on the second. With findings that recur and three kills, a worker prompted twice for one repair is still at the second prompt when the finding blocks again. That a finding is one worker's alone is used because the model leaves open which of several workers a repair goes to, where the code takes the first row |

- `BaseIInv` needs no hypothesis (`BaseHolds`): a unit carries, is prompted for and commits only what
  is on its paths (`OnPaths`); clean never closes a worker that carries a request (`GoneCarries`); a
  replacement is minted only for what no live worker could take, and none comes back to life
  (`MintedAlone`); what is saved was written by the controller, and what was prompted or sent was in
  a result it wrote (`ResultsSeen`, `SentSeen`); memory and disk differ in statuses, what was sent,
  outcomes and flags only, and only while a command sends or resubmits (`Alike`); a request still to
  be sent is parked on its unit (`TodoOK`).
- `HandIInv` strengthens `RoutedIsInHand`. The property only speaks of results whose outcome is
  recorded; between the save of a result and that record, what is not still to be sent must be in
  hand already, unless something was withheld (`SendingOK`), in memory and on disk alike, because a
  kill makes the disk the run again. A request that `Skip` counts without a prompt must really be
  held (`SentIsHeld`), and that has to survive the session it was sent to: a lone worker that dies
  carries the request itself (`LoneCarries`), a replacement that dies leaves it to a replacement
  that carries it (`MintedCarries`). `Disjoint` is what "no finding blocks twice" means here: a new
  result shares nothing with what was sent before.
- `OwedIInv`, for the resubmission: a controller that is pending waits for repairs that units of its
  lifecycle carry (`PendingOwed`), but for the moment between the save of a result and its routing.
  A kill in that moment is what breaks it.
- `MadeIInv`, for clean: settle asks for commits only, so what keeps an idle unit from being closed in
  the middle of a repair is its request (a worker), or that it has no commits before it made the one
  repair it was minted for (a replacement).

TLC checked `LoopIInv`, `BaseIInv` and `HandIInv` on the instance of `review_loop`, and `OwedIInv` on
the same with no kill, before they were proved.

Only model-checked: liveness (`EveryPassEnds`, `LeaseComesBack`, `EveryUpdateEnds`), which is out of
the prover's reach. Every safety and action property of a passing run is stated by a theorem. No
module declares a RECURSIVE operator, and nothing is proved by induction over data.

## What the documents say and the code does not do

- **An interrupted pass may leave the lease held** (`interrupted_release`): `CombinedPassInterrupted`
  says teardown and release already ran, but an interrupt during the acquire or inside the `finally`
  block leaves first.
- **More than one worker merges at a time** (`one_turn`): `merge` takes the turn in memory only. What
  keeps branches right is `update-ref`'s expected value, which `merge_turns` and the proofs show.
- **The flag chooses the destination** (`mixed_destinations`): with `--parent-branch` on one turn and
  not on another, integration is complete and no branch holds every unit. `integration_problem`
  would refuse the pass that follows.
- **A killed turn blocks its unit's next one** (`dead_turn`): the left-over worktree has the path the
  next turn needs until the destination moves.
- **A finding that blocks twice is not sent twice** (`fix_never_sent`): `dispatched_fix_ids` is never
  cleared. When a finding blocks again in a later round, with the id it had before, its request is
  counted as dispatched without a prompt, and the outcome is recorded as if somebody were at work.
- Seen while modelling, without a run of their own: `land_merge_keys` skips an unchanged key before
  its owner exception, so re-merging a merged unit that `take` set to `merging` leaves it `merging`; it
  compares values, so a turn that released a dead holder writes `ready` over the driver's live turn
  when the driver has taken that row since (`merging` again), and the driver's next save puts it back;
  a driver that saves the run it loaded may take a merged row back to what it was, and the next merge
  then finds the unit already there. A create whose answer never came may land after its invocation
  released the lease it won with a later attempt, even after a green pass: the environment is then held
  in the name of a run that is over, no code withdraws it, and the next runs wait until the operator
  releases it. An acquire whose accepted push timed out is refused by its own reference; passes of one run land in
  the order of the file lock, so evidence may be older than what it follows (the work skill has one
  coordinator run them one at a time). A merge may resubmit a
  revision without the repairs of a result that was saved and never routed, because ingesting a
  result leaves `review_resubmit_pending` of the last round: with two kills in `review_loop`'s
  instance, with one where a first result is routed twice around a prompt that failed. Routing a
  result again after its repairs landed parks requests whose fix was dispatched before: no prompt is
  sent, nobody lands them, and they hold the resubmission. Routing one while a replacement for it
  has not been launched and its controller runs again mints a second replacement. A worker that carries
  two requests is settled done when it is idle after the first (`cmd_settle` asks for commits, not for
  which) or has the second withheld; merging it clears both, and clean closes it: with no kill, two
  findings of one worker break `RoutedIsInHand`, `ResubmittedIsRepaired` and `CleanCutsNothing`.
  Repairs and resubmissions put rows to running without `launch_room`, so a run may be past its width;
  a prompt whose command is killed before its save leaves a session at work that no count sees. A `merge` killed after `update-ref` and before
  its save leaves requests that no later merge clears.

## What is not modelled

- Of the orchestrate driver: park and resume, adopt, start and collect, the roster (open role panes
  share the width and are taken to be none), `check`, and `_migrate_run_global_review_state`, which
  serves records of an older layout. Of the build loop: unit iterations and the readers of the
  evidence. Of the run record: the writers of its other keys, each a locked change of one key.
- Two orchestrate commands at once: `UnitLaunch`, `ReviewLoop` and the driver of `MergeTurn` take one
  at a time, as the skill prescribes. `RunRecord` shows what survives when they overlap (every key the driver does not own)
  and what does not (`references/run-record.md` documents it as open).
- A composition of `MergeTurn` and `CombinedPass`, in which a merge moves the branch under the
  checkout of a pass: it needs a model of the working tree, and the pass's guards against it
  (`integration_problem`, the clean-checkout test) are reads of data.
- The redis channel shares no state with a run. Reading it: `Consumer` leaves a message
  unacknowledged when its callback fails and reads only new ones (`>`), although its docstring says
  such a message is delivered again.
- The release step, deploy handoff, outcome job, lifecycle log and board, review consensus and
  admission are sequences of commands whose steps are decided by data of external services; what
  they share is the run record, and they change it under its lock.
- fleet-core's circuit breaker and merge guard, the review tools, and the plugins that wrap external
  programs (voice, agent-launcher, mission-control, agy, codex, deploy, hermes-profile-evolution,
  unifi, home-lab-ops, house-style) are input and output or computations without shared state. What a
  launcher may leave behind is a choice `UnitLaunch` makes.
