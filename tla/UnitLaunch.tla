------------------------------ MODULE UnitLaunch ------------------------------
(***************************************************************************)
(* How orchestrate.py runs its units: go launches what is eligible, settle *)
(* marks what has stopped, wait blocks until something stops, expand adds  *)
(* units, and the review's commands send repairs and resubmissions to the  *)
(* sessions there are.  Every command loads the run, works on its copy,    *)
(* and saves the whole copy, in one locked step each time (RunRecord); go  *)
(* saves before and after each launch.                                     *)
(*                                                                         *)
(* The coordinator runs one command at a time, which may be interrupted or *)
(* killed, while the sessions work, stop and go away on their own.         *)
(***************************************************************************)
EXTENDS Naturals, FiniteSets

CONSTANTS
  NoUnit,      \* no unit
  Units,       \* the units, those that expand may add included
  Planned,     \* those the run starts with
  After,       \* the units each unit builds on
  Serialize,   \* the units each unit waits for without building on them
  Branchless,  \* the units without a branch of their own
  Width        \* the run's concurrency allocation

ASSUME LaunchAssumption ==
  /\ IsFiniteSet(Units)
  /\ NoUnit \notin Units
  /\ Planned \subseteq Units
  /\ After \in [Units -> SUBSET Units]
  /\ Serialize \in [Units -> SUBSET Units]
  /\ Branchless \subseteq Units
  /\ Width \in Nat \ {0}

VARIABLES
  disk,      \* the rows as saved: a status, and whether a tab is recorded
  mem,       \* the command's copy of them
  pc,        \* the step the command is at
  todo,      \* the slice of units go has still to take
  at,        \* the unit go is launching
  reading,   \* settle's first reading
  session,   \* what a poll says of each unit
  commits,   \* the units whose branch has commits of their own
  created    \* history: the sessions created for each unit

commandVars == <<mem, pc, todo, at, reading>>
worldVars == <<session, commits, created>>
launchVars == <<disk, commandVars, worldVars>>

Row(status) == [status |-> status, tab |-> FALSE]

LaunchInit ==
  /\ disk = [u \in Units |-> Row(IF u \in Planned THEN "pending" ELSE "absent")]
  /\ mem = disk
  /\ pc = "idle"
  /\ todo = {}
  /\ at = NoUnit
  /\ reading = [u \in Units |-> "gone"]
  /\ session = [u \in Units |-> "gone"]
  /\ commits = {}
  /\ created = [u \in Units |-> 0]

WithStatus(rows, status) == {u \in Units : rows[u].status = status}

\* The command ends; its copy no longer matters and is taken to be what is on disk.
Finish(rows) ==
  /\ pc' = "idle"
  /\ mem' = rows
  /\ todo' = {}
  /\ at' = NoUnit
  /\ reading' = [u \in Units |-> "gone"]

-----------------------------------------------------------------------------
(***************************************************************************)
(* go                                                                      *)
(***************************************************************************)

\* Run.eligible: pending, and every ordering edge is done.
Eligible(rows) ==
  {u \in WithStatus(rows, "pending") : After[u] \cup Serialize[u] \subseteq WithStatus(rows, "done")}

\* Mutant of Room: one too many.
RoomForOneMore(rows) ==
  IF Cardinality(WithStatus(rows, "running")) <= Width
    THEN Width + 1 - Cardinality(WithStatus(rows, "running")) ELSE 0

\* launch_room
Room(rows) ==
  IF Cardinality(WithStatus(rows, "running")) < Width
    THEN Width - Cardinality(WithStatus(rows, "running")) ELSE 0

\* go loads the run and takes a slice of what is eligible, as wide as the room and its limit.
Go ==
  /\ pc = "idle"
  /\ \E slice \in SUBSET Eligible(disk) :
       /\ slice # {}
       /\ Cardinality(slice) <= Room(disk)
       /\ todo' = slice
  /\ mem' = disk
  /\ pc' = "slicing"
  /\ UNCHANGED <<disk, at, reading, worldVars>>

\* A unit that has a tab, or builds on a unit that committed nothing, is passed over; so is one
\* whose worktree cannot be made, with a save.
PassOver(u) ==
  /\ pc = "slicing" /\ u \in todo
  /\ todo' = todo \ {u}
  /\ \/ (mem[u].tab \/ ~(After[u] \subseteq commits \ Branchless)) /\ UNCHANGED disk
     \/ ~mem[u].tab /\ disk' = mem
  /\ UNCHANGED <<mem, pc, at, reading, worldVars>>

\* Mutant of Persist: the row is left to the save after the launch.
PersistLater(u) ==
  /\ pc = "slicing" /\ u \in todo
  /\ ~mem[u].tab /\ After[u] \subseteq commits \ Branchless
  /\ mem' = [mem EXCEPT ![u].status = "running"]
  /\ todo' = todo \ {u}
  /\ pc' = "launching"
  /\ at' = u
  /\ UNCHANGED <<disk, reading, worldVars>>

\* Mutant of Persist: a dependency that committed nothing does not stop the launch.
PersistAnyway(u) ==
  /\ pc = "slicing" /\ u \in todo
  /\ ~mem[u].tab
  /\ mem' = [mem EXCEPT ![u].status = "running"]
  /\ disk' = mem'
  /\ todo' = todo \ {u}
  /\ pc' = "launching"
  /\ at' = u
  /\ UNCHANGED <<reading, worldVars>>

\* The row goes to running and is saved before the launcher is called.
Persist(u) ==
  /\ pc = "slicing" /\ u \in todo
  /\ ~mem[u].tab /\ After[u] \subseteq commits \ Branchless
  /\ mem' = [mem EXCEPT ![u].status = "running"]
  /\ disk' = mem'
  /\ todo' = todo \ {u}
  /\ pc' = "launching"
  /\ at' = u
  /\ UNCHANGED <<reading, worldVars>>

\* The launcher creates the session, or fails to.
Create(u, made) ==
  /\ created' = [created EXCEPT ![u] = IF made THEN @ + 1 ELSE @]
  /\ session' = [session EXCEPT ![u] = IF made THEN "working" ELSE @]
  /\ UNCHANGED commits

\* The launch returns, and its outcome and the session's identity are saved: the task was
\* delivered; the composer held staged input; or the launch failed (an account mismatch and a
\* prompt that was not taken included), with or without a session and an identity.
Launched ==
  /\ pc = "launching"
  /\ \E made, tab \in BOOLEAN, status \in {"running", "pending", "failed"} :
       /\ tab => made
       /\ status # "failed" => tab
       /\ Create(at, made)
       /\ mem' = [mem EXCEPT ![at] = [status |-> status, tab |-> tab]]
  /\ disk' = mem'
  /\ pc' = "slicing"
  /\ at' = NoUnit
  /\ UNCHANGED <<todo, reading>>

\* A keyboard interrupt during the launch: what is known of the session is saved, and go ends.
Interrupted ==
  /\ pc = "launching"
  /\ \E made, tab \in BOOLEAN :
       /\ tab => made
       /\ Create(at, made)
       /\ disk' = [mem EXCEPT ![at].tab = tab]
  /\ Finish(disk')

EndGo ==
  /\ pc = "slicing"
  /\ todo = {}
  /\ Finish(disk)
  /\ UNCHANGED <<disk, worldVars>>

-----------------------------------------------------------------------------
(***************************************************************************)
(* settle                                                                  *)
(***************************************************************************)

SettleFirst ==
  /\ pc = "idle"
  /\ WithStatus(disk, "running") # {}
  /\ mem' = disk
  /\ reading' = [u \in Units |-> IF disk[u].status = "running" THEN session[u] ELSE "gone"]
  /\ pc' = "settling"
  /\ UNCHANGED <<disk, todo, at, worldVars>>

\* A session that is idle at both readings is done when its branch has commits, or when it has no
\* branch; one that is gone at both is done with commits and orphaned without.
Settled(u, first) ==
  IF first = "idle" /\ session[u] = "idle" /\ u \in commits \cup Branchless THEN "done"
  ELSE IF first = "gone" /\ session[u] = "gone"
    THEN (IF u \in commits \ Branchless THEN "done" ELSE "orphaned")
  ELSE "running"

\* Mutant of SettleSecond: any idle session is done, commits or not.
SettleIdle ==
  /\ pc = "settling"
  /\ disk' = [u \in Units |->
       IF mem[u].status = "running"
         THEN [mem[u] EXCEPT !.status =
                 IF reading[u] = session[u] /\ session[u] = "idle" THEN "done"
                 ELSE Settled(u, reading[u])]
         ELSE mem[u]]
  /\ Finish(disk')
  /\ UNCHANGED worldVars

\* Mutant of SettleSecond: every unit is settled, not only those that run.
SettleAll ==
  /\ pc = "settling"
  /\ disk' = [u \in Units |->
       IF mem[u].status \in {"absent", "pending"} THEN mem[u]
       ELSE [mem[u] EXCEPT !.status = Settled(u, reading[u])]]
  /\ Finish(disk')
  /\ UNCHANGED worldVars

SettleSecond ==
  /\ pc = "settling"
  /\ disk' = [u \in Units |->
       IF mem[u].status = "running"
         THEN [mem[u] EXCEPT !.status = Settled(u, reading[u])]
         ELSE mem[u]]
  /\ Finish(disk')
  /\ UNCHANGED worldVars

-----------------------------------------------------------------------------
(***************************************************************************)
(* wait and expand                                                         *)
(***************************************************************************)

\* wait loads the run, blocks while units run, notes what it saw and saves.
WaitStarts ==
  /\ pc = "idle"
  /\ WithStatus(disk, "running") # {}
  /\ mem' = disk
  /\ pc' = "waiting"
  /\ UNCHANGED <<disk, todo, at, reading, worldVars>>

WaitEnds ==
  /\ pc = "waiting"
  /\ disk' = mem
  /\ Finish(disk')
  /\ UNCHANGED worldVars

\* expand adds a unit whose edges are in the run; review-result adds its replacements so.
Expand(u) ==
  /\ pc = "idle"
  /\ disk[u].status = "absent"
  /\ \A d \in After[u] \cup Serialize[u] : disk[d].status # "absent"
  /\ disk' = [disk EXCEPT ![u] = Row("pending")]
  /\ Finish(disk')
  /\ UNCHANGED worldVars

(***************************************************************************)
(* The prompts of review-result and of merge's resubmission.               *)
(***************************************************************************)

\* dispatch_review_routing and _resubmit_one: a prompt to a session there is puts its row to
\* running, whatever it was and whatever the width.  A repair goes to no unit that is retired; a
\* resubmission goes to its controller, which has no branch.
Prompt(u) ==
  /\ pc \in {"idle", "prompting"}
  /\ session[u] # "gone"
  /\ mem[u].status \notin {"failed", "orphaned"} \/ u \in Branchless
  /\ session' = [session EXCEPT ![u] = "working"]
  /\ mem' = [mem EXCEPT ![u].status = "running"]
  /\ pc' = "prompting"
  /\ UNCHANGED <<disk, todo, at, reading, commits, created>>

\* The command saves what was sent, when it was all sent and when a prompt failed.
EndPrompts ==
  /\ pc = "prompting"
  /\ disk' = mem
  /\ Finish(disk')
  /\ UNCHANGED worldVars

-----------------------------------------------------------------------------
\* The command is killed; a launcher that was at work may have created the session.
Killed ==
  /\ pc # "idle"
  /\ Finish(disk)
  /\ UNCHANGED disk
  /\ IF pc = "launching" THEN \E made \in BOOLEAN : Create(at, made)
                            ELSE UNCHANGED worldVars

-----------------------------------------------------------------------------
(***************************************************************************)
(* The sessions: they commit while they work, pause, go on, and go away.   *)
(***************************************************************************)

Commits(u) ==
  /\ session[u] = "working"
  /\ commits' = commits \cup {u}
  /\ UNCHANGED <<disk, commandVars, session, created>>

Turns(u, state) ==
  /\ session[u] # "gone"
  /\ session' = [session EXCEPT ![u] = state]
  /\ UNCHANGED <<disk, commandVars, commits, created>>

Command ==
  \/ Go \/ Launched \/ Interrupted \/ EndGo
  \/ SettleFirst \/ SettleSecond \/ WaitStarts \/ WaitEnds \/ EndPrompts \/ Killed
  \/ \E u \in Units : PassOver(u) \/ Persist(u) \/ Expand(u) \/ Prompt(u)

LaunchNext ==
  \/ Command
  \/ \E u \in Units : Commits(u) \/ Turns(u, "working") \/ Turns(u, "idle") \/ Turns(u, "gone")

LaunchSpec == LaunchInit /\ [][LaunchNext]_launchVars

-----------------------------------------------------------------------------
(***************************************************************************)
(* Properties.                                                             *)
(***************************************************************************)

Statuses == {"absent", "pending", "running", "done", "failed", "orphaned"}
Rows == [Units -> [status : Statuses, tab : BOOLEAN]]

\* The types, and that a unit whose work is done has shown it, unless it has no branch to show.
LaunchTypeOK ==
  /\ disk \in Rows /\ mem \in Rows
  /\ pc \in {"idle", "slicing", "launching", "settling", "waiting", "prompting"}
  /\ todo \in SUBSET Units
  /\ at \in Units \cup {NoUnit}
  /\ session \in [Units -> {"gone", "idle", "working"}]
  /\ commits \in SUBSET Units
  /\ created \in [Units -> Nat]
  /\ WithStatus(disk, "done") \subseteq commits \cup Branchless

\* "an interrupted launch is never relaunched blind": whatever is killed, interrupted or refused,
\* and however often go is run again, no unit gets a second session.
LaunchedOnce == \A u \in Units : created[u] <= 1

\* A session is only ever opened on the work of its dependencies: each of them has committed.
BuildsOnWork ==
  \A u \in Units : created[u] > 0 => After[u] \subseteq commits \ Branchless

\* While go launches a unit, the rows in status running are within the run's width.  Prompts take
\* the run past its width, since they ask for no room; go then starts nothing on top of them.
WidthHeld == pc = "launching" => Cardinality(WithStatus(disk, "running")) <= Width

\* What a unit ended as is not undone by go, settle, wait or expand.  An ended unit is never pending
\* again; it runs again only when a prompt was sent to the one session it has, and one that failed
\* or was orphaned only if it has no branch (a controller that takes a resubmission).
EndedStays ==
  [][\A u \in Units :
       /\ disk[u].status \in {"done", "failed", "orphaned"}
       /\ disk'[u].status # disk[u].status
       => /\ pc = "prompting" /\ disk'[u].status = "running"
          /\ created[u] = 1
          /\ disk[u].status = "done" \/ u \in Branchless
    ]_launchVars
=============================================================================
