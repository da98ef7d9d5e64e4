-------------------------- MODULE UnitLaunchProofs --------------------------
(***************************************************************************)
(* Proofs about UnitLaunch for any plan, any width and any number of       *)
(* commands, interrupts and kills.                                         *)
(***************************************************************************)
EXTENDS UnitLaunch, FiniteSetTheorems, TLAPS

\* The types, but for the claim about done units.
Types ==
  /\ disk \in Rows /\ mem \in Rows
  /\ pc \in {"idle", "slicing", "launching", "settling", "waiting", "prompting"}
  /\ todo \in SUBSET Units
  /\ at \in Units \cup {NoUnit}
  /\ reading \in [Units -> {"gone", "idle", "working"}]
  /\ session \in [Units -> {"gone", "idle", "working"}]
  /\ commits \in SUBSET Units
  /\ created \in [Units -> Nat]

DoneHasShown == WithStatus(disk, "done") \subseteq commits \cup Branchless

\* A command's copy is what is saved, except while prompts are sent: every other change of it is
\* saved in the step that makes it.
CopyIsSaved == pc # "prompting" => mem = disk

\* A session there is was created.
SessionIsCreated == \A u \in Units : session[u] # "gone" => created[u] > 0

\* A row the copy has changed is that of a unit a prompt was sent to.
Prompted(u) ==
  /\ mem[u] = [disk[u] EXCEPT !.status = "running"]
  /\ created[u] = 1
  /\ disk[u].status \notin {"failed", "orphaned"} \/ u \in Branchless

PromptsChange == pc = "prompting" => \A u \in Units : mem[u] = disk[u] \/ Prompted(u)

\* A unit that may have a session is not waiting to be launched, unless its row has a tab.
CreatedIsRecorded ==
  \A u \in Units :
    created[u] > 0 => \/ disk[u].status \in {"running", "done", "failed", "orphaned"}
                      \/ disk[u].status = "pending" /\ disk[u].tab

\* The units go has still to take are pending, and the unit it is launching has no session yet.
SliceIsPending ==
  pc = "slicing" => \A u \in todo : disk[u].status = "pending"

LaunchingIsFresh ==
  pc = "launching" =>
    /\ at \in Units
    /\ created[at] = 0
    /\ disk[at] = [status |-> "running", tab |-> FALSE]
    /\ After[at] \subseteq commits \ Branchless
    /\ \A u \in todo : u # at /\ disk[u].status = "pending"

LaunchIInv ==
  /\ Types
  /\ DoneHasShown
  /\ CopyIsSaved
  /\ SessionIsCreated
  /\ PromptsChange
  /\ CreatedIsRecorded
  /\ SliceIsPending
  /\ LaunchingIsFresh
  /\ LaunchedOnce
  /\ BuildsOnWork

-----------------------------------------------------------------------------
(***************************************************************************)
(* The initial state.                                                      *)
(***************************************************************************)
LEMMA InitHolds ==
  ASSUME LaunchInit
  PROVE  LaunchIInv
<1> USE LaunchAssumption DEF LaunchInit, Row
<1>1. Types
  BY DEF Types, Rows, Statuses
<1>2. DoneHasShown
  BY DEF DoneHasShown, WithStatus
<1>3. QED
  BY <1>1, <1>2 DEF LaunchIInv, CopyIsSaved, SessionIsCreated, PromptsChange, CreatedIsRecorded,
                    SliceIsPending, LaunchingIsFresh, LaunchedOnce, BuildsOnWork

-----------------------------------------------------------------------------
(***************************************************************************)
(* go                                                                      *)
(***************************************************************************)
LEMMA GoStep ==
  ASSUME LaunchIInv, Go
  PROVE  LaunchIInv'
<1> USE DEF Go, LaunchIInv
<1>1. PICK slice \in SUBSET Eligible(disk) : todo' = slice
  OBVIOUS
<1>2. \A u \in todo' : u \in Units /\ disk[u].status = "pending"
  BY <1>1 DEF Eligible, WithStatus
<1>3. UNCHANGED <<disk, at, reading, session, commits, created>> /\ mem' = disk /\ pc' = "slicing"
  BY DEF worldVars
<1>4. Types'
  BY <1>2, <1>3 DEF Types
<1>5. DoneHasShown'
  BY <1>3 DEF DoneHasShown, WithStatus
<1>6. QED
  BY <1>2, <1>3, <1>4, <1>5 DEF CopyIsSaved, SessionIsCreated, PromptsChange, CreatedIsRecorded, SliceIsPending,
                                LaunchingIsFresh, LaunchedOnce, BuildsOnWork

LEMMA PassOverStep ==
  ASSUME LaunchIInv, NEW u \in Units, PassOver(u)
  PROVE  LaunchIInv'
<1> USE DEF LaunchIInv
<1>1. /\ pc = "slicing" /\ todo' = todo \ {u}
      /\ UNCHANGED <<disk, mem, pc, at, reading, session, commits, created>>
  BY DEF PassOver, worldVars, CopyIsSaved
<1>2. Types'
  BY <1>1 DEF Types
<1>3. DoneHasShown'
  BY <1>1 DEF DoneHasShown, WithStatus
<1>4. QED
  BY <1>1, <1>2, <1>3 DEF CopyIsSaved, SessionIsCreated, PromptsChange, CreatedIsRecorded,
                          SliceIsPending, LaunchingIsFresh, LaunchedOnce, BuildsOnWork

LEMMA PersistStep ==
  ASSUME LaunchIInv, NEW u \in Units, Persist(u)
  PROVE  LaunchIInv'
<1> USE DEF LaunchIInv
<1>1. /\ pc = "slicing" /\ u \in todo
      /\ ~disk[u].tab /\ After[u] \subseteq commits \ Branchless
      /\ disk' = [disk EXCEPT ![u].status = "running"]
      /\ mem' = disk'
      /\ todo' = todo \ {u}
      /\ pc' = "launching" /\ at' = u
      /\ UNCHANGED <<reading, session, commits, created>>
  BY DEF Persist, worldVars, CopyIsSaved
<1>2. disk[u].status = "pending"
  BY <1>1 DEF SliceIsPending
<1>3. disk'[u] = [status |-> "running", tab |-> FALSE]
  <2>1. disk \in Rows /\ disk[u].tab = FALSE
    BY <1>1 DEF Types, Rows
  <2>2. QED
    BY <1>1, <2>1 DEF Rows
<1>4. \A v \in Units : v # u => disk'[v] = disk[v]
  BY <1>1 DEF Types, Rows
<1>5. created[u] = 0
  BY <1>1, <1>2 DEF CreatedIsRecorded, Types
<1>6. disk' \in Rows
  BY <1>1 DEF Types, Rows, Statuses
<1>7. Types'
  BY <1>1, <1>6 DEF Types
<1>8. DoneHasShown'
  BY <1>1, <1>3, <1>4 DEF DoneHasShown, WithStatus
<1>9. CreatedIsRecorded'
  BY <1>1, <1>3, <1>4 DEF CreatedIsRecorded
<1>10. LaunchingIsFresh'
  <2>1. \A v \in todo' : v # u /\ disk'[v].status = "pending"
    BY <1>1, <1>4 DEF SliceIsPending, Types
  <2>2. QED
    BY <1>1, <1>3, <1>5, <2>1 DEF LaunchingIsFresh
<1>11. /\ CopyIsSaved' /\ SessionIsCreated' /\ PromptsChange'
       /\ SliceIsPending' /\ LaunchedOnce' /\ BuildsOnWork'
  BY <1>1 DEF CopyIsSaved, SessionIsCreated, PromptsChange, SliceIsPending, LaunchedOnce,
              BuildsOnWork
<1>12. QED
  BY <1>7, <1>8, <1>9, <1>10, <1>11

\* What a launcher's work leaves of the history.
LEMMA CreateOnce ==
  ASSUME Types, LaunchedOnce, BuildsOnWork, LaunchingIsFresh, SessionIsCreated,
         pc = "launching",
         NEW made \in BOOLEAN, Create(at, made)
  PROVE  /\ created' \in [Units -> Nat]
         /\ session' \in [Units -> {"gone", "idle", "working"}]
         /\ commits' = commits
         /\ \A u \in Units : u # at => created'[u] = created[u]
         /\ created'[at] = IF made THEN 1 ELSE 0
         /\ LaunchedOnce'
         /\ BuildsOnWork'
         /\ SessionIsCreated'
<1>1. at \in Units /\ created[at] = 0 /\ After[at] \subseteq commits \ Branchless
  BY DEF LaunchingIsFresh
<1>2. /\ created' = [created EXCEPT ![at] = IF made THEN 1 ELSE 0]
      /\ session' = [session EXCEPT ![at] = IF made THEN "working" ELSE @]
      /\ commits' = commits
  BY <1>1 DEF Create, Types
<1>3. /\ \A u \in Units : u # at => created'[u] = created[u]
      /\ created'[at] = IF made THEN 1 ELSE 0
  BY <1>1, <1>2 DEF Types
<1>4. LaunchedOnce'
  BY <1>3 DEF LaunchedOnce
<1>5. BuildsOnWork'
  BY <1>1, <1>2, <1>3 DEF BuildsOnWork
<1>6. SessionIsCreated'
  BY <1>1, <1>2, <1>3 DEF SessionIsCreated, Types
<1>7. QED
  BY <1>1, <1>2, <1>3, <1>4, <1>5, <1>6 DEF Types

LEMMA LaunchedStep ==
  ASSUME LaunchIInv, Launched
  PROVE  LaunchIInv'
<1> USE DEF LaunchIInv
<1>1. PICK made \in BOOLEAN, tab \in BOOLEAN, status \in {"running", "pending", "failed"} :
        /\ tab => made
        /\ status # "failed" => tab
        /\ Create(at, made)
        /\ mem' = [mem EXCEPT ![at] = [status |-> status, tab |-> tab]]
  BY DEF Launched
<1>2. /\ pc = "launching" /\ pc' = "slicing"
      /\ disk' = mem' /\ at' = NoUnit
      /\ UNCHANGED <<todo, reading>>
  BY DEF Launched
<1>3. /\ created' \in [Units -> Nat]
      /\ session' \in [Units -> {"gone", "idle", "working"}]
      /\ commits' = commits
      /\ \A u \in Units : u # at => created'[u] = created[u]
      /\ LaunchedOnce'
      /\ BuildsOnWork'
      /\ SessionIsCreated'
  BY <1>1, <1>2, CreateOnce
<1>4. at \in Units /\ \A u \in todo : u # at /\ disk[u].status = "pending"
  BY <1>2 DEF LaunchingIsFresh
<1>5. /\ disk'[at] = [status |-> status, tab |-> tab]
      /\ \A u \in Units : u # at => disk'[u] = disk[u]
      /\ disk' \in Rows
  BY <1>1, <1>2, <1>4 DEF CopyIsSaved, Types, Rows, Statuses
<1>6. Types'
  BY <1>2, <1>3, <1>5 DEF Types
<1>7. DoneHasShown'
  BY <1>3, <1>5 DEF DoneHasShown, WithStatus
<1>8. CreatedIsRecorded'
  BY <1>1, <1>3, <1>5 DEF CreatedIsRecorded
<1>9. SliceIsPending' /\ LaunchingIsFresh' /\ CopyIsSaved' /\ PromptsChange'
  BY <1>2, <1>4, <1>5 DEF SliceIsPending, LaunchingIsFresh, CopyIsSaved, PromptsChange, Types
<1>10. QED
  BY <1>3, <1>6, <1>7, <1>8, <1>9

LEMMA InterruptedStep ==
  ASSUME LaunchIInv, Interrupted
  PROVE  LaunchIInv'
<1> USE DEF LaunchIInv
<1>1. PICK made \in BOOLEAN, tab \in BOOLEAN :
        /\ tab => made
        /\ Create(at, made)
        /\ disk' = [mem EXCEPT ![at].tab = tab]
  BY DEF Interrupted
<1>2. /\ pc = "launching" /\ pc' = "idle"
      /\ mem' = disk' /\ at' = NoUnit /\ todo' = {}
      /\ reading' = [u \in Units |-> "gone"]
  BY DEF Interrupted, Finish
<1>3. /\ created' \in [Units -> Nat]
      /\ session' \in [Units -> {"gone", "idle", "working"}]
      /\ commits' = commits
      /\ \A u \in Units : u # at => created'[u] = created[u]
      /\ LaunchedOnce'
      /\ BuildsOnWork'
      /\ SessionIsCreated'
  BY <1>1, <1>2, CreateOnce
<1>4. at \in Units /\ disk[at].status = "running"
  BY <1>2 DEF LaunchingIsFresh
<1>5. /\ disk'[at].status = "running"
      /\ \A u \in Units : u # at => disk'[u] = disk[u]
      /\ disk' \in Rows
  BY <1>1, <1>2, <1>4 DEF CopyIsSaved, Types, Rows
<1>6. Types'
  BY <1>2, <1>3, <1>5 DEF Types
<1>7. DoneHasShown' /\ CreatedIsRecorded'
  BY <1>3, <1>5 DEF DoneHasShown, WithStatus, CreatedIsRecorded
<1>8. SliceIsPending' /\ LaunchingIsFresh' /\ CopyIsSaved' /\ PromptsChange'
  BY <1>2 DEF SliceIsPending, LaunchingIsFresh, CopyIsSaved, PromptsChange
<1>9. QED
  BY <1>3, <1>6, <1>7, <1>8

-----------------------------------------------------------------------------
(***************************************************************************)
(* The commands that end without a launch, and the sessions.               *)
(***************************************************************************)

\* A command that ends with what it started from, or only reads.
LEMMA QuietStep ==
  ASSUME LaunchIInv, UNCHANGED <<disk, session, commits, created>>, mem' = disk,
         pc' \in {"idle", "settling", "waiting"}, todo' \in SUBSET Units,
         at' \in Units \cup {NoUnit}, reading' \in [Units -> {"gone", "idle", "working"}]
  PROVE  LaunchIInv'
<1>1. Types'
  BY DEF LaunchIInv, Types
<1>2. DoneHasShown'
  BY DEF LaunchIInv, DoneHasShown, WithStatus
<1>3. QED
  BY <1>1, <1>2 DEF LaunchIInv, CopyIsSaved, SessionIsCreated, PromptsChange, CreatedIsRecorded,
                    SliceIsPending, LaunchingIsFresh, LaunchedOnce, BuildsOnWork

LEMMA ReadingStep ==
  ASSUME LaunchIInv, SettleFirst \/ WaitStarts \/ WaitEnds \/ EndGo
  PROVE  LaunchIInv'
<1>1. /\ UNCHANGED <<disk, session, commits, created>> /\ mem' = disk
      /\ pc' \in {"idle", "settling", "waiting"}
      /\ todo' = todo \/ todo' = {}
      /\ at' = at \/ at' = NoUnit
      /\ \/ reading' = reading
         \/ reading' = [u \in Units |-> IF disk[u].status = "running" THEN session[u] ELSE "gone"]
         \/ reading' = [u \in Units |-> "gone"]
  BY DEF SettleFirst, WaitStarts, WaitEnds, EndGo, Finish, worldVars, LaunchIInv, CopyIsSaved
<1>2. /\ todo' \in SUBSET Units /\ at' \in Units \cup {NoUnit}
      /\ reading' \in [Units -> {"gone", "idle", "working"}]
  BY <1>1 DEF LaunchIInv, Types
<1>3. QED
  BY <1>1, <1>2, QuietStep

LEMMA KilledStep ==
  ASSUME LaunchIInv, Killed
  PROVE  LaunchIInv'
<1> USE DEF LaunchIInv
<1>1. /\ pc' = "idle" /\ disk' = disk /\ mem' = disk /\ todo' = {} /\ at' = NoUnit
      /\ reading' = [u \in Units |-> "gone"]
  BY DEF Killed, Finish
<1>2. CASE pc # "launching"
  <2>1. UNCHANGED <<session, commits, created>>
    BY <1>2 DEF Killed, worldVars
  <2>2. QED
    BY <1>1, <2>1, QuietStep
<1>3. CASE pc = "launching"
  <2>1. PICK made \in BOOLEAN : Create(at, made)
    BY <1>3 DEF Killed
  <2>2. /\ created' \in [Units -> Nat]
        /\ session' \in [Units -> {"gone", "idle", "working"}]
        /\ commits' = commits
        /\ \A u \in Units : u # at => created'[u] = created[u]
        /\ LaunchedOnce'
        /\ BuildsOnWork'
        /\ SessionIsCreated'
    BY <1>3, <2>1, CreateOnce
  <2>3. disk[at].status = "running"
    BY <1>3 DEF LaunchingIsFresh
  <2>4. Types' /\ CreatedIsRecorded' /\ DoneHasShown'
    BY <1>1, <2>2, <2>3 DEF Types, CreatedIsRecorded, DoneHasShown, WithStatus
  <2>5. SliceIsPending' /\ LaunchingIsFresh' /\ CopyIsSaved' /\ PromptsChange'
    BY <1>1 DEF SliceIsPending, LaunchingIsFresh, CopyIsSaved, PromptsChange
  <2>6. QED
    BY <2>2, <2>4, <2>5
<1>4. QED
  BY <1>2, <1>3

\* settle ends only units that run, and ends a unit with nothing to show as orphaned.
LEMMA SettleRows ==
  ASSUME LaunchIInv, SettleSecond
  PROVE  /\ disk' \in Rows
         /\ mem' = disk'
         /\ \A u \in Units : disk[u].status # "running" => disk'[u] = disk[u]
         /\ \A u \in Units : disk[u].status = "running" =>
              /\ disk'[u].status \in {"running", "done", "orphaned"}
              /\ disk'[u].status = "done" => u \in commits \cup Branchless
<1> USE DEF LaunchIInv
<1>1. disk' = [u \in Units |-> IF disk[u].status = "running"
                 THEN [disk[u] EXCEPT !.status = Settled(u, reading[u])] ELSE disk[u]]
  BY DEF SettleSecond, CopyIsSaved
<1>2. \A u \in Units : /\ Settled(u, reading[u]) \in {"running", "done", "orphaned"}
                       /\ Settled(u, reading[u]) = "done" => u \in commits \cup Branchless
  BY DEF Settled
<1>3. \A u \in Units : disk[u] \in [status : Statuses, tab : BOOLEAN]
  BY DEF Types, Rows
<1>4. \A u \in Units : disk'[u] \in [status : Statuses, tab : BOOLEAN]
  BY <1>1, <1>2, <1>3 DEF Statuses
<1>5. QED
  BY <1>1, <1>2, <1>3, <1>4 DEF SettleSecond, Finish, Rows

LEMMA SettleStep ==
  ASSUME LaunchIInv, SettleSecond
  PROVE  LaunchIInv'
<1> USE DEF LaunchIInv
<1>1. /\ pc' = "idle" /\ mem' = disk' /\ todo' = {} /\ at' = NoUnit
      /\ reading' = [u \in Units |-> "gone"]
      /\ UNCHANGED <<session, commits, created>>
  BY DEF SettleSecond, Finish, worldVars
<1>2. Types'
  BY <1>1, SettleRows DEF Types
<1>3. DoneHasShown'
  BY <1>1, SettleRows DEF DoneHasShown, WithStatus
<1>4. CreatedIsRecorded'
  BY <1>1, SettleRows DEF CreatedIsRecorded
<1>5. QED
  BY <1>1, <1>2, <1>3, <1>4 DEF CopyIsSaved, SessionIsCreated, PromptsChange, SliceIsPending,
                                LaunchingIsFresh, LaunchedOnce, BuildsOnWork

LEMMA ExpandStep ==
  ASSUME LaunchIInv, NEW u \in Units, Expand(u)
  PROVE  LaunchIInv'
<1> USE DEF LaunchIInv
<1>1. /\ disk[u].status = "absent"
      /\ disk' = [disk EXCEPT ![u] = Row("pending")]
      /\ pc' = "idle" /\ mem' = disk' /\ todo' = {} /\ at' = NoUnit
      /\ reading' = [v \in Units |-> "gone"]
      /\ UNCHANGED <<session, commits, created>>
  BY DEF Expand, Finish, worldVars
<1>2. /\ disk' \in Rows
      /\ disk'[u].status = "pending"
      /\ \A v \in Units : v # u => disk'[v] = disk[v]
  BY <1>1 DEF Types, Rows, Row, Statuses
<1>3. created[u] = 0
  BY <1>1 DEF CreatedIsRecorded, Types
<1>4. Types' /\ DoneHasShown' /\ CreatedIsRecorded'
  BY <1>1, <1>2, <1>3 DEF Types, DoneHasShown, WithStatus, CreatedIsRecorded
<1>5. QED
  BY <1>1, <1>4 DEF CopyIsSaved, SessionIsCreated, PromptsChange, SliceIsPending,
                    LaunchingIsFresh, LaunchedOnce, BuildsOnWork

LEMMA PromptStep ==
  ASSUME LaunchIInv, NEW u \in Units, Prompt(u)
  PROVE  LaunchIInv'
<1> USE DEF LaunchIInv
<1>1. /\ pc \in {"idle", "prompting"} /\ pc' = "prompting"
      /\ session[u] # "gone"
      /\ session' = [session EXCEPT ![u] = "working"]
      /\ mem' = [mem EXCEPT ![u].status = "running"]
      /\ UNCHANGED <<disk, todo, at, reading, commits, created>>
  BY DEF Prompt
<1>2. created[u] = 1
  BY <1>1 DEF SessionIsCreated, LaunchedOnce, Types
<1>3. /\ mem'[u] = [mem[u] EXCEPT !.status = "running"]
      /\ \A v \in Units : v # u => mem'[v] = mem[v]
      /\ mem' \in Rows
  BY <1>1 DEF Types, Rows, Statuses
<1>4. Types' /\ SessionIsCreated'
  BY <1>1, <1>2, <1>3 DEF Types, SessionIsCreated
<1>5. mem[u] = disk[u] \/ Prompted(u)
  BY <1>1 DEF CopyIsSaved, PromptsChange
<1>6. Prompted(u)'
  <2>1. disk[u].status \notin {"failed", "orphaned"} \/ u \in Branchless
    BY <1>5 DEF Prompt, Prompted
  <2>2. [mem[u] EXCEPT !.status = "running"] = [disk[u] EXCEPT !.status = "running"]
    BY <1>5 DEF Prompted, Types, Rows
  <2>3. QED
    BY <1>1, <1>2, <1>3, <2>1, <2>2 DEF Prompted
<1>7. PromptsChange'
  <2>1. ASSUME NEW v \in Units, v # u
        PROVE  mem'[v] = disk'[v] \/ Prompted(v)'
    BY <1>1, <1>3, <2>1 DEF CopyIsSaved, PromptsChange, Prompted
  <2>2. QED
    BY <1>6, <2>1 DEF PromptsChange
<1>8. DoneHasShown' /\ CreatedIsRecorded'
  BY <1>1 DEF DoneHasShown, WithStatus, CreatedIsRecorded
<1>9. QED
  BY <1>1, <1>4, <1>7, <1>8 DEF CopyIsSaved, SliceIsPending, LaunchingIsFresh, LaunchedOnce,
                                BuildsOnWork

\* What the save after the prompts changes.
LEMMA PromptedRows ==
  ASSUME LaunchIInv, EndPrompts
  PROVE  /\ disk' \in Rows
         /\ \A u \in Units : disk'[u] = disk[u] \/ (disk'[u].status = "running" /\ Prompted(u))
<1> USE DEF LaunchIInv
<1>1. pc = "prompting" /\ disk' = mem
  BY DEF EndPrompts
<1>2. \A u \in Units : Prompted(u) => mem[u].status = "running"
  BY DEF Prompted, Types, Rows
<1>3. QED
  BY <1>1, <1>2 DEF PromptsChange, Types

LEMMA EndPromptsStep ==
  ASSUME LaunchIInv, EndPrompts
  PROVE  LaunchIInv'
<1> USE DEF LaunchIInv
<1>1. /\ pc' = "idle" /\ mem' = disk' /\ todo' = {} /\ at' = NoUnit
      /\ reading' = [u \in Units |-> "gone"]
      /\ UNCHANGED <<session, commits, created>>
  BY DEF EndPrompts, Finish, worldVars
<1>2. Types' /\ DoneHasShown' /\ CreatedIsRecorded'
  BY <1>1, PromptedRows DEF Types, DoneHasShown, WithStatus, CreatedIsRecorded
<1>3. QED
  BY <1>1, <1>2 DEF CopyIsSaved, SessionIsCreated, PromptsChange, SliceIsPending,
                    LaunchingIsFresh, LaunchedOnce, BuildsOnWork

LEMMA SessionStep ==
  ASSUME LaunchIInv, NEW u \in Units,
         Commits(u) \/ Turns(u, "working") \/ Turns(u, "idle") \/ Turns(u, "gone")
  PROVE  LaunchIInv'
<1> USE DEF LaunchIInv
<1>1. /\ UNCHANGED <<disk, mem, pc, todo, at, reading, created>>
      /\ session' \in [Units -> {"gone", "idle", "working"}]
      /\ commits \subseteq commits' /\ commits' \in SUBSET Units
  BY DEF Commits, Turns, commandVars, Types
<1>2. Types' /\ DoneHasShown'
  BY <1>1 DEF Types, DoneHasShown, WithStatus
<1>3. BuildsOnWork' /\ LaunchingIsFresh'
  BY <1>1 DEF BuildsOnWork, LaunchingIsFresh
<1>4. SessionIsCreated' /\ PromptsChange'
  BY <1>1 DEF Commits, Turns, SessionIsCreated, PromptsChange, Prompted, Types
<1>5. QED
  BY <1>1, <1>2, <1>3, <1>4 DEF CopyIsSaved, CreatedIsRecorded, SliceIsPending, LaunchedOnce

-----------------------------------------------------------------------------
LEMMA LaunchStep ==
  ASSUME LaunchIInv, [LaunchNext]_launchVars
  PROVE  LaunchIInv'
<1>1. CASE UNCHANGED launchVars
  BY <1>1 DEF launchVars, commandVars, worldVars, LaunchIInv, Types, DoneHasShown, WithStatus,
              CopyIsSaved, SessionIsCreated, PromptsChange, Prompted, CreatedIsRecorded,
              SliceIsPending, LaunchingIsFresh, LaunchedOnce, BuildsOnWork
<1>2. CASE Command
  <2>1. ASSUME NEW u \in Units, PassOver(u) \/ Persist(u) \/ Expand(u) \/ Prompt(u)
        PROVE  LaunchIInv'
    BY <2>1, PassOverStep, PersistStep, ExpandStep, PromptStep
  <2>2. QED
    BY <1>2, <2>1, GoStep, LaunchedStep, InterruptedStep, ReadingStep, SettleStep,
       EndPromptsStep, KilledStep
       DEF Command
<1>3. CASE \E u \in Units :
             Commits(u) \/ Turns(u, "working") \/ Turns(u, "idle") \/ Turns(u, "gone")
  BY <1>3, SessionStep
<1>4. QED
  BY <1>1, <1>2, <1>3 DEF LaunchNext

THEOREM LaunchInvariant == LaunchSpec => []LaunchIInv
  BY InitHolds, LaunchStep, PTL DEF LaunchSpec

\* LaunchTypeOK: the rows keep their types, and a unit recorded as done has commits of its own or
\* has no branch to put them on.
THEOREM LaunchTypesHold == LaunchSpec => []LaunchTypeOK
<1>1. LaunchIInv => LaunchTypeOK
  BY DEF LaunchIInv, Types, DoneHasShown, LaunchTypeOK
<1>2. QED
  BY <1>1, LaunchInvariant, PTL

\* LaunchedOnce: go saves the row as running before it calls the launcher, so whatever is killed or
\* interrupted, no unit gets a second session.
THEOREM NoSecondSession == LaunchSpec => []LaunchedOnce
<1>1. LaunchIInv => LaunchedOnce
  BY DEF LaunchIInv
<1>2. QED
  BY <1>1, LaunchInvariant, PTL

\* BuildsOnWork: a session is opened only when every unit it builds on has committed.
THEOREM SessionsBuildOnWork == LaunchSpec => []BuildsOnWork
<1>1. LaunchIInv => BuildsOnWork
  BY DEF LaunchIInv
<1>2. QED
  BY <1>1, LaunchInvariant, PTL

-----------------------------------------------------------------------------
\* EndedStays: the row of an ended unit changes only when the prompts that were sent are saved, to
\* running, for a unit with its one session, and for a failed or orphaned one only if it has no
\* branch.
THEOREM EndsAreKept == LaunchSpec => EndedStays
<1> DEFINE Revived(u) == /\ pc = "prompting" /\ disk'[u].status = "running"
                         /\ created[u] = 1
                         /\ disk[u].status = "done" \/ u \in Branchless
<1>1. ASSUME LaunchIInv, [LaunchNext]_launchVars, NEW u \in Units,
             disk[u].status \in {"done", "failed", "orphaned"},
             disk'[u].status # disk[u].status
      PROVE  Revived(u)
  <2> USE <1>1 DEF LaunchIInv
  <2>1. ASSUME NEW v \in Units, Persist(v)
        PROVE  disk'[u] = disk[u]
    <3>1. disk[v].status = "pending"
      BY <2>1 DEF Persist, SliceIsPending
    <3>2. u # v /\ disk' = [disk EXCEPT ![v].status = "running"]
      BY <2>1, <3>1 DEF Persist, CopyIsSaved
    <3>3. QED
      BY <3>2 DEF Types, Rows
  <2>2. ASSUME Launched \/ Interrupted
        PROVE  disk'[u] = disk[u]
    <3>1. disk[at].status = "running" /\ u # at
      BY <2>2 DEF Launched, Interrupted, LaunchingIsFresh
    <3>2. \/ \E row : disk' = [disk EXCEPT ![at] = row]
          \/ \E tab \in BOOLEAN : disk' = [disk EXCEPT ![at].tab = tab]
      BY <2>2 DEF Launched, Interrupted, CopyIsSaved
    <3>3. QED
      BY <3>1, <3>2 DEF Types, Rows
  <2>3. CASE SettleSecond
    BY <2>3, SettleRows
  <2>4. ASSUME NEW v \in Units, Expand(v)
        PROVE  disk'[u] = disk[u]
    BY <2>4 DEF Expand, Types, Rows
  <2>5. ASSUME \/ Go \/ EndGo \/ SettleFirst \/ WaitStarts \/ WaitEnds \/ Killed
               \/ \E v \in Units : PassOver(v) \/ Prompt(v)
        PROVE  disk' = disk
    BY <2>5 DEF Go, EndGo, SettleFirst, WaitStarts, WaitEnds, Killed, PassOver, Prompt, CopyIsSaved
  <2>6. CASE UNCHANGED launchVars
    BY <2>6 DEF launchVars
  <2>7. ASSUME NEW v \in Units,
               Commits(v) \/ Turns(v, "working") \/ Turns(v, "idle") \/ Turns(v, "gone")
        PROVE  disk' = disk
    BY <2>7 DEF Commits, Turns
  <2>8. CASE EndPrompts
    <3>1. disk'[u].status = "running" /\ Prompted(u)
      BY <2>8, PromptedRows
    <3>2. QED
      BY <2>8, <3>1 DEF EndPrompts, Prompted
  <2>9. QED
    BY <2>1, <2>2, <2>3, <2>4, <2>5, <2>6, <2>7, <2>8 DEF LaunchNext, Command
<1>2. LaunchIInv /\ [LaunchNext]_launchVars =>
        [\A u \in Units :
            (/\ disk[u].status \in {"done", "failed", "orphaned"}
             /\ disk'[u].status # disk[u].status) => Revived(u)]_launchVars
  BY <1>1
<1>3. QED
  BY <1>2, LaunchInvariant, PTL DEF LaunchSpec, EndedStays

-----------------------------------------------------------------------------
(***************************************************************************)
(* The width.                                                              *)
(***************************************************************************)

\* What runs, and what go is about to run.
Claimed == WithStatus(disk, "running") \cup todo

\* While go is at work, that fits the width.
ClaimFits == pc \in {"slicing", "launching"} => Cardinality(Claimed) <= Width

\* A step of go that claims no more units keeps the claim within the width.
LEMMA FewerClaimed ==
  ASSUME Types, ClaimFits, pc \in {"slicing", "launching"}, Claimed' \subseteq Claimed
  PROVE  ClaimFits'
<1>1. IsFiniteSet(Claimed)
  BY LaunchAssumption, FS_Subset DEF Claimed, WithStatus, Types
<1>2. /\ IsFiniteSet(Claimed')
      /\ Cardinality(Claimed') <= Cardinality(Claimed)
      /\ Cardinality(Claimed') \in Nat /\ Cardinality(Claimed) \in Nat
  BY <1>1, FS_Subset, FS_CardinalityType
<1>3. QED
  BY <1>2, LaunchAssumption DEF ClaimFits

\* go claims no more than the room there is, and there is none when the prompts have put more to
\* work than the width.
LEMMA GoClaims ==
  ASSUME Types, Go
  PROVE  ClaimFits'
<1> DEFINE running == WithStatus(disk, "running")
<1>1. PICK slice \in SUBSET Eligible(disk) :
        slice # {} /\ Cardinality(slice) <= Room(disk) /\ todo' = slice /\ disk' = disk
  BY DEF Go
<1>2. /\ IsFiniteSet(running) /\ IsFiniteSet(slice)
      /\ running \in SUBSET Units /\ slice \in SUBSET Units
  BY <1>1, LaunchAssumption, FS_Subset DEF WithStatus, Eligible, Types
<1>3. /\ Cardinality(running) \in Nat /\ Cardinality(slice) \in Nat
      /\ Cardinality(slice) # 0
  BY <1>1, <1>2, FS_CardinalityType, FS_EmptySet
<1>4. Cardinality(running) + Cardinality(slice) <= Width
  BY <1>1, <1>3, LaunchAssumption DEF Room
<1>5. Cardinality(running \cap slice) \in Nat
  BY <1>2, FS_Subset, FS_CardinalityType, running \cap slice \in SUBSET running
<1>6. /\ Cardinality(running \cup slice) <= Cardinality(running) + Cardinality(slice)
      /\ Cardinality(running \cup slice) \in Nat
  <2>1. /\ IsFiniteSet(running \cup slice)
        /\ Cardinality(running \cup slice) =
             Cardinality(running) + Cardinality(slice) - Cardinality(running \cap slice)
    BY <1>2, FS_Union
  <2>2. Cardinality(running \cup slice) \in Nat
    BY <2>1, FS_CardinalityType
  <2>3. QED
    BY <1>3, <1>5, <2>1, <2>2
<1>7. Claimed' = running \cup slice
  BY <1>1 DEF Claimed, WithStatus
<1>8. QED
  BY <1>3, <1>4, <1>6, <1>7, LaunchAssumption DEF ClaimFits

LEMMA ClaimStep ==
  ASSUME LaunchIInv, ClaimFits, [LaunchNext]_launchVars
  PROVE  ClaimFits'
<1> USE DEF LaunchIInv
<1>1. ASSUME NEW u \in Units, Persist(u)
      PROVE  ClaimFits'
  <2>1. pc = "slicing" /\ Claimed' \subseteq Claimed
    BY <1>1 DEF Persist, CopyIsSaved, Claimed, WithStatus, Types, Rows
  <2>2. QED
    BY <2>1, FewerClaimed
<1>2. CASE Launched
  <2>1. at \in Units /\ disk[at].status = "running" /\ pc = "launching"
    BY <1>2 DEF Launched, LaunchingIsFresh
  <2>2. todo' = todo /\ \E row : disk' = [disk EXCEPT ![at] = row]
    BY <1>2 DEF Launched, CopyIsSaved
  <2>3. Claimed' \subseteq Claimed
    BY <2>1, <2>2 DEF Claimed, WithStatus, Types, Rows
  <2>4. QED
    BY <2>1, <2>3, FewerClaimed
<1>3. ASSUME NEW u \in Units, PassOver(u)
      PROVE  ClaimFits'
  <2>1. pc = "slicing" /\ disk' = disk /\ todo' \subseteq todo
    BY <1>3 DEF PassOver, CopyIsSaved
  <2>2. Claimed' \subseteq Claimed
    BY <2>1 DEF Claimed, WithStatus
  <2>3. QED
    BY <2>1, <2>2, FewerClaimed
<1>4. ASSUME \/ Interrupted \/ EndGo \/ SettleFirst \/ SettleSecond \/ WaitStarts \/ WaitEnds
             \/ EndPrompts \/ Killed
             \/ \E u \in Units : Expand(u) \/ Prompt(u)
      PROVE  pc' \notin {"slicing", "launching"}
  BY <1>4 DEF Interrupted, EndGo, SettleFirst, SettleSecond, WaitStarts, WaitEnds, EndPrompts,
              Killed, Expand, Prompt, Finish
<1>5. ASSUME \/ UNCHANGED launchVars
             \/ \E u \in Units :
                  Commits(u) \/ Turns(u, "working") \/ Turns(u, "idle") \/ Turns(u, "gone")
      PROVE  ClaimFits'
  <2>1. UNCHANGED <<disk, todo, pc>>
    BY <1>5 DEF launchVars, Commits, Turns, commandVars
  <2>2. QED
    BY <2>1 DEF ClaimFits, Claimed, WithStatus
<1>6. CASE Go
  BY <1>6, GoClaims
<1>7. QED
  BY <1>1, <1>2, <1>3, <1>4, <1>5, <1>6 DEF LaunchNext, Command, ClaimFits

\* WidthHeld: while go launches a unit, what runs and what go has still to take are within the
\* run's width, however many sessions the prompts have put to work before.
THEOREM WidthIsHeld == LaunchSpec => []WidthHeld
<1>1. LaunchInit => ClaimFits
  BY DEF LaunchInit, ClaimFits
<1>2. LaunchIInv /\ ClaimFits /\ [LaunchNext]_launchVars => ClaimFits'
  BY ClaimStep
<1>3. ASSUME LaunchIInv, ClaimFits
      PROVE  WidthHeld
  <2>1. IsFiniteSet(Claimed) /\ WithStatus(disk, "running") \subseteq Claimed
    BY <1>3, LaunchAssumption, FS_Subset DEF Claimed, WithStatus, LaunchIInv, Types
  <2>2. /\ Cardinality(WithStatus(disk, "running")) <= Cardinality(Claimed)
        /\ Cardinality(WithStatus(disk, "running")) \in Nat /\ Cardinality(Claimed) \in Nat
    BY <2>1, FS_Subset, FS_CardinalityType
  <2>3. QED
    BY <1>3, <2>2, LaunchAssumption DEF ClaimFits, WidthHeld
<1>4. QED
  BY <1>1, <1>2, <1>3, LaunchInvariant, PTL DEF LaunchSpec
=============================================================================
