---------------------------- MODULE CombinedPass ----------------------------
(***************************************************************************)
(* plugins/saga/scripts/build_loop.py --combined: one pass on the combined *)
(* branch (run_combined, run_combined_pass, _deploy_test_teardown) over    *)
(* the environment lease, and the passes landed on the run record.         *)
(*                                                                         *)
(* A pass holds no record lock while it runs.  It ends by landing one      *)
(* entry on a record read again under the file lock, which is one step     *)
(* here.  An invocation is one process: it runs one pass, may be           *)
(* interrupted anywhere in it (SIGTERM or Ctrl-C raise where they strike)  *)
(* and may be killed anywhere.                                             *)
(***************************************************************************)
EXTENDS EnvironmentLease, Sequences

CONSTANTS Revisions,     \* the commits HEAD may be at when a pass starts
          NoRevision,    \* nothing has been handed to code review
          Modes,         \* the environments a pass may find declared: shared, private, waived
          Interrupts     \* may a pass be interrupted (SIGTERM, Ctrl-C)

ASSUME PassAssumption == /\ Modes \subseteq {"shared", "private", "waived"}
                         /\ Interrupts \in BOOLEAN
                         /\ NoRevision \notin Revisions

VARIABLES ppc,           \* the step of its pass each invocation is at
          mode,          \* the environment each invocation found declared when it started
          revision,      \* the pass entry's revision: HEAD when the pass started
          problems,      \* the statuses other than pass among the entry's results
          interrupted,   \* the entry's interrupted key
          passes,        \* the record's combined_branch.passes
          handed,        \* the revision of combined_branch.handed_to_code_review
          exit           \* the process's exit code

passVars == <<ppc, mode, revision, problems, interrupted, passes, handed, exit>>

allVars == <<leaseVars, passVars>>

\* COULD_NOT_EXECUTE_STOP
StopStreak == 3

\* The results a step may add to the entry, apart from pass.
Fail == "fail"
CouldNotExecute == "could-not-execute"

\* The steps at which the shared environment may hold the pass's deployment.
InEnvironment == {"deploying", "testing", "tearing"}

InSharedEnvironment == {i \in Invocations : mode[i] = "shared" /\ ppc[i] \in InEnvironment}

\* The steps run_combined_pass's handlers cover: an interrupt here is recorded.
Interruptible == {"building", "leasing", "releasing"} \cup InEnvironment

PassInit ==
  /\ LeaseInit
  /\ ppc = [i \in Invocations |-> "idle"]
  /\ mode = [i \in Invocations |-> "none"]
  /\ revision = [i \in Invocations |-> NoRevision]
  /\ problems = [i \in Invocations |-> {}]
  /\ interrupted = [i \in Invocations |-> FALSE]
  /\ passes = << >>
  /\ handed = NoRevision
  /\ exit = [i \in Invocations |-> "none"]

\* _pass_status: a failing result outranks an environment problem.
PassStatus(found) ==
  IF Fail \in found THEN Fail
  ELSE IF CouldNotExecute \in found THEN CouldNotExecute
  ELSE "pass"

\* The pass is over, with the results found: its entry waits to land.
Finish(i, found) ==
  /\ ppc' = [ppc EXCEPT ![i] = "landing"]
  /\ problems' = [problems EXCEPT ![i] = @ \cup found]
  /\ UNCHANGED <<mode, revision, passes, handed, exit>>

\* The pass goes on to step s with the results found so far.
Proceed(i, s, found) ==
  /\ ppc' = [ppc EXCEPT ![i] = s]
  /\ problems' = [problems EXCEPT ![i] = @ \cup found]
  /\ UNCHANGED <<mode, revision, interrupted, passes, handed, exit>>

-----------------------------------------------------------------------------
\* The declaration and the revision under test (HEAD) are read once, before anything runs.
Begin(i) ==
  /\ ppc[i] = "idle"
  /\ ppc' = [ppc EXCEPT ![i] = "building"]
  /\ \E r \in Revisions : revision' = [revision EXCEPT ![i] = r]
  /\ \E m \in Modes : mode' = [mode EXCEPT ![i] = m]
  /\ UNCHANGED <<leaseVars, problems, interrupted, passes, handed, exit>>

\* The mechanical baseline and the review gate.  Anything but pass skips the deploy, and a
\* waived repository has none.
Build(i) ==
  /\ ppc[i] = "building"
  /\ \E found \in SUBSET {Fail, CouldNotExecute} :
       IF found # {} \/ mode[i] = "waived"
         THEN Finish(i, found) /\ UNCHANGED interrupted
         ELSE Proceed(i, IF mode[i] = "shared" THEN "leasing" ELSE "deploying", {})
  /\ UNCHANGED leaseVars

\* acquire_lease: an attempt, or the end of the wait.
WaitForLease(i) ==
  /\ ppc[i] = "leasing"
  /\ SendAcquire(i) \/ CommitFails(i) \/ StopWaiting(i)
  /\ UNCHANGED passVars

\* One git call of the lease backend returns.
LeaseCall(i) ==
  /\ LeaseStep(i)
  /\ ppc[i] \in {"leasing", "releasing"}
  /\ UNCHANGED passVars

\* The lease was not acquired: nothing is deployed and the pass could not execute.
LeaseRefused(i) ==
  /\ ppc[i] = "leasing"
  /\ lpc[i] = "refused"
  /\ Finish(i, {CouldNotExecute})
  /\ UNCHANGED <<leaseVars, interrupted>>

\* Mutant of StartDeploy: a held lease does not stop the deploy.
DeployAnyway(i) ==
  /\ ppc[i] = "leasing"
  /\ lpc[i] \in {"acquired", "held"}
  /\ Proceed(i, "deploying", {})
  /\ UNCHANGED leaseVars

\* acquire_lease returned ACQUIRED and the deploy step is reached.
StartDeploy(i) ==
  /\ ppc[i] = "leasing"
  /\ lpc[i] = "acquired"
  /\ Proceed(i, "deploying", {})
  /\ UNCHANGED leaseVars

\* Mutant of Deploy: a failed deploy gives the lease back before the teardown.
ReleaseBeforeTeardown(i) ==
  /\ ppc[i] = "deploying"
  /\ \/ Proceed(i, "testing", {}) /\ UNCHANGED leaseVars
     \/ Proceed(i, "tearing", {CouldNotExecute}) /\ SendRelease(i)

\* A deploy that passes (or is not declared) is tested; one that does not is torn down untested.
Deploy(i) ==
  /\ ppc[i] = "deploying"
  /\ \/ Proceed(i, "testing", {})
     \/ Proceed(i, "tearing", {CouldNotExecute})
  /\ UNCHANGED leaseVars

\* The declared test command and the plan's environment checks.
Test(i) ==
  /\ ppc[i] = "testing"
  /\ \E found \in SUBSET {Fail, CouldNotExecute} : Proceed(i, "tearing", found)
  /\ UNCHANGED leaseVars

\* Mutants of Unwinding: an interrupt adds nothing to the entry, or a status of its own.
UnwindsSilently(i) == {}
UnwindsByName(i) == IF interrupted[i] THEN {"interrupted"} ELSE {}

\* What an exception on its way up adds to the entry when the pass ends.
Unwinding(i) == IF interrupted[i] THEN {CouldNotExecute} ELSE {}

\* Mutant of Teardown: the lease is kept.
TeardownKeepsLease(i) ==
  /\ ppc[i] = "tearing"
  /\ \E found \in SUBSET {CouldNotExecute} : Finish(i, found \cup Unwinding(i))
  /\ UNCHANGED <<leaseVars, interrupted>>

\* Teardown, in the finally block, then the release of a lease that was taken.
Teardown(i) ==
  /\ ppc[i] = "tearing"
  /\ \E found \in SUBSET {CouldNotExecute} :
       IF mode[i] = "shared"
         THEN Proceed(i, "releasing", found) /\ SendRelease(i)
         ELSE /\ Finish(i, found \cup Unwinding(i))
              /\ UNCHANGED <<leaseVars, interrupted>>

\* Mutant of Released: what release returned is not looked at.
ReleasedAnyhow(i) ==
  /\ ppc[i] = "releasing"
  /\ lpc[i] = "done"
  /\ Finish(i, Unwinding(i))
  /\ UNCHANGED <<leaseVars, interrupted>>

\* release returned: anything but released is an environment problem.
Released(i) ==
  /\ ppc[i] = "releasing"
  /\ lpc[i] = "done"
  /\ Finish(i, Unwinding(i) \cup
               (IF releaseStatus[i] = "released" THEN {} ELSE {CouldNotExecute}))
  /\ UNCHANGED <<leaseVars, interrupted>>

-----------------------------------------------------------------------------
\* Mutant of EnvironmentStop: the stop comes one pass late.
StopsLate(landed) ==
  /\ Len(landed) > StopStreak
  /\ \A n \in (Len(landed) - StopStreak)..Len(landed) : landed[n].status = CouldNotExecute

\* could_not_execute_streak reaches the stop: the last StopStreak passes could not execute.
EnvironmentStop(landed) ==
  /\ Len(landed) >= StopStreak
  /\ \A n \in (Len(landed) - StopStreak + 1)..Len(landed) : landed[n].status = CouldNotExecute

\* The exit code, once the passes landed so far are known.  An interrupted pass re-raises.
ExitCode(i, landed) ==
  IF interrupted[i] THEN "interrupted"
  ELSE IF PassStatus(problems[i]) = "pass" THEN "green"
  ELSE IF EnvironmentStop(landed) THEN "environment-stop"
  ELSE "not-green"

\* apply_combined_pass and save, under the record's file lock, and the process's end.
Land(i) ==
  LET status == PassStatus(problems[i])
      entry  == [inv |-> i, revision |-> revision[i], status |-> status]
  IN  /\ ppc[i] = "landing"
      /\ ppc' = [ppc EXCEPT ![i] = "landed"]
      /\ passes' = Append(passes, entry)
      /\ handed' = IF status = "pass" THEN revision[i] ELSE handed
      /\ exit' = [exit EXCEPT ![i] = ExitCode(i, passes')]
      /\ UNCHANGED <<leaseVars, mode, revision, problems, interrupted>>

\* SIGTERM or Ctrl-C.  Before the deploy step and after the teardown began, the exception leaves
\* _deploy_test_teardown at once, with whatever the lease call was doing; between, it runs the
\* finally block.  A command that failed before the interrupt stays on the entry.
Interrupt(i) ==
  /\ Interrupts
  /\ ppc[i] \in Interruptible
  /\ interrupted' = [interrupted EXCEPT ![i] = TRUE]
  /\ \E found \in SUBSET (IF ppc[i] \in {"building", "testing"} THEN {Fail} ELSE {}) :
       IF ppc[i] \in {"deploying", "testing"}
         THEN /\ ppc' = [ppc EXCEPT ![i] = "tearing"]
              /\ problems' = [problems EXCEPT ![i] = @ \cup found]
              /\ UNCHANGED <<leaseVars, mode, revision, passes, handed, exit>>
         ELSE /\ Finish(i, found \cup {CouldNotExecute})
              /\ IF lpc[i] \in Ended THEN UNCHANGED leaseVars ELSE Vanish(i)

\* The process dies, at any point of its life.
Crash(i) ==
  /\ ppc[i] \notin {"idle", "landed", "dead"}
  /\ ppc' = [ppc EXCEPT ![i] = "dead"]
  /\ IF lpc[i] \in Ended THEN UNCHANGED leaseVars ELSE Vanish(i)
  /\ UNCHANGED <<mode, revision, problems, interrupted, passes, handed, exit>>

-----------------------------------------------------------------------------
PassStep(i) ==
  \/ Build(i)
  \/ WaitForLease(i)
  \/ LeaseCall(i)
  \/ LeaseRefused(i)
  \/ StartDeploy(i)
  \/ Deploy(i)
  \/ Test(i)
  \/ Teardown(i)
  \/ Released(i)
  \/ Land(i)

PassNext ==
  \/ Network /\ UNCHANGED passVars
  \/ \E i \in Invocations : Begin(i) \/ PassStep(i) \/ Interrupt(i) \/ Crash(i)

PassSpec == PassInit /\ [][PassNext]_allVars

\* A started process keeps running (every command and every git call has a timeout), and the
\* remote decides the pushes it receives.  Nobody is obliged to start a pass, to interrupt or
\* kill one, or to release another run's lease.
PassFairness ==
  /\ \A i \in Invocations : WF_allVars(PassStep(i))
  /\ WF_allVars((\E p \in pushes : RemoteDecides(p)) /\ UNCHANGED passVars)

FairPassSpec == PassSpec /\ PassFairness

-----------------------------------------------------------------------------
(***************************************************************************)
(* Properties.                                                             *)
(***************************************************************************)

PassTypeOK ==
  /\ ppc \in [Invocations -> {"idle", "landing", "landed", "dead"} \cup Interruptible]
  /\ mode \in [Invocations -> {"none"} \cup Modes]
  /\ revision \in [Invocations -> Revisions \cup {NoRevision}]
  /\ problems \in [Invocations -> SUBSET {Fail, CouldNotExecute}]
  /\ interrupted \in [Invocations -> BOOLEAN]
  /\ \A n \in 1..Len(passes) : passes[n].inv \in Invocations
  /\ handed \in Revisions \cup {NoRevision}
  /\ exit \in [Invocations -> {"none", "green", "not-green", "environment-stop", "interrupted"}]

\* "A shared environment takes one run at a time": from the deploy to the end of the teardown an
\* invocation is alone in the environment and holds the lease, however pushes are lost and
\* wherever the others crash or are interrupted.
OneRunAtATime ==
  \A i \in InSharedEnvironment : ref = OidOf(i) /\ InSharedEnvironment = {i}

\* A pass whose lease the operator released under it never lands green and so never admits its
\* revision to code review: its own release finds that out (careless operators included).
BrokenLeaseNeverGreen ==
  \A n \in 1..Len(passes) :
    passes[n].status = "pass" => OidOf(passes[n].inv) \notin broken

\* A pass lands green only when it went through every step it owes: nobody interrupted it, and it
\* gave back the lease it won.  What may hold the environment in its name after a green pass is the
\* late create of an attempt whose answer it never got, and nothing else.
GreenPassIsWhole ==
  \A n \in 1..Len(passes) :
    LET i == passes[n].inv
    IN  passes[n].status = "pass" => ~interrupted[i] /\ LeftNothing(i)

\* "Three waits in a row are an environment stop": when three passes landed in a row after waiting
\* in vain for the lease, the third tells the operator, whichever runs landed between them.
WaitsSurface ==
  \A n \in StopStreak..Len(passes) :
    /\ \A m \in (n - StopStreak + 1)..n : lpc[passes[m].inv] = "refused"
    /\ ~interrupted[passes[n].inv]
    => exit[passes[n].inv] = "environment-stop"

\* Between deploy and teardown the pass is what uses the shared environment.
InUse == INSTANCE SharedEnvironment WITH
  Nobody  <- NoOid,
  grantee <- IF ref = NoOid THEN NoOid ELSE HolderOf(ref),
  users   <- InSharedEnvironment

\* The composed pass implements the shared environment's promise: granted to one invocation,
\* used only while granted, and taken back only once its teardown is over.
ImplementsShared == InUse!Spec

\* A pass that starts ends: it lands on the record or its process dies.  No holder, dead or
\* alive, makes a waiting pass wait for ever.
EveryPassEnds ==
  \A i \in Invocations : (ppc[i] = "building") ~> (ppc[i] \in {"landed", "dead"})

\* A lease that is taken comes back, or its pass is recorded as one that could not give it back,
\* or its process died or was interrupted.
LeaseComesBack ==
  \A i \in Invocations :
    (lpc[i] = "acquired") ~>
      \/ ref # OidOf(i)
      \/ releaseStatus[i] = "could-not-execute" /\ CouldNotExecute \in problems[i]
      \/ ppc[i] = "dead"
      \/ interrupted[i]

-----------------------------------------------------------------------------
(***************************************************************************)
(* What the documents say and the code does not do (see the README).       *)
(***************************************************************************)

\* CombinedPassInterrupted: "Teardown and the lease release already ran" when an interrupted
\* pass is handed to its caller to be recorded.
InterruptedPassReleased ==
  \A i \in Invocations :
    ppc[i] = "landing" /\ interrupted[i] => ref # OidOf(i)
=============================================================================
