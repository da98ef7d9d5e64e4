------------------------- MODULE CombinedPassProofs -------------------------
(***************************************************************************)
(* Proofs about CombinedPass for any number of invocations and attempts,   *)
(* any network, any interrupts and kills.                                  *)
(***************************************************************************)
EXTENDS CombinedPass, EnvironmentLeaseProofs

\* Every object id that is on the remote, on its way or broken was made by an attempt.
MadeByAttempt(oid) == oid \in Oids /\ 1 <= oid[2] /\ oid[2] <= attempts[oid[1]]

OidsAreAttempts ==
  /\ ref # NoOid => MadeByAttempt(ref)
  /\ \A p \in pushes : MadeByAttempt(p.oid)
  /\ \A oid \in broken : MadeByAttempt(oid)

IdleHasNone ==
  \A i \in Invocations :
    /\ lpc[i] = "idle" => attempts[i] = 0
    /\ lpc[i] \in {"acquiring", "acquired"} => attempts[i] > 0

\* A commit the remote took once is not on its way a second time, and an operator's release is
\* final.
TakenOnce ==
  \A i \in Invocations :
    /\ ref = OidOf(i) => CreateIsOver(i)
    /\ OidOf(i) \in broken => CreateIsOver(i) /\ ref # OidOf(i)

\* A release that succeeds found its own lease unbroken.
ReturnedUnbroken ==
  \A i \in Invocations :
    \/ lpc[i] = "releasing" /\ answer[i] = "ok"
    \/ releaseStatus[i] = "released"
    => OidOf(i) \notin broken

HistoryIInv == OidsAreAttempts /\ IdleHasNone /\ TakenOnce /\ ReturnedUnbroken

-----------------------------------------------------------------------------
(***************************************************************************)
(* The history of the lease.                                               *)
(***************************************************************************)
LEMMA HistoryInit ==
  ASSUME LeaseInit
  PROVE  HistoryIInv
<1>1. ref = NoOid /\ pushes = {} /\ broken = {} /\ \A i \in Invocations : OidOf(i) # NoOid
  BY LeaseAssumption DEF LeaseInit, OidOf, NewCommit
<1>2. QED
  BY <1>1 DEF LeaseInit, HistoryIInv, OidsAreAttempts, IdleHasNone, TakenOnce, ReturnedUnbroken

\* A commit made by an attempt, of one invocation or another.
LEMMA MadeFacts ==
  ASSUME NEW oid, MadeByAttempt(oid)
  PROVE  /\ oid = <<oid[1], oid[2]>>
         /\ oid[1] \in Invocations /\ oid[2] \in Nat
         /\ HolderOf(oid) = oid[1]
  BY DEF MadeByAttempt, Oids, HolderOf

LEMMA AttemptHistory ==
  ASSUME LeaseIInv, HistoryIInv, NEW i \in Invocations, SendAcquire(i)
  PROVE  HistoryIInv'
<1> DEFINE new == Push("create", NewCommit(i, attempts[i] + 1))
           MadeBy(oid) == oid \in Oids /\ 1 <= oid[2] /\ oid[2] <= attempts'[oid[1]]
<1> USE DEF HistoryIInv, LeaseIInv
<1>1. /\ lpc[i] \in {"idle", "held"} /\ lpc' = [lpc EXCEPT ![i] = "acquiring"]
      /\ answer' = [answer EXCEPT ![i] = "none"]
      /\ attempts' = [attempts EXCEPT ![i] = @ + 1]
      /\ pushes' = pushes \cup {new}
      /\ UNCHANGED <<ref, releaseStatus, broken>>
  BY DEF SendAcquire
<1>2. \A j \in Invocations : attempts[j] \in Nat /\ attempts'[j] \in Nat /\ attempts[j] <= attempts'[j]
  BY <1>1 DEF LeaseTypeOK
<1>3. \A j \in Invocations \ {i} : OidOf(j)' = OidOf(j) /\ new # Push("create", OidOf(j))
  BY <1>1 DEF OidOf, NewCommit, Push, LeaseTypeOK
<1>4. OidOf(i)' = <<i, attempts[i] + 1>> /\ attempts'[i] = attempts[i] + 1
  BY <1>1 DEF OidOf, NewCommit, LeaseTypeOK
<1>5. ASSUME NEW oid, MadeByAttempt(oid)
      PROVE  MadeBy(oid) /\ oid # OidOf(i)'
  <2>1. oid[1] \in Invocations /\ oid[2] \in Nat /\ 1 <= oid[2] /\ oid[2] <= attempts[oid[1]]
    BY <1>5, MadeFacts DEF MadeByAttempt
  <2>2. oid[2] <= attempts'[oid[1]]
    BY <1>2, <2>1
  <2>3. oid # <<i, attempts[i] + 1>>
    <3>1. oid[1] = i => oid[2] # attempts[i] + 1
      BY <1>2, <2>1
    <3>2. QED
      BY <3>1
  <2>4. MadeBy(oid)
    BY <1>5, <2>1, <2>2 DEF MadeByAttempt
  <2>5. QED
    BY <1>4, <2>3, <2>4
<1>6. MadeBy(new.oid)
  <2>1. new.oid = <<i, attempts[i] + 1>>
    BY DEF Push, NewCommit
  <2>2. <<i, attempts[i] + 1>> \in Oids /\ 1 <= attempts[i] + 1
    BY <1>2 DEF Oids
  <2>3. QED
    BY <1>2, <1>4, <2>1, <2>2
<1>7. OidsAreAttempts'
  <2>1. /\ ref # NoOid => MadeBy(ref)
        /\ \A p \in pushes : MadeBy(p.oid)
        /\ \A oid \in broken : MadeBy(oid)
    BY <1>5 DEF OidsAreAttempts
  <2>2. QED
    BY <1>1, <1>6, <2>1 DEF OidsAreAttempts, MadeByAttempt
<1>8. IdleHasNone'
  BY <1>1, <1>2, <1>4 DEF IdleHasNone, LeaseTypeOK
<1>9. OidOf(i)' \notin broken' /\ ref' # OidOf(i)'
  <2>1. OidOf(i)' # NoOid
    BY <1>2, <1>4, LeaseAssumption
  <2>2. QED
    BY <1>1, <1>5, <2>1 DEF OidsAreAttempts
<1>10. TakenOnce'
  BY <1>1, <1>3, <1>9 DEF TakenOnce, CreateIsOver
<1>11. ReturnedUnbroken'
  BY <1>1, <1>3, <1>9 DEF ReturnedUnbroken, LeaseTypeOK
<1>12. QED
  BY <1>7, <1>8, <1>10, <1>11

LEMMA RemoteHistory ==
  ASSUME LeaseIInv, HistoryIInv, NEW p \in pushes, RemoteDecides(p)
  PROVE  HistoryIInv'
<1> USE DEF HistoryIInv, LeaseIInv
<1>1. /\ pushes' = pushes \ {p}
      /\ ref' \in {ref, NoOid, p.oid}
      /\ ref' # ref /\ ref' # NoOid => p.op = "create" /\ ref' = p.oid
      /\ UNCHANGED <<attempts, lpc, releaseStatus, broken>>
  BY DEF RemoteDecides
<1>2. p \in [op : {"create", "delete"}, oid : Oids] /\ HolderOf(p.oid) \in Invocations
  BY DEF LeaseTypeOK, Oids, HolderOf
<1>3. \A i \in Invocations : OidOf(i)' = OidOf(i) /\ OidOf(i) # NoOid
  BY <1>1, OidFacts DEF OidOf, NewCommit
<1>4. OidsAreAttempts' /\ IdleHasNone'
  BY <1>1 DEF OidsAreAttempts, IdleHasNone, MadeByAttempt
<1>5. ASSUME NEW i \in Invocations, ref' = OidOf(i), ref # OidOf(i)
      PROVE  p = Push("create", OidOf(i))
  BY <1>1, <1>2, <1>3, <1>5 DEF Push
<1>6. TakenOnce'
  <2> SUFFICES ASSUME NEW i \in Invocations
               PROVE  /\ ref' = OidOf(i) => Push("create", OidOf(i)) \notin pushes'
                      /\ OidOf(i) \in broken =>
                           Push("create", OidOf(i)) \notin pushes' /\ ref' # OidOf(i)
    BY <1>1, <1>3 DEF TakenOnce, CreateIsOver
  <2>1. CASE ref = OidOf(i)
    BY <1>1, <2>1 DEF TakenOnce, CreateIsOver
  <2>2. CASE ref # OidOf(i)
    BY <1>1, <1>5, <2>2 DEF TakenOnce, CreateIsOver
  <2>3. QED
    BY <2>1, <2>2
<1>7. ReturnedUnbroken'
  <2> SUFFICES ASSUME NEW i \in Invocations,
                      lpc[i] = "releasing", answer'[i] = "ok", answer[i] # "ok"
               PROVE  OidOf(i) \notin broken
    BY <1>1, <1>3 DEF ReturnedUnbroken
  <2>1. p.oid = OidOf(i) /\ p.op # "create" /\ Accepts(p)
    BY <1>2 DEF RemoteDecides, Awaited, LeaseTypeOK
  <2>2. QED
    BY <2>1 DEF Accepts, TakenOnce
<1>8. QED
  BY <1>4, <1>6, <1>7

LEMMA OperatorHistory ==
  ASSUME LeaseIInv, HistoryIInv, OperatorReleases
  PROVE  HistoryIInv'
<1> USE DEF HistoryIInv, LeaseIInv
<1>1. /\ ref # NoOid /\ ref' = NoOid /\ broken' = broken \cup {ref}
      /\ UNCHANGED <<pushes, attempts, lpc, answer, releaseStatus>>
  BY DEF OperatorReleases
<1>2. \A i \in Invocations : OidOf(i)' = OidOf(i) /\ OidOf(i) # NoOid
  BY <1>1, OidFacts DEF OidOf, NewCommit
<1>3. OidsAreAttempts' /\ IdleHasNone'
  BY <1>1 DEF OidsAreAttempts, IdleHasNone, MadeByAttempt
<1>4. TakenOnce'
  BY <1>1, <1>2 DEF TakenOnce, CreateIsOver
<1>5. ReturnedUnbroken'
  BY <1>1, <1>2 DEF ReturnedUnbroken, AcceptedDeletes
<1>6. QED
  BY <1>3, <1>4, <1>5

LEMMA ClientHistory ==
  ASSUME LeaseIInv, HistoryIInv, NEW i \in Invocations,
         \/ CommitFails(i) \/ StopWaiting(i) \/ SendRelease(i) \/ LeaseStep(i) \/ Vanish(i)
  PROVE  HistoryIInv'
<1> USE DEF HistoryIInv, LeaseIInv
<1>1. UNCHANGED <<ref, attempts, broken>> /\ \A j \in Invocations : OidOf(j)' = OidOf(j)
  BY DEF CommitFails, StopWaiting, SendRelease, LeaseStep, Vanish, AcquireSucceeds,
         AcquirePushFails, ReadHolder, ReadFails, ReleaseSucceeds, ReleasePushFails,
         ConfirmRelease, OidOf, NewCommit
<1>2. CASE SendRelease(i)
  <2>1. /\ lpc[i] = "acquired" /\ lpc' = [lpc EXCEPT ![i] = "releasing"]
        /\ answer' = [answer EXCEPT ![i] = "none"]
        /\ pushes' = pushes \cup {Push("delete", OidOf(i))}
        /\ UNCHANGED releaseStatus
    BY <1>2 DEF SendRelease
  <2>2. MadeByAttempt(OidOf(i))
    <3>1. OidOf(i) = <<i, attempts[i]>> /\ attempts[i] \in Nat /\ attempts[i] > 0
      BY <2>1 DEF OidOf, NewCommit, IdleHasNone, LeaseTypeOK
    <3>2. QED
      BY <3>1 DEF MadeByAttempt, Oids
  <2>3. Push("delete", OidOf(i)).oid = OidOf(i) /\ Push("delete", OidOf(i)).op = "delete"
    BY DEF Push
  <2>4. OidsAreAttempts'
    BY <1>1, <2>1, <2>2, <2>3 DEF OidsAreAttempts, MadeByAttempt
  <2>5. TakenOnce'
    BY <1>1, <2>1 DEF TakenOnce, CreateIsOver, Push
  <2>6. IdleHasNone' /\ ReturnedUnbroken'
    BY <1>1, <2>1 DEF IdleHasNone, ReturnedUnbroken, LeaseTypeOK
  <2>7. QED
    BY <2>4, <2>5, <2>6
<1>3. CASE CommitFails(i) \/ StopWaiting(i) \/ LeaseStep(i) \/ Vanish(i)
  <2>1. pushes' = pushes
    BY <1>3 DEF CommitFails, StopWaiting, LeaseStep, Vanish, AcquireSucceeds,
         AcquirePushFails, ReadHolder, ReadFails, ReleaseSucceeds, ReleasePushFails, ConfirmRelease
  <2>2. OidsAreAttempts' /\ TakenOnce'
    BY <1>1, <2>1 DEF OidsAreAttempts, MadeByAttempt, TakenOnce, CreateIsOver
  <2>3. IdleHasNone'
    BY <1>1, <1>3 DEF CommitFails, StopWaiting, LeaseStep, Vanish, AcquireSucceeds,
         AcquirePushFails, ReadHolder, ReadFails, ReleaseSucceeds, ReleasePushFails,
         ConfirmRelease, IdleHasNone, LeaseTypeOK
  <2>4. ReturnedUnbroken'
    BY <1>1, <1>3 DEF CommitFails, StopWaiting, LeaseStep, Vanish, AcquireSucceeds,
         AcquirePushFails, ReadHolder, ReadFails, ReleaseSucceeds, ReleasePushFails,
         ConfirmRelease, ReturnedUnbroken, LeaseTypeOK
  <2>5. QED
    BY <2>2, <2>3, <2>4
<1>4. QED
  BY <1>2, <1>3

LEMMA HistoryStep ==
  ASSUME LeaseIInv, HistoryIInv, [LeaseNext]_leaseVars
  PROVE  HistoryIInv'
<1>1. CASE \E p \in pushes : PushLost(p)
  BY <1>1 DEF PushLost, HistoryIInv, OidsAreAttempts, MadeByAttempt, IdleHasNone, TakenOnce,
              CreateIsOver, ReturnedUnbroken, OidOf, NewCommit
<1>2. CASE UNCHANGED leaseVars
  BY <1>2 DEF leaseVars, HistoryIInv, OidsAreAttempts, MadeByAttempt, IdleHasNone, TakenOnce,
              CreateIsOver, ReturnedUnbroken, OidOf, NewCommit
<1>3. QED
  BY <1>1, <1>2, RemoteHistory, OperatorHistory, AttemptHistory, ClientHistory
     DEF LeaseNext, Network

LEMMA HistoryInvariant == LeaseSpec => [](LeaseIInv /\ HistoryIInv)
  BY IInvInit, IInvStep, HistoryInit, HistoryStep, PTL DEF LeaseSpec

-----------------------------------------------------------------------------
\* An invocation in a shared environment holds the lease; without one it has never asked.
FollowsLease(i) ==
  /\ ppc[i] \in {"idle", "building"} => lpc[i] = "idle"
  /\ ppc[i] = "leasing" => mode[i] = "shared"
  /\ ppc[i] \in InEnvironment => lpc[i] = IF mode[i] = "shared" THEN "acquired" ELSE "idle"

\* The lease was never asked for, or release reported it released.
LeaseSettled(i) == lpc[i] = "idle" \/ (lpc[i] = "done" /\ releaseStatus[i] = "released")

\* A pass without an environment problem ran to its end.
CleanIsOver(i) ==
  ppc[i] \in {"landing", "landed"} /\ CouldNotExecute \notin problems[i] =>
    ~interrupted[i] /\ LeaseSettled(i)

\* While a pass is on its way, an interrupt has left it in the teardown or after.
InterruptIsLate(i) ==
  interrupted[i] => ppc[i] \in {"tearing", "releasing", "landing", "landed", "dead"}

Entries == [inv : Invocations, revision : Revisions \cup {NoRevision},
            status : {"pass", Fail, CouldNotExecute}]

\* A green entry is that of an invocation that landed without an environment problem.
EntriesAreTrue ==
  /\ passes \in Seq(Entries)
  /\ \A n \in 1..Len(passes) :
       passes[n].status = "pass" =>
         ppc[passes[n].inv] = "landed" /\ problems[passes[n].inv] = {}

PassIInv ==
  /\ PassTypeOK
  /\ \A i \in Invocations : FollowsLease(i) /\ CleanIsOver(i) /\ InterruptIsLate(i)
  /\ EntriesAreTrue

-----------------------------------------------------------------------------
(***************************************************************************)
(* The pass uses the lease as its protocol allows.                         *)
(***************************************************************************)
LEMMA LeaseStepOfPass ==
  ASSUME [PassNext]_allVars
  PROVE  [LeaseNext]_leaseVars
<1>1. ASSUME NEW i \in Invocations, PassStep(i)
      PROVE  [LeaseNext]_leaseVars
  <2>1. CASE WaitForLease(i) \/ LeaseCall(i)
    BY <2>1 DEF WaitForLease, LeaseCall, LeaseNext
  <2>2. CASE Teardown(i)
    BY <2>2 DEF Teardown, LeaseNext
  <2>3. CASE \/ Build(i) \/ LeaseRefused(i) \/ StartDeploy(i) \/ Deploy(i) \/ Test(i)
             \/ Released(i) \/ Land(i)
    BY <2>3 DEF Build, LeaseRefused, StartDeploy, Deploy, Test, Released, Land
  <2>4. QED
    BY <1>1, <2>1, <2>2, <2>3 DEF PassStep
<1>2. ASSUME NEW i \in Invocations, Begin(i) \/ Interrupt(i) \/ Crash(i)
      PROVE  [LeaseNext]_leaseVars
  BY <1>2 DEF Begin, Interrupt, Crash, LeaseNext
<1>3. CASE UNCHANGED allVars
  BY <1>3 DEF allVars
<1>4. QED
  BY <1>1, <1>2, <1>3 DEF PassNext, LeaseNext

\* Whatever a pass does, is interrupted in or dies at, its calls are the lease's own.
LEMMA PassFollowsLease == PassSpec => LeaseSpec
<1>1. PassInit => LeaseInit
  BY DEF PassInit
<1>2. QED
  BY <1>1, LeaseStepOfPass, PTL DEF PassSpec, LeaseSpec

-----------------------------------------------------------------------------
(***************************************************************************)
(* The pass's own invariant.                                               *)
(***************************************************************************)
LEMMA PassTypeStep ==
  ASSUME PassTypeOK, EntriesAreTrue, [PassNext]_allVars
  PROVE  PassTypeOK' /\ passes' \in Seq(Entries)
<1> USE DEF PassTypeOK, Interruptible, InEnvironment
<1>1. ASSUME passes' = passes
      PROVE  passes' \in Seq(Entries) /\ (\A n \in 1..Len(passes') : passes'[n].inv \in Invocations)
  BY <1>1 DEF EntriesAreTrue
<1>2. ASSUME NEW i \in Invocations, Land(i)
      PROVE  PassTypeOK' /\ passes' \in Seq(Entries)
  <2> DEFINE entry == [inv |-> i, revision |-> revision[i], status |-> PassStatus(problems[i])]
  <2>1. PassStatus(problems[i]) \in {"pass", Fail, CouldNotExecute}
    BY DEF PassStatus
  <2>2. entry \in Entries
    BY <2>1 DEF Entries
  <2>3. passes' = Append(passes, entry) /\ passes' \in Seq(Entries)
    BY <1>2, <2>2 DEF Land, EntriesAreTrue
  <2>4. \A n \in 1..Len(passes') : passes'[n].inv \in Invocations
    BY <2>3 DEF Entries
  <2>5. exit' \in [Invocations -> {"none", "green", "not-green", "environment-stop", "interrupted"}]
    BY <1>2 DEF Land, ExitCode
  <2>6. handed' \in Revisions \cup {NoRevision}
    BY <1>2 DEF Land
  <2>7. QED
    BY <1>2, <2>3, <2>4, <2>5, <2>6 DEF Land
<1>3. ASSUME NEW i \in Invocations, Begin(i) \/ Crash(i)
      PROVE  PassTypeOK' /\ passes' \in Seq(Entries)
  BY <1>1, <1>3 DEF Begin, Crash
<1>4. ASSUME NEW i \in Invocations, WaitForLease(i) \/ LeaseCall(i)
      PROVE  PassTypeOK' /\ passes' \in Seq(Entries)
  BY <1>1, <1>4 DEF WaitForLease, LeaseCall, passVars
<1>5. ASSUME NEW i \in Invocations, NEW found \in SUBSET {Fail, CouldNotExecute},
             interrupted' \in [Invocations -> BOOLEAN],
             \/ Finish(i, found)
             \/ \E s \in {"leasing", "deploying", "testing", "tearing", "releasing"} :
                  /\ ppc' = [ppc EXCEPT ![i] = s]
                  /\ problems' = [problems EXCEPT ![i] = @ \cup found]
                  /\ UNCHANGED <<mode, revision, passes, handed, exit>>
      PROVE  PassTypeOK' /\ passes' \in Seq(Entries)
  BY <1>1, <1>5 DEF Finish
<1>6. ASSUME NEW i \in Invocations, \/ Build(i) \/ LeaseRefused(i) \/ StartDeploy(i)
                                    \/ Deploy(i) \/ Test(i) \/ Teardown(i) \/ Released(i)
      PROVE  PassTypeOK' /\ passes' \in Seq(Entries)
  <2>1. interrupted' = interrupted
    BY <1>6 DEF Build, LeaseRefused, StartDeploy, Deploy, Test, Teardown, Released, Proceed
  <2>2. \E found \in SUBSET {Fail, CouldNotExecute} :
           \/ Finish(i, found)
           \/ \E s \in {"leasing", "deploying", "testing", "tearing", "releasing"} :
                  /\ ppc' = [ppc EXCEPT ![i] = s]
                  /\ problems' = [problems EXCEPT ![i] = @ \cup found]
                  /\ UNCHANGED <<mode, revision, passes, handed, exit>>
    <3>1. CASE Build(i) \/ Deploy(i) \/ Test(i) \/ StartDeploy(i)
      BY <3>1 DEF Build, Deploy, Test, StartDeploy, Proceed
    <3>2. CASE LeaseRefused(i)
      BY <3>2 DEF LeaseRefused
    <3>3. Unwinding(i) \in SUBSET {CouldNotExecute}
      BY DEF Unwinding
    <3>4. CASE Released(i)
      BY <3>3, <3>4 DEF Released
    <3>5. CASE Teardown(i)
      <4>1. PICK found \in SUBSET {CouldNotExecute} :
              \/ Proceed(i, "releasing", found)
              \/ Finish(i, found \cup Unwinding(i))
        BY <3>5 DEF Teardown
      <4>2. found \cup Unwinding(i) \in SUBSET {Fail, CouldNotExecute}
        BY <3>3
      <4>3. QED
        BY <4>1, <4>2 DEF Proceed
    <3>6. QED
      BY <1>6, <3>1, <3>2, <3>4, <3>5
  <2>3. QED
    BY <1>5, <2>1, <2>2
<1>7. ASSUME NEW i \in Invocations, Interrupt(i)
      PROVE  PassTypeOK' /\ passes' \in Seq(Entries)
  <2>1. interrupted' \in [Invocations -> BOOLEAN]
    BY <1>7 DEF Interrupt
  <2>2. \E found \in SUBSET {Fail, CouldNotExecute} :
           \/ Finish(i, found)
           \/ /\ ppc' = [ppc EXCEPT ![i] = "tearing"]
              /\ problems' = [problems EXCEPT ![i] = @ \cup found]
              /\ UNCHANGED <<mode, revision, passes, handed, exit>>
    <3>1. PICK found \in SUBSET {Fail} :
            \/ Finish(i, found \cup {CouldNotExecute})
            \/ /\ ppc' = [ppc EXCEPT ![i] = "tearing"]
               /\ problems' = [problems EXCEPT ![i] = @ \cup found]
               /\ UNCHANGED <<mode, revision, passes, handed, exit>>
      BY <1>7 DEF Interrupt
    <3>2. /\ found \cup {CouldNotExecute} \in SUBSET {Fail, CouldNotExecute}
          /\ found \in SUBSET {Fail, CouldNotExecute}
      OBVIOUS
    <3>3. QED
      BY <3>1, <3>2
  <2>3. QED
    BY <1>5, <2>1, <2>2
<1>8. CASE UNCHANGED passVars
  BY <1>1, <1>8 DEF passVars
<1>9. QED
  BY <1>2, <1>3, <1>4, <1>6, <1>7, <1>8 DEF PassNext, PassStep, allVars

\* What an interrupt does to the entry and to the lease.
LEMMA InterruptShape ==
  ASSUME PassTypeOK, LeaseTypeOK, NEW i \in Invocations, Interrupt(i)
  PROVE  /\ interrupted' = [interrupted EXCEPT ![i] = TRUE]
         /\ UNCHANGED <<mode, passes, ref, attempts, releaseStatus>>
         /\ ppc[i] \in Interruptible
         /\ \E found :
              \/ /\ ppc[i] \in {"deploying", "testing"}
                 /\ ppc' = [ppc EXCEPT ![i] = "tearing"]
                 /\ problems' = [problems EXCEPT ![i] = @ \cup found]
                 /\ lpc' = lpc
              \/ /\ ppc' = [ppc EXCEPT ![i] = "landing"]
                 /\ problems' = [problems EXCEPT ![i] = @ \cup found]
                 /\ CouldNotExecute \in found
                 /\ lpc' = lpc \/ lpc' = [lpc EXCEPT ![i] = "gone"]
<1>1. PICK found \in SUBSET {Fail} :
        \/ /\ ppc[i] \in {"deploying", "testing"}
           /\ ppc' = [ppc EXCEPT ![i] = "tearing"]
           /\ problems' = [problems EXCEPT ![i] = @ \cup found]
           /\ UNCHANGED <<leaseVars, mode, revision, passes, handed, exit>>
        \/ /\ Finish(i, found \cup {CouldNotExecute})
           /\ IF lpc[i] \in Ended THEN UNCHANGED leaseVars ELSE Vanish(i)
  BY DEF Interrupt
<1>2. CASE /\ ppc[i] \in {"deploying", "testing"}
           /\ ppc' = [ppc EXCEPT ![i] = "tearing"]
           /\ problems' = [problems EXCEPT ![i] = @ \cup found]
           /\ UNCHANGED <<leaseVars, mode, revision, passes, handed, exit>>
  BY <1>2 DEF Interrupt, leaseVars
<1>3. CASE /\ Finish(i, found \cup {CouldNotExecute})
           /\ IF lpc[i] \in Ended THEN UNCHANGED leaseVars ELSE Vanish(i)
  <2>1. /\ ppc' = [ppc EXCEPT ![i] = "landing"]
        /\ problems' = [problems EXCEPT ![i] = @ \cup (found \cup {CouldNotExecute})]
        /\ UNCHANGED <<mode, passes>>
    BY <1>3 DEF Finish
  <2>2. /\ UNCHANGED <<ref, attempts, releaseStatus>>
        /\ lpc' = lpc \/ lpc' = [lpc EXCEPT ![i] = "gone"]
    BY <1>3 DEF leaseVars, Vanish
  <2>3. CouldNotExecute \in found \cup {CouldNotExecute}
    OBVIOUS
  <2>4. QED
    BY <2>1, <2>2, <2>3 DEF Interrupt
<1>4. QED
  BY <1>1, <1>2, <1>3

\* Each step of a pass leaves the other invocations where they were.
LEMMA OthersStay ==
  ASSUME PassTypeOK, LeaseTypeOK, NEW i \in Invocations, NEW j \in Invocations, i # j,
         PassStep(i) \/ Begin(i) \/ Interrupt(i) \/ Crash(i)
  PROVE  /\ ppc'[j] = ppc[j] /\ mode'[j] = mode[j]
         /\ problems'[j] = problems[j] /\ interrupted'[j] = interrupted[j]
         /\ lpc'[j] = lpc[j] /\ releaseStatus'[j] = releaseStatus[j]
<1> USE DEF PassTypeOK, LeaseTypeOK
<1>1. CASE WaitForLease(i)
  BY <1>1 DEF WaitForLease, passVars, SendAcquire, CommitFails, StopWaiting
<1>2. CASE LeaseCall(i)
  BY <1>2 DEF LeaseCall, passVars, LeaseStep, AcquireSucceeds, AcquirePushFails, ReadHolder,
     ReadFails, ReleaseSucceeds, ReleasePushFails, ConfirmRelease
<1>3. CASE Build(i) \/ LeaseRefused(i) \/ StartDeploy(i) \/ Deploy(i) \/ Test(i) \/ Released(i)
  BY <1>3 DEF Build, LeaseRefused, StartDeploy, Deploy, Test, Released, Finish, Proceed, leaseVars
<1>4. CASE Teardown(i)
  BY <1>4 DEF Teardown, Finish, Proceed, leaseVars, SendRelease
<1>5. CASE Land(i) \/ Begin(i)
  BY <1>5 DEF Land, Begin, leaseVars
<1>6. CASE Interrupt(i)
  <2>1. /\ \E s : ppc' = [ppc EXCEPT ![i] = s]
        /\ \E found : problems' = [problems EXCEPT ![i] = @ \cup found]
        /\ interrupted' = [interrupted EXCEPT ![i] = TRUE]
        /\ lpc' = lpc \/ lpc' = [lpc EXCEPT ![i] = "gone"]
        /\ UNCHANGED <<mode, releaseStatus>>
    BY <1>6, InterruptShape
  <2>2. QED
    BY <2>1
<1>7. CASE Crash(i)
  BY <1>7 DEF Crash, leaseVars, Vanish
<1>8. QED
  BY <1>1, <1>2, <1>3, <1>4, <1>5, <1>6, <1>7 DEF PassStep

LEMMA OwnStep ==
  ASSUME PassIInv, LeaseIInv, NEW i \in Invocations,
         PassStep(i) \/ Begin(i) \/ Interrupt(i) \/ Crash(i)
  PROVE  /\ FollowsLease(i)' /\ CleanIsOver(i)' /\ InterruptIsLate(i)'
         /\ ppc[i] = "landed" => ppc'[i] = "landed" /\ problems'[i] = problems[i]
<1> USE DEF PassIInv, PassTypeOK, LeaseIInv, LeaseTypeOK, FollowsLease, CleanIsOver,
            InterruptIsLate, LeaseSettled, InEnvironment, Fail, CouldNotExecute
<1>1. CASE Begin(i)
  BY <1>1 DEF Begin, leaseVars
<1>2. CASE Build(i)
  <2>1. /\ ppc[i] = "building"
        /\ \/ ppc' = [ppc EXCEPT ![i] = "landing"]
           \/ mode[i] = "shared" /\ ppc' = [ppc EXCEPT ![i] = "leasing"]
           \/ mode[i] # "shared" /\ ppc' = [ppc EXCEPT ![i] = "deploying"]
        /\ UNCHANGED <<mode, interrupted, lpc, releaseStatus>>
    BY <1>2 DEF Build, Finish, Proceed, leaseVars
  <2>2. QED
    BY <2>1
<1>3. CASE WaitForLease(i)
  BY <1>3 DEF WaitForLease, passVars, SendAcquire, CommitFails, StopWaiting
<1>4. CASE LeaseCall(i)
  BY <1>4 DEF LeaseCall, passVars, LeaseStep, AcquireSucceeds, AcquirePushFails, ReadHolder,
     ReadFails, ReleaseSucceeds, ReleasePushFails, ConfirmRelease
<1>5. CASE LeaseRefused(i) \/ StartDeploy(i) \/ Deploy(i) \/ Test(i)
  <2>1. UNCHANGED <<mode, interrupted, lpc, releaseStatus>>
    BY <1>5 DEF LeaseRefused, StartDeploy, Deploy, Test, Finish, Proceed, leaseVars
  <2>2. \E found :
          /\ problems' = [problems EXCEPT ![i] = @ \cup found]
          /\ \/ /\ ppc[i] = "leasing" /\ CouldNotExecute \in found
                /\ ppc' = [ppc EXCEPT ![i] = "landing"]
             \/ /\ ppc[i] = "leasing" /\ lpc[i] = "acquired"
                /\ ppc' = [ppc EXCEPT ![i] = "deploying"]
             \/ /\ ppc[i] \in {"deploying", "testing"}
                /\ ppc' = [ppc EXCEPT ![i] = "testing"] \/ ppc' = [ppc EXCEPT ![i] = "tearing"]
    <3>1. CASE LeaseRefused(i)
      BY <3>1 DEF LeaseRefused, Finish
    <3>2. CASE StartDeploy(i) \/ Deploy(i) \/ Test(i)
      BY <3>2 DEF StartDeploy, Deploy, Test, Proceed
    <3>3. QED
      BY <1>5, <3>1, <3>2
  <2>3. QED
    BY <2>1, <2>2
<1>6. CASE Teardown(i) /\ mode[i] = "shared"
  BY <1>6 DEF Teardown, Proceed, SendRelease
<1>7. CASE Teardown(i) /\ mode[i] # "shared"
  BY <1>7 DEF Teardown, Finish, Unwinding, leaseVars
<1>8. CASE Released(i)
  BY <1>8 DEF Released, Finish, Unwinding, leaseVars
<1>9. CASE Land(i) \/ Crash(i)
  <2>1. /\ \/ ppc[i] = "landing" /\ ppc' = [ppc EXCEPT ![i] = "landed"] /\ lpc' = lpc
           \/ ppc[i] # "landed" /\ ppc' = [ppc EXCEPT ![i] = "dead"]
        /\ UNCHANGED <<mode, problems, interrupted, releaseStatus>>
    BY <1>9 DEF Land, Crash, leaseVars, Vanish
  <2>2. QED
    BY <2>1
<1>10. CASE Interrupt(i)
  BY <1>10, InterruptShape DEF Interruptible
<1>11. QED
  BY <1>1, <1>2, <1>3, <1>4, <1>5, <1>6, <1>7, <1>8, <1>9, <1>10 DEF PassStep

\* The remote's and the operator's steps move nobody.
LEMMA NetworkStays ==
  ASSUME Network
  PROVE  UNCHANGED <<lpc, releaseStatus>>
  BY DEF Network, RemoteDecides, PushLost, OperatorReleases

\* Nothing an invocation left behind changes once it has landed.
LEMMA LandedStays ==
  ASSUME PassIInv, LeaseIInv, [PassNext]_allVars, NEW j \in Invocations, ppc[j] = "landed"
  PROVE  /\ ppc'[j] = "landed" /\ problems'[j] = problems[j]
         /\ interrupted'[j] = interrupted[j] /\ exit'[j] = exit[j]
<1>1. ASSUME NEW i \in Invocations, PassStep(i) \/ Begin(i) \/ Interrupt(i) \/ Crash(i)
      PROVE  /\ ppc'[j] = "landed" /\ problems'[j] = problems[j]
             /\ interrupted'[j] = interrupted[j] /\ exit'[j] = exit[j]
  <2>1. ppc'[j] = "landed" /\ problems'[j] = problems[j]
    BY <1>1, OwnStep, OthersStay DEF PassIInv, LeaseIInv
  <2>2. CASE Land(i)
    BY <2>1, <2>2 DEF Land, PassIInv, PassTypeOK
  <2>3. CASE Interrupt(i)
    <3>1. i # j
      BY <2>3 DEF Interrupt, Interruptible, InEnvironment
    <3>2. exit' = exit
      BY <2>3 DEF Interrupt, Finish
    <3>3. QED
      BY <2>1, <2>3, <3>1, <3>2, OthersStay DEF PassIInv, LeaseIInv
  <2>4. CASE ~Land(i) /\ ~Interrupt(i)
    <3>1. UNCHANGED <<interrupted, exit>>
      BY <1>1, <2>4 DEF PassStep, Begin, Crash, Build, WaitForLease, LeaseCall, LeaseRefused,
         StartDeploy, Deploy, Test, Teardown, Released, Finish, Proceed, passVars
    <3>2. QED
      BY <2>1, <3>1
  <2>5. QED
    BY <2>2, <2>3, <2>4
<1>2. CASE UNCHANGED passVars
  BY <1>2 DEF passVars
<1>3. QED
  BY <1>1, <1>2 DEF PassNext, allVars

\* The record only grows, and only by the entry of an invocation that lands.
LEMMA RecordGrows ==
  ASSUME PassIInv, LeaseIInv, [PassNext]_allVars
  PROVE  passes' = passes \/ \E i \in Invocations : Land(i)
<1>1. ASSUME NEW i \in Invocations, PassStep(i), ~Land(i)
      PROVE  passes' = passes
  BY <1>1 DEF PassStep, Build, WaitForLease, LeaseCall, LeaseRefused, StartDeploy, Deploy,
     Test, Teardown, Released, Finish, Proceed, passVars
<1>2. ASSUME NEW i \in Invocations, Begin(i) \/ Interrupt(i) \/ Crash(i)
      PROVE  passes' = passes
  BY <1>2, InterruptShape DEF Begin, Crash, LeaseIInv, PassIInv
<1>3. QED
  BY <1>1, <1>2 DEF PassNext, allVars, passVars

LEMMA EntryStep ==
  ASSUME PassIInv, LeaseIInv, [PassNext]_allVars
  PROVE  EntriesAreTrue'
<1> USE DEF PassIInv
<1>1. passes' \in Seq(Entries)
  BY PassTypeStep
<1>2. \A i \in Invocations :
        ppc[i] = "landed" => ppc'[i] = "landed" /\ problems'[i] = problems[i]
  BY LandedStays
<1>3. CASE passes' = passes
  BY <1>1, <1>2, <1>3 DEF EntriesAreTrue, PassTypeOK
<1>4. CASE \E i \in Invocations : Land(i)
  <2>1. PICK i \in Invocations : Land(i)
    BY <1>4
  <2> DEFINE entry == [inv |-> i, revision |-> revision[i], status |-> PassStatus(problems[i])]
  <2>2. /\ passes' = Append(passes, entry)
        /\ ppc'[i] = "landed" /\ problems' = problems
    BY <2>1 DEF Land, PassTypeOK
  <2>3. entry.status = "pass" => problems[i] = {}
    BY DEF PassStatus, PassTypeOK, Fail, CouldNotExecute
  <2>4. ASSUME NEW n \in 1..Len(passes'), passes'[n].status = "pass"
        PROVE  ppc'[passes'[n].inv] = "landed" /\ problems'[passes'[n].inv] = {}
    <3>1. CASE n \in 1..Len(passes)
      <4>1. passes'[n] = passes[n] /\ passes[n].inv \in Invocations
        BY <2>2, <3>1 DEF EntriesAreTrue, PassTypeOK
      <4>2. QED
        BY <1>2, <2>4, <3>1, <4>1 DEF EntriesAreTrue
    <3>2. CASE n = Len(passes) + 1
      <4>1. passes'[n] = entry
        BY <2>2, <3>2 DEF EntriesAreTrue
      <4>2. QED
        BY <2>2, <2>3, <2>4, <4>1
    <3>3. Len(passes') = Len(passes) + 1 /\ Len(passes) \in Nat
      BY <2>2 DEF EntriesAreTrue
    <3>4. n \in 1..Len(passes) \/ n = Len(passes) + 1
      BY <3>3
    <3>5. QED
      BY <3>1, <3>2, <3>4
  <2>5. QED
    BY <1>1, <2>4 DEF EntriesAreTrue
<1>5. QED
  BY <1>3, <1>4, RecordGrows

LEMMA PassIInvStep ==
  ASSUME PassIInv, LeaseIInv, [PassNext]_allVars
  PROVE  PassIInv'
<1>1. PassTypeOK' /\ EntriesAreTrue'
  BY PassTypeStep, EntryStep DEF PassIInv
<1>2. ASSUME NEW j \in Invocations
      PROVE  FollowsLease(j)' /\ CleanIsOver(j)' /\ InterruptIsLate(j)'
  <2>1. ASSUME ppc'[j] = ppc[j] /\ mode'[j] = mode[j]
               /\ problems'[j] = problems[j] /\ interrupted'[j] = interrupted[j]
               /\ lpc'[j] = lpc[j] /\ releaseStatus'[j] = releaseStatus[j]
        PROVE  FollowsLease(j)' /\ CleanIsOver(j)' /\ InterruptIsLate(j)'
    BY <2>1 DEF PassIInv, FollowsLease, CleanIsOver, InterruptIsLate, LeaseSettled
  <2>2. ASSUME NEW i \in Invocations, PassStep(i) \/ Begin(i) \/ Interrupt(i) \/ Crash(i)
        PROVE  FollowsLease(j)' /\ CleanIsOver(j)' /\ InterruptIsLate(j)'
    <3>1. CASE i = j
      BY <2>2, <3>1, OwnStep
    <3>2. CASE i # j
      BY <2>1, <2>2, <3>2, OthersStay DEF PassIInv, LeaseIInv
    <3>3. QED
      BY <3>1, <3>2
  <2>3. CASE Network /\ UNCHANGED passVars
    BY <2>1, <2>3, NetworkStays DEF passVars
  <2>4. CASE UNCHANGED allVars
    BY <2>1, <2>4 DEF allVars, passVars, leaseVars
  <2>5. QED
    BY <2>2, <2>3, <2>4 DEF PassNext
<1>3. QED
  BY <1>1, <1>2 DEF PassIInv

LEMMA PassInvariant == PassSpec => [](LeaseIInv /\ HistoryIInv /\ PassIInv)
<1>1. PassInit => PassIInv
  <2>1. ASSUME PassInit
        PROVE  passes = << >> /\ passes \in Seq(Entries) /\ 1..Len(passes) = {}
    BY <2>1 DEF PassInit
  <2>2. QED
    BY <2>1 DEF PassInit, LeaseInit, PassIInv, PassTypeOK, FollowsLease, CleanIsOver,
                InterruptIsLate, EntriesAreTrue, Interruptible, InEnvironment
<1>2. LeaseIInv /\ PassIInv /\ [PassNext]_allVars => PassIInv'
  BY PassIInvStep
<1>3. PassSpec => [](LeaseIInv /\ HistoryIInv)
  BY PassFollowsLease, HistoryInvariant, PTL
<1>4. QED
  BY <1>1, <1>2, <1>3, PTL DEF PassSpec

\* PassTypeOK: the pass's variables keep their types, and nothing but a step's result enters them.
THEOREM PassTypeCorrect == PassSpec => []PassTypeOK
<1>1. PassIInv => PassTypeOK
  BY DEF PassIInv
<1>2. QED
  BY <1>1, PassInvariant, PTL

-----------------------------------------------------------------------------
(***************************************************************************)
(* What a green pass says.                                                 *)
(***************************************************************************)

\* The lease of a pass that settled it is neither on the remote nor broken.
LEMMA SettledLease ==
  ASSUME LeaseIInv, HistoryIInv, NEW i \in Invocations, LeaseSettled(i)
  PROVE  ref # OidOf(i) /\ OidOf(i) \notin broken
<1>1. CASE lpc[i] = "idle"
  <2>1. OidOf(i) = <<i, 0>> /\ OidOf(i) # NoOid
    BY <1>1, OidFacts DEF HistoryIInv, IdleHasNone, OidOf, NewCommit, LeaseIInv
  <2>2. ~MadeByAttempt(<<i, 0>>)
    BY DEF MadeByAttempt
  <2>3. QED
    BY <2>1, <2>2 DEF HistoryIInv, OidsAreAttempts
<1>2. CASE lpc[i] = "done" /\ releaseStatus[i] = "released"
  BY <1>2 DEF HistoryIInv, ReturnedUnbroken, LeaseIInv, AcceptedDeletes
<1>3. QED
  BY <1>1, <1>2 DEF LeaseSettled

\* The invocation behind a green entry: it was not interrupted and settled its lease.
LEMMA GreenInvocation ==
  ASSUME PassIInv, NEW n \in 1..Len(passes), passes[n].status = "pass"
  PROVE  /\ passes[n].inv \in Invocations
         /\ ~interrupted[passes[n].inv]
         /\ LeaseSettled(passes[n].inv)
<1> DEFINE i == passes[n].inv
<1>1. i \in Invocations
  BY DEF PassIInv, PassTypeOK
<1>2. ppc[i] = "landed" /\ problems[i] = {}
  BY DEF PassIInv, EntriesAreTrue
<1>3. CleanIsOver(i)
  BY <1>1 DEF PassIInv
<1>4. QED
  BY <1>1, <1>2, <1>3 DEF CleanIsOver

\* GreenPassIsWhole: a green entry is that of a pass that nobody interrupted and that gave back the
\* lease it won: only the late create of an attempt never answered can hold the environment for it.
THEOREM GreenIsWhole == PassSpec => []GreenPassIsWhole
<1>1. LeaseIInv /\ CreatesAccounted /\ HistoryIInv /\ PassIInv => GreenPassIsWhole
  BY GreenInvocation, SettledLease, NothingKnownIsLeft DEF GreenPassIsWhole
<1>2. PassSpec => []CreatesAccounted
  BY PassFollowsLease, CreatesInvariant, PTL
<1>3. QED
  BY <1>1, <1>2, PassInvariant, PTL

\* BrokenLeaseNeverGreen: no pass whose lease an operator broke lands green, careful or not.
THEOREM BrokenIsNeverGreen == PassSpec => []BrokenLeaseNeverGreen
<1>1. LeaseIInv /\ HistoryIInv /\ PassIInv => BrokenLeaseNeverGreen
  BY GreenInvocation, SettledLease DEF BrokenLeaseNeverGreen
<1>2. QED
  BY <1>1, PassInvariant, PTL

-----------------------------------------------------------------------------
(***************************************************************************)
(* What three refused passes in a row tell the operator.                   *)
(***************************************************************************)

\* A pass whose lease was refused ran nothing after it: when it ends, the refusal is all its entry
\* holds.
Barred(i) ==
  /\ ppc[i] \in {"idle", "building", "leasing"} => problems[i] = {}
  /\ ppc[i] = "releasing" => lpc[i] \in {"releasing", "confirming", "done"}
  /\ lpc[i] = "refused" =>
       /\ ppc[i] \in {"leasing", "landing", "landed", "dead"}
       /\ ppc[i] \in {"landing", "landed"} => problems[i] = {CouldNotExecute}

\* The last StopStreak passes of the first n that landed could not execute.
StreakAt(landed, n) ==
  \A m \in (n - StopStreak + 1)..n : landed[m].status = CouldNotExecute

\* An entry says what its invocation found, and the process that landed the end of a streak said so.
ExitsAreTrue ==
  \A n \in 1..Len(passes) :
    /\ ppc[passes[n].inv] = "landed"
    /\ passes[n].status = PassStatus(problems[passes[n].inv])
    /\ n >= StopStreak /\ StreakAt(passes, n) /\ ~interrupted[passes[n].inv]
         => exit[passes[n].inv] = "environment-stop"

LEMMA BarredOwnStep ==
  ASSUME PassIInv, LeaseIInv, NEW i \in Invocations, Barred(i),
         PassStep(i) \/ Begin(i) \/ Interrupt(i) \/ Crash(i)
  PROVE  Barred(i)'
<1> USE DEF PassIInv, PassTypeOK, LeaseIInv, LeaseTypeOK, Barred, FollowsLease, InEnvironment
<1>1. CASE Begin(i)
  BY <1>1 DEF Begin, leaseVars
<1>2. CASE Build(i)
  BY <1>2 DEF Build, Finish, Proceed, leaseVars
<1>3. CASE WaitForLease(i)
  BY <1>3 DEF WaitForLease, passVars, SendAcquire, CommitFails, StopWaiting
<1>4. CASE LeaseCall(i)
  BY <1>4 DEF LeaseCall, passVars, LeaseStep, AcquireSucceeds, AcquirePushFails, ReadHolder,
     ReadFails, ReleaseSucceeds, ReleasePushFails, ConfirmRelease
<1>5. CASE LeaseRefused(i)
  BY <1>5 DEF LeaseRefused, Finish, leaseVars
<1>6. CASE StartDeploy(i) \/ Deploy(i) \/ Test(i)
  <2>1. /\ ppc' = [ppc EXCEPT ![i] = "deploying"] \/ ppc' = [ppc EXCEPT ![i] = "testing"]
             \/ ppc' = [ppc EXCEPT ![i] = "tearing"]
        /\ lpc' = lpc
        /\ lpc[i] # "refused"
    BY <1>6 DEF StartDeploy, Deploy, Test, Proceed, leaseVars
  <2>2. QED
    BY <2>1
<1>7. CASE Teardown(i)
  <2>1. CASE mode[i] = "shared"
    BY <1>7, <2>1 DEF Teardown, Proceed, SendRelease
  <2>2. CASE mode[i] # "shared"
    BY <1>7, <2>2 DEF Teardown, Finish, leaseVars
  <2>3. QED
    BY <2>1, <2>2
<1>8. CASE Released(i)
  BY <1>8 DEF Released, Finish, leaseVars
<1>9. CASE Land(i) \/ Crash(i)
  <2>1. /\ \/ ppc[i] = "landing" /\ ppc' = [ppc EXCEPT ![i] = "landed"] /\ lpc' = lpc
           \/ /\ ppc' = [ppc EXCEPT ![i] = "dead"]
              /\ lpc' = lpc \/ lpc' = [lpc EXCEPT ![i] = "gone"]
        /\ ppc[i] # "idle" /\ problems' = problems
    BY <1>9 DEF Land, Crash, leaseVars, Vanish
  <2>2. lpc'[i] = "refused" => lpc[i] = "refused"
    BY <2>1
  <2>3. QED
    BY <2>1, <2>2
<1>10. CASE Interrupt(i)
  <2>1. CASE lpc[i] = "refused"
    <3>1. ppc[i] = "leasing" /\ problems[i] = {}
      BY <1>10, <2>1 DEF Interrupt, Interruptible
    <3>2. Finish(i, {} \cup {CouldNotExecute}) /\ lpc' = lpc
      BY <1>10, <2>1, <3>1 DEF Interrupt, Ended, leaseVars
    <3>3. QED
      BY <3>1, <3>2 DEF Finish
  <2>2. CASE lpc[i] # "refused"
    <3>1. /\ lpc' = lpc \/ lpc' = [lpc EXCEPT ![i] = "gone"]
          /\ ppc' = [ppc EXCEPT ![i] = "tearing"] \/ ppc' = [ppc EXCEPT ![i] = "landing"]
      BY <1>10, InterruptShape
    <3>2. QED
      BY <2>2, <3>1
  <2>3. QED
    BY <2>1, <2>2
<1>11. QED
  BY <1>1, <1>2, <1>3, <1>4, <1>5, <1>6, <1>7, <1>8, <1>9, <1>10 DEF PassStep

LEMMA BarredStep ==
  ASSUME PassIInv, LeaseIInv, NEW j \in Invocations, Barred(j), [PassNext]_allVars
  PROVE  Barred(j)'
<1>1. ASSUME ppc'[j] = ppc[j], problems'[j] = problems[j], lpc'[j] = lpc[j]
      PROVE  Barred(j)'
  BY <1>1 DEF Barred
<1>2. ASSUME NEW i \in Invocations, PassStep(i) \/ Begin(i) \/ Interrupt(i) \/ Crash(i)
      PROVE  Barred(j)'
  <2>1. CASE i = j
    BY <1>2, <2>1, BarredOwnStep
  <2>2. CASE i # j
    BY <1>1, <1>2, <2>2, OthersStay DEF PassIInv, LeaseIInv
  <2>3. QED
    BY <2>1, <2>2
<1>3. CASE Network /\ UNCHANGED passVars
  BY <1>1, <1>3, NetworkStays DEF passVars
<1>4. CASE UNCHANGED allVars
  BY <1>1, <1>4 DEF allVars, passVars, leaseVars
<1>5. QED
  BY <1>2, <1>3, <1>4 DEF PassNext

LEMMA ExitStep ==
  ASSUME PassIInv, LeaseIInv, ExitsAreTrue, [PassNext]_allVars
  PROVE  ExitsAreTrue'
<1>0. Len(passes) \in Nat /\ \A n \in 1..Len(passes) : passes[n].inv \in Invocations
  BY DEF PassIInv, PassTypeOK, EntriesAreTrue
<1> DEFINE Holds(n) == /\ ppc'[passes'[n].inv] = "landed"
                       /\ passes'[n].status = PassStatus(problems'[passes'[n].inv])
                       /\ n >= StopStreak /\ StreakAt(passes', n) /\ ~interrupted'[passes'[n].inv]
                            => exit'[passes'[n].inv] = "environment-stop"
\* an entry landed before stays true while the entries up to it stay
<1>1. ASSUME NEW n \in 1..Len(passes), \A m \in 1..Len(passes) : passes'[m] = passes[m]
      PROVE  Holds(n)
  <2> DEFINE i == passes[n].inv
  <2>1. i \in Invocations /\ ppc[i] = "landed" /\ passes'[n] = passes[n]
    BY <1>0, <1>1 DEF ExitsAreTrue
  <2>2. /\ ppc'[i] = "landed" /\ problems'[i] = problems[i]
        /\ interrupted'[i] = interrupted[i] /\ exit'[i] = exit[i]
    BY <2>1, LandedStays
  <2>3. n >= StopStreak /\ StreakAt(passes', n) => StreakAt(passes, n)
    <3>1. ASSUME n >= StopStreak, NEW m \in (n - StopStreak + 1)..n
          PROVE  m \in 1..Len(passes)
      BY <1>0, <3>1 DEF StopStreak
    <3>2. QED
      BY <1>1, <3>1 DEF StreakAt
  <2>4. QED
    BY <2>1, <2>2, <2>3 DEF ExitsAreTrue
<1>2. CASE passes' = passes
  BY <1>1, <1>2 DEF ExitsAreTrue
<1>3. ASSUME NEW i \in Invocations, Land(i)
      PROVE  ExitsAreTrue'
  <2> DEFINE entry == [inv |-> i, revision |-> revision[i], status |-> PassStatus(problems[i])]
             last == Len(passes) + 1
  <2>1. /\ passes' = Append(passes, entry)
        /\ ppc'[i] = "landed" /\ UNCHANGED <<problems, interrupted>>
        /\ exit'[i] = ExitCode(i, passes')
    BY <1>3 DEF Land, PassIInv, PassTypeOK
  <2>2. /\ Len(passes') = last /\ passes'[last] = entry
        /\ \A m \in 1..Len(passes) : passes'[m] = passes[m]
    BY <2>1 DEF PassIInv, EntriesAreTrue
  <2>3. ASSUME last >= StopStreak, StreakAt(passes', last), ~interrupted[i]
        PROVE  exit'[i] = "environment-stop"
    <3>1. EnvironmentStop(passes')
      BY <2>2, <2>3 DEF EnvironmentStop, StreakAt
    <3>2. entry.status = CouldNotExecute
      <4>1. last \in (last - StopStreak + 1)..last
        BY <1>0 DEF StopStreak
      <4>2. QED
        BY <2>2, <2>3, <4>1 DEF StreakAt
    <3>3. PassStatus(problems[i]) # "pass"
      BY <3>2 DEF CouldNotExecute
    <3>4. QED
      BY <2>1, <2>3, <3>1, <3>3 DEF ExitCode
  <2>4. Holds(last)
    BY <2>1, <2>2, <2>3
  <2>5. \A n \in 1..Len(passes') : n \in 1..Len(passes) \/ n = last
    BY <1>0, <2>2
  <2>6. QED
    BY <1>1, <2>2, <2>4, <2>5 DEF ExitsAreTrue
<1>4. QED
  BY <1>2, <1>3, RecordGrows

LEMMA RefusedInvariant == PassSpec => [](PassIInv /\ ExitsAreTrue /\ \A i \in Invocations : Barred(i))
<1>1. PassInit => ExitsAreTrue /\ \A i \in Invocations : Barred(i)
  <2>1. ASSUME PassInit
        PROVE  1..Len(passes) = {}
    BY <2>1 DEF PassInit
  <2>2. QED
    BY <2>1 DEF PassInit, LeaseInit, ExitsAreTrue, Barred
<1>2. /\ LeaseIInv /\ PassIInv /\ ExitsAreTrue /\ (\A i \in Invocations : Barred(i))
      /\ [PassNext]_allVars
      => (ExitsAreTrue /\ \A i \in Invocations : Barred(i))'
  BY ExitStep, BarredStep
<1>3. QED
  BY <1>1, <1>2, PassInvariant, PTL DEF PassSpec

\* WaitsSurface: the third pass in a row to land without the lease stops with environment-stop,
\* whichever runs landed between the waits and however their steps interleave.
THEOREM WaitsDoSurface == PassSpec => []WaitsSurface
<1>1. ASSUME PassIInv, ExitsAreTrue, \A i \in Invocations : Barred(i)
      PROVE  WaitsSurface
  <2> SUFFICES ASSUME NEW n \in StopStreak..Len(passes),
                      \A m \in (n - StopStreak + 1)..n : lpc[passes[m].inv] = "refused",
                      ~interrupted[passes[n].inv]
               PROVE  exit[passes[n].inv] = "environment-stop"
    BY DEF WaitsSurface
  <2>1. n \in 1..Len(passes) /\ n >= StopStreak
    BY <1>1 DEF StopStreak, PassIInv, EntriesAreTrue
  <2>2. ASSUME NEW m \in (n - StopStreak + 1)..n
        PROVE  passes[m].status = CouldNotExecute
    <3>1. m \in 1..Len(passes)
      BY <1>1 DEF StopStreak, PassIInv, EntriesAreTrue
    <3>2. /\ passes[m].inv \in Invocations /\ ppc[passes[m].inv] = "landed"
          /\ passes[m].status = PassStatus(problems[passes[m].inv])
      BY <1>1, <3>1 DEF ExitsAreTrue, PassIInv, PassTypeOK
    <3>3. problems[passes[m].inv] = {CouldNotExecute}
      BY <1>1, <3>2 DEF Barred
    <3>4. QED
      BY <3>2, <3>3 DEF PassStatus, Fail, CouldNotExecute
  <2>3. StreakAt(passes, n)
    BY <2>2 DEF StreakAt
  <2>4. QED
    BY <1>1, <2>1, <2>3 DEF ExitsAreTrue
<1>2. QED
  BY <1>1, RefusedInvariant, PTL

-----------------------------------------------------------------------------
(***************************************************************************)
(* The shared environment, while operators are careful.                    *)
(***************************************************************************)
LEMMA CarefulPass ==
  ASSUME CarefulOperator
  PROVE  PassSpec => [](LeaseIInv /\ HolderHolds /\ PassIInv)
  BY PassFollowsLease, CarefulInvariant, PassInvariant, PTL

LEMMA InEnvironmentHolds ==
  ASSUME LeaseIInv, HolderHolds, PassIInv, NEW i \in InSharedEnvironment
  PROVE  /\ i \in Invocations /\ lpc[i] = "acquired"
         /\ ref = OidOf(i) /\ ref # NoOid /\ HolderOf(ref) = i
<1>1. i \in Invocations /\ lpc[i] = "acquired"
  BY DEF InSharedEnvironment, PassIInv, FollowsLease
<1>2. ref = OidOf(i)
  BY <1>1 DEF HolderHolds
<1>3. QED
  BY <1>1, <1>2, OidFacts DEF LeaseIInv

\* OneRunAtATime: whoever deploys to, tests in or tears down the shared environment is alone in it
\* and holds the lease.
THEOREM OneRunInEnvironment ==
  ASSUME CarefulOperator
  PROVE  PassSpec => []OneRunAtATime
<1>1. ASSUME LeaseIInv, HolderHolds, PassIInv
      PROVE  OneRunAtATime
  <2>1. ASSUME NEW i \in InSharedEnvironment, NEW j \in InSharedEnvironment
        PROVE  i = j
    BY <1>1, <2>1, InEnvironmentHolds
  <2>2. QED
    BY <1>1, <2>1, InEnvironmentHolds DEF OneRunAtATime
<1>2. QED
  BY <1>1, CarefulPass, PTL

\* A step that leaves the reference and the shared environment's users alone stutters.
LEMMA QuietUse ==
  ASSUME ref' = ref, InSharedEnvironment' = InSharedEnvironment
  PROVE  UNCHANGED InUse!vars
  BY DEF InUse!vars

LEMMA LeaveUse ==
  ASSUME NEW i \in Invocations, ref' = ref, LeaseIInv, HolderHolds, PassIInv,
         InSharedEnvironment' = InSharedEnvironment \ {i}
  PROVE  [InUse!Next]_(InUse!vars)
<1>1. CASE i \in InSharedEnvironment
  BY <1>1 DEF InUse!Next, InUse!Leave
<1>2. CASE i \notin InSharedEnvironment
  BY <1>2, QuietUse
<1>3. QED
  BY <1>1, <1>2

LEMMA SharedStep ==
  ASSUME CarefulOperator, LeaseIInv, HolderHolds, PassIInv, HolderHolds', PassIInv', LeaseIInv',
         [PassNext]_allVars
  PROVE  [InUse!Next]_(InUse!vars)
<1> USE LeaseAssumption
<1>1. ASSUME UNCHANGED passVars
      PROVE  InSharedEnvironment' = InSharedEnvironment
  BY <1>1 DEF passVars, InSharedEnvironment
<1>2. ASSUME NEW p \in pushes, RemoteDecides(p), UNCHANGED passVars
      PROVE  [InUse!Next]_(InUse!vars)
  <2>1. /\ p \in [op : {"create", "delete"}, oid : Oids]
        /\ HolderOf(p.oid) \in Invocations
        /\ p.oid # NoOid
    BY DEF LeaseIInv, LeaseTypeOK, Oids, HolderOf
  <2>2. CASE ref' = ref
    BY <1>1, <1>2, <2>2, QuietUse
  <2>3. CASE ref' # ref /\ p.op = "create"
    <3>1. ref = NoOid /\ ref' = p.oid
      BY <1>2, <2>1, <2>3 DEF RemoteDecides, Accepts
    <3>2. InUse!Grant(HolderOf(p.oid))
      BY <1>1, <1>2, <2>1, <3>1 DEF InUse!Grant
    <3>3. QED
      BY <2>1, <3>2 DEF InUse!Next
  <2>4. CASE ref' # ref /\ p.op = "delete"
    <3>1. ref = p.oid /\ ref' = NoOid
      BY <1>2, <2>1, <2>4 DEF RemoteDecides, Accepts
    <3>2. lpc[HolderOf(p.oid)] # "acquired"
      BY <2>1, <2>4 DEF LeaseIInv, DeletesAreOwn
    <3>3. HolderOf(p.oid) \notin InSharedEnvironment
      BY <3>2, InEnvironmentHolds
    <3>4. InUse!TakeBack(HolderOf(p.oid))
      BY <1>1, <1>2, <2>1, <3>1, <3>3 DEF InUse!TakeBack
    <3>5. QED
      BY <2>1, <3>4 DEF InUse!Next
  <2>5. QED
    BY <2>1, <2>2, <2>3, <2>4
<1>3. ASSUME OperatorReleases, UNCHANGED passVars
      PROVE  [InUse!Next]_(InUse!vars)
  <2>1. HolderOf(ref) \in Invocations /\ lpc[HolderOf(ref)] \in Ended /\ ref # NoOid /\ ref' = NoOid
    BY <1>3 DEF OperatorReleases, LeaseIInv, LeaseTypeOK, Oids, HolderOf
  <2>2. HolderOf(ref) \notin InSharedEnvironment
    BY <2>1, InEnvironmentHolds DEF Ended
  <2>3. InUse!TakeBack(HolderOf(ref))
    BY <1>1, <1>3, <2>1, <2>2 DEF InUse!TakeBack
  <2>4. QED
    BY <2>1, <2>3 DEF InUse!Next
<1>4. ASSUME NEW p \in pushes, PushLost(p), UNCHANGED passVars
      PROVE  [InUse!Next]_(InUse!vars)
  BY <1>1, <1>4, QuietUse DEF PushLost
<1>5. ASSUME NEW i \in Invocations, PassStep(i) \/ Begin(i) \/ Interrupt(i) \/ Crash(i)
      PROVE  [InUse!Next]_(InUse!vars)
  <2>1. \A j \in Invocations : j # i => (j \in InSharedEnvironment' <=> j \in InSharedEnvironment)
    BY <1>5, OthersStay DEF InSharedEnvironment, PassIInv, LeaseIInv
  <2>2. InSharedEnvironment \subseteq Invocations /\ InSharedEnvironment' \subseteq Invocations
    BY DEF InSharedEnvironment
  <2>3. ref' = ref
    BY <1>5, InterruptShape DEF PassStep, Build, WaitForLease, LeaseCall, LeaseRefused, StartDeploy,
       Deploy, Test, Teardown, Released, Land, Begin, Crash, leaseVars, SendAcquire, CommitFails,
       StopWaiting, SendRelease, LeaseStep, Vanish, AcquireSucceeds, AcquirePushFails, ReadHolder,
       ReadFails, ReleaseSucceeds, ReleasePushFails, ConfirmRelease, PassIInv, LeaseIInv
  <2>4. CASE i \in InSharedEnvironment <=> i \in InSharedEnvironment'
    <3>1. InSharedEnvironment' = InSharedEnvironment
      BY <2>1, <2>2, <2>4
    <3>2. QED
      BY <2>3, <3>1, QuietUse
  <2>5. CASE i \in InSharedEnvironment /\ i \notin InSharedEnvironment'
    <3>1. InSharedEnvironment' = InSharedEnvironment \ {i}
      BY <2>1, <2>2, <2>5
    <3>2. QED
      BY <2>3, <3>1, LeaveUse
  <2>6. CASE i \notin InSharedEnvironment /\ i \in InSharedEnvironment'
    <3>1. InSharedEnvironment' = InSharedEnvironment \cup {i}
      BY <2>1, <2>2, <2>6
    <3>2. ref' # NoOid /\ HolderOf(ref') = i
      <4>1. lpc'[i] = "acquired"
        BY <2>6 DEF InSharedEnvironment, PassIInv, FollowsLease
      <4>2. ref' = OidOf(i)'
        BY <4>1 DEF HolderHolds
      <4>3. (OidOf(i) # NoOid)' /\ (HolderOf(OidOf(i)) = i)'
        BY DEF OidOf, NewCommit, HolderOf, LeaseIInv, LeaseTypeOK
      <4>4. QED
        BY <4>2, <4>3 DEF HolderOf
    <3>3. InUse!Enter(i)
      BY <2>3, <3>1, <3>2 DEF InUse!Enter
    <3>4. QED
      BY <3>3 DEF InUse!Next
  <2>7. QED
    BY <2>4, <2>5, <2>6
<1>6. CASE UNCHANGED allVars
  BY <1>1, <1>6, QuietUse DEF allVars, leaseVars
<1>7. QED
  BY <1>2, <1>3, <1>4, <1>5, <1>6 DEF PassNext, Network

\* ImplementsShared: the passes keep the promise SharedEnvironment makes, with the environment in
\* use from the deploy to the end of the teardown.
THEOREM PassImplementsShared ==
  ASSUME CarefulOperator
  PROVE  PassSpec => ImplementsShared
<1>1. PassInit => InUse!Init
  BY DEF PassInit, LeaseInit, InUse!Init, InSharedEnvironment, InEnvironment
<1>2. QED
  BY <1>1, CarefulPass, SharedStep, PTL DEF PassSpec, ImplementsShared, InUse!Spec
=============================================================================
