-------------------------- MODULE EnvironmentLease --------------------------
(***************************************************************************)
(* plugins/saga/scripts/environment_lease.py: the lease on a shared        *)
(* non-production environment, kept as one reference on a git remote and   *)
(* taken and returned by compare-and-swap pushes (GitRefLeaseBackend),     *)
(* together with the polling loop of build_loop.acquire_lease.             *)
(*                                                                         *)
(* A push is two steps: the remote decides it, and the client learns the   *)
(* answer.  Between the two the client's git may die or time out           *)
(* (GIT_TIMEOUT_SECONDS) while the push is still on its way, so the remote *)
(* may decide a push whose sender has gone on to something else.           *)
(***************************************************************************)
EXTENDS Naturals

CONSTANTS Invocations,      \* invocations of build_loop.py --combined, on any host
          NoOid,            \* the reference does not exist
          MaxAttempts,      \* pushes one wait of --lease-wait seconds has room for
          Lossy,            \* may the network lose or delay a push or an answer
          CarefulOperator   \* does the operator release only the lease of a run that ended

ASSUME LeaseAssumption == /\ MaxAttempts \in Nat \ {0}
                          /\ Lossy \in BOOLEAN
                          /\ CarefulOperator \in BOOLEAN
                          /\ NoOid \notin Invocations \X Nat

VARIABLES ref,              \* what refs/saga/leases/<name> points at on the remote
          pushes,           \* pushes sent that the remote has not decided yet
          attempts,         \* acquire attempts each invocation has made
          lpc,              \* where each invocation is in its use of the lease
          answer,           \* the remote's answer on its way to a waiting push
          seen,             \* the object id read after the last failed push
          releaseStatus,    \* what release returned: the pass's release_status
          broken,           \* history: object ids an operator's release deleted
          unanswered        \* history: attempts given up before the remote's answer came back

leaseVars == <<ref, pushes, attempts, lpc, answer, seen, releaseStatus, broken, unanswered>>

Oids == Invocations \X Nat

\* Every attempt makes a new commit (a nonce paragraph, a new start time), so no two attempts
\* share an object id.
NewCommit(i, k) == <<i, k>>

\* The commit of an invocation's latest attempt: the token acquire returns and release expects.
\* An earlier attempt of the same wait has another object id, and may still be on its way.
OidOf(i) == NewCommit(i, attempts[i])

HolderOf(oid) == oid[1]

Push(op, oid) == [op |-> op, oid |-> oid]

\* A push whose sender still waits for the answer to it.
Awaited(p) ==
  LET i == HolderOf(p.oid)
  IN  /\ p.oid = OidOf(i)
      /\ lpc[i] = IF p.op = "create" THEN "acquiring" ELSE "releasing"

LeaseInit ==
  /\ ref = NoOid
  /\ pushes = {}
  /\ attempts = [i \in Invocations |-> 0]
  /\ lpc = [i \in Invocations |-> "idle"]
  /\ answer = [i \in Invocations |-> "none"]
  /\ seen = [i \in Invocations |-> NoOid]
  /\ releaseStatus = [i \in Invocations |-> "none"]
  /\ broken = {}
  /\ unanswered = {}

-----------------------------------------------------------------------------
(***************************************************************************)
(* The remote.                                                             *)
(***************************************************************************)

\* Mutants of Accepts: an acquire pushed with a plain --force, a release with none expected.
AcceptsAnyCreate(p) == IF p.op = "create" THEN TRUE ELSE ref = p.oid
AcceptsAnyDelete(p) == IF p.op = "create" THEN ref \in {NoOid, p.oid} ELSE TRUE

\* The expected value a push carries: a create expects no reference (and a reference that
\* already is its own object is up to date), a delete expects the object it names.
Accepts(p) ==
  IF p.op = "create" THEN ref \in {NoOid, p.oid} ELSE ref = p.oid

\* The remote's reference transaction compares and swaps.
RemoteDecides(p) ==
  /\ p \in pushes
  /\ pushes' = pushes \ {p}
  /\ ref' = IF Accepts(p) THEN (IF p.op = "create" THEN p.oid ELSE NoOid) ELSE ref
  /\ answer' = IF Awaited(p)
                 THEN [answer EXCEPT ![HolderOf(p.oid)] =
                         IF Accepts(p) THEN "ok" ELSE "rejected"]
                 ELSE answer
  /\ UNCHANGED <<attempts, lpc, seen, releaseStatus, broken, unanswered>>

\* A push that never arrives.
PushLost(p) ==
  /\ Lossy
  /\ p \in pushes
  /\ pushes' = pushes \ {p}
  /\ UNCHANGED <<ref, attempts, lpc, answer, seen, releaseStatus, broken, unanswered>>

-----------------------------------------------------------------------------
(***************************************************************************)
(* acquire, and the polling loop around it.                                *)
(***************************************************************************)

\* One attempt: a fresh commit, pushed with --force-with-lease=<ref>: (the first attempt, or
\* the next one of a wait, after the poll's sleep).
SendAcquire(i) ==
  /\ lpc[i] \in {"idle", "held"}
  /\ attempts[i] < MaxAttempts
  /\ attempts' = [attempts EXCEPT ![i] = @ + 1]
  /\ pushes' = pushes \cup {Push("create", NewCommit(i, attempts[i] + 1))}
  /\ lpc' = [lpc EXCEPT ![i] = "acquiring"]
  /\ answer' = [answer EXCEPT ![i] = "none"]
  /\ UNCHANGED <<ref, seen, releaseStatus, broken, unanswered>>

\* git mktree or git commit-tree failed: could-not-execute, nothing was pushed.
CommitFails(i) ==
  /\ lpc[i] \in {"idle", "held"}
  /\ attempts[i] < MaxAttempts
  /\ lpc' = [lpc EXCEPT ![i] = "refused"]
  /\ UNCHANGED <<ref, pushes, attempts, answer, seen, releaseStatus, broken, unanswered>>

AcquireSucceeds(i) ==
  /\ lpc[i] = "acquiring"
  /\ answer[i] = "ok"
  /\ lpc' = [lpc EXCEPT ![i] = "acquired"]
  /\ UNCHANGED <<ref, pushes, attempts, answer, seen, releaseStatus, broken, unanswered>>

\* Mutant of AcquirePushFails: a push whose answer is lost counts as acquired.
LostAnswerAcquires(i) ==
  /\ lpc[i] = "acquiring"
  /\ answer[i] = "rejected" \/ Lossy
  /\ lpc' = [lpc EXCEPT ![i] = IF answer[i] = "rejected" THEN "reading" ELSE "acquired"]
  /\ answer' = [answer EXCEPT ![i] = "none"]
  /\ UNCHANGED <<ref, pushes, attempts, seen, releaseStatus, broken, unanswered>>

\* The push came back non-zero: the remote refused it, or the answer was lost or late.
AcquirePushFails(i) ==
  /\ lpc[i] = "acquiring"
  /\ answer[i] = "rejected" \/ Lossy
  /\ lpc' = [lpc EXCEPT ![i] = "reading"]
  /\ answer' = [answer EXCEPT ![i] = "none"]
  /\ unanswered' = IF answer[i] = "rejected" THEN unanswered ELSE unanswered \cup {OidOf(i)}
  /\ UNCHANGED <<ref, pushes, attempts, seen, releaseStatus, broken>>

\* Mutant of ReadHolder: the holder's name is kept where the object id belongs.
ReadHolderName(i) ==
  /\ lpc[i] = "reading"
  /\ lpc' = [lpc EXCEPT ![i] = IF ref = NoOid THEN "refused" ELSE "held"]
  /\ seen' = [seen EXCEPT ![i] = IF ref = NoOid THEN NoOid ELSE HolderOf(ref)]
  /\ UNCHANGED <<ref, pushes, attempts, answer, releaseStatus, broken, unanswered>>

\* "Whether that is a lost race or a broken remote is read, not guessed": any reference is
\* HELD, no reference is could-not-execute.
ReadHolder(i) ==
  /\ lpc[i] = "reading"
  /\ lpc' = [lpc EXCEPT ![i] = IF ref = NoOid THEN "refused" ELSE "held"]
  /\ seen' = [seen EXCEPT ![i] = ref]
  /\ UNCHANGED <<ref, pushes, attempts, answer, releaseStatus, broken, unanswered>>

\* git ls-remote failed too: could-not-execute.
ReadFails(i) ==
  /\ Lossy
  /\ lpc[i] = "reading"
  /\ lpc' = [lpc EXCEPT ![i] = "refused"]
  /\ UNCHANGED <<ref, pushes, attempts, answer, seen, releaseStatus, broken, unanswered>>

\* Mutant of StopWaiting: a wait without a deadline.
NeverStopWaiting(i) ==
  /\ FALSE
  /\ lpc[i] = "held"
  /\ UNCHANGED leaseVars

\* --lease-wait seconds have gone by: acquire_lease returns HELD.
StopWaiting(i) ==
  /\ lpc[i] = "held"
  /\ lpc' = [lpc EXCEPT ![i] = "refused"]
  /\ UNCHANGED <<ref, pushes, attempts, answer, seen, releaseStatus, broken, unanswered>>

-----------------------------------------------------------------------------
(***************************************************************************)
(* release.                                                                *)
(***************************************************************************)

\* A delete expecting the object id acquire returned.
SendRelease(i) ==
  /\ lpc[i] = "acquired"
  /\ pushes' = pushes \cup {Push("delete", OidOf(i))}
  /\ lpc' = [lpc EXCEPT ![i] = "releasing"]
  /\ answer' = [answer EXCEPT ![i] = "none"]
  /\ UNCHANGED <<ref, attempts, seen, releaseStatus, broken, unanswered>>

ReleaseSucceeds(i) ==
  /\ lpc[i] = "releasing"
  /\ answer[i] = "ok"
  /\ lpc' = [lpc EXCEPT ![i] = "done"]
  /\ releaseStatus' = [releaseStatus EXCEPT ![i] = "released"]
  /\ UNCHANGED <<ref, pushes, attempts, answer, seen, broken, unanswered>>

ReleasePushFails(i) ==
  /\ lpc[i] = "releasing"
  /\ answer[i] = "rejected" \/ Lossy
  /\ lpc' = [lpc EXCEPT ![i] = "confirming"]
  /\ answer' = [answer EXCEPT ![i] = "none"]
  /\ UNCHANGED <<ref, pushes, attempts, seen, releaseStatus, broken, unanswered>>

\* Mutant of ConfirmRelease: a failed delete counts as not-held without looking.
ConfirmNothing(i) ==
  /\ lpc[i] = "confirming"
  /\ lpc' = [lpc EXCEPT ![i] = "done"]
  /\ releaseStatus' = [releaseStatus EXCEPT ![i] = "not-held"]
  /\ UNCHANGED <<ref, pushes, attempts, answer, seen, broken, unanswered>>

\* The reference is read again: gone or another's is not-held, still ours is could-not-execute.
ConfirmRelease(i) ==
  /\ lpc[i] = "confirming"
  /\ lpc' = [lpc EXCEPT ![i] = "done"]
  /\ \/ releaseStatus' = [releaseStatus EXCEPT ![i] =
                            IF ref # OidOf(i) THEN "not-held" ELSE "could-not-execute"]
     \/ /\ Lossy   \* git ls-remote failed
        /\ releaseStatus' = [releaseStatus EXCEPT ![i] = "could-not-execute"]
  /\ UNCHANGED <<ref, pushes, attempts, answer, seen, broken, unanswered>>

-----------------------------------------------------------------------------
(***************************************************************************)
(* What the lease cannot prevent.                                          *)
(***************************************************************************)

Ended == {"refused", "done", "gone"}

\* The invocation leaves its use of the lease wherever it is: its process died, or an
\* exception unwound the call.  Pushes on their way stay on their way.
Vanish(i) ==
  /\ lpc[i] \notin Ended
  /\ lpc' = [lpc EXCEPT ![i] = "gone"]
  /\ answer' = [answer EXCEPT ![i] = "none"]
  /\ UNCHANGED <<ref, pushes, attempts, seen, releaseStatus, broken, unanswered>>

\* environment_lease.py release --expect <object id>, run by a person.
OperatorReleases ==
  /\ ref # NoOid
  /\ CarefulOperator => lpc[HolderOf(ref)] \in Ended
  /\ ref' = NoOid
  /\ broken' = broken \cup {ref}
  /\ UNCHANGED <<pushes, attempts, lpc, answer, seen, releaseStatus, unanswered>>

-----------------------------------------------------------------------------
\* The steps of acquire and release that follow the decision to call them.
LeaseStep(i) ==
  \/ AcquireSucceeds(i)
  \/ AcquirePushFails(i)
  \/ ReadHolder(i)
  \/ ReadFails(i)
  \/ ReleaseSucceeds(i)
  \/ ReleasePushFails(i)
  \/ ConfirmRelease(i)

Network ==
  \/ \E p \in pushes : RemoteDecides(p) \/ PushLost(p)
  \/ OperatorReleases

LeaseNext ==
  \/ Network
  \/ \E i \in Invocations : \/ SendAcquire(i)
                            \/ CommitFails(i)
                            \/ StopWaiting(i)
                            \/ SendRelease(i)
                            \/ LeaseStep(i)
                            \/ Vanish(i)

LeaseSpec == LeaseInit /\ [][LeaseNext]_leaseVars

-----------------------------------------------------------------------------
(***************************************************************************)
(* Properties.                                                             *)
(***************************************************************************)

LeaseTypeOK ==
  /\ ref \in Oids \cup {NoOid}
  /\ pushes \subseteq [op : {"create", "delete"}, oid : Oids]
  /\ attempts \in [Invocations -> Nat]
  /\ lpc \in [Invocations -> {"idle", "acquiring", "reading", "held", "acquired",
                              "releasing", "confirming"} \cup Ended]
  /\ answer \in [Invocations -> {"none", "ok", "rejected"}]
  /\ seen \in [Invocations -> Oids \cup {NoOid}]
  /\ releaseStatus \in [Invocations -> {"none", "released", "not-held", "could-not-execute"}]
  /\ broken \subseteq Oids
  /\ unanswered \subseteq Oids

\* "Two hosts racing for the lease get exactly one winner": no two invocations believe they
\* hold the lease at once, whatever pushes are late, lost or answered late.
OneWinner ==
  \A i, j \in Invocations : lpc[i] = "acquired" /\ lpc[j] = "acquired" => i = j

\* The invocation left no lease behind that it knows of: what holds the environment in its name,
\* if anything does, is an attempt it went on from before the remote's answer came.
LeftNothing(i) ==
  ref # NoOid /\ HolderOf(ref) = i => ref \in unanswered \ {OidOf(i)}

\* A lease release reports returned (released, or not-held) is returned, and the only thing that
\* can hold the environment in that invocation's name afterwards is the late create of an attempt
\* whose answer it never got (no code withdraws such an attempt): never the lease it returned, and
\* never an attempt the remote had refused.
ReturnedStaysReturned ==
  \A i \in Invocations : releaseStatus[i] \in {"released", "not-held"} => LeftNothing(i)

\* "Someone else's lease is never deleted by a release": a step that frees the reference of an
\* invocation still in its pass is the effect of that invocation's own release, unless the
\* operator released it.
NeverTakenOver ==
  [][\A i \in Invocations :
        /\ ref # NoOid
        /\ HolderOf(ref) = i
        /\ ref' # ref
        /\ lpc[i] \notin Ended
        /\ broken' = broken
        => lpc[i] \in {"releasing", "confirming"} /\ ref' = NoOid]_leaseVars

\* The environment, seen through the lease.
Environment == INSTANCE SharedEnvironment WITH
  Nobody  <- NoOid,
  grantee <- IF ref = NoOid THEN NoOid ELSE HolderOf(ref),
  users   <- {i \in Invocations : lpc[i] = "acquired"}

\* The lease implements the shared environment's promise (while operators release only the
\* leases of runs that ended).
ImplementsEnvironment == Environment!Spec
=============================================================================
