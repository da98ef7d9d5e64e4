----------------------- MODULE EnvironmentLeaseProofs -----------------------
(***************************************************************************)
(* Proofs about EnvironmentLease for any set of invocations, any number of *)
(* attempts and any network.                                               *)
(***************************************************************************)
EXTENDS EnvironmentLease, TLAPS

\* A delete is pushed only by the invocation that was given the object id it names, after that
\* invocation stopped relying on the lease.
DeletesAreOwn ==
  \A p \in pushes :
    p.op = "delete" =>
      /\ p.oid = OidOf(HolderOf(p.oid))
      /\ lpc[HolderOf(p.oid)] \in {"releasing", "confirming", "done", "gone"}

\* A create the remote accepted is not on its way a second time.
CreateIsOver(i) == Push("create", OidOf(i)) \notin pushes

\* What an accepted create leaves behind: nothing of it is still on its way.
AcceptedCreates ==
  \A i \in Invocations :
    \/ lpc[i] \in {"acquired", "releasing", "confirming", "done"}
    \/ lpc[i] = "acquiring" /\ answer[i] = "ok"
    => CreateIsOver(i)

\* An accepted delete left no reference behind, and release reports only what it saw.
AcceptedDeletes ==
  \A i \in Invocations :
    /\ lpc[i] = "releasing" /\ answer[i] = "ok" => ref # OidOf(i)
    /\ releaseStatus[i] # "none" => lpc[i] = "done"
    /\ releaseStatus[i] \in {"released", "not-held"} => ref # OidOf(i)

\* The inductive invariant that holds with any operator.
LeaseIInv ==
  /\ LeaseTypeOK
  /\ DeletesAreOwn
  /\ AcceptedCreates
  /\ AcceptedDeletes

\* With a careful operator, an invocation that has been told it acquired the lease, or whose
\* push the remote accepted, is the reference's holder.
HolderHolds ==
  \A i \in Invocations :
    \/ lpc[i] = "acquired"
    \/ lpc[i] = "acquiring" /\ answer[i] = "ok"
    => ref = OidOf(i)

-----------------------------------------------------------------------------
\* A commit's object id is well-typed and names its invocation.
LEMMA OidFacts ==
  ASSUME LeaseTypeOK, NEW i \in Invocations
  PROVE  /\ OidOf(i) \in Oids
         /\ HolderOf(OidOf(i)) = i
         /\ OidOf(i) # NoOid
  BY LeaseAssumption DEF LeaseTypeOK, OidOf, NewCommit, HolderOf, Oids

\* The type invariant is inductive on its own.
LEMMA TypeStep ==
  ASSUME LeaseTypeOK, [LeaseNext]_leaseVars
  PROVE  LeaseTypeOK'
<1> USE LeaseAssumption DEF LeaseTypeOK, Oids, Ended
<1>1. ASSUME NEW p \in pushes, RemoteDecides(p)
      PROVE  LeaseTypeOK'
  <2>1. p \in [op : {"create", "delete"}, oid : Invocations \X Nat]
    OBVIOUS
  <2>2. HolderOf(p.oid) \in Invocations
    BY <2>1 DEF HolderOf
  <2>3. QED
    BY <1>1, <2>1, <2>2 DEF RemoteDecides
<1>2. ASSUME NEW p \in pushes, PushLost(p)
      PROVE  LeaseTypeOK'
  BY <1>2 DEF PushLost
<1>3. ASSUME OperatorReleases
      PROVE  LeaseTypeOK'
  BY <1>3 DEF OperatorReleases
<1>4. ASSUME NEW i \in Invocations, SendAcquire(i)
      PROVE  LeaseTypeOK'
  <2>1. Push("create", NewCommit(i, attempts[i] + 1)) \in [op : {"create", "delete"}, oid : Oids]
    BY DEF Push, NewCommit
  <2>2. QED
    BY <1>4, <2>1 DEF SendAcquire
<1>5. ASSUME NEW i \in Invocations, SendRelease(i)
      PROVE  LeaseTypeOK'
  <2>1. Push("delete", OidOf(i)) \in [op : {"create", "delete"}, oid : Oids]
    BY OidFacts DEF Push
  <2>2. QED
    BY <1>5, <2>1 DEF SendRelease
<1>6. ASSUME NEW i \in Invocations, CommitFails(i) \/ StopWaiting(i) \/ Vanish(i)
      PROVE  LeaseTypeOK'
  BY <1>6 DEF CommitFails, StopWaiting, Vanish
<1>7. ASSUME NEW i \in Invocations, LeaseStep(i)
      PROVE  LeaseTypeOK'
  <2>1. CASE AcquireSucceeds(i) \/ AcquirePushFails(i)
    <3>1. OidOf(i) \in Oids
      BY OidFacts
    <3>2. QED
      BY <2>1, <3>1 DEF AcquireSucceeds, AcquirePushFails
  <2>2. CASE ReadHolder(i) \/ ReadFails(i)
    BY <2>2 DEF ReadHolder, ReadFails
  <2>3. CASE ReleaseSucceeds(i) \/ ReleasePushFails(i)
    BY <2>3 DEF ReleaseSucceeds, ReleasePushFails
  <2>4. CASE ConfirmRelease(i)
    BY <2>4 DEF ConfirmRelease
  <2>5. QED
    BY <1>7, <2>1, <2>2, <2>3, <2>4 DEF LeaseStep
<1>8. CASE UNCHANGED leaseVars
  BY <1>8 DEF leaseVars
<1>9. QED
  BY <1>1, <1>2, <1>3, <1>4, <1>5, <1>6, <1>7, <1>8 DEF LeaseNext, Network

\* LeaseTypeOK holds in every state of the lease: the object ids on the remote and on their way
\* are commits some invocation made, and every status is one the backend returns.
THEOREM TypeCorrect == LeaseSpec => []LeaseTypeOK
<1>1. LeaseInit => LeaseTypeOK
  BY LeaseAssumption DEF LeaseInit, LeaseTypeOK, Ended, Oids
<1>2. LeaseTypeOK /\ [LeaseNext]_leaseVars => LeaseTypeOK'
  BY TypeStep
<1>3. QED
  BY <1>1, <1>2, PTL DEF LeaseSpec

-----------------------------------------------------------------------------
(***************************************************************************)
(* The remote's step: the only one that moves the reference, but for the   *)
(* operator's.                                                             *)
(***************************************************************************)
LEMMA RemoteStep ==
  ASSUME LeaseIInv, NEW p \in pushes, RemoteDecides(p)
  PROVE  LeaseIInv'
<1> DEFINE h == HolderOf(p.oid)
<1> USE LeaseAssumption
<1>1. /\ p \in [op : {"create", "delete"}, oid : Oids]
      /\ h \in Invocations
  BY DEF LeaseIInv, LeaseTypeOK, Oids, HolderOf
<1>2. LeaseTypeOK'
  BY TypeStep DEF LeaseIInv, LeaseNext, Network
<1>3. /\ pushes' = pushes \ {p}
      /\ \A i \in Invocations : OidOf(i)' = OidOf(i)
      /\ UNCHANGED <<attempts, lpc, releaseStatus>>
  BY DEF RemoteDecides, OidOf, NewCommit
<1>4. DeletesAreOwn'
  <2>1. \A q \in pushes : HolderOf(q.oid) \in Invocations
    BY DEF LeaseIInv, LeaseTypeOK, Oids, HolderOf
  <2>2. QED
    BY <1>3, <2>1 DEF LeaseIInv, DeletesAreOwn, OidOf, HolderOf
<1>5. ASSUME NEW i \in Invocations, answer'[i] = "ok", answer[i] # "ok"
      PROVE  /\ i = h
             /\ p.oid = OidOf(i)
             /\ Accepts(p)
             /\ lpc[i] = IF p.op = "create" THEN "acquiring" ELSE "releasing"
  BY <1>1, <1>5 DEF RemoteDecides, Awaited, LeaseIInv, LeaseTypeOK
<1>6. AcceptedCreates'
  <2> SUFFICES ASSUME NEW i \in Invocations,
                      \/ lpc[i] \in {"acquired", "releasing", "confirming", "done"}
                      \/ lpc[i] = "acquiring" /\ answer'[i] = "ok"
               PROVE  Push("create", OidOf(i)) \notin pushes \ {p}
    BY <1>3 DEF AcceptedCreates, CreateIsOver
  <2>1. CASE lpc[i] = "acquiring" /\ answer'[i] = "ok" /\ answer[i] # "ok"
    <3>1. p = Push("create", OidOf(i))
      BY <1>1, <1>5, <2>1 DEF Push
    <3>2. QED
      BY <3>1
  <2>2. CASE ~(lpc[i] = "acquiring" /\ answer'[i] = "ok" /\ answer[i] # "ok")
    BY <2>2 DEF LeaseIInv, AcceptedCreates, CreateIsOver
  <2>3. QED
    BY <2>1, <2>2
<1>7. ASSUME NEW i \in Invocations, ref # OidOf(i), ref' = OidOf(i)
      PROVE  p = Push("create", OidOf(i))
  <2>1. OidOf(i) # NoOid
    BY OidFacts DEF LeaseIInv
  <2>2. QED
    BY <1>1, <1>7, <2>1 DEF RemoteDecides, Push
<1>8. AcceptedDeletes'
  <2> SUFFICES ASSUME NEW i \in Invocations
               PROVE  /\ lpc[i] = "releasing" /\ answer'[i] = "ok" => ref' # OidOf(i)
                      /\ releaseStatus[i] # "none" => lpc[i] = "done"
                      /\ releaseStatus[i] \in {"released", "not-held"} => ref' # OidOf(i)
    BY <1>3 DEF AcceptedDeletes
  <2>1. lpc[i] \in {"releasing", "done"} => p # Push("create", OidOf(i))
    BY DEF LeaseIInv, AcceptedCreates, CreateIsOver
  <2>2. ASSUME lpc[i] = "releasing", answer'[i] = "ok"
        PROVE  ref' # OidOf(i)
    <3>1. CASE answer[i] = "ok"
      BY <1>7, <2>1, <2>2, <3>1 DEF LeaseIInv, AcceptedDeletes
    <3>2. CASE answer[i] # "ok"
      <4>1. p.op = "delete" /\ Accepts(p)
        BY <1>1, <1>5, <2>2, <3>2
      <4>2. ref' = NoOid
        BY <4>1 DEF RemoteDecides
      <4>3. QED
        BY <4>2, OidFacts DEF LeaseIInv
    <3>3. QED
      BY <3>1, <3>2
  <2>3. releaseStatus[i] # "none" => lpc[i] = "done"
    BY DEF LeaseIInv, AcceptedDeletes
  <2>4. ASSUME releaseStatus[i] \in {"released", "not-held"}
        PROVE  ref' # OidOf(i)
    BY <1>7, <2>1, <2>3, <2>4 DEF LeaseIInv, AcceptedDeletes
  <2>5. QED
    BY <2>2, <2>3, <2>4
<1>9. QED
  BY <1>2, <1>4, <1>6, <1>8 DEF LeaseIInv

-----------------------------------------------------------------------------
(***************************************************************************)
(* The client's steps: each moves one invocation, and the other            *)
(* invocations' pushes, answers and object ids are not touched.            *)
(***************************************************************************)
LEMMA AttemptStep ==
  ASSUME LeaseIInv, NEW i \in Invocations, SendAcquire(i)
  PROVE  LeaseIInv'
<1> DEFINE new == Push("create", NewCommit(i, attempts[i] + 1))
<1> USE LeaseAssumption
<1>1. LeaseTypeOK'
  BY TypeStep DEF LeaseIInv, LeaseNext
<1>2. /\ lpc[i] \in {"idle", "held"}
      /\ lpc' = [lpc EXCEPT ![i] = "acquiring"]
      /\ answer' = [answer EXCEPT ![i] = "none"]
      /\ attempts' = [attempts EXCEPT ![i] = @ + 1]
      /\ pushes' = pushes \cup {new}
      /\ UNCHANGED <<ref, releaseStatus>>
  BY DEF SendAcquire
<1>3. \A j \in Invocations \ {i} : OidOf(j)' = OidOf(j) /\ new # Push("create", OidOf(j))
  BY <1>2 DEF OidOf, NewCommit, Push, LeaseIInv, LeaseTypeOK
<1>4. \A q \in pushes : HolderOf(q.oid) \in Invocations
  BY DEF LeaseIInv, LeaseTypeOK, Oids, HolderOf
<1>5. DeletesAreOwn'
  <2> SUFFICES ASSUME NEW q \in pushes', q.op = "delete"
               PROVE  /\ q.oid = OidOf(HolderOf(q.oid))'
                      /\ lpc'[HolderOf(q.oid)] \in {"releasing", "confirming", "done", "gone"}
    BY DEF DeletesAreOwn, OidOf, NewCommit, HolderOf
  <2>1. q \in pushes /\ HolderOf(q.oid) # i
    BY <1>2, <1>4 DEF Push, LeaseIInv, DeletesAreOwn
  <2>2. QED
    BY <1>2, <1>3, <1>4, <2>1 DEF LeaseIInv, DeletesAreOwn, LeaseTypeOK
<1>6. AcceptedCreates'
  BY <1>2, <1>3 DEF LeaseIInv, LeaseTypeOK, AcceptedCreates, CreateIsOver, Push
<1>7. AcceptedDeletes'
  BY <1>2, <1>3 DEF LeaseIInv, LeaseTypeOK, AcceptedDeletes
<1>8. QED
  BY <1>1, <1>5, <1>6, <1>7 DEF LeaseIInv

LEMMA ClientStep ==
  ASSUME LeaseIInv, NEW i \in Invocations,
         \/ CommitFails(i) \/ StopWaiting(i) \/ SendRelease(i) \/ LeaseStep(i) \/ Vanish(i)
  PROVE  LeaseIInv'
<1> USE LeaseAssumption
<1>1. LeaseTypeOK'
  BY TypeStep DEF LeaseIInv, LeaseNext
<1>2. UNCHANGED <<ref, attempts>> /\ \A j \in Invocations : OidOf(j)' = OidOf(j)
  BY DEF CommitFails, StopWaiting, SendRelease, LeaseStep, Vanish, AcquireSucceeds,
         AcquirePushFails, ReadHolder, ReadFails, ReleaseSucceeds, ReleasePushFails,
         ConfirmRelease, OidOf, NewCommit
<1>3. \A q \in pushes : HolderOf(q.oid) \in Invocations
  BY DEF LeaseIInv, LeaseTypeOK, Oids, HolderOf
<1>4. CASE SendRelease(i)
  <2>1. OidOf(i) \in Oids /\ HolderOf(OidOf(i)) = i
    BY OidFacts DEF LeaseIInv
  <2>2. /\ lpc[i] = "acquired"
        /\ lpc' = [lpc EXCEPT ![i] = "releasing"]
        /\ answer' = [answer EXCEPT ![i] = "none"]
        /\ pushes' = pushes \cup {Push("delete", OidOf(i))}
        /\ UNCHANGED releaseStatus
    BY <1>4 DEF SendRelease
  <2>3. DeletesAreOwn'
    <3> SUFFICES ASSUME NEW q \in pushes', q.op = "delete"
                 PROVE  /\ q.oid = OidOf(HolderOf(q.oid))'
                        /\ lpc'[HolderOf(q.oid)] \in {"releasing", "confirming", "done", "gone"}
      BY DEF DeletesAreOwn, OidOf, NewCommit, HolderOf
    <3>1. CASE q = Push("delete", OidOf(i))
      BY <1>2, <2>1, <2>2, <3>1 DEF Push, LeaseIInv, LeaseTypeOK
    <3>2. CASE q \in pushes
      BY <1>2, <1>3, <2>2, <3>2 DEF LeaseIInv, DeletesAreOwn, LeaseTypeOK
    <3>3. QED
      BY <2>2, <3>1, <3>2
  <2>4. AcceptedCreates' /\ AcceptedDeletes'
    BY <1>2, <2>2 DEF LeaseIInv, LeaseTypeOK, AcceptedCreates, CreateIsOver, AcceptedDeletes, Push
  <2>5. QED
    BY <1>1, <2>3, <2>4 DEF LeaseIInv
<1>5. CASE ~SendRelease(i)
  <2>1. pushes' = pushes
    BY <1>5 DEF CommitFails, StopWaiting, LeaseStep, Vanish, AcquireSucceeds, AcquirePushFails,
                ReadHolder, ReadFails, ReleaseSucceeds, ReleasePushFails, ConfirmRelease
  <2>2. DeletesAreOwn'
    <3>1. \A j \in Invocations :
            lpc[j] \in {"releasing", "confirming", "done", "gone"} =>
              lpc'[j] \in {"releasing", "confirming", "done", "gone"}
      BY <1>5 DEF CommitFails, StopWaiting, LeaseStep, Vanish, AcquireSucceeds, AcquirePushFails,
                  ReadHolder, ReadFails, ReleaseSucceeds, ReleasePushFails, ConfirmRelease,
                  LeaseIInv, LeaseTypeOK, Ended
    <3>2. QED
      BY <1>2, <1>3, <2>1, <3>1 DEF LeaseIInv, DeletesAreOwn, HolderOf
  <2>3. AcceptedCreates'
    <3>1. ASSUME NEW j \in Invocations,
                 \/ lpc'[j] \in {"acquired", "releasing", "confirming", "done"}
                 \/ lpc'[j] = "acquiring" /\ answer'[j] = "ok"
          PROVE  \/ lpc[j] \in {"acquired", "releasing", "confirming", "done"}
                 \/ lpc[j] = "acquiring" /\ answer[j] = "ok"
      BY <1>5, <3>1 DEF CommitFails, StopWaiting, LeaseStep, Vanish, AcquireSucceeds,
           AcquirePushFails, ReadHolder, ReadFails, ReleaseSucceeds, ReleasePushFails,
           ConfirmRelease, LeaseIInv, LeaseTypeOK, Ended
    <3>2. QED
      BY <1>2, <2>1, <3>1 DEF LeaseIInv, AcceptedCreates, CreateIsOver
  <2>4. AcceptedDeletes'
    BY <1>2, <1>5 DEF CommitFails, StopWaiting, LeaseStep, Vanish, AcquireSucceeds,
         AcquirePushFails, ReadHolder, ReadFails, ReleaseSucceeds, ReleasePushFails,
         ConfirmRelease, LeaseIInv, LeaseTypeOK, AcceptedDeletes, Ended
  <2>5. QED
    BY <1>1, <2>2, <2>3, <2>4 DEF LeaseIInv
<1>6. QED
  BY <1>4, <1>5

LEMMA OtherStep ==
  ASSUME LeaseIInv,
         \/ \E p \in pushes : PushLost(p)
         \/ OperatorReleases
         \/ UNCHANGED leaseVars
  PROVE  LeaseIInv'
<1> USE LeaseAssumption
<1>1. LeaseTypeOK'
  BY TypeStep DEF LeaseIInv, LeaseNext, Network
<1>2. /\ pushes' \subseteq pushes
      /\ ref' \in {ref, NoOid}
      /\ UNCHANGED <<attempts, lpc, answer, releaseStatus>>
  BY DEF PushLost, OperatorReleases, leaseVars
<1>3. \A j \in Invocations : OidOf(j)' = OidOf(j) /\ OidOf(j) # NoOid
  BY <1>2, OidFacts DEF OidOf, NewCommit, LeaseIInv
<1>4. \A q \in pushes : HolderOf(q.oid) \in Invocations
  BY DEF LeaseIInv, LeaseTypeOK, Oids, HolderOf
<1>5. DeletesAreOwn'
  BY <1>2, <1>3, <1>4 DEF LeaseIInv, DeletesAreOwn, HolderOf
<1>6. AcceptedCreates' /\ AcceptedDeletes'
  BY <1>2, <1>3 DEF LeaseIInv, AcceptedCreates, CreateIsOver, AcceptedDeletes
<1>7. QED
  BY <1>1, <1>5, <1>6 DEF LeaseIInv

LEMMA IInvStep ==
  ASSUME LeaseIInv, [LeaseNext]_leaseVars
  PROVE  LeaseIInv'
  BY RemoteStep, AttemptStep, ClientStep, OtherStep DEF LeaseNext, Network

LEMMA IInvInit == LeaseInit => LeaseIInv
  BY LeaseAssumption DEF LeaseInit, LeaseIInv, LeaseTypeOK, DeletesAreOwn, AcceptedCreates,
     CreateIsOver, AcceptedDeletes, Oids, Ended

-----------------------------------------------------------------------------
(***************************************************************************)
(* What an invocation leaves behind: only creates it went on from before   *)
(* they were answered.                                                     *)
(***************************************************************************)

\* The invocation is in, or past, its latest attempt, and the remote has not refused it.
AttemptStands(i) ==
  /\ lpc[i] \notin {"idle", "reading", "held"}
  /\ ~(lpc[i] = "acquiring" /\ answer[i] = "rejected")

\* A create that holds the environment, or may still come to hold it.
MayHold(oid) == ref = oid \/ Push("create", oid) \in pushes

\* Every such create is an attempt given up without an answer, or the latest attempt of its
\* invocation: an attempt the remote refused is over.
CreatesAccounted ==
  \A oid \in Oids :
    MayHold(oid) =>
      \/ oid \in unanswered
      \/ oid = OidOf(HolderOf(oid)) /\ AttemptStands(HolderOf(oid))

\* The step of one invocation's client keeps the accounts.
LEMMA AccountedClient ==
  ASSUME LeaseIInv, CreatesAccounted, NEW i \in Invocations,
         \/ SendAcquire(i) \/ CommitFails(i) \/ StopWaiting(i) \/ SendRelease(i)
         \/ LeaseStep(i) \/ Vanish(i)
  PROVE  CreatesAccounted'
<1> USE DEF LeaseIInv, LeaseTypeOK
<1> SUFFICES ASSUME NEW oid \in Oids, MayHold(oid)'
             PROVE  \/ oid \in unanswered'
                    \/ oid = OidOf(HolderOf(oid))' /\ AttemptStands(HolderOf(oid))'
  BY DEF CreatesAccounted, HolderOf
<1> DEFINE h == HolderOf(oid)
<1>1. h \in Invocations /\ unanswered \subseteq unanswered'
  BY DEF Oids, HolderOf, SendAcquire, CommitFails, StopWaiting, SendRelease, LeaseStep, Vanish,
         AcquireSucceeds, AcquirePushFails, ReadHolder, ReadFails, ReleaseSucceeds,
         ReleasePushFails, ConfirmRelease
<1>2. CASE SendAcquire(i)
  <2>1. \/ MayHold(oid)
        \/ oid = NewCommit(i, attempts[i] + 1)
    BY <1>2 DEF SendAcquire, MayHold, Push
  <2>2. CASE oid = NewCommit(i, attempts[i] + 1)
    <3>1. h = i /\ oid = OidOf(i)'
      BY <1>2, <2>2 DEF SendAcquire, OidOf, NewCommit, HolderOf
    <3>2. QED
      BY <1>2, <3>1 DEF SendAcquire, AttemptStands, HolderOf, OidOf
  <2>3. CASE MayHold(oid) /\ oid \notin unanswered
    <3>1. oid = OidOf(h) /\ AttemptStands(h)
      BY <2>3 DEF CreatesAccounted
    <3>2. h # i
      BY <1>2, <3>1 DEF SendAcquire, AttemptStands
    <3>3. QED
      BY <1>1, <1>2, <3>1, <3>2 DEF SendAcquire, AttemptStands, OidOf, NewCommit, HolderOf
  <2>4. QED
    BY <1>1, <2>1, <2>2, <2>3
<1>3. CASE CommitFails(i) \/ StopWaiting(i) \/ SendRelease(i) \/ LeaseStep(i) \/ Vanish(i)
  <2>1. MayHold(oid) /\ attempts' = attempts /\ OidOf(h)' = OidOf(h)
    BY <1>3 DEF CommitFails, StopWaiting, SendRelease, LeaseStep, Vanish, AcquireSucceeds,
         AcquirePushFails, ReadHolder, ReadFails, ReleaseSucceeds, ReleasePushFails,
         ConfirmRelease, MayHold, Push, OidOf, NewCommit
  <2>2. CASE oid \in unanswered
    BY <1>1, <2>2
  <2>3. CASE oid \notin unanswered
    <3>1. oid = OidOf(h) /\ AttemptStands(h)
      BY <2>1, <2>3 DEF CreatesAccounted
    <3>2. CASE AcquirePushFails(i) /\ h = i
      BY <3>1, <3>2 DEF AcquirePushFails, AttemptStands
    <3>3. CASE ~(AcquirePushFails(i) /\ h = i)
      <4>1. AttemptStands(h)'
        BY <1>1, <1>3, <3>1, <3>3 DEF CommitFails, StopWaiting, SendRelease, LeaseStep, Vanish,
             AcquireSucceeds, AcquirePushFails, ReadHolder, ReadFails, ReleaseSucceeds,
             ReleasePushFails, ConfirmRelease, AttemptStands, Ended
      <4>2. QED
        BY <2>1, <3>1, <4>1 DEF HolderOf
    <3>4. QED
      BY <3>2, <3>3
  <2>4. QED
    BY <2>2, <2>3
<1>4. QED
  BY <1>2, <1>3

\* The network's step keeps the accounts: a refused create is over, and holds nothing.
LEMMA AccountedRemote ==
  ASSUME LeaseIInv, CreatesAccounted,
         \/ \E p \in pushes : RemoteDecides(p) \/ PushLost(p)
         \/ OperatorReleases
         \/ UNCHANGED leaseVars
  PROVE  CreatesAccounted'
<1> USE DEF LeaseIInv, LeaseTypeOK
<1> SUFFICES ASSUME NEW oid \in Oids, MayHold(oid)'
             PROVE  \/ oid \in unanswered'
                    \/ oid = OidOf(HolderOf(oid))' /\ AttemptStands(HolderOf(oid))'
  BY DEF CreatesAccounted, HolderOf
<1> DEFINE h == HolderOf(oid)
<1>1. h \in Invocations /\ oid # NoOid
  BY LeaseAssumption DEF Oids, HolderOf
<1>2. /\ MayHold(oid)
      /\ OidOf(h)' = OidOf(h)
      /\ UNCHANGED <<lpc, unanswered>>
  <2>1. CASE \E p \in pushes : RemoteDecides(p)
    <3>1. PICK p \in pushes : RemoteDecides(p)
      BY <2>1
    <3>2. p.op = "create" => p = Push("create", p.oid)
      BY DEF Push
    <3>3. QED
      BY <1>1, <3>1, <3>2 DEF RemoteDecides, MayHold, OidOf, NewCommit
  <2>2. CASE ~\E p \in pushes : RemoteDecides(p)
    BY <1>1, <2>2 DEF PushLost, OperatorReleases, leaseVars, MayHold, OidOf, NewCommit
  <2>3. QED
    BY <2>1, <2>2
<1>3. CASE oid \in unanswered
  BY <1>2, <1>3
<1>4. CASE oid \notin unanswered
  <2>1. oid = OidOf(h) /\ AttemptStands(h)
    BY <1>2, <1>4 DEF CreatesAccounted
  <2>2. ~(lpc[h] = "acquiring" /\ answer'[h] = "rejected" /\ answer[h] # "rejected")
    <3> SUFFICES ASSUME lpc[h] = "acquiring", answer'[h] = "rejected", answer[h] # "rejected"
                 PROVE  FALSE
      OBVIOUS
    <3>1. PICK p \in pushes : RemoteDecides(p)
      BY DEF PushLost, OperatorReleases, leaseVars
    <3>2. /\ HolderOf(p.oid) = h /\ Awaited(p) /\ ~Accepts(p)
      BY <1>1, <3>1 DEF RemoteDecides, HolderOf, Oids
    <3>3. p = Push("create", oid)
      BY <2>1, <3>2 DEF Awaited, Push
    <3>4. ref' = ref /\ ref # oid /\ Push("create", oid) \notin pushes'
      BY <3>1, <3>2, <3>3 DEF RemoteDecides, Accepts, Push
    <3>5. QED
      BY <3>4 DEF MayHold, Push
  <2>3. AttemptStands(h)'
    BY <1>2, <2>1, <2>2 DEF AttemptStands
  <2>4. QED
    BY <1>2, <2>1, <2>3 DEF HolderOf
<1>5. QED
  BY <1>3, <1>4

LEMMA CreatesInvariant == LeaseSpec => [](LeaseIInv /\ CreatesAccounted)
<1>1. LeaseInit => CreatesAccounted
  BY LeaseAssumption DEF LeaseInit, CreatesAccounted, MayHold, Oids
<1>2. LeaseIInv /\ CreatesAccounted /\ [LeaseNext]_leaseVars => CreatesAccounted'
  BY AccountedClient, AccountedRemote DEF LeaseNext, Network
<1>3. QED
  BY <1>1, <1>2, IInvInit, IInvStep, PTL DEF LeaseSpec

\* A lease that holds the environment in the name of an invocation is one whose answer it never
\* got, once the invocation's own lease is no longer there.
LEMMA NothingKnownIsLeft ==
  ASSUME LeaseIInv, CreatesAccounted, NEW i \in Invocations, ref # OidOf(i)
  PROVE  LeftNothing(i)
  BY DEF LeaseIInv, LeaseTypeOK, CreatesAccounted, MayHold, LeftNothing

\* A lease that release reported back (released, or not-held) is back for good, and what can hold
\* the environment in its invocation's name afterwards is only the late create of an attempt whose
\* answer never came, with any operator and network.
THEOREM ReturnedForGood == LeaseSpec => []ReturnedStaysReturned
<1>1. LeaseIInv /\ CreatesAccounted => ReturnedStaysReturned
  BY NothingKnownIsLeft DEF LeaseIInv, AcceptedDeletes, ReturnedStaysReturned
<1>2. QED
  BY <1>1, CreatesInvariant, PTL

-----------------------------------------------------------------------------
(***************************************************************************)
(* With an operator who releases only the leases of runs that ended, an    *)
(* invocation that acquired the lease is its holder.                       *)
(***************************************************************************)
LEMMA HolderStep ==
  ASSUME CarefulOperator, LeaseIInv, HolderHolds, [LeaseNext]_leaseVars
  PROVE  HolderHolds'
<1> USE LeaseAssumption
<1> SUFFICES ASSUME NEW i \in Invocations,
                    \/ lpc'[i] = "acquired"
                    \/ lpc'[i] = "acquiring" /\ answer'[i] = "ok"
             PROVE  ref' = OidOf(i)'
  BY DEF HolderHolds
<1>1. CASE \E p \in pushes : RemoteDecides(p)
  <2>1. PICK p \in pushes : RemoteDecides(p)
    BY <1>1
  <2>2. /\ p \in [op : {"create", "delete"}, oid : Oids]
        /\ HolderOf(p.oid) \in Invocations
    BY DEF LeaseIInv, LeaseTypeOK, Oids, HolderOf
  <2>3. lpc' = lpc /\ OidOf(i)' = OidOf(i)
    BY <2>1 DEF RemoteDecides, OidOf, NewCommit
  <2>4. CASE lpc[i] = "acquired" \/ answer[i] = "ok"
    <3>1. ref = OidOf(i)
      BY <2>3, <2>4 DEF HolderHolds
    <3>2. ~(p.op = "delete" /\ p.oid = OidOf(i))
      BY <2>3, OidFacts DEF LeaseIInv, DeletesAreOwn
    <3>3. OidOf(i) # NoOid
      BY OidFacts DEF LeaseIInv
    <3>4. QED
      BY <2>1, <2>2, <2>3, <3>1, <3>2, <3>3 DEF RemoteDecides, Accepts
  <2>5. CASE lpc[i] = "acquiring" /\ answer[i] # "ok" /\ answer'[i] = "ok"
    <3>1. i = HolderOf(p.oid) /\ Awaited(p) /\ Accepts(p)
      BY <2>1, <2>2, <2>5 DEF RemoteDecides, LeaseIInv, LeaseTypeOK
    <3>2. p.op = "create" /\ p.oid = OidOf(i)
      BY <2>2, <2>5, <3>1 DEF Awaited
    <3>3. QED
      BY <2>1, <2>3, <3>1, <3>2 DEF RemoteDecides
  <2>6. QED
    BY <2>3, <2>4, <2>5
<1>2. CASE \E p \in pushes : PushLost(p)
  BY <1>2 DEF PushLost, HolderHolds, OidOf, NewCommit
<1>3. CASE OperatorReleases
  <2>1. lpc' = lpc /\ answer' = answer /\ OidOf(i)' = OidOf(i)
    BY <1>3 DEF OperatorReleases, OidOf, NewCommit
  <2>2. ref = OidOf(i) /\ HolderOf(ref) = i
    BY <2>1, OidFacts DEF HolderHolds, LeaseIInv
  <2>3. QED
    BY <1>3, <2>1, <2>2 DEF OperatorReleases, Ended
<1>4. CASE \E j \in Invocations : SendAcquire(j)
  BY <1>4 DEF SendAcquire, HolderHolds, OidOf, NewCommit, LeaseIInv, LeaseTypeOK
<1>5. CASE \E j \in Invocations : \/ CommitFails(j) \/ StopWaiting(j) \/ SendRelease(j)
                                 \/ LeaseStep(j) \/ Vanish(j)
  BY <1>5 DEF CommitFails, StopWaiting, SendRelease, LeaseStep, Vanish, AcquireSucceeds,
       AcquirePushFails, ReadHolder, ReadFails, ReleaseSucceeds, ReleasePushFails, ConfirmRelease,
       HolderHolds, OidOf, NewCommit, LeaseIInv, LeaseTypeOK, Ended
<1>6. CASE UNCHANGED leaseVars
  BY <1>6 DEF leaseVars, HolderHolds, OidOf, NewCommit
<1>7. QED
  BY <1>1, <1>2, <1>3, <1>4, <1>5, <1>6 DEF LeaseNext, Network

LEMMA CarefulInvariant ==
  ASSUME CarefulOperator
  PROVE  LeaseSpec => [](LeaseIInv /\ HolderHolds)
<1>1. LeaseInit => HolderHolds
  BY DEF LeaseInit, HolderHolds
<1>2. QED
  BY <1>1, IInvInit, IInvStep, HolderStep, PTL DEF LeaseSpec

\* "Two hosts racing for the lease get exactly one winner": no two invocations hold the lease at
\* once, for any number of invocations and attempts and any loss or delay of pushes and answers.
THEOREM LeaseIsExclusive ==
  ASSUME CarefulOperator
  PROVE  LeaseSpec => []OneWinner
<1>1. LeaseIInv /\ HolderHolds => OneWinner
  <2> SUFFICES ASSUME LeaseIInv, HolderHolds,
                      NEW i \in Invocations, NEW j \in Invocations,
                      lpc[i] = "acquired", lpc[j] = "acquired"
               PROVE  i = j
    BY DEF OneWinner
  <2>1. OidOf(i) = OidOf(j)
    BY DEF HolderHolds
  <2>2. QED
    BY <2>1 DEF OidOf, NewCommit
<1>2. QED
  BY <1>1, CarefulInvariant, PTL

\* "Someone else's lease is never deleted by a release": while an invocation is in its pass, only
\* its own release takes its reference off the remote.
THEOREM NobodyTakesOver ==
  ASSUME CarefulOperator
  PROVE  LeaseSpec => NeverTakenOver
<1> USE LeaseAssumption
<1> DEFINE Kept == \A i \in Invocations :
             /\ ref # NoOid
             /\ HolderOf(ref) = i
             /\ ref' # ref
             /\ lpc[i] \notin Ended
             /\ broken' = broken
             => lpc[i] \in {"releasing", "confirming"} /\ ref' = NoOid
<1>1. ASSUME LeaseIInv, [LeaseNext]_leaseVars
      PROVE  Kept
  <2> SUFFICES ASSUME NEW i \in Invocations, ref # NoOid, HolderOf(ref) = i, ref' # ref,
                      lpc[i] \notin Ended
               PROVE  lpc[i] \in {"releasing", "confirming"} /\ ref' = NoOid
    OBVIOUS
  <2>1. ~OperatorReleases
    BY DEF OperatorReleases
  <2>2. PICK p \in pushes : RemoteDecides(p)
    BY <1>1, <2>1 DEF LeaseNext, Network, leaseVars, PushLost, SendAcquire, CommitFails,
         StopWaiting, SendRelease, LeaseStep, Vanish, AcquireSucceeds, AcquirePushFails,
         ReadHolder, ReadFails, ReleaseSucceeds, ReleasePushFails, ConfirmRelease
  <2>3. p \in [op : {"create", "delete"}, oid : Oids]
    BY <1>1 DEF LeaseIInv, LeaseTypeOK
  <2>4. p.op = "delete" /\ p.oid = ref /\ ref' = NoOid
    BY <2>2, <2>3 DEF RemoteDecides, Accepts
  <2>5. lpc[i] \in {"releasing", "confirming", "done", "gone"}
    BY <1>1, <2>2, <2>4 DEF LeaseIInv, DeletesAreOwn
  <2>6. QED
    BY <2>4, <2>5 DEF Ended
<1>2. QED
  BY <1>1, CarefulInvariant, PTL DEF LeaseSpec, NeverTakenOver

-----------------------------------------------------------------------------
(***************************************************************************)
(* The lease implements SharedEnvironment: the remote's decisions are the  *)
(* grants and the taking back, the answers an invocation receives are its  *)
(* entering, and its release, crash or interrupt is its leaving.           *)
(***************************************************************************)
LEMMA EnvironmentStep ==
  ASSUME CarefulOperator, LeaseIInv, HolderHolds, HolderHolds', [LeaseNext]_leaseVars
  PROVE  [Environment!Next]_(Environment!vars)
<1> DEFINE grantee == IF ref = NoOid THEN NoOid ELSE HolderOf(ref)
           users   == {i \in Invocations : lpc[i] = "acquired"}
<1> USE LeaseAssumption
<1>0. \A i \in Invocations : lpc[i] = "acquired" => ref # NoOid /\ HolderOf(ref) = i
  BY OidFacts DEF HolderHolds, LeaseIInv
<1>1. CASE \E p \in pushes : RemoteDecides(p)
  <2>1. PICK p \in pushes : RemoteDecides(p)
    BY <1>1
  <2>2. /\ p \in [op : {"create", "delete"}, oid : Oids]
        /\ HolderOf(p.oid) \in Invocations
        /\ p.oid # NoOid
    BY DEF LeaseIInv, LeaseTypeOK, Oids, HolderOf
  <2>3. users' = users
    BY <2>1 DEF RemoteDecides
  <2>4. CASE ref' = ref
    BY <2>3, <2>4 DEF Environment!vars
  <2>5. CASE ref' # ref /\ p.op = "create"
    <3>1. ref = NoOid /\ ref' = p.oid
      BY <2>1, <2>2, <2>5 DEF RemoteDecides, Accepts
    <3>2. Environment!Grant(HolderOf(p.oid))
      BY <2>2, <2>3, <3>1 DEF Environment!Grant
    <3>3. QED
      BY <2>2, <3>2 DEF Environment!Next
  <2>6. CASE ref' # ref /\ p.op = "delete"
    <3>1. ref = p.oid /\ ref' = NoOid
      BY <2>1, <2>2, <2>6 DEF RemoteDecides, Accepts
    <3>2. lpc[HolderOf(p.oid)] # "acquired"
      BY <2>2, <2>6 DEF LeaseIInv, DeletesAreOwn
    <3>3. Environment!TakeBack(HolderOf(p.oid))
      BY <2>2, <2>3, <3>1, <3>2 DEF Environment!TakeBack
    <3>4. QED
      BY <2>2, <3>3 DEF Environment!Next
  <2>7. QED
    BY <2>2, <2>4, <2>5, <2>6
<1>2. CASE OperatorReleases
  <2>1. HolderOf(ref) \in Invocations
    BY <1>2 DEF OperatorReleases, LeaseIInv, LeaseTypeOK, Oids, HolderOf
  <2>2. Environment!TakeBack(HolderOf(ref))
    BY <1>2, <2>1 DEF OperatorReleases, Environment!TakeBack, Ended
  <2>3. QED
    BY <2>1, <2>2 DEF Environment!Next
<1>3. CASE \E i \in Invocations : AcquireSucceeds(i)
  <2>1. PICK i \in Invocations : AcquireSucceeds(i)
    BY <1>3
  <2>2. users' = users \cup {i} /\ ref' = ref
    BY <2>1 DEF AcquireSucceeds, LeaseIInv, LeaseTypeOK
  <2>3. ref # NoOid /\ HolderOf(ref) = i
    BY <2>1, OidFacts DEF AcquireSucceeds, HolderHolds, LeaseIInv
  <2>4. Environment!Enter(i)
    BY <2>2, <2>3 DEF Environment!Enter
  <2>5. QED
    BY <2>4 DEF Environment!Next
<1>4. CASE \E i \in Invocations : lpc[i] = "acquired" /\ (SendRelease(i) \/ Vanish(i))
  <2>1. PICK i \in Invocations : lpc[i] = "acquired" /\ (SendRelease(i) \/ Vanish(i))
    BY <1>4
  <2>2. users' = users \ {i} /\ ref' = ref
    BY <2>1 DEF SendRelease, Vanish, LeaseIInv, LeaseTypeOK
  <2>3. Environment!Leave(i)
    BY <2>1, <2>2 DEF Environment!Leave
  <2>4. QED
    BY <2>3 DEF Environment!Next
<1>5. ASSUME ref' = ref, users' = users
      PROVE  UNCHANGED Environment!vars
  BY <1>5 DEF Environment!vars
<1>6. CASE LeaseNext
  <2>1. CASE \E p \in pushes : PushLost(p)
    BY <1>5, <2>1 DEF PushLost
  <2>2. CASE Network
    BY <1>1, <1>2, <2>1, <2>2 DEF Network
  <2>3. ASSUME NEW i \in Invocations,
               \/ SendAcquire(i) \/ CommitFails(i) \/ StopWaiting(i)
               \/ SendRelease(i) \/ LeaseStep(i) \/ Vanish(i)
        PROVE  Environment!Next \/ UNCHANGED Environment!vars
    <3>1. CASE SendAcquire(i) \/ CommitFails(i) \/ StopWaiting(i)
      <4>1. users' = users /\ ref' = ref
        BY <3>1 DEF SendAcquire, CommitFails, StopWaiting, LeaseIInv, LeaseTypeOK
      <4>2. QED
        BY <1>5, <4>1
    <3>2. CASE LeaseStep(i) /\ ~AcquireSucceeds(i)
      <4>1. users' = users /\ ref' = ref
        BY <3>2 DEF LeaseStep, AcquirePushFails, ReadHolder, ReadFails, ReleaseSucceeds,
             ReleasePushFails, ConfirmRelease, LeaseIInv, LeaseTypeOK
      <4>2. QED
        BY <1>5, <4>1
    <3>3. CASE lpc[i] # "acquired" /\ (SendRelease(i) \/ Vanish(i))
      <4>1. users' = users /\ ref' = ref
        BY <3>3 DEF SendRelease, Vanish, LeaseIInv, LeaseTypeOK
      <4>2. QED
        BY <1>5, <4>1
    <3>4. QED
      BY <1>3, <1>4, <2>3, <3>1, <3>2, <3>3
  <2>4. QED
    BY <1>6, <2>2, <2>3 DEF LeaseNext
<1>7. CASE UNCHANGED leaseVars
  BY <1>5, <1>7 DEF leaseVars
<1>8. QED
  BY <1>6, <1>7

\* The lease keeps the promise SharedEnvironment makes to the runs that share the environment.
THEOREM LeaseImplementsEnvironment ==
  ASSUME CarefulOperator
  PROVE  LeaseSpec => ImplementsEnvironment
<1>1. LeaseInit => Environment!Init
  BY DEF LeaseInit, Environment!Init
<1>2. QED
  BY <1>1, CarefulInvariant, EnvironmentStep, PTL
     DEF LeaseSpec, ImplementsEnvironment, Environment!Spec
=============================================================================
