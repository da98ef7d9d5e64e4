------------------------- MODULE SharedEnvironment -------------------------
(***************************************************************************)
(* What the environment lease promises its callers: the shared             *)
(* non-production environment is granted to one invocation of the build    *)
(* loop at a time, an invocation uses it only while it is granted to it,   *)
(* and the grant is taken back only once that invocation has stopped using *)
(* the environment.  Nothing is said here of git, of pushes or of who      *)
(* takes the grant back: EnvironmentLease implements this specification.   *)
(***************************************************************************)
CONSTANTS Invocations,   \* invocations of build_loop.py --combined
          Nobody         \* the environment is free

VARIABLES grantee,       \* the invocation the environment is granted to
          users          \* the invocations using the environment

vars == <<grantee, users>>

Init == /\ grantee = Nobody
        /\ users = {}

Grant(i) == /\ grantee = Nobody
            /\ grantee' = i
            /\ UNCHANGED users

Enter(i) == /\ grantee = i
            /\ users' = users \cup {i}
            /\ UNCHANGED grantee

Leave(i) == /\ i \in users
            /\ users' = users \ {i}
            /\ UNCHANGED grantee

TakeBack(i) == /\ grantee = i
               /\ i \notin users
               /\ grantee' = Nobody
               /\ UNCHANGED users

Next == \E i \in Invocations : Grant(i) \/ Enter(i) \/ Leave(i) \/ TakeBack(i)

Spec == Init /\ [][Next]_vars
=============================================================================
