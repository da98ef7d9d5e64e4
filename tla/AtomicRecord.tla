---------------------------- MODULE AtomicRecord ----------------------------
(***************************************************************************)
(* What saga's per-issue run record promises its writers, with no lock and *)
(* no memory in sight: every write is one step on the record as it is, an  *)
(* addition to a unit row's usage is never taken back by another writer,   *)
(* and the orchestrate driver's save, which writes whole rows, touches     *)
(* neither the keys of the record it does not own nor, inside the rows it  *)
(* has seen on the record, the keys of other writers.                      *)
(*                                                                         *)
(* A row may still leave the record, or be written afresh: "a row this run *)
(* does not hold is not written back" and a fresh row carries nothing.     *)
(***************************************************************************)
CONSTANTS Units,      \* the unit rows the record may hold
          Writers,    \* the processes that change one key each
          Drivers,    \* the orchestrate processes
          Nobody

VARIABLES record,     \* next_step, units (the rows there are) and the usage of every row
          known       \* the rows each driver has seen on the record

vars == <<record, known>>

Init ==
  /\ record \in [next_step : {Nobody}, units : SUBSET Units, usage : {[u \in Units |-> {}]}]
  /\ known = [d \in Drivers |-> {}]

SetNextStep(w) ==
  /\ record' = [record EXCEPT !.next_step = w]
  /\ UNCHANGED known

AddUsage(w, u) ==
  /\ u \in record.units
  /\ record' = [record EXCEPT !.usage[u] = @ \cup {w}]
  /\ UNCHANGED known

Look(d) ==
  /\ known' = [known EXCEPT ![d] = record.units]
  /\ UNCHANGED record

Forget(d) ==
  /\ known' = [known EXCEPT ![d] = {}]
  /\ UNCHANGED record

\* What a save may leave in the usage of row u.
UsageAfterSave(d, u, usage) ==
  /\ u \in known[d] \cap record.units => usage = record.usage[u]
  /\ u \notin known[d] => usage = {}

SaveRows(d) ==
  /\ record' \in [next_step : {record.next_step}, units : SUBSET Units,
                  usage : [Units -> SUBSET Writers]]
  /\ \A u \in record'.units : UsageAfterSave(d, u, record'.usage[u])
  /\ known' = [known EXCEPT ![d] = record'.units]

Next ==
  \/ \E w \in Writers : SetNextStep(w) \/ \E u \in Units : AddUsage(w, u)
  \/ \E d \in Drivers : Look(d) \/ Forget(d) \/ SaveRows(d)

Spec == Init /\ [][Next]_vars
=============================================================================
