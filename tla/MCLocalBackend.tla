--------------------------- MODULE MCLocalBackend ---------------------------
(* Instances of LocalBackend for TLC. *)
EXTENDS LocalBackend, TLC

CONSTANTS r1, r2, c1, c2, s1, s2, g1

\* Every run needs one device: with fewer devices than runs, runs wait.
OneEach == [r \in Runs |-> 1]

\* No run needs a device: only the slots hold runs back.
NoneEach == [r \in Runs |-> 0]

Symmetry == Permutations(Runs) \cup Permutations(Clients) \cup Permutations(Slots)

\* For liveness: two runs compete for one slot and one device while workers and
\* submissions are killed; or there is one run, and it is cancelled or its worker
\* raises.  This holds back only what no fairness is about: the start of a call,
\* and an exception, beside which the worker can always go on.
Alone == Cardinality({r \in Runs : status[r] # Absent}) = 1
Cancelling == (\E c \in Clients : op[c] = "cancel") \/ (\E r \in Runs : status[r] = "cancelled")
Raises == \E r \in Runs : status[r] = "running" /\ (Escape(r) \/ RecordEngineFails(r))
CancelOrRaiseAlone == (Cancelling' => Alone') /\ (Raises => Alone)
=============================================================================
