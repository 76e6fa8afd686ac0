---------------------------- MODULE RunLifecycle ----------------------------
(***************************************************************************)
(* What the run store promises about the state of every run, whoever reads *)
(* or writes it: a run is created once as `accepted`, may become           *)
(* `running`, reaches at most one final state, and a final state is kept   *)
(* for ever.  LocalBackend is shown to implement this specification.       *)
(***************************************************************************)
CONSTANT Runs

VARIABLE status         \* status[r]: the `state` member of r's status.json

Active == {"accepted", "running"}
Final  == {"rendered", "failed", "cancelled"}
States == Active \cup Final

\* No directory runs/<run_id> exists yet.
Absent == "absent"

Init == status = [r \in Runs |-> Absent]

Submit(r) == /\ status[r] = Absent
             /\ status' = [status EXCEPT ![r] = "accepted"]

Start(r)  == /\ status[r] = "accepted"
             /\ status' = [status EXCEPT ![r] = "running"]

Render(r) == /\ status[r] = "running"
             /\ status' = [status EXCEPT ![r] = "rendered"]

\* A run that never started may fail too: reap fails an accepted run whose
\* worker is gone.
Abandon(r) == /\ status[r] \in Active
              /\ \E s \in {"failed", "cancelled"} :
                    status' = [status EXCEPT ![r] = s]

Next == \E r \in Runs : Submit(r) \/ Start(r) \/ Render(r) \/ Abandon(r)

Spec == Init /\ [][Next]_status
=============================================================================
