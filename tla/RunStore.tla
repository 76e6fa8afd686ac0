------------------------------ MODULE RunStore ------------------------------
(***************************************************************************)
(* The run store (store.py): one directory per run, whose files are the    *)
(* only state that backends, readers and workers share.  This module holds *)
(* that state and the store's operations on it; RunWorker and LocalBackend *)
(* are the processes that call them.                                       *)
(*                                                                         *)
(* Every update of status.json or execution.json happens under the         *)
(* exclusive lock status.lock and ends in one os.replace, so an update is  *)
(* one step and a read sees the document before or after it.               *)
(***************************************************************************)
EXTENDS Naturals, FiniteSets

CONSTANT Runs           \* the run ids that may be submitted

VARIABLES
  status,     \* status[r]: the state in status.json, "absent" without a directory
  workerRec,  \* workerRec[r]: execution.json names the worker's pid and group
  engineRec,  \* engineRec[r]: execution.json names the engine's group
  old,        \* old[r]: more than WORKER_GRACE_S passed since submitted_at
  listing     \* listing[r]: artifacts.json: not written, partial or full

storeVars == <<status, workerRec, engineRec, old, listing>>

Active == {"accepted", "running"}
Final  == {"rendered", "failed", "cancelled"}
Absent == "absent"

Listings == {"none", "partial", "full"}

StoreTypeOK ==
  /\ status \in [Runs -> {Absent} \cup Active \cup Final]
  /\ workerRec \in [Runs -> BOOLEAN]
  /\ engineRec \in [Runs -> BOOLEAN]
  /\ old \in [Runs -> BOOLEAN]
  /\ listing \in [Runs -> Listings]

StoreInit ==
  /\ status = [r \in Runs |-> Absent]
  /\ workerRec = [r \in Runs |-> FALSE]
  /\ engineRec = [r \in Runs |-> FALSE]
  /\ old = [r \in Runs |-> FALSE]
  /\ listing = [r \in Runs |-> "none"]

\* create_run returned created=True: the complete directory was renamed into
\* place (CreateRun models the files and the race of two creators).
CreateRun(r) ==
  /\ status[r] = Absent
  /\ status' = [status EXCEPT ![r] = "accepted"]
  /\ UNCHANGED <<workerRec, engineRec, old, listing>>

\* update_status: the compare-and-set under status.lock.
UpdateStatus(r, expected, new) ==
  IF status[r] \in expected
  THEN status' = [status EXCEPT ![r] = new]
  ELSE UNCHANGED status
=============================================================================
