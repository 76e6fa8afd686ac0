---------------------------- MODULE RunCreation ----------------------------
(***************************************************************************)
(* What RunStore.create_run promises to the calls that create one run id:  *)
(* one of them is told that it created the run, the run directory is the   *)
(* one that call built and stays in place, and another call is told        *)
(* "exists" only once it is there.                                         *)
(***************************************************************************)
CONSTANTS Creators, NoCreator

VARIABLES
  owner,      \* the call whose directory is runs/<run_id>, or NoCreator
  answer      \* answer[c]: what call c returned: none, created or exists

Init ==
  /\ owner = NoCreator
  /\ answer = [c \in Creators |-> "none"]

Create(c) ==
  /\ owner = NoCreator
  /\ answer[c] = "none"
  /\ owner' = c
  /\ answer' = [answer EXCEPT ![c] = "created"]

Find(c) ==
  /\ owner # NoCreator
  /\ answer[c] = "none"
  /\ answer' = [answer EXCEPT ![c] = "exists"]
  /\ UNCHANGED owner

Next == \E c \in Creators : Create(c) \/ Find(c)

Spec == Init /\ [][Next]_<<owner, answer>>
=============================================================================
