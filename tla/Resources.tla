----------------------------- MODULE Resources ------------------------------
(***************************************************************************)
(* Typed resources (resources.py) and the ledger that reserves them         *)
(* (worker.py): what a run may request, when a request is refused, what a  *)
(* grant is, and how the workers of one work root share a capacity.        *)
(* LocalBackend has the same ledger with only exclusive devices, and the   *)
(* full life of a run around it.                                           *)
(***************************************************************************)
EXTENDS Integers, Sequences, FiniteSets, Sums

CONSTANTS
  Runs,
  Requests,     \* the `resources` members that run specs carry
  Declared,     \* the adapter's ResourceDeclaration
  Capacity,     \* what the backend advertises
  Null          \* Python's None: nothing requested, declared or advertised

\* check compares only requested threads with the capacity; a declared default
\* above it would leave a run waiting for ever.  Both adapters declare none.
ASSUME DefaultAssumption ==
  Declared.cpu.default = Null \/ Declared.cpu.default <= Capacity.cpu

\* A backend advertises whole numbers and devices with different ids; requests
\* and defaults are whole numbers too (parse_request's _int, CpuThreads).
ASSUME ResourceAssumption ==
  /\ IsFiniteSet(Runs)
  /\ Capacity.cpu \in Nat /\ Capacity.memory \in Nat \cup {Null}
  /\ IsFiniteSet(DOMAIN Capacity.gpus) /\ DOMAIN Capacity.gpus \subseteq Nat
  /\ \A i, j \in DOMAIN Capacity.gpus : Capacity.gpus[i].id = Capacity.gpus[j].id => i = j
  /\ Declared.cpu.default \in Nat \cup {Null}
  /\ \A q \in Requests : /\ q.cpu \in Int \cup {Null} /\ q.memory \in Int \cup {Null}
                         /\ q.gpu.count \in Int

VARIABLES
  request,      \* request[r]: the member run r was submitted with
  standing,     \* standing[r]: unsubmitted, refused, waiting, holding, ended
  ledger        \* the Grants recorded, by run; a run without an entry is not in its domain

ledgerVars == <<request, standing, ledger>>

NoGpu == [count |-> 0, class |-> Null, memory |-> Null]

AtMost(v, bound) == v = Null \/ bound = Null \/ v <= bound
-----------------------------------------------------------------------------
(* resources.py                                                            *)

\* parse_request: counts and sizes are not negative, threads at least one.
WellFormed(q) ==
  /\ q.cpu = Null \/ q.cpu >= 1
  /\ q.memory = Null \/ q.memory >= 0
  /\ q.scratch = Null \/ q.scratch >= 0
  /\ q.gpu.count >= 0
  /\ q.gpu.memory = Null \/ q.gpu.memory >= 0

\* A device of the class asked for, with at least the memory asked for.
Matches(d, g) ==
  /\ g.class = Null \/ d.class = g.class
  /\ g.memory = Null \/ (IF d.memory = Null THEN 0 ELSE d.memory) >= g.memory

\* _matching: the places of such devices in the capacity.
Matching(g) == {i \in DOMAIN Capacity.gpus : Matches(Capacity.gpus[i], g)}

\* Mutant of Check: the devices are counted whatever their class.
CheckAnyDevice(q) ==
  /\ q.cpu = Null \/ /\ Declared.cpu.minimum <= q.cpu
                     /\ AtMost(q.cpu, Declared.cpu.maximum)
                     /\ q.cpu <= Capacity.cpu
  /\ AtMost(q.memory, Capacity.memory)
  /\ q.gpu.count > 0 => /\ q.gpu.count <= Declared.gpus
                        /\ q.gpu.count <= Len(Capacity.gpus)

\* check: the engine can honour the request and the backend can provide it.
\* The declared default of the threads is not looked at.
Check(q) ==
  /\ q.cpu = Null \/ /\ Declared.cpu.minimum <= q.cpu
                     /\ AtMost(q.cpu, Declared.cpu.maximum)
                     /\ q.cpu <= Capacity.cpu
  /\ AtMost(q.memory, Capacity.memory)
  /\ q.gpu.count > 0 => /\ q.gpu.count <= Declared.gpus
                        /\ q.gpu.count <= Cardinality(Matching(q.gpu))
  /\ AtMost(q.scratch, Capacity.scratch)
  /\ q.network = "allow" => Declared.network = "allow" /\ Capacity.network
  /\ q.interpreter \in {Null, Declared.interpreter}

\* The threads a run is given: what it asks for, or the declared default.
Threads(q) == IF q.cpu = Null THEN Declared.cpu.default ELSE q.cpu
Or0(v) == IF v = Null THEN 0 ELSE v

\* What the grants of the runs R reserve together.
ThreadsOf(R) == Total([r \in R |-> Or0(ledger[r].cpu)])
MemoryOf(R)  == Total([r \in R |-> ledger[r].memory])
DevicesOf(R) == UNION {ledger[r].gpus : r \in R}

\* The places of the matching devices that no run of R has.
Free(q, R) == {i \in Matching(q.gpu) : Capacity.gpus[i].id \notin DevicesOf(R)}

\* The first n places of F.
First(n, F) == {i \in F : Cardinality({j \in F : j < i}) < n}

\* Mutant of Fits: the memory in use is not subtracted.
FitsButMemory(q, R) ==
  /\ Threads(q) = Null \/ ThreadsOf(R) + Threads(q) <= Capacity.cpu
  /\ AtMost(Or0(q.memory), Capacity.memory)
  /\ q.gpu.count <= Cardinality(Free(q, R))

\* allocate gives a grant beside those of the runs R.
Fits(q, R) ==
  /\ Threads(q) = Null \/ ThreadsOf(R) + Threads(q) <= Capacity.cpu
  /\ Capacity.memory = Null \/ MemoryOf(R) + Or0(q.memory) <= Capacity.memory
  /\ q.gpu.count <= Cardinality(Free(q, R))

\* Mutant of Grant: one device too few.
GrantShort(q, R) ==
  [cpu    |-> Threads(q),
   memory |-> Or0(q.memory),
   gpus   |-> {Capacity.gpus[i].id : i \in First(q.gpu.count - 1, Free(q, R))}]

\* allocate: the threads, the memory and the first free devices.
Grant(q, R) ==
  [cpu    |-> Threads(q),
   memory |-> Or0(q.memory),
   gpus   |-> {Capacity.gpus[i].id : i \in First(q.gpu.count, Free(q, R))}]
-----------------------------------------------------------------------------
(* worker.py and backend.py                                                *)

LedgerInit ==
  /\ request \in [Runs -> Requests]
  /\ standing = [r \in Runs |-> "unsubmitted"]
  /\ ledger = << >>

Become(r, s) == standing' = [standing EXCEPT ![r] = s]

\* _execution_problem: a malformed request or one that fails check is refused.
SubmitRequest(r) ==
  /\ standing[r] = "unsubmitted"
  /\ Become(r, IF WellFormed(request[r]) /\ Check(request[r]) THEN "waiting" ELSE "refused")
  /\ UNCHANGED <<request, ledger>>

\* Mutant of Kept: the entries of ended runs stand.
KeptEnded(r) == DOMAIN ledger \ {r}

\* take: the other runs with an entry that have not ended.
Kept(r) == {q \in DOMAIN ledger \ {r} : standing[q] # "ended"}

\* acquire_resources: one poll of the ledger under its lock.  (The worker looks
\* at its own run's state before it takes the lock; LocalBackend, where that
\* matters, has the same step with runs cancelled at any time.)
Poll(r) ==
  /\ standing[r] = "waiting"
  /\ LET R == Kept(r)
         fits == Fits(request[r], R)
     IN /\ ledger' = [q \in R \cup (IF fits THEN {r} ELSE {}) |->
                        IF q = r THEN Grant(request[r], R) ELSE ledger[q]]
        /\ IF fits THEN Become(r, "holding") ELSE UNCHANGED standing
  /\ UNCHANGED request

\* The run reaches a final state; its entry is still there.
End(r) ==
  /\ standing[r] = "holding"
  /\ Become(r, "ended")
  /\ UNCHANGED <<request, ledger>>

\* A waiting run is cancelled.
Cancel(r) ==
  /\ standing[r] = "waiting"
  /\ Become(r, "ended")
  /\ UNCHANGED <<request, ledger>>

\* release_resources.  A worker that was killed never comes to it.
Release(r) ==
  /\ standing[r] = "ended"
  /\ r \in DOMAIN ledger
  /\ ledger' = [q \in DOMAIN ledger \ {r} |-> ledger[q]]
  /\ UNCHANGED <<request, standing>>

LedgerNext == \E r \in Runs : SubmitRequest(r) \/ Poll(r) \/ End(r) \/ Cancel(r) \/ Release(r)

LedgerSpec == LedgerInit /\ [][LedgerNext]_ledgerVars

\* Waiting workers poll, and a run that holds a grant ends some time.
LedgerFairSpec == LedgerSpec /\ \A r \in Runs : WF_ledgerVars(Poll(r)) /\ WF_ledgerVars(End(r))
-----------------------------------------------------------------------------
Holders == {r \in Runs : standing[r] = "holding"}

\* resources.py: "concurrent runs never exceed the capacity".
WithinCapacity ==
  /\ ThreadsOf(Holders) <= Capacity.cpu
  /\ Capacity.memory = Null \/ MemoryOf(Holders) <= Capacity.memory
  /\ \A q, r \in Holders : q # r => ledger[q].gpus \cap ledger[r].gpus = {}

\* A run that holds a grant has the devices it asked for: as many, different
\* ones, each advertised and of its class and size.
GrantHonoursRequest ==
  \A r \in Holders :
    /\ Cardinality(ledger[r].gpus) = request[r].gpu.count
    /\ \A id \in ledger[r].gpus :
         \E i \in Matching(request[r].gpu) : Capacity.gpus[i].id = id

\* allocate: "None when it does not fit now (wait and retry)": an admitted
\* run that waits alone can have its grant, so waiting is never in vain.
AdmittedFitsAlone ==
  \A r \in Runs : standing[r] = "waiting" /\ Kept(r) = {} => Fits(request[r], {})

\* Every admitted run is granted what it waits for, or cancelled, although
\* killed workers leave their entries in the ledger.
AdmittedServed == \A r \in Runs : standing[r] = "waiting" ~> standing[r] # "waiting"
=============================================================================
