-------------------------- MODULE Resources_proofs --------------------------
(* Proofs about Resources: concurrent runs never exceed the capacity, a run *)
(* has the devices it asked for, and an admitted run can have its grant.    *)
EXTENDS Resources, Sums_proofs
-----------------------------------------------------------------------------
(* The first free devices.                                                  *)

LEMMA UpTo ==
  ASSUME NEW n \in Nat
  PROVE  IsFiniteSet(0 .. n - 1) /\ Cardinality(0 .. n - 1) = n
<1>1. n - 1 \in Int
  OBVIOUS
<1>2. IsFiniteSet(0 .. n - 1) /\ Cardinality(0 .. n - 1) = IF 0 > n - 1 THEN 0 ELSE n - 1 - 0 + 1
  BY <1>1, FS_Interval
<1> QED BY <1>2

\* n places can be taken of a set that has so many.
LEMMA FirstCounts ==
  ASSUME NEW F \in SUBSET Nat, IsFiniteSet(F), NEW n \in Nat, n <= Cardinality(F)
  PROVE  First(n, F) \subseteq F /\ Cardinality(First(n, F)) = n
<1> DEFINE Before(i) == {j \in F : j < i}
<1> DEFINE c == Cardinality(F)
<1> DEFINE rank == [i \in F |-> Cardinality(Before(i))]
<1>1. c \in Nat
  BY FS_CardinalityType
<1>2. \A i \in F : IsFiniteSet(Before(i)) /\ Cardinality(Before(i)) \in 0 .. c - 1
  <2> TAKE i \in F
  <2>1. Before(i) \in SUBSET F /\ Before(i) # F
    OBVIOUS
  <2>2. /\ IsFiniteSet(Before(i))
        /\ Cardinality(Before(i)) <= c
        /\ c = Cardinality(Before(i)) => F = Before(i)
    BY <2>1, FS_Subset
  <2>3. Cardinality(Before(i)) \in Nat
    BY <2>2, FS_CardinalityType
  <2> QED BY <1>1, <2>1, <2>2, <2>3
<1>3. \A i, k \in F : i < k => rank[i] < rank[k]
  <2> TAKE i, k \in F
  <2> HAVE i < k
  <2>1. Before(i) \in SUBSET Before(k) /\ Before(i) # Before(k)
    <3>1. i \in Nat /\ k \in Nat /\ i \in Before(k) /\ i \notin Before(i)
      OBVIOUS
    <3>2. \A j \in F : j < i => j < k
      BY <3>1
    <3> QED BY <3>1, <3>2
  <2>2. /\ Cardinality(Before(i)) <= Cardinality(Before(k))
        /\ Cardinality(Before(k)) = Cardinality(Before(i)) => Before(k) = Before(i)
    BY <1>2, <2>1, FS_Subset
  <2>3. Cardinality(Before(i)) \in Nat /\ Cardinality(Before(k)) \in Nat
    BY <1>2
  <2> QED BY <2>1, <2>2, <2>3
<1> HIDE DEF Before
<1>4. rank \in Injection(F, 0 .. c - 1)
  <2>1. rank \in [F -> 0 .. c - 1]
    BY <1>2
  <2>2. \A i, k \in F : rank[i] = rank[k] => i = k
    <3>1. \A i \in F : rank[i] \in Nat
      BY <1>1, <2>1
    <3> HIDE DEF rank
    <3> QED BY <1>3, <3>1
  <2> HIDE DEF rank
  <2> QED BY <2>1, <2>2 DEF Injection, IsInjective
<1>5. rank \in Surjection(F, 0 .. c - 1)
  <2>1. IsFiniteSet(0 .. c - 1) /\ Cardinality(0 .. c - 1) = c
    BY <1>1, UpTo
  <2> QED BY <1>4, <2>1, FS_Injection
<1>6. First(n, F) = {i \in F : rank[i] < n}
  BY Zenon DEF First, Before
<1> HIDE DEF rank
<1> DEFINE G == First(n, F)
<1> DEFINE g == [i \in G |-> rank[i]]
<1>7. g \in Injection(G, 0 .. n - 1) /\ g \in Surjection(G, 0 .. n - 1)
  <2>1. rank \in [F -> 0 .. c - 1] /\ \A i, k \in F : rank[i] = rank[k] => i = k
    BY <1>4 DEF Injection, IsInjective
  <2>2. g \in [G -> 0 .. n - 1]
    <3>1. \A i \in G : i \in F /\ rank[i] \in Nat /\ rank[i] < n
      <4>1. \A i \in F : rank[i] \in Nat
        BY <2>1, <1>1
      <4> QED BY <1>6, <4>1
    <3> QED BY <3>1
  <2>3. ASSUME NEW m \in 0 .. n - 1
        PROVE  \E i \in G : g[i] = m
    <3>1. m \in 0 .. c - 1
      BY <1>1
    <3>2. PICK i \in F : rank[i] = m
      BY <1>5, <3>1 DEF Surjection
    <3> QED BY <1>6, <3>2
  <2>4. \A i, k \in G : g[i] = g[k] => i = k
    BY <1>6, <2>1
  <2> HIDE DEF g
  <2> QED BY <2>2, <2>3, <2>4 DEF Injection, IsInjective, Surjection
<1>8. IsFiniteSet(0 .. n - 1) /\ Cardinality(0 .. n - 1) = n
  BY UpTo
<1>9. Cardinality(G) = n
  BY <1>7, <1>8, FS_Injection
<1> QED BY <1>6, <1>9
-----------------------------------------------------------------------------
(* The inductive invariant.                                                 *)

States == {"unsubmitted", "refused", "waiting", "holding", "ended"}
Ids    == {Capacity.gpus[i].id : i \in DOMAIN Capacity.gpus}
Entry  == [cpu : Nat \cup {Null}, memory : Nat, gpus : SUBSET Ids]

TypeOK ==
  /\ request \in [Runs -> Requests]
  /\ standing \in [Runs -> States]
  /\ DOMAIN ledger \in SUBSET Runs
  /\ ledger \in [DOMAIN ledger -> Entry]

\* A run holds an entry from its grant on, and keeps it at most until it ended.
EntriesOfGranted ==
  /\ Holders \subseteq DOMAIN ledger
  /\ \A r \in DOMAIN ledger : standing[r] \in {"holding", "ended"}

\* What waits was admitted.
WaitingAdmitted ==
  \A r \in Runs : standing[r] = "waiting" => WellFormed(request[r]) /\ Check(request[r])

Inv ==
  /\ TypeOK /\ EntriesOfGranted /\ WaitingAdmitted
  /\ WithinCapacity /\ GrantHonoursRequest

\* The amounts that a set of runs with entries holds.
LEMMA HeldAmounts ==
  ASSUME TypeOK, NEW R \in SUBSET DOMAIN ledger
  PROVE  /\ IsFiniteSet(R)
         /\ [r \in R |-> Or0(ledger[r].cpu)] \in [R -> Nat]
         /\ [r \in R |-> ledger[r].memory] \in [R -> Nat]
<1>1. IsFiniteSet(R)
  BY FS_Subset, ResourceAssumption DEF TypeOK
<1>2. \A r \in R : ledger[r] \in Entry
  BY DEF TypeOK
<1>3. \A r \in R : Or0(ledger[r].cpu) \in Nat /\ ledger[r].memory \in Nat
  BY <1>2 DEF Entry, Or0
<1> QED BY <1>1, <1>3

\* The free places are finitely many, and places of the capacity.
LEMMA FreePlaces ==
  ASSUME NEW q, NEW R
  PROVE  /\ Matching(q.gpu) \in SUBSET Nat /\ IsFiniteSet(Matching(q.gpu))
         /\ Free(q, R) \in SUBSET Matching(q.gpu) /\ IsFiniteSet(Free(q, R))
<1>1. Matching(q.gpu) \in SUBSET DOMAIN Capacity.gpus /\ Free(q, R) \in SUBSET Matching(q.gpu)
  BY DEF Matching, Free
<1>2. IsFiniteSet(Matching(q.gpu))
  BY <1>1, FS_Subset, ResourceAssumption
<1>3. IsFiniteSet(Free(q, R))
  BY <1>1, <1>2, FS_Subset
<1> QED BY <1>1, <1>2, <1>3, ResourceAssumption

\* Where a request that was admitted fits, its grant is an entry with as many
\* devices as were asked for, matching ones, that none of the runs R has.
LEMMA GrantedDevices ==
  ASSUME NEW q \in Requests, NEW R, WellFormed(q), Fits(q, R)
  PROVE  /\ Grant(q, R) \in Entry
         /\ Cardinality(Grant(q, R).gpus) = q.gpu.count
         /\ \A id \in Grant(q, R).gpus : \E i \in Matching(q.gpu) : Capacity.gpus[i].id = id
         /\ Grant(q, R).gpus \cap DevicesOf(R) = {}
<1> DEFINE F == Free(q, R)
<1> DEFINE G == First(q.gpu.count, F)
<1> DEFINE D == {Capacity.gpus[i].id : i \in G}
<1>1. q.gpu.count \in Nat /\ q.gpu.count <= Cardinality(F)
  BY ResourceAssumption DEF WellFormed, Fits
<1>2. G \subseteq F /\ Cardinality(G) = q.gpu.count /\ F \subseteq Matching(q.gpu)
  BY <1>1, FreePlaces, FirstCounts
<1>3. Cardinality(D) = Cardinality(G)
  <2> DEFINE f == [i \in G |-> Capacity.gpus[i].id]
  <2>1. f \in Surjection(G, D)
    BY DEF Surjection
  <2>2. \A i, j \in G : f[i] = f[j] => i = j
    <3> HIDE DEF G
    <3> QED BY <1>2, ResourceAssumption DEF Matching
  <2>3. f \in Injection(G, D)
    <3>1. f \in [G -> D]
      OBVIOUS
    <3> HIDE DEF f, D
    <3> QED BY <2>2, <3>1 DEF Injection, IsInjective
  <2>4. IsFiniteSet(G)
    <3> HIDE DEF G
    <3> QED BY <1>2, FreePlaces, FS_Subset
  <2> HIDE DEF f, D
  <2> QED BY <2>1, <2>3, <2>4, FS_Surjection
<1>4. Grant(q, R).gpus = D
  BY DEF Grant
<1>5. D \subseteq Ids
  BY <1>2 DEF Ids, Matching
<1>6. D \cap DevicesOf(R) = {}
  BY <1>2 DEF Free
<1>7. Threads(q) \in Nat \cup {Null} /\ Or0(q.memory) \in Nat
  BY ResourceAssumption DEF WellFormed, Threads, Or0
<1>8. Grant(q, R) \in Entry
  <2> HIDE DEF D
  <2> QED BY <1>4, <1>5, <1>7 DEF Grant, Entry
<1>9. \A id \in D : \E i \in Matching(q.gpu) : Capacity.gpus[i].id = id
  BY <1>2
<1> HIDE DEF D
<1> QED BY <1>2, <1>3, <1>4, <1>6, <1>8, <1>9
-----------------------------------------------------------------------------
(* Each step.                                                               *)

LEMMA InitInv ==
  ASSUME LedgerInit
  PROVE  Inv
<1>1. Holders = {} /\ DOMAIN ledger = {}
  BY DEF LedgerInit, Holders
<1>2. TypeOK
  BY <1>1 DEF LedgerInit, TypeOK, States
<1>3. WithinCapacity
  BY <1>1, TotalOfNone, ResourceAssumption DEF WithinCapacity, ThreadsOf, MemoryOf
<1> QED BY <1>1, <1>2, <1>3 DEF LedgerInit, Inv, EntriesOfGranted, WaitingAdmitted, GrantHonoursRequest

\* Fewer holders with the entries they had hold no more.
LEMMA LessIsHeld ==
  ASSUME Inv, UNCHANGED request, Holders' \subseteq Holders,
         \A r \in Holders' : r \in DOMAIN ledger' /\ ledger'[r] = ledger[r]
  PROVE  WithinCapacity' /\ GrantHonoursRequest'
<1> DEFINE H == Holders
<1> DEFINE L == Holders'
<1> DEFINE threads == [r \in H |-> Or0(ledger[r].cpu)]
<1> DEFINE memory == [r \in H |-> ledger[r].memory]
<1>1. IsFiniteSet(H) /\ threads \in [H -> Nat] /\ memory \in [H -> Nat]
  BY HeldAmounts DEF Inv, EntriesOfGranted
<1>2. /\ Total([r \in L |-> threads[r]]) <= Total(threads)
      /\ Total([r \in L |-> memory[r]]) <= Total(memory)
  <2> HIDE DEF H, L, threads, memory
  <2>1. L \in SUBSET H
    BY DEF H, L
  <2> QED BY <1>1, <2>1, TotalOfFewer
<1>3. /\ [r \in L |-> threads[r]] = [r \in L |-> Or0(ledger'[r].cpu)]
      /\ [r \in L |-> memory[r]] = [r \in L |-> ledger'[r].memory]
  OBVIOUS
<1>4. /\ ThreadsOf(Holders)' = Total([r \in L |-> threads[r]]) /\ ThreadsOf(Holders) = Total(threads)
      /\ MemoryOf(Holders)' = Total([r \in L |-> memory[r]]) /\ MemoryOf(Holders) = Total(memory)
  BY <1>3 DEF ThreadsOf, MemoryOf
<1>5. /\ ThreadsOf(Holders) <= Capacity.cpu
      /\ Capacity.memory = Null \/ MemoryOf(Holders) <= Capacity.memory
  BY DEF Inv, WithinCapacity
<1>6. /\ Total([r \in L |-> threads[r]]) \in Nat /\ Total(threads) \in Nat
      /\ Total([r \in L |-> memory[r]]) \in Nat /\ Total(memory) \in Nat
  <2>1. IsFiniteSet(L)
    BY <1>1, FS_Subset
  <2>2. [r \in L |-> threads[r]] \in [L -> Nat] /\ [r \in L |-> memory[r]] \in [L -> Nat]
    <3> HIDE DEF threads, memory
    <3> QED BY <1>1
  <2> HIDE DEF H, L, threads, memory
  <2> QED BY <1>1, <2>1, <2>2, TotalIsNat
<1>7. WithinCapacity'
  <2>1. /\ ThreadsOf(Holders)' <= Capacity.cpu
        /\ Capacity.memory = Null \/ MemoryOf(Holders)' <= Capacity.memory
    <3> HIDE DEF H, L, threads, memory
    <3> QED BY <1>2, <1>4, <1>5, <1>6, ResourceAssumption
  <2>2. \A q, r \in Holders' : q # r => ledger'[q].gpus \cap ledger'[r].gpus = {}
    BY DEF Inv, WithinCapacity
  <2> QED BY <2>1, <2>2 DEF WithinCapacity
<1>8. GrantHonoursRequest'
  BY DEF Inv, GrantHonoursRequest
<1> QED BY <1>7, <1>8

\* A run that waits sees the entries of all that hold a grant, and no others.
LEMMA KeptAreHolders ==
  ASSUME Inv, NEW r \in Runs, standing[r] = "waiting"
  PROVE  Kept(r) = Holders /\ r \notin DOMAIN ledger /\ r \notin Holders
BY DEF Inv, EntriesOfGranted, TypeOK, Kept, Holders

\* A grant beside those that are held stays within the capacity.
LEMMA PollGrants ==
  ASSUME Inv, NEW r \in Runs, Poll(r), Fits(request[r], Kept(r))
  PROVE  WithinCapacity' /\ GrantHonoursRequest' /\ Holders' = Holders \cup {r}
         /\ ledger' \in [Holders \cup {r} -> Entry]
<1> DEFINE H == Holders
<1> DEFINE q == request[r]
<1> DEFINE g == Grant(q, H)
<1>1. standing[r] = "waiting" /\ Kept(r) = H /\ r \notin H /\ H \in SUBSET DOMAIN ledger
  BY KeptAreHolders DEF Poll, Inv, EntriesOfGranted
<1>2. /\ ledger' = [p \in H \cup {r} |-> IF p = r THEN g ELSE ledger[p]]
      /\ standing' = [standing EXCEPT ![r] = "holding"] /\ request' = request
  BY <1>1 DEF Poll, Become
<1>3. Holders' = H \cup {r}
  BY <1>2 DEF Holders, Inv, TypeOK
<1>4. q \in Requests /\ WellFormed(q) /\ Fits(q, H)
  BY <1>1 DEF Inv, TypeOK, WaitingAdmitted
<1>5. /\ g \in Entry /\ Cardinality(g.gpus) = q.gpu.count
      /\ \A id \in g.gpus : \E i \in Matching(q.gpu) : Capacity.gpus[i].id = id
      /\ g.gpus \cap DevicesOf(H) = {}
  BY <1>4, GrantedDevices
<1>6. ledger'[r] = g /\ \A p \in H : ledger'[p] = ledger[p]
  BY <1>1, <1>2
<1>7. \A p \in H : ledger[p] \in Entry
  BY <1>1 DEF Inv, TypeOK
<1>8. ledger' \in [H \cup {r} -> Entry]
  <2> HIDE DEF g, H
  <2> QED BY <1>2, <1>5, <1>7
<1> DEFINE threads == [p \in H \cup {r} |-> Or0(ledger'[p].cpu)]
<1> DEFINE memory == [p \in H \cup {r} |-> ledger'[p].memory]
<1>9. /\ [p \in H |-> threads[p]] = [p \in H |-> Or0(ledger[p].cpu)] /\ threads[r] = Or0(Threads(q))
      /\ [p \in H |-> memory[p]] = [p \in H |-> ledger[p].memory] /\ memory[r] = Or0(q.memory)
  BY <1>6 DEF Grant
<1>10. threads \in [H \cup {r} -> Nat] /\ memory \in [H \cup {r} -> Nat]
  <2>1. \A p \in H \cup {r} : Or0(ledger'[p].cpu) \in Nat /\ ledger'[p].memory \in Nat
    <3> HIDE DEF H
    <3> QED BY <1>8 DEF Entry, Or0
  <2> QED BY <2>1
<1>11. IsFiniteSet(H)
  BY <1>1, HeldAmounts DEF Inv
<1>12. /\ Total(threads) = Total([p \in H |-> threads[p]]) + threads[r]
       /\ Total(memory) = Total([p \in H |-> memory[p]]) + memory[r]
  <2> HIDE DEF H, threads, memory
  <2> QED BY <1>1, <1>10, <1>11, TotalOfOneMore
<1>13. /\ ThreadsOf(Holders)' = ThreadsOf(H) + Or0(Threads(q))
       /\ MemoryOf(Holders)' = MemoryOf(H) + Or0(q.memory)
  <2>1. ThreadsOf(Holders)' = Total(threads) /\ MemoryOf(Holders)' = Total(memory)
    BY <1>3 DEF ThreadsOf, MemoryOf
  <2> HIDE DEF threads, memory
  <2> QED BY <1>9, <1>12, <2>1 DEF ThreadsOf, MemoryOf
<1>14. ThreadsOf(H) \in Nat /\ MemoryOf(H) \in Nat
  BY <1>1, HeldAmounts, TotalIsNat DEF Inv, ThreadsOf, MemoryOf
<1>15. WithinCapacity'
  <2>1. ThreadsOf(Holders)' <= Capacity.cpu
    BY <1>4, <1>13, <1>14 DEF Fits, Or0, Inv, WithinCapacity
  <2>2. Capacity.memory = Null \/ MemoryOf(Holders)' <= Capacity.memory
    BY <1>4, <1>13 DEF Fits
  <2>3. \A p, s \in Holders' : p # s => ledger'[p].gpus \cap ledger'[s].gpus = {}
    <3>1. \A p \in H : g.gpus \cap ledger[p].gpus = {}
      BY <1>5 DEF DevicesOf
    <3>2. \A p, s \in H : p # s => ledger[p].gpus \cap ledger[s].gpus = {}
      BY DEF Inv, WithinCapacity
    <3> HIDE DEF g, H
    <3> QED BY <1>3, <1>6, <3>1, <3>2
  <2> QED BY <2>1, <2>2, <2>3 DEF WithinCapacity
<1>16. GrantHonoursRequest'
  <2>1. \A p \in H : /\ Cardinality(ledger[p].gpus) = request[p].gpu.count
                     /\ \A id \in ledger[p].gpus :
                          \E i \in Matching(request[p].gpu) : Capacity.gpus[i].id = id
    BY DEF Inv, GrantHonoursRequest
  <2> HIDE DEF g, H
  <2> QED BY <1>2, <1>3, <1>5, <1>6, <2>1 DEF GrantHonoursRequest
<1> QED BY <1>3, <1>8, <1>15, <1>16

LEMMA NextInv ==
  ASSUME Inv, [LedgerNext]_ledgerVars
  PROVE  Inv'
<1> USE DEF Inv
<1>1. CASE UNCHANGED ledgerVars
  BY <1>1 DEF ledgerVars, TypeOK, EntriesOfGranted, WaitingAdmitted, WithinCapacity,
              GrantHonoursRequest, Holders, ThreadsOf, MemoryOf
<1>2. ASSUME NEW r \in Runs, SubmitRequest(r)
      PROVE  Inv'
  <2> USE <1>2 DEF SubmitRequest, Become
  <2>1. TypeOK' /\ Holders' = Holders
    BY DEF TypeOK, States, Holders
  <2>2. EntriesOfGranted' /\ WaitingAdmitted'
    BY <2>1 DEF EntriesOfGranted, WaitingAdmitted, TypeOK
  <2> QED BY <2>1, <2>2, LessIsHeld DEF EntriesOfGranted
<1>3. ASSUME NEW r \in Runs, Poll(r), Fits(request[r], Kept(r))
      PROVE  Inv'
  <2>1. /\ WithinCapacity' /\ GrantHonoursRequest'
        /\ Holders' = Holders \cup {r} /\ ledger' \in [Holders \cup {r} -> Entry]
    BY <1>3, PollGrants
  <2>2. standing' = [standing EXCEPT ![r] = "holding"] /\ request' = request
    BY <1>3 DEF Poll, Become
  <2>3. TypeOK'
    BY <2>1, <2>2 DEF TypeOK, States, Holders
  <2>4. EntriesOfGranted' /\ WaitingAdmitted'
    BY <2>1, <2>2 DEF EntriesOfGranted, WaitingAdmitted, Holders, TypeOK
  <2> QED BY <2>1, <2>3, <2>4
<1>4. ASSUME NEW r \in Runs, Poll(r), ~Fits(request[r], Kept(r))
      PROVE  Inv'
  <2>1. Kept(r) = Holders
    BY <1>4, KeptAreHolders DEF Poll
  <2>2. /\ ledger' = [q \in Holders |-> IF q = r THEN Grant(request[r], Holders) ELSE ledger[q]]
        /\ standing' = standing /\ request' = request /\ r \notin Holders
    BY <1>4, <2>1, KeptAreHolders DEF Poll
  <2>3. Holders' = Holders /\ \A q \in Holders : ledger'[q] = ledger[q]
    BY <2>2 DEF Holders
  <2>4. TypeOK'
    BY <2>2, <2>3 DEF TypeOK, EntriesOfGranted
  <2>5. EntriesOfGranted' /\ WaitingAdmitted'
    BY <2>2, <2>3 DEF EntriesOfGranted, WaitingAdmitted, Holders
  <2> QED BY <2>2, <2>3, <2>4, <2>5, LessIsHeld
<1>5. ASSUME NEW r \in Runs, End(r) \/ Cancel(r)
      PROVE  Inv'
  <2> USE <1>5 DEF End, Cancel, Become
  <2>1. TypeOK' /\ Holders' \subseteq Holders
    BY DEF TypeOK, States, Holders
  <2>2. EntriesOfGranted' /\ WaitingAdmitted'
    BY <2>1 DEF EntriesOfGranted, WaitingAdmitted, TypeOK
  <2> QED BY <2>1, <2>2, LessIsHeld DEF EntriesOfGranted
<1>6. ASSUME NEW r \in Runs, Release(r)
      PROVE  Inv'
  <2> USE <1>6 DEF Release
  <2>1. TypeOK' /\ Holders' = Holders /\ r \notin Holders
    BY DEF TypeOK, Holders
  <2>2. EntriesOfGranted' /\ WaitingAdmitted'
    BY <2>1 DEF EntriesOfGranted, WaitingAdmitted
  <2>3. \A q \in Holders' : q \in DOMAIN ledger' /\ ledger'[q] = ledger[q]
    BY <2>1 DEF EntriesOfGranted
  <2> QED BY <2>1, <2>2, <2>3, LessIsHeld
<1> QED BY <1>1, <1>2, <1>3, <1>4, <1>5, <1>6 DEF LedgerNext
-----------------------------------------------------------------------------
(* The properties.                                                          *)

THEOREM InvHolds ==
  LedgerSpec => []Inv
BY InitInv, NextInv, PTL DEF LedgerSpec

\* resources.py: concurrent runs never exceed the capacity, whatever they ask
\* for, whoever is killed before it releases what it had.
THEOREM CapacityKept ==
  LedgerSpec => []WithinCapacity
<1>1. Inv => WithinCapacity
  BY DEF Inv
<1> QED BY <1>1, InvHolds, PTL

\* allocate: a run that holds a grant has as many devices as it asked for,
\* different ones of the class and the memory it asked for.
THEOREM GrantsHonoured ==
  LedgerSpec => []GrantHonoursRequest
<1>1. Inv => GrantHonoursRequest
  BY DEF Inv
<1> QED BY <1>1, InvHolds, PTL

\* check, allocate: an admitted run that waits alone can have its grant, if the
\* declared default of the threads is within the capacity.
THEOREM NoneWaitsInVain ==
  LedgerSpec => []AdmittedFitsAlone
<1>1. ASSUME Inv
      PROVE  AdmittedFitsAlone
  <2> SUFFICES ASSUME NEW r \in Runs, standing[r] = "waiting"
               PROVE  Fits(request[r], {})
    BY DEF AdmittedFitsAlone
  <2> DEFINE q == request[r]
  <2>1. WellFormed(q) /\ Check(q) /\ q \in Requests
    BY <1>1 DEF Inv, TypeOK, WaitingAdmitted
  <2>2. ThreadsOf({}) = 0 /\ MemoryOf({}) = 0
    BY TotalOfNone DEF ThreadsOf, MemoryOf
  <2>3. Free(q, {}) = Matching(q.gpu)
    BY DEF Free, DevicesOf
  <2>4. Cardinality(Matching(q.gpu)) \in Nat
    BY FreePlaces, FS_CardinalityType
  <2>5. Threads(q) = Null \/ ThreadsOf({}) + Threads(q) <= Capacity.cpu
    BY <2>1, <2>2, ResourceAssumption, DefaultAssumption DEF Check, Threads
  <2>6. Capacity.memory = Null \/ MemoryOf({}) + Or0(q.memory) <= Capacity.memory
    BY <2>1, <2>2, ResourceAssumption DEF Check, AtMost, Or0
  <2>7. q.gpu.count <= Cardinality(Free(q, {}))
    BY <2>1, <2>3, <2>4, ResourceAssumption DEF Check, WellFormed
  <2> QED BY <2>5, <2>6, <2>7 DEF Fits
<1> QED BY <1>1, InvHolds, PTL
=============================================================================
