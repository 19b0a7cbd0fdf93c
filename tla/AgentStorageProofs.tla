------------------------- MODULE AgentStorageProofs -------------------------
(***************************************************************************)
(* Proofs about AgentStorage, for every set of containers, storages,       *)
(* requests and settings: the reference counts of the storages.            *)
(***************************************************************************)
EXTENDS AgentStorage, FiniteSetTheorems, TLAPS

-----------------------------------------------------------------------------
(* Counting.                                                               *)

\* Part of a finite set is finite, and has no more elements.
LEMMA PartOf ==
  ASSUME NEW S, IsFiniteSet(S), NEW T, T \subseteq S
  PROVE  /\ IsFiniteSet(T) /\ Cardinality(S) \in Nat /\ Cardinality(T) \in Nat
         /\ Cardinality(T) <= Cardinality(S)
BY Zenon, FS_Subset, FS_CardinalityType

\* One that may have an element more.
LEMMA OneMore ==
  ASSUME NEW S, IsFiniteSet(S), NEW x, NEW T, T \subseteq S \cup {x}
  PROVE  Cardinality(T) <= Cardinality(S) + 1
<1>1. IsFiniteSet(S \cup {x})
      /\ (Cardinality(S \cup {x}) = Cardinality(S) \/ Cardinality(S \cup {x}) = Cardinality(S) + 1)
  BY Zenon, FS_AddElement
<1>2. Cardinality(T) <= Cardinality(S \cup {x}) /\ Cardinality(T) \in Nat
  BY Zenon, <1>1, PartOf
<1>3. Cardinality(S) \in Nat
  BY Zenon, FS_CardinalityType
<1> QED BY <1>1, <1>2, <1>3

\* One that lacks an element.
LEMMA OneLess ==
  ASSUME NEW S, IsFiniteSet(S), NEW x \in S, NEW T, T \subseteq S \ {x}
  PROVE  Cardinality(T) + 1 <= Cardinality(S)
<1>1. IsFiniteSet(S \ {x}) /\ Cardinality(S \ {x}) = Cardinality(S) - 1
  BY Zenon, FS_RemoveElement
<1>2. Cardinality(T) <= Cardinality(S \ {x}) /\ Cardinality(T) \in Nat
  BY Zenon, <1>1, PartOf
<1>3. Cardinality(S) \in Nat
  BY Zenon, FS_CardinalityType
<1> QED BY <1>1, <1>2, <1>3

-----------------------------------------------------------------------------
(* The operators of the model.                                             *)

\* The storage a request is at is one of its container's.
LEMMA HereIsPath ==
  ASSUME Ranges, RequestInv, NEW r \in Req, Busy(r) \/ (pc[r] = "add" /\ ~AllAdded(r))
  PROVE  /\ cid[r] \in DOMAIN Storages /\ Storages[cid[r]] \in Seq(Path)
         /\ at[r] \in DOMAIN Storages[cid[r]]
         /\ Here(r) \in Path
<1>1. cid[r] \in DOMAIN Storages /\ at[r] \in Nat \ {0}
  BY Zenon DEF Ranges, RequestInv, Busy, PCs
<1>2. Storages[cid[r]] \in Seq(Path)
  BY Zenon, <1>1, StorageAssumption DEF Ranges, Storages
<1>3. Len(Storages[cid[r]]) \in Nat /\ DOMAIN Storages[cid[r]] = 1 .. Len(Storages[cid[r]])
  BY <1>2
<1>4. at[r] <= Len(Storages[cid[r]])
  BY <1>1, <1>3 DEF RequestInv, AllAdded
<1>5. at[r] \in DOMAIN Storages[cid[r]]
  BY <1>1, <1>3, <1>4
<1> QED BY <1>1, <1>2, <1>5 DEF Here

\* remove_sandbox_storage: a reference less for the storages it is about, at most, and
\* an entry goes with its last one.
LEMMA RemovedStorages ==
  ASSUME Ranges, EntryInv, NEW S, RemoveStorages(S)
  PROVE  /\ entry' \in [Path -> EntryState] /\ count' \in [Path -> Nat]
         /\ mounted' \subseteq mounted
         /\ EntryInv'
         /\ \A p \in Path : count'[p] + 1 >= count[p] /\ count'[p] <= count[p]
         /\ \A p \in Path \ S : count'[p] = count[p] /\ entry'[p] = entry[p]
         /\ \A p \in Path : entry'[p] \in {entry[p], "none"}
         /\ \A p \in Path : p \in S \ Shared /\ count[p] > 0 => count'[p] = count[p] - 1
         /\ \A p \in mounted \ mounted' : p \in S \ Shared /\ count[p] = 1 /\ count'[p] = 0
<1> DEFINE gone == {p \in S \ Shared : count[p] = 1}
<1>1. /\ entry' = [p \in Path |-> IF p \in gone THEN "none" ELSE entry[p]]
      /\ count' = [p \in Path |-> IF p \in gone \/ (p \in S /\ count[p] > 1)
                                 THEN count[p] - 1 ELSE count[p]]
      /\ \E F \in SUBSET {p \in gone \ NoPath : entry[p] = "device"} : mounted' = mounted \ F
  BY Zenon DEF RemoveStorages
<1>2. \A p \in Path : count[p] \in Nat /\ entry[p] \in EntryState /\ (entry[p] = "none" <=> count[p] = 0)
  BY Zenon DEF Ranges, EntryInv
<1>3. entry' \in [Path -> EntryState] /\ count' \in [Path -> Nat]
  BY <1>1, <1>2 DEF EntryState
<1>4. mounted' \subseteq mounted /\ \A p \in mounted \ mounted' : p \in gone
  BY Zenon, <1>1
<1>5. \A p \in Path : /\ count'[p] = IF p \in gone \/ (p \in S /\ count[p] > 1)
                                    THEN count[p] - 1 ELSE count[p]
                      /\ entry'[p] = IF p \in gone THEN "none" ELSE entry[p]
  BY Zenon, <1>1
<1>6. \A p \in Path : count'[p] + 1 >= count[p] /\ count'[p] <= count[p]
  BY <1>2, <1>5
<1>7. \A p \in Path \ S : count'[p] = count[p] /\ entry'[p] = entry[p]
  BY Zenon, <1>5
<1>8. EntryInv'
  BY <1>2, <1>5 DEF EntryInv
<1>9. \A p \in mounted \ mounted' : p \in S \ Shared /\ count[p] = 1 /\ count'[p] = 0
  BY <1>4, <1>5 DEF Ranges
<1>10. \A p \in Path : entry'[p] \in {entry[p], "none"}
  BY Zenon, <1>5
<1>11. \A p \in Path : p \in S \ Shared /\ count[p] > 0 => count'[p] = count[p] - 1
  BY <1>2, <1>5
<1> QED BY Zenon, <1>3, <1>4, <1>6, <1>7, <1>8, <1>9, <1>10, <1>11
-----------------------------------------------------------------------------
(* Types, and the entries: for any client.                                 *)

\* A request that ends leaves its types, and the others, as they are.
LEMMA EndedRequest ==
  ASSUME Ranges, RequestInv, NEW r \in Req, End(r), setting' = setting
  PROVE  /\ pc' \in [Req -> PCs] /\ cid' \in [Req -> Cid] /\ at' \in [Req -> Nat \ {0}]
         /\ list' \in [Req -> SUBSET Path] /\ snap' \in [Req -> EntryState]
         /\ RequestInv'
<1>1. /\ pc' \in [Req -> PCs] /\ cid' \in [Req -> Cid] /\ at' \in [Req -> Nat \ {0}]
      /\ list' \in [Req -> SUBSET Path] /\ snap' \in [Req -> EntryState]
  BY DEF Ranges, End, PCs, EntryState
<1>2. /\ pc'[r] = "idle" /\ at'[r] = 1 /\ list'[r] = {}
      /\ \A s \in Req \ {r} : pc'[s] = pc[s] /\ at'[s] = at[s] /\ list'[s] = list[s]
      /\ cid' = cid
  BY Zenon DEF Ranges, End
<1> QED BY Zenon, <1>1, <1>2 DEF RequestInv, Busy, Storages

\* So does one that goes on to the next storage.
LEMMA AdvancedRequest ==
  ASSUME Ranges, RequestInv, NEW r \in Req, Busy(r), NEW h, Advance(r, Here(r), h),
         setting' = setting
  PROVE  /\ pc' \in [Req -> PCs] /\ cid' \in [Req -> Cid] /\ at' \in [Req -> Nat \ {0}]
         /\ list' \in [Req -> SUBSET Path] /\ snap' \in [Req -> EntryState]
         /\ RequestInv'
<1>1. Here(r) \in Path /\ cid[r] \in DOMAIN Storages
  BY Zenon, HereIsPath
<1>2. /\ pc' \in [Req -> PCs] /\ cid' \in [Req -> Cid] /\ at' \in [Req -> Nat \ {0}]
      /\ snap' \in [Req -> EntryState]
  BY DEF Ranges, Advance, PCs, EntryState
<1>3. list' \in [Req -> SUBSET Path]
  BY Zenon, <1>1 DEF Ranges, Advance
<1>4. /\ pc'[r] = "add"
      /\ \A s \in Req \ {r} : pc'[s] = pc[s] /\ at'[s] = at[s] /\ list'[s] = list[s]
      /\ cid' = cid
  BY Zenon DEF Ranges, Advance
<1> QED BY Zenon, <1>1, <1>2, <1>3, <1>4 DEF RequestInv, Busy, Storages

\* Every step preserves the types, the requests' positions, and that the entries are the
\* ones with a count.
LEMMA TypeStep ==
  ASSUME Ranges, RequestInv, EntryInv, [Next]_vars
  PROVE  Ranges' /\ RequestInv' /\ EntryInv'
<1>1. CASE UNCHANGED vars
  BY Zenon, <1>1 DEF Ranges, RequestInv, EntryInv, Busy, Storages, vars, store, requests
<1>2. CASE Next
  <2>0. setting' = setting /\ setting' \in Settings
    BY Zenon, <1>2 DEF Next, Ranges
  <2>1. ASSUME NEW r \in Req, NEW c \in Cid, CreateBegin(r, c) \/ RemoveBegin(r, c)
        PROVE  Ranges' /\ RequestInv' /\ EntryInv'
    <3>1. Ranges'
      BY <2>0, <2>1 DEF Ranges, CreateBegin, RemoveBegin, store, PCs, RootState
    <3>2. /\ pc[r] = "idle" /\ (pc'[r] = "remove" \/ (pc'[r] = "add" /\ c \in DOMAIN Storages))
          /\ cid'[r] = c /\ at' = at /\ list' = list
          /\ \A s \in Req \ {r} : pc'[s] = pc[s] /\ cid'[s] = cid[s]
      BY Zenon, <2>1 DEF Ranges, CreateBegin, RemoveBegin
    <3>3. RequestInv'
      BY Zenon, <2>0, <3>2 DEF RequestInv, Busy, Storages
    <3>4. EntryInv'
      BY Zenon, <2>1 DEF EntryInv, CreateBegin, RemoveBegin, store
    <3> QED BY Zenon, <3>1, <3>3, <3>4
  <2>2. ASSUME NEW r \in Req, AddSandboxStorage(r)
        PROVE  Ranges' /\ RequestInv' /\ EntryInv'
    <3>1. /\ Here(r) \in Path /\ cid[r] \in DOMAIN Storages
          /\ Storages[cid[r]] \in Seq(Path) /\ at[r] \in DOMAIN Storages[cid[r]]
      BY Zenon, <2>2, HereIsPath DEF AddSandboxStorage
    <3>2. at[r] <= Len(Storages[cid[r]])
      BY <3>1
    <3>3. /\ entry' = [entry EXCEPT ![Here(r)] = IF @ = "none" THEN "dummy" ELSE @]
          /\ count' = [count EXCEPT ![Here(r)] = @ + 1]
          /\ snap' = [snap EXCEPT ![r] = entry'[Here(r)]]
          /\ pc' = [pc EXCEPT ![r] = "load"]
          /\ UNCHANGED <<mounted, mounts, ctrs, root, cid, at, list>>
      BY Zenon, <2>2 DEF AddSandboxStorage
    <3>4. entry' \in [Path -> EntryState] /\ count' \in [Path -> Nat]
      <4>1. entry[Here(r)] \in EntryState /\ count[Here(r)] + 1 \in Nat
        BY <3>1 DEF Ranges
      <4>2. (IF entry[Here(r)] = "none" THEN "dummy" ELSE entry[Here(r)]) \in EntryState
        BY Zenon, <4>1 DEF EntryState
      <4> QED BY Zenon, <3>3, <4>1, <4>2 DEF Ranges
    <3>5. snap' \in [Req -> EntryState] /\ pc' \in [Req -> PCs]
      BY Zenon, <3>1, <3>3, <3>4 DEF Ranges, PCs
    <3>6. Ranges'
      BY Zenon, <2>0, <3>3, <3>4, <3>5 DEF Ranges
    <3>7. pc'[r] = "load" /\ \A s \in Req \ {r} : pc'[s] = pc[s]
      BY Zenon, <3>3 DEF Ranges
    <3>8. RequestInv'
      BY Zenon, <2>0, <3>1, <3>2, <3>3, <3>7 DEF RequestInv, Busy, Storages
    <3>9. EntryInv'
      <4>1. \A p \in Path : /\ count'[p] = IF p = Here(r) THEN count[p] + 1 ELSE count[p]
                            /\ entry'[p] = IF p = Here(r) /\ entry[p] = "none"
                                          THEN "dummy" ELSE entry[p]
        BY Zenon, <3>3 DEF Ranges
      <4>2. \A p \in Path : count[p] \in Nat
        BY Zenon DEF Ranges
      <4> QED BY <4>1, <4>2 DEF EntryInv
    <3> QED BY Zenon, <3>6, <3>8, <3>9
  <2>3. ASSUME NEW r \in Req, ReuseDevice(r)
        PROVE  Ranges' /\ RequestInv' /\ EntryInv'
    <3>1. Busy(r) /\ Advance(r, Here(r), snap[r] = "device")
      BY Zenon, <2>3 DEF ReuseDevice, Busy
    <3>2. UNCHANGED <<entry, count, mounted, mounts, ctrs, root>>
      BY Zenon, <2>3 DEF ReuseDevice, store
    <3> QED BY Zenon, <2>0, <3>1, <3>2, AdvancedRequest DEF Ranges, EntryInv
  <2>4. ASSUME NEW r \in Req, NewDevice(r) \/ CreateDevice(r) \/ CreateDeviceFails(r)
        PROVE  Ranges' /\ RequestInv' /\ EntryInv'
    <3>1. Busy(r) /\ Here(r) \in Path
      BY Zenon, <2>4, HereIsPath DEF NewDevice, CreateDevice, CreateDeviceFails, Busy
    <3>2. /\ UNCHANGED <<entry, count, mounts, ctrs, root, cid, at, list, snap>>
          /\ \E q \in {"device", "update", "undo"} : pc' = [pc EXCEPT ![r] = q]
          /\ mounted' \in {mounted, mounted \cup {Here(r)}}
      BY Zenon, <2>4 DEF NewDevice, CreateDevice, CreateDeviceFails, store
    <3>3. pc' \in [Req -> PCs] /\ pc'[r] \in {"device", "update", "undo"}
          /\ \A s \in Req \ {r} : pc'[s] = pc[s]
      BY Zenon, <3>2 DEF Ranges, PCs
    <3>4. Ranges'
      BY Zenon, <2>0, <3>1, <3>2, <3>3 DEF Ranges
    <3>5. RequestInv'
      BY Zenon, <2>0, <3>1, <3>2, <3>3 DEF RequestInv, Busy, Storages
    <3>6. EntryInv'
      BY Zenon, <3>2 DEF EntryInv
    <3> QED BY Zenon, <3>4, <3>5, <3>6
  <2>5. ASSUME NEW r \in Req, UpdateSandboxStorage(r)
        PROVE  Ranges' /\ RequestInv' /\ EntryInv'
    <3>1. /\ Busy(r) /\ Advance(r, Here(r), TRUE)
          /\ entry[Here(r)] # "none" /\ entry' = [entry EXCEPT ![Here(r)] = "device"]
          /\ UNCHANGED <<count, mounted, mounts, ctrs, root>>
      BY Zenon, <2>5 DEF UpdateSandboxStorage, Busy
    <3>2. Here(r) \in Path
      BY Zenon, <3>1, HereIsPath
    <3>3. entry' \in [Path -> EntryState]
      BY Zenon, <3>1 DEF Ranges, EntryState
    <3>4. EntryInv'
      BY Zenon, <3>1, <3>2 DEF EntryInv, Ranges, EntryState
    <3> QED BY Zenon, <2>0, <3>1, <3>3, <3>4, AdvancedRequest DEF Ranges
  <2>6. ASSUME NEW r \in Req, Undo(r)
        PROVE  Ranges' /\ RequestInv' /\ EntryInv'
    <3>1. RemoveStorages({Here(r)}) /\ End(r) /\ UNCHANGED <<mounts, ctrs, root>>
      BY Zenon, <2>6 DEF Undo
    <3> QED BY Zenon, <2>0, <3>1, RemovedStorages, EndedRequest DEF Ranges
  <2>7. ASSUME NEW r \in Req, UnknownDriver(r) \/ SecretsFail(r) \/ RemoveTimesOut(r)
        PROVE  Ranges' /\ RequestInv' /\ EntryInv'
    <3>1. End(r) /\ UNCHANGED <<entry, count, mounted, mounts, ctrs, root>>
      BY Zenon, <2>7 DEF UnknownDriver, SecretsFail, RemoveTimesOut, store
    <3> QED BY Zenon, <2>0, <3>1, EndedRequest DEF Ranges, EntryInv
  <2>8. ASSUME NEW r \in Req, CreateContainer(r) \/ CreateFails(r) \/ SharedMountsFail(r)
        PROVE  Ranges' /\ RequestInv' /\ EntryInv'
    <3>1. /\ End(r) /\ UNCHANGED <<entry, count, mounted>>
          /\ mounts' = [mounts EXCEPT ![cid[r]] = list[r]]
          /\ ctrs' \in {ctrs, ctrs \cup {cid[r]}}
      BY Zenon, <2>8 DEF CreateContainer, CreateFails, SharedMountsFail, store
    <3>2. root' \in [Cid -> RootState]
      BY Zenon, <2>8 DEF CreateContainer, CreateFails, SharedMountsFail, Ranges, RootState
    <3>3. mounts' \in [Cid -> SUBSET Path] /\ ctrs' \subseteq Cid
      BY Zenon, <3>1 DEF Ranges
    <3> QED BY Zenon, <2>0, <3>1, <3>2, <3>3, EndedRequest DEF Ranges, EntryInv
  <2>9. ASSUME NEW r \in Req, StartFails(r) \/ RemoveEnd(r)
        PROVE  Ranges' /\ RequestInv' /\ EntryInv'
    <3>1. End(r) /\ \E S : RemoveStorages(S)
      BY Zenon, <2>9 DEF StartFails, RemoveEnd, RemoveContainerResources
    <3>2. root' \in [Cid -> RootState]
      BY Zenon, <2>9 DEF StartFails, RemoveEnd, Ranges, RootState
    <3>3. mounts' \in [Cid -> SUBSET Path] /\ ctrs' \subseteq Cid
      BY Zenon, <2>9 DEF StartFails, RemoveEnd, RemoveContainerResources, Ranges
    <3> QED BY Zenon, <2>0, <3>1, <3>2, <3>3, EndedRequest, RemovedStorages DEF Ranges
  <2>10. ASSUME NEW c \in Cid, RemoveContainer(c)
         PROVE  Ranges' /\ RequestInv' /\ EntryInv'
    <3>1. UNCHANGED <<pc, cid, at, list, snap>> /\ \E S : RemoveStorages(S)
      BY Zenon, <2>10 DEF RemoveContainer, RemoveContainerResources, requests
    <3>2. root' \in [Cid -> RootState]
      BY Zenon, <2>10 DEF RemoveContainer, Ranges, RootState
    <3>3. mounts' \in [Cid -> SUBSET Path] /\ ctrs' \subseteq Cid
      BY Zenon, <2>10 DEF RemoveContainer, RemoveContainerResources, Ranges
    <3>4. RequestInv'
      BY Zenon, <2>0, <3>1 DEF RequestInv, Busy, Storages
    <3> QED BY Zenon, <2>0, <3>1, <3>2, <3>3, <3>4, RemovedStorages DEF Ranges
  <2>11. ASSUME NEW c \in Cid, DestroyFails(c)
         PROVE  Ranges' /\ RequestInv' /\ EntryInv'
    BY Zenon, <2>0, <2>11 DEF DestroyFails, Ranges, RootState, RequestInv, EntryInv, Busy, Storages,
       store, requests
  <2> QED BY Zenon, <1>2, <2>1, <2>2, <2>3, <2>4, <2>5, <2>6, <2>7, <2>8, <2>9, <2>10, <2>11
          DEF Next, Step, RequestStep
<1> QED BY Zenon, <1>1, <1>2

\* At the start too.
LEMMA TypeInit ==
  ASSUME Init
  PROVE  Ranges /\ RequestInv /\ EntryInv
<1>1. (CHOOSE c \in Cid : TRUE) \in Cid
  BY Zenon, StorageAssumption
<1> QED BY <1>1 DEF Init, Ranges, RequestInv, EntryInv, EntryState, RootState, PCs, Busy

\* The variables keep their types, and an entry of the storages never stays with a count of
\* zero, whatever clients do and whatever fails.
THEOREM TypeCorrect == Spec => []TypeOK
<1>1. Ranges /\ RequestInv /\ EntryInv /\ [Next]_vars => (Ranges /\ RequestInv /\ EntryInv)'
  BY Zenon, TypeStep
<1> QED BY TypeInit, <1>1, PTL DEF Spec, TypeOK
-----------------------------------------------------------------------------
(* The count covers the references.                                        *)

\* U and H have the references that a count n covers: a step that takes one adds to the
\* count, one that hands it from a request to a container leaves the count, and one
\* that takes one from the count takes one from U or H.
Moves(U, H, n, V, G, m) ==
  \/ V \subseteq U /\ G \subseteq H /\ m >= n
  \/ V \subseteq U /\ m >= n + 1 /\ \E x : G \subseteq H \cup {x}
  \/ V \subseteq U /\ m + 1 >= n /\ \E x \in H : G \subseteq H \ {x}
  \/ G \subseteq H /\ m + 1 >= n /\ \E x \in U : V \subseteq U \ {x}
  \/ m >= n /\ (\E x \in H : G \subseteq H \ {x}) /\ \E y : V \subseteq U \cup {y}

\* After such a step the count covers them.
LEMMA CoverKept ==
  ASSUME NEW U, NEW H, NEW n, NEW V, NEW G, NEW m, Moves(U, H, n, V, G, m),
         IsFiniteSet(U), IsFiniteSet(H), n \in Nat, m \in Nat,
         n >= Cardinality(U) + Cardinality(H)
  PROVE  m >= Cardinality(V) + Cardinality(G)
<1>0. Cardinality(U) \in Nat /\ Cardinality(H) \in Nat
  BY Zenon, FS_CardinalityType
<1>1. CASE V \subseteq U /\ G \subseteq H /\ m >= n
  <2>1. Cardinality(V) <= Cardinality(U) /\ Cardinality(V) \in Nat
    BY Zenon, <1>1, PartOf
  <2>2. Cardinality(G) <= Cardinality(H) /\ Cardinality(G) \in Nat
    BY Zenon, <1>1, PartOf
  <2> QED BY <1>0, <1>1, <2>1, <2>2
<1>2. CASE V \subseteq U /\ m >= n + 1 /\ \E x : G \subseteq H \cup {x}
  <2>1. Cardinality(V) <= Cardinality(U) /\ Cardinality(V) \in Nat
    BY Zenon, <1>2, PartOf
  <2>2. PICK x : G \subseteq H \cup {x}
    BY Zenon, <1>2
  <2>3. Cardinality(G) <= Cardinality(H) + 1 /\ Cardinality(G) \in Nat
    BY Zenon, <2>2, OneMore, PartOf, FS_AddElement
  <2> QED BY <1>0, <1>2, <2>1, <2>3
<1>3. CASE V \subseteq U /\ m + 1 >= n /\ \E x \in H : G \subseteq H \ {x}
  <2>1. Cardinality(V) <= Cardinality(U) /\ Cardinality(V) \in Nat
    BY Zenon, <1>3, PartOf
  <2>2. PICK x \in H : G \subseteq H \ {x}
    BY Zenon, <1>3
  <2>3. Cardinality(G) + 1 <= Cardinality(H)
    BY Zenon, <2>2, OneLess
  <2>4. Cardinality(G) \in Nat
    BY Zenon, <2>2, PartOf
  <2> QED BY <1>0, <1>3, <2>1, <2>3, <2>4
<1>4. CASE G \subseteq H /\ m + 1 >= n /\ \E x \in U : V \subseteq U \ {x}
  <2>1. Cardinality(G) <= Cardinality(H) /\ Cardinality(G) \in Nat
    BY Zenon, <1>4, PartOf
  <2>2. PICK x \in U : V \subseteq U \ {x}
    BY Zenon, <1>4
  <2>3. Cardinality(V) + 1 <= Cardinality(U)
    BY Zenon, <2>2, OneLess
  <2>4. Cardinality(V) \in Nat
    BY Zenon, <2>2, PartOf
  <2> QED BY <1>0, <1>4, <2>1, <2>3, <2>4
<1>5. CASE m >= n /\ (\E x \in H : G \subseteq H \ {x}) /\ \E y : V \subseteq U \cup {y}
  <2>1. PICK x \in H : G \subseteq H \ {x}
    BY Zenon, <1>5
  <2>2. PICK y : V \subseteq U \cup {y}
    BY Zenon, <1>5
  <2>3. Cardinality(G) + 1 <= Cardinality(H)
    BY Zenon, <2>1, OneLess
  <2>4. Cardinality(G) \in Nat
    BY Zenon, <2>1, PartOf
  <2>5. Cardinality(V) <= Cardinality(U) + 1 /\ Cardinality(V) \in Nat
    BY Zenon, <2>2, OneMore, PartOf, FS_AddElement
  <2> QED BY SMTT(30), <1>0, <1>5, <2>3, <2>4, <2>5
<1> QED BY Zenon, <1>1, <1>2, <1>3, <1>4, <1>5 DEF Moves

\* A request that a step leaves alone has what it had.
LEMMA OthersHold ==
  ASSUME NEW s \in Req, setting' = setting,
         pc'[s] = pc[s], cid'[s] = cid[s], at'[s] = at[s], list'[s] = list[s]
  PROVE  \A p : s \in Holders(p)' <=> s \in Holders(p)
BY Zenon DEF Holders, Here, Storages

\* One that ends has nothing.
LEMMA EndedHoldsNothing ==
  ASSUME Ranges, NEW r \in Req, End(r), setting' = setting
  PROVE  \A p : Holders(p)' \subseteq Holders(p) \ {r}
<1>1. /\ pc'[r] = "idle" /\ list'[r] = {} /\ cid' = cid
      /\ \A s \in Req \ {r} : pc'[s] = pc[s] /\ at'[s] = at[s] /\ list'[s] = list[s]
  BY Zenon DEF Ranges, End
<1>2. \A p : r \notin Holders(p)'
  BY Zenon, <1>1 DEF Holders
<1>3. \A s \in Req \ {r} : \A p : s \in Holders(p)' <=> s \in Holders(p)
  BY Zenon, <1>1, OthersHold
<1> QED BY Zenon, <1>2, <1>3 DEF Holders

\* One that goes on to the next storage has no more than before.
LEMMA AdvancedHoldsNoMore ==
  ASSUME Ranges, NEW r \in Req, Busy(r), NEW h, Advance(r, Here(r), h), setting' = setting
  PROVE  \A p : Holders(p)' \subseteq Holders(p)
<1>1. /\ pc'[r] = "add" /\ list'[r] \subseteq list[r] \cup {Here(r)} /\ cid' = cid
      /\ \A s \in Req \ {r} : pc'[s] = pc[s] /\ at'[s] = at[s] /\ list'[s] = list[s]
  BY Zenon DEF Ranges, Advance
<1>2. \A p : r \in Holders(p)' => r \in Holders(p)
  BY Zenon, <1>1 DEF Holders, Busy
<1>3. \A s \in Req \ {r} : \A p : s \in Holders(p)' <=> s \in Holders(p)
  BY Zenon, <1>1, OthersHold
<1> QED BY Zenon, <1>2, <1>3 DEF Holders

\* What a step may do to the references to p and to its count.
Balanced(p) == Moves(Users(p), Holders(p), count[p], Users(p)', Holders(p)', count'[p])

\* Every step takes, passes on and gives back references one by one.
LEMMA StepBalanced ==
  ASSUME Ranges, RequestInv, EntryInv, [Next]_vars
  PROVE  \A p \in Path : Balanced(p)
<1>0. \A p \in Path : count[p] \in Nat
  BY Zenon DEF Ranges
<1>1. CASE UNCHANGED vars
  <2>1. \A p \in Path : Users(p)' = Users(p) /\ Holders(p)' = Holders(p) /\ count'[p] = count[p]
    BY Zenon, <1>1 DEF Users, Holders, Here, Storages, vars, store, requests
  <2> QED BY <2>1, <1>0 DEF Balanced, Moves
<1>2. CASE Next
  <2>0. setting' = setting
    BY Zenon, <1>2 DEF Next
  <2>1. ASSUME NEW r \in Req, NEW c \in Cid, CreateBegin(r, c) \/ RemoveBegin(r, c)
        PROVE  \A p \in Path : Balanced(p)
    <3>1. /\ pc[r] = "idle" /\ pc'[r] \in {"add", "remove"}
          /\ UNCHANGED <<count, mounts, at, list>>
          /\ \A s \in Req \ {r} : pc'[s] = pc[s] /\ cid'[s] = cid[s]
      BY Zenon, <2>1 DEF Ranges, CreateBegin, RemoveBegin, store
    <3>2. \A p : r \notin Holders(p)'
      BY Zenon, <3>1 DEF Holders, RequestInv
    <3>3. \A s \in Req \ {r} : \A p : s \in Holders(p)' <=> s \in Holders(p)
      BY Zenon, <2>0, <3>1, OthersHold
    <3>4. \A p : Users(p)' = Users(p) /\ Holders(p)' \subseteq Holders(p)
      BY Zenon, <3>1, <3>2, <3>3 DEF Users, Holders
    <3> QED BY <1>0, <3>1, <3>4 DEF Balanced, Moves
  <2>2. ASSUME NEW r \in Req, AddSandboxStorage(r)
        PROVE  \A p \in Path : Balanced(p)
    <3>1. /\ count' = [count EXCEPT ![Here(r)] = @ + 1]
          /\ pc' = [pc EXCEPT ![r] = "load"]
          /\ UNCHANGED <<mounts, cid, at, list>>
      BY Zenon, <2>2 DEF AddSandboxStorage
    <3>2. Here(r)' = Here(r) /\ pc'[r] = "load" /\ \A s \in Req \ {r} : pc'[s] = pc[s]
      BY Zenon, <2>0, <3>1 DEF Ranges, Here, Storages
    <3>3. \A s \in Req \ {r} : \A p : s \in Holders(p)' <=> s \in Holders(p)
      BY Zenon, <2>0, <3>1, <3>2, OthersHold
    <3>4. \A p : r \in Holders(p)' => r \in Holders(p) \/ p = Here(r)
      BY Zenon, <3>1, <3>2 DEF Holders
    <3>5. \A p : Users(p)' = Users(p) /\ Holders(p)' \subseteq Holders(p) \cup {r}
      BY Zenon, <3>1, <3>3 DEF Users, Holders
    <3>6. \A p : p # Here(r) => Holders(p)' \subseteq Holders(p)
      BY Zenon, <3>3, <3>4 DEF Holders
    <3>7. \A p \in Path : count'[p] = IF p = Here(r) THEN count[p] + 1 ELSE count[p]
      BY Zenon, <3>1 DEF Ranges
    <3>8. \A p \in Path : p = Here(r) => Balanced(p)
      BY SMTT(30), <1>0, <3>5, <3>7 DEF Balanced, Moves
    <3>9. \A p \in Path : p # Here(r) => Balanced(p)
      BY SMTT(30), <1>0, <3>5, <3>6, <3>7 DEF Balanced, Moves
    <3> QED BY Zenon, <3>8, <3>9
  <2>3. ASSUME NEW r \in Req, ReuseDevice(r) \/ UpdateSandboxStorage(r)
        PROVE  \A p \in Path : Balanced(p)
    <3>1. Busy(r) /\ (\E h : Advance(r, Here(r), h)) /\ UNCHANGED <<count, mounts>>
      BY Zenon, <2>3 DEF ReuseDevice, UpdateSandboxStorage, Busy, store
    <3>2. \A p : Users(p)' = Users(p) /\ Holders(p)' \subseteq Holders(p)
      BY Zenon, <2>0, <3>1, AdvancedHoldsNoMore DEF Users
    <3> QED BY <1>0, <3>1, <3>2 DEF Balanced, Moves
  <2>4. ASSUME NEW r \in Req, NewDevice(r) \/ CreateDevice(r) \/ CreateDeviceFails(r)
        PROVE  \A p \in Path : Balanced(p)
    <3>1. /\ Busy(r)
          /\ UNCHANGED <<count, mounts, cid, at, list>>
          /\ \E q \in {"device", "update", "undo"} : pc' = [pc EXCEPT ![r] = q]
      BY Zenon, <2>4 DEF NewDevice, CreateDevice, CreateDeviceFails, Busy, store
    <3>2. pc'[r] \in {"device", "update", "undo"} /\ \A s \in Req \ {r} : pc'[s] = pc[s]
      BY Zenon, <3>1 DEF Ranges
    <3>3. \A s \in Req \ {r} : \A p : s \in Holders(p)' <=> s \in Holders(p)
      BY Zenon, <2>0, <3>1, <3>2, OthersHold
    <3>4. \A p : r \in Holders(p)' => r \in Holders(p)
      BY Zenon, <2>0, <3>1, <3>2 DEF Holders, Busy, Here, Storages
    <3>5. \A p : Users(p)' = Users(p) /\ Holders(p)' \subseteq Holders(p)
      BY Zenon, <3>1, <3>3, <3>4 DEF Users, Holders
    <3> QED BY <1>0, <3>1, <3>5 DEF Balanced, Moves
  <2>5. ASSUME NEW r \in Req, Undo(r)
        PROVE  \A p \in Path : Balanced(p)
    <3>1. Busy(r) /\ RemoveStorages({Here(r)}) /\ End(r) /\ UNCHANGED mounts
      BY Zenon, <2>5 DEF Undo, Busy
    <3>2. /\ \A p \in Path : count'[p] + 1 >= count[p]
          /\ \A p \in Path \ {Here(r)} : count'[p] = count[p]
      BY Zenon, <3>1, RemovedStorages
    <3>3. \A p : Users(p)' = Users(p) /\ Holders(p)' \subseteq Holders(p) \ {r}
      BY Zenon, <2>0, <3>1, EndedHoldsNothing DEF Users
    <3>4. r \in Holders(Here(r))
      BY Zenon, <3>1 DEF Holders, Busy
    <3>5. \A p \in Path : p = Here(r) => Balanced(p)
      BY Zenon, <1>0, <3>2, <3>3, <3>4 DEF Balanced, Moves
    <3>6. \A p \in Path : p # Here(r) => Balanced(p)
      BY SMTT(30), <1>0, <3>2, <3>3 DEF Balanced, Moves
    <3> QED BY Zenon, <3>5, <3>6
  <2>6. ASSUME NEW r \in Req, UnknownDriver(r) \/ SecretsFail(r) \/ RemoveTimesOut(r)
        PROVE  \A p \in Path : Balanced(p)
    <3>1. End(r) /\ UNCHANGED <<count, mounts>>
      BY Zenon, <2>6 DEF UnknownDriver, SecretsFail, RemoveTimesOut, store
    <3>2. \A p : Users(p)' = Users(p) /\ Holders(p)' \subseteq Holders(p) \ {r}
      BY Zenon, <2>0, <3>1, EndedHoldsNothing DEF Users
    <3> QED BY <1>0, <3>1, <3>2 DEF Balanced, Moves
  <2>7. ASSUME NEW r \in Req, CreateContainer(r) \/ CreateFails(r) \/ SharedMountsFail(r)
        PROVE  \A p \in Path : Balanced(p)
    <3>1. /\ End(r) /\ UNCHANGED count
          /\ mounts' = [mounts EXCEPT ![cid[r]] = list[r]]
      BY Zenon, <2>7 DEF CreateContainer, CreateFails, SharedMountsFail, store
    <3>2. \A p : Holders(p)' \subseteq Holders(p) \ {r}
      BY Zenon, <2>0, <3>1, EndedHoldsNothing
    <3>3. \A p : Users(p)' \subseteq Users(p) \cup {cid[r]}
      BY Zenon, <3>1 DEF Users, Ranges
    <3>4. \A p : p \notin list[r] => Users(p)' \subseteq Users(p)
      BY Zenon, <3>1 DEF Users, Ranges
    <3>5. \A p : p \in list[r] => r \in Holders(p)
      BY Zenon DEF Holders
    <3>6. \A p \in Path : p \in list[r] => Balanced(p)
      BY SMTT(30), <1>0, <3>1, <3>2, <3>3, <3>5 DEF Balanced, Moves
    <3>7. \A p \in Path : p \notin list[r] => Balanced(p)
      BY SMTT(30), <1>0, <3>1, <3>2, <3>4 DEF Balanced, Moves
    <3> QED BY Zenon, <3>6, <3>7
  <2>8. ASSUME NEW r \in Req, StartFails(r)
        PROVE  \A p \in Path : Balanced(p)
    <3>1. /\ End(r) /\ RemoveStorages({p \in list[r] : entry[p] # "none"})
          /\ mounts' = [mounts EXCEPT ![cid[r]] = {}]
      BY Zenon, <2>8 DEF StartFails, RemoveContainerResources
    <3>2. \A p : Users(p)' \subseteq Users(p) /\ Holders(p)' \subseteq Holders(p) \ {r}
      BY Zenon, <2>0, <3>1, EndedHoldsNothing DEF Users, Ranges
    <3>3. /\ \A p \in Path : count'[p] + 1 >= count[p]
          /\ \A p \in Path \ {q \in list[r] : entry[q] # "none"} : count'[p] = count[p]
      BY Zenon, <3>1, RemovedStorages
    <3>4. \A p : p \in list[r] => r \in Holders(p)
      BY Zenon DEF Holders
    <3>5. \A p \in Path : p \in list[r] => Balanced(p)
      BY Zenon, <1>0, <3>2, <3>3, <3>4 DEF Balanced, Moves
    <3>6. \A p \in Path : p \notin list[r] => Balanced(p)
      BY SMTT(30), <1>0, <3>2, <3>3 DEF Balanced, Moves
    <3> QED BY Zenon, <3>5, <3>6
  <2>9. ASSUME NEW c \in Cid, RemoveContainerResources(c, mounts[c]),
               \A p : Holders(p)' \subseteq Holders(p)
        PROVE  \A p \in Path : Balanced(p)
    <3>1. /\ RemoveStorages({p \in mounts[c] : entry[p] # "none"})
          /\ mounts' = [mounts EXCEPT ![c] = {}]
      BY Zenon, <2>9 DEF RemoveContainerResources
    <3>2. \A p : Users(p)' \subseteq Users(p) \ {c}
      BY Zenon, <3>1 DEF Users, Ranges
    <3>3. /\ \A p \in Path : count'[p] + 1 >= count[p]
          /\ \A p \in Path \ {q \in mounts[c] : entry[q] # "none"} : count'[p] = count[p]
      BY Zenon, <3>1, RemovedStorages
    <3>4. \A p : p \in mounts[c] => c \in Users(p)
      BY Zenon DEF Users
    <3>5. \A p \in Path : p \in mounts[c] => Balanced(p)
      BY Zenon, <1>0, <2>9, <3>2, <3>3, <3>4 DEF Balanced, Moves
    <3>6. \A p \in Path : p \notin mounts[c] => Balanced(p)
      BY SMTT(30), <1>0, <2>9, <3>2, <3>3 DEF Balanced, Moves
    <3> QED BY Zenon, <3>5, <3>6
  <2>10. ASSUME NEW r \in Req, RemoveEnd(r)
         PROVE  \A p \in Path : Balanced(p)
    <3>1. End(r) /\ cid[r] \in Cid /\ RemoveContainerResources(cid[r], mounts[cid[r]])
      BY Zenon, <2>10 DEF RemoveEnd, Ranges
    <3> QED BY Zenon, <2>0, <2>9, <3>1, EndedHoldsNothing
  <2>11. ASSUME NEW c \in Cid, RemoveContainer(c)
         PROVE  \A p \in Path : Balanced(p)
    <3>1. UNCHANGED <<pc, cid, at, list>> /\ RemoveContainerResources(c, mounts[c])
      BY Zenon, <2>11 DEF RemoveContainer, requests
    <3>2. \A p : Holders(p)' = Holders(p)
      BY Zenon, <2>0, <3>1 DEF Holders, Here, Storages
    <3> QED BY Zenon, <2>9, <3>1, <3>2
  <2>12. ASSUME NEW c \in Cid, DestroyFails(c)
         PROVE  \A p \in Path : Balanced(p)
    <3>1. \A p \in Path : Users(p)' = Users(p) /\ Holders(p)' = Holders(p) /\ count'[p] = count[p]
      BY Zenon, <2>0, <2>12 DEF DestroyFails, Users, Holders, Here, Storages, store, requests
    <3> QED BY <3>1, <1>0 DEF Balanced, Moves
  <2> QED BY Zenon, <1>2, <2>1, <2>2, <2>3, <2>4, <2>5, <2>6, <2>7, <2>8, <2>10, <2>11, <2>12
          DEF Next, Step, RequestStep
<1> QED BY Zenon, <1>1, <1>2
\* The references to a storage are finitely many.
LEMMA FiniteRefs ==
  \A p : IsFiniteSet(Users(p)) /\ IsFiniteSet(Holders(p))
<1>1. \A p : Users(p) \subseteq Cid /\ Holders(p) \subseteq Req
  BY Zenon DEF Users, Holders
<1> QED BY Zenon, <1>1, StorageAssumption, FS_Subset

\* What holds for any client.
CoverInv == Ranges /\ RequestInv /\ EntryInv /\ RefsCover

\* It holds at the start,
LEMMA CoverInit == Init => CoverInv
<1> SUFFICES ASSUME Init PROVE CoverInv
  BY Zenon
<1>1. Ranges /\ RequestInv /\ EntryInv
  BY Zenon, TypeInit
<1>2. \A p \in Path : Users(p) = {} /\ Holders(p) = {} /\ count[p] = 0
  BY Zenon DEF Init, Users, Holders
<1>3. Cardinality({}) = 0
  BY Zenon, FS_EmptySet
<1> QED BY <1>1, <1>2, <1>3 DEF CoverInv, RefsCover

\* every step preserves it,
LEMMA CoverStep == CoverInv /\ [Next]_vars => CoverInv'
<1> SUFFICES ASSUME CoverInv, [Next]_vars PROVE CoverInv'
  BY Zenon
<1>1. Ranges' /\ RequestInv' /\ EntryInv'
  BY Zenon, TypeStep DEF CoverInv
<1>2. ASSUME NEW p \in Path
      PROVE  count'[p] >= Cardinality(Users(p)') + Cardinality(Holders(p)')
  <2>1. Balanced(p)
    BY Zenon, StepBalanced DEF CoverInv
  <2>2. count[p] \in Nat /\ count'[p] \in Nat
    BY Zenon, <1>1 DEF CoverInv, Ranges
  <2>3. count[p] >= Cardinality(Users(p)) + Cardinality(Holders(p))
    BY Zenon DEF CoverInv, RefsCover
  <2>4. IsFiniteSet(Users(p)) /\ IsFiniteSet(Holders(p))
    BY Zenon, FiniteRefs
  <2> QED BY Zenon, <2>1, <2>2, <2>3, <2>4, CoverKept DEF Balanced
<1> QED BY Zenon, <1>1, <1>2 DEF CoverInv, RefsCover

\* and so it always holds.
LEMMA CoverAlways == Spec => []CoverInv
BY CoverInit, CoverStep, PTL DEF Spec

\* No reference is given back that was not taken: however many requests there are, however
\* they interleave and whatever fails, a storage's count covers the containers and the
\* requests that refer to it.
THEOREM ReferencesCovered == Spec => []RefsCover
<1>1. CoverInv => RefsCover
  BY Zenon DEF CoverInv
<1> QED BY CoverAlways, <1>1, PTL

\* So the entry that a request has added is there when its device has been created, or has
\* failed: update_sandbox_storage and remove_sandbox_storage find it.
THEOREM EntryFound == Spec => []UpdateFindsEntry
<1>1. CoverInv => UpdateFindsEntry
  <2> SUFFICES ASSUME CoverInv, NEW r \in Req, pc[r] \in {"update", "undo"}
               PROVE  entry[Here(r)] # "none"
    BY Zenon DEF UpdateFindsEntry
  <2>1. Here(r) \in Path
    BY Zenon, HereIsPath DEF CoverInv, Busy
  <2>2. r \in Holders(Here(r))
    BY Zenon DEF Holders
  <2>3. IsFiniteSet(Holders(Here(r))) /\ IsFiniteSet(Users(Here(r)))
    BY Zenon, FiniteRefs
  <2>4. Cardinality(Holders(Here(r))) # 0
    BY Zenon, <2>2, <2>3, FS_EmptySet
  <2>5. Cardinality(Holders(Here(r))) \in Nat /\ Cardinality(Users(Here(r))) \in Nat
    BY Zenon, <2>3, FS_CardinalityType
  <2>6. count[Here(r)] >= Cardinality(Users(Here(r))) + Cardinality(Holders(Here(r)))
    BY Zenon, <2>1 DEF CoverInv, RefsCover
  <2>7. count[Here(r)] # 0
    BY <2>4, <2>5, <2>6
  <2> QED BY Zenon, <2>1, <2>7 DEF CoverInv, EntryInv
<1> QED BY CoverAlways, <1>1, PTL

\* A step that unmounts a storage is remove_sandbox_storage's, of the last reference to it.
LEMMA UnmountRemoves ==
  ASSUME Ranges, EntryInv, [Next]_vars, NEW p \in mounted \ mounted'
  PROVE  p \in Path /\ count'[p] = 0
<1>1. p \in Path
  BY Zenon DEF Ranges
<1>2. Next
  BY Zenon DEF vars, store
<1>3. \E S : RemoveStorages(S)
  <2>1. CASE \E r \in Req : RequestStep(r)
    <3>1. PICK r \in Req : RequestStep(r)
      BY Zenon, <2>1
    <3>2. CASE Undo(r)
      BY Zenon, <3>2 DEF Undo
    <3>3. CASE StartFails(r)
      BY Zenon, <3>3 DEF StartFails, RemoveContainerResources
    <3>4. CASE RemoveEnd(r)
      BY Zenon, <3>4 DEF RemoveEnd, RemoveContainerResources
    <3>5. CASE \E c \in Cid : CreateBegin(r, c) \/ RemoveBegin(r, c)
      BY Zenon, <3>5 DEF CreateBegin, RemoveBegin, store
    <3>6. CASE CreateDevice(r) \/ CreateDeviceFails(r)
      BY Zenon, <3>6 DEF CreateDevice, CreateDeviceFails
    <3>7. ASSUME UNCHANGED mounted
          PROVE  FALSE
      BY Zenon, <3>7
    <3>8. CASE AddSandboxStorage(r) \/ ReuseDevice(r) \/ NewDevice(r) \/ UnknownDriver(r)
                 \/ UpdateSandboxStorage(r)
      BY Zenon, <3>7, <3>8 DEF AddSandboxStorage, ReuseDevice, NewDevice, UnknownDriver,
         UpdateSandboxStorage, store
    <3>9. CASE SecretsFail(r) \/ CreateContainer(r) \/ CreateFails(r) \/ SharedMountsFail(r)
                 \/ RemoveTimesOut(r)
      BY Zenon, <3>7, <3>9 DEF SecretsFail, CreateContainer, CreateFails, SharedMountsFail,
         RemoveTimesOut, store
    <3> QED BY Zenon, <3>1, <3>2, <3>3, <3>4, <3>5, <3>6, <3>8, <3>9 DEF RequestStep
  <2>2. CASE \E c \in Cid : RemoveContainer(c)
    BY Zenon, <2>2 DEF RemoveContainer, RemoveContainerResources
  <2>3. CASE \E c \in Cid : DestroyFails(c)
    BY Zenon, <2>3 DEF DestroyFails, store
  <2> QED BY Zenon, <1>2, <2>1, <2>2, <2>3 DEF Next, Step
<1> QED BY Zenon, <1>1, <1>3, RemovedStorages

\* A storage is unmounted only when no container will give it back and no request has it:
\* a container's storages stay mounted under it.
THEOREM OnlyUnusedUnmounted == Spec => UnmountsUnused
<1>1. CoverInv /\ CoverInv' /\ [Next]_vars
      => [\A p \in mounted \ mounted' : (Users(p) = {} /\ Holders(p) = {})']_vars
  <2> SUFFICES ASSUME CoverInv, CoverInv', [Next]_vars, NEW p \in mounted \ mounted'
               PROVE  (Users(p) = {} /\ Holders(p) = {})'
    BY Zenon DEF vars
  <2>1. p \in Path /\ count'[p] = 0
    BY Zenon, UnmountRemoves DEF CoverInv
  <2>2. 0 >= Cardinality(Users(p)') + Cardinality(Holders(p)')
    BY Zenon, <2>1 DEF CoverInv, RefsCover
  <2>3. Users(p)' \subseteq Cid /\ Holders(p)' \subseteq Req
    BY Zenon DEF Users, Holders
  <2>4. IsFiniteSet(Users(p)') /\ IsFiniteSet(Holders(p)')
    BY Zenon, <2>3, StorageAssumption, FS_Subset
  <2>5. Cardinality(Users(p)') = 0 /\ Cardinality(Holders(p)') = 0
    BY <2>2, <2>4, FS_CardinalityType
  <2> QED BY Zenon, <2>4, <2>5, FS_EmptySet
<1> QED BY CoverAlways, <1>1, PTL DEF Spec, UnmountsUnused
-----------------------------------------------------------------------------
(* An orderly client.                                                      *)

OrderlyInv == SerialInv /\ DeviceInv /\ ListInv /\ CountInv

\* The steps there are for it.
LEMMA OrderlySteps ==
  ASSUME Orderly, SerialInv, Next
  PROVE  \/ \E r \in Req : \E c \in Cid : CreateBegin(r, c)
         \/ \E r \in Req : AddSandboxStorage(r)
         \/ \E r \in Req : ReuseDevice(r)
         \/ \E r \in Req : NewDevice(r)
         \/ \E r \in Req : CreateDevice(r)
         \/ \E r \in Req : CreateDeviceFails(r)
         \/ \E r \in Req : UpdateSandboxStorage(r)
         \/ \E r \in Req : Undo(r)
         \/ \E r \in Req : CreateContainer(r)
         \/ \E r \in Req : StartFails(r)
         \/ \E c \in Cid : RemoveContainer(c)
<1>1. {"driver", "other", "timeout"} \cap Failures = {}
  BY Zenon DEF Orderly
<1>2. \A r \in Req : pc[r] # "remove"
  BY Zenon DEF SerialInv
<1>3. \A r \in Req : ~UnknownDriver(r) /\ ~SecretsFail(r) /\ ~CreateFails(r) /\ ~SharedMountsFail(r)
  BY Zenon, <1>1 DEF UnknownDriver, SecretsFail, CreateFails, SharedMountsFail
<1>4. \A r \in Req : ~RemoveEnd(r) /\ ~RemoveTimesOut(r)
  BY Zenon, <1>2 DEF RemoveEnd, RemoveTimesOut
<1>5. \A c \in Cid : ~DestroyFails(c) /\ \A r \in Req : ~RemoveBegin(r, c)
  BY Zenon, <1>1 DEF DestroyFails, RemoveBegin
<1> QED BY Zenon, <1>3, <1>4, <1>5 DEF Next, Step, RequestStep

\* What the requests other than the one that takes a step have: nothing.
LEMMA OthersIdle ==
  ASSUME Orderly, SerialInv, NEW r \in Req, pc[r] # "idle"
  PROVE  \A s \in Req \ {r} : pc[s] = "idle"
BY Zenon DEF SerialInv

\* The storage of a request under way has a reference, and so has every one a request or
\* a container will give back.
LEMMA HeldCounted ==
  ASSUME CoverInv, NEW p \in Path, Users(p) # {} \/ Holders(p) # {}
  PROVE  count[p] > 0 /\ entry[p] # "none"
<1>1. IsFiniteSet(Users(p)) /\ IsFiniteSet(Holders(p))
  BY Zenon, FiniteRefs
<1>2. Cardinality(Users(p)) # 0 \/ Cardinality(Holders(p)) # 0
  BY Zenon, <1>1, FS_EmptySet
<1>3. Cardinality(Users(p)) \in Nat /\ Cardinality(Holders(p)) \in Nat
  BY Zenon, <1>1, FS_CardinalityType
<1>4. count[p] >= Cardinality(Users(p)) + Cardinality(Holders(p)) /\ count[p] \in Nat
  BY Zenon DEF CoverInv, RefsCover, Ranges
<1>5. count[p] > 0
  BY <1>2, <1>3, <1>4
<1> QED BY <1>5 DEF CoverInv, EntryInv

\* Requests follow one another.
LEMMA SerialStep ==
  ASSUME Orderly, CoverInv, SerialInv, Next
  PROVE  SerialInv'
<1>0. setting' = setting /\ Ranges /\ RequestInv
  BY Zenon DEF Next, CoverInv
<1>1. ASSUME NEW r \in Req, NEW c \in Cid, CreateBegin(r, c)
      PROVE  SerialInv'
  <2>1. (\A s \in Req : pc[s] = "idle") /\ c \notin ctrs /\ ctrs' = ctrs
    BY Zenon, <1>1 DEF CreateBegin, Accepted, Orderly
  <2>2. pc'[r] = "add" /\ cid'[r] = c /\ \A s \in Req \ {r} : pc'[s] = pc[s]
    BY Zenon, <1>0, <1>1 DEF CreateBegin, Ranges
  <2> QED BY Zenon, <1>0, <2>1, <2>2 DEF SerialInv, Orderly, Serial, Failures, Storages
<1>2. ASSUME NEW r \in Req,
             \/ AddSandboxStorage(r) \/ ReuseDevice(r) \/ NewDevice(r) \/ CreateDevice(r)
             \/ CreateDeviceFails(r) \/ UpdateSandboxStorage(r)
      PROVE  SerialInv'
  <2>1. /\ pc[r] # "idle" /\ ctrs' = ctrs /\ cid' = cid
        /\ \E q \in {"add", "load", "device", "update", "undo"} : pc' = [pc EXCEPT ![r] = q]
    BY Zenon, <1>2 DEF AddSandboxStorage, ReuseDevice, NewDevice, CreateDevice, CreateDeviceFails,
       UpdateSandboxStorage, Advance, store
  <2>2. pc'[r] # "remove" /\ \A s \in Req \ {r} : pc'[s] = pc[s]
    BY Zenon, <1>0, <2>1 DEF Ranges
  <2> QED BY Zenon, <1>0, <2>1, <2>2 DEF SerialInv, Orderly, Serial, Failures, Storages
<1>3. ASSUME NEW r \in Req, Undo(r) \/ CreateContainer(r) \/ StartFails(r)
      PROVE  SerialInv'
  <2>1. /\ pc[r] # "idle" /\ pc' = [pc EXCEPT ![r] = "idle"]
        /\ ctrs' \subseteq ctrs \cup {cid[r]} /\ pc[r] # "remove"
    BY Zenon, <1>3 DEF Undo, CreateContainer, StartFails, RemoveContainerResources, AllAdded, End
  <2>2. cid[r] \in DOMAIN Storages
    BY Zenon, <1>0, <2>1 DEF RequestInv
  <2>3. \A s \in Req : pc'[s] = "idle"
    BY Zenon, <1>0, <2>1, OthersIdle DEF Ranges
  <2> QED BY Zenon, <1>0, <2>1, <2>2, <2>3 DEF SerialInv, Orderly, Serial, Failures, Storages
<1>4. ASSUME NEW c \in Cid, RemoveContainer(c)
      PROVE  SerialInv'
  <2>1. ctrs' \subseteq ctrs /\ pc' = pc /\ cid' = cid
    BY Zenon, <1>4 DEF RemoveContainer, RemoveContainerResources, requests
  <2> QED BY Zenon, <1>0, <2>1 DEF SerialInv, Orderly, Serial, Failures, Storages
<1> QED BY Zenon, <1>1, <1>2, <1>3, <1>4, OrderlySteps
\* Between the steps of adding a storage, every storage that is sound has its device.
LEMMA NoDummy ==
  ASSUME Orderly, DeviceInv, \A r \in Req : ~Busy(r)
  PROVE  \A p \in Path : Sound(p) => entry[p] # "dummy"
BY Zenon DEF DeviceInv

\* A step after which no request is adding a storage, and which no more than removes
\* entries with their last reference.
LEMMA DeviceQuiet ==
  ASSUME Orderly, CoverInv, DeviceInv, setting' = setting, Ranges',
         \A r \in Req : ~Busy(r), \A r \in Req : ~Busy(r)',
         \/ UNCHANGED <<entry, mounted>>
         \/ \E S : RemoveStorages(S)
  PROVE  DeviceInv'
<1>1. \A p \in Path : entry'[p] \in {entry[p], "none"}
  BY Zenon, RemovedStorages DEF CoverInv
<1>2. \A p \in Path : Sound(p) => entry'[p] # "dummy"
  BY Zenon, <1>1, NoDummy
<1>3. \A p \in Path : entry'[p] = "device" => p \in mounted'
  <2> SUFFICES ASSUME NEW p \in Path, entry'[p] = "device", p \notin mounted'
               PROVE  FALSE
    BY Zenon
  <2>1. entry[p] = "device" /\ p \in mounted
    BY Zenon, <1>1 DEF DeviceInv
  <2>2. \E S : RemoveStorages(S)
    BY Zenon, <2>1
  <2>3. count'[p] = 0 /\ EntryInv'
    BY Zenon, <2>1, <2>2, RemovedStorages DEF CoverInv
  <2> QED BY Zenon, <2>3 DEF EntryInv
<1>4. \A r \in Req : pc'[r] \notin {"load", "device", "update", "undo"}
  BY Zenon DEF Busy
<1> QED BY Zenon, <1>2, <1>3, <1>4 DEF DeviceInv, Sound, Orderly, Serial, Failures, Shared

\* A device is there for every entry that says so.
LEMMA DeviceStep ==
  ASSUME Orderly, CoverInv, SerialInv, DeviceInv, Next
  PROVE  DeviceInv'
<1>0. setting' = setting /\ Ranges /\ RequestInv /\ EntryInv /\ CoverInv'
  BY Zenon, CoverStep DEF Next, CoverInv
<1>00. Ranges' /\ EntryInv' /\ Orderly'
  BY Zenon, <1>0 DEF CoverInv, Orderly, Serial, Failures
<1>1. ASSUME NEW r \in Req, NEW c \in Cid, CreateBegin(r, c)
      PROVE  DeviceInv'
  <2>1. \A s \in Req : pc[s] = "idle" /\ pc'[s] \in {"idle", "add"}
    BY Zenon, <1>0, <1>1 DEF CreateBegin, Accepted, Orderly, Ranges
  <2>2. UNCHANGED <<entry, mounted>> /\ \A s \in Req : ~Busy(s) /\ ~Busy(s)'
    BY Zenon, <1>1, <2>1 DEF CreateBegin, Busy, store
  <2> QED BY Zenon, <1>0, <1>00, <2>2, DeviceQuiet
<1>2. ASSUME NEW r \in Req, AddSandboxStorage(r)
      PROVE  DeviceInv'
  <2>1. pc[r] = "add" /\ Here(r) \in Path
    BY Zenon, <1>0, <1>2, HereIsPath DEF AddSandboxStorage
  <2>2. \A s \in Req \ {r} : pc[s] = "idle"
    BY Zenon, <2>1, OthersIdle
  <2>3. /\ pc'[r] = "load" /\ (\A s \in Req \ {r} : pc'[s] = "idle")
        /\ snap'[r] = entry'[Here(r)] /\ Here(r)' = Here(r) /\ mounted' = mounted
    BY Zenon, <1>0, <1>2, <2>2 DEF AddSandboxStorage, Ranges, Here, Storages
  <2>4. \A p \in Path : /\ count'[p] = IF p = Here(r) THEN count[p] + 1 ELSE count[p]
                        /\ entry'[p] = IF p = Here(r) /\ entry[p] = "none"
                                      THEN "dummy" ELSE entry[p]
    BY Zenon, <1>0, <1>2 DEF AddSandboxStorage, Ranges
  <2>5. \A p \in Path : Sound(p) => entry[p] # "dummy"
    BY Zenon, <2>1, <2>2, NoDummy DEF Busy
  <2>6. \A p \in Path : entry'[p] = "device" => p \in mounted'
    BY Zenon, <2>3, <2>4 DEF DeviceInv
  <2>7. \A p \in Path : Sound(p) /\ entry'[p] = "dummy" => p = Here(r) /\ entry[p] = "none"
    BY Zenon, <2>4, <2>5
  <2>8. \A p \in Path : Sound(p) /\ entry'[p] = "dummy" => p = Here(r) /\ count'[p] = 1
    BY SMTT(30), <1>0, <2>4, <2>7 DEF EntryInv
  <2>9. Busy(r)'
    BY Zenon, <2>3 DEF Busy
  <2>10. \A p \in Path : Sound(p)' = Sound(p)
    BY Zenon, <1>0 DEF Sound, Failures, Shared
  <2> QED BY Zenon, <2>3, <2>6, <2>8, <2>9, <2>10 DEF DeviceInv
<1>3. ASSUME NEW r \in Req, NewDevice(r) \/ CreateDevice(r) \/ CreateDeviceFails(r)
      PROVE  DeviceInv'
  <2>1. /\ Busy(r) /\ pc[r] \in {"load", "device"}
        /\ pc[r] = "load" => count[Here(r)] <= 1
        /\ UNCHANGED <<entry, count, cid, at>>
        /\ \E q \in {"device", "update", "undo"} :
             /\ pc' = [pc EXCEPT ![r] = q]
             /\ q = "update" => Here(r) \in mounted'
             /\ q = "undo" => "device" \in Failures
        /\ mounted \subseteq mounted'
    BY Zenon, <1>3 DEF NewDevice, CreateDevice, CreateDeviceFails, Busy, store
  <2>2. Here(r) \in Path /\ r \in Holders(Here(r))
    BY Zenon, <1>0, <2>1, HereIsPath DEF Holders, Busy
  <2>3. count[Here(r)] = 1
    BY SMTT(30), <1>0, <2>1, <2>2, HeldCounted DEF DeviceInv, Ranges
  <2>4. \A s \in Req \ {r} : pc[s] = "idle"
    BY Zenon, <2>1, OthersIdle
  <2>5. /\ pc'[r] \in {"device", "update", "undo"} /\ (\A s \in Req \ {r} : pc'[s] = "idle")
        /\ pc'[r] = "update" => Here(r) \in mounted'
        /\ pc'[r] = "undo" => "device" \in Failures
        /\ Here(r)' = Here(r)
    BY Zenon, <1>0, <2>1, <2>4 DEF Ranges, Here, Storages
  <2>6. \A p \in Path : entry'[p] = "device" => p \in mounted'
    BY Zenon, <2>1 DEF DeviceInv
  <2>7. \A p \in Path : Sound(p) /\ entry'[p] = "dummy" => count[p] = 1 /\ p = Here(r)
    BY Zenon, <2>1, <2>4 DEF DeviceInv, Busy
  <2>8. Busy(r)' /\ count' = count
    BY Zenon, <2>1, <2>5 DEF Busy
  <2>9. (\A p \in Path : Sound(p)' = Sound(p)) /\ Failures' = Failures
    BY Zenon, <1>0 DEF Sound, Failures, Shared
  <2> QED BY Zenon, <2>3, <2>5, <2>6, <2>7, <2>8, <2>9 DEF DeviceInv
<1>4. ASSUME NEW r \in Req, ReuseDevice(r) \/ UpdateSandboxStorage(r)
      PROVE  DeviceInv'
  <2>1. /\ Busy(r)
        /\ \/ count[Here(r)] > 1 /\ entry' = entry
           \/ Here(r) \in mounted /\ entry' = [entry EXCEPT ![Here(r)] = "device"]
        /\ pc' = [pc EXCEPT ![r] = "add"] /\ mounted' = mounted
    BY Zenon, <1>4 DEF ReuseDevice, UpdateSandboxStorage, Advance, Busy, DeviceInv, store
  <2>2. Here(r) \in Path
    BY Zenon, <1>0, <2>1, HereIsPath
  <2>3. \A s \in Req \ {r} : pc[s] = "idle"
    BY Zenon, <2>1, OthersIdle DEF Busy
  <2>4. \A s \in Req : pc'[s] \in {"idle", "add"}
    BY Zenon, <1>0, <2>1, <2>3 DEF Ranges
  <2>5. \A p \in Path : \/ entry'[p] = entry[p] /\ (p # Here(r) \/ count[p] > 1)
                        \/ p = Here(r) /\ p \in mounted /\ entry'[p] = "device"
    BY Zenon, <1>0, <2>1, <2>2 DEF Ranges
  <2>6. \A p \in Path : entry'[p] = "device" => p \in mounted'
    BY Zenon, <2>1, <2>5 DEF DeviceInv
  <2>7. \A p \in Path : Sound(p) /\ entry[p] = "dummy" => count[p] = 1 /\ p = Here(r)
    BY Zenon, <2>3 DEF DeviceInv, Busy
  <2>8. \A p \in Path : Sound(p) => entry'[p] # "dummy"
    BY SMTT(30), <2>5, <2>7
  <2>9. \A p \in Path : Sound(p)' = Sound(p)
    BY Zenon, <1>0 DEF Sound, Failures, Shared
  <2> QED BY Zenon, <2>4, <2>6, <2>8, <2>9 DEF DeviceInv
<1>5. ASSUME NEW r \in Req, Undo(r)
      PROVE  DeviceInv'
  <2>1. /\ pc[r] = "undo" /\ pc' = [pc EXCEPT ![r] = "idle"] /\ RemoveStorages({Here(r)})
    BY Zenon, <1>5 DEF Undo, End
  <2>2. Here(r) \in Path /\ count[Here(r)] = 1 /\ "device" \in Failures
    BY Zenon, <1>0, <2>1, HereIsPath DEF DeviceInv, Busy
  <2>3. \A s \in Req \ {r} : pc[s] = "idle"
    BY Zenon, <2>1, OthersIdle
  <2>4. \A s \in Req : pc'[s] = "idle"
    BY Zenon, <1>0, <2>1, <2>3 DEF Ranges
  <2>5. \A p \in Path : Sound(p) /\ entry[p] = "dummy" => p = Here(r) /\ p \notin Shared
    BY Zenon, <2>2, <2>3 DEF DeviceInv, Busy, Sound
  <2>6. /\ \A p \in Path : entry'[p] \in {entry[p], "none"}
        /\ Here(r) \notin Shared => count'[Here(r)] = 0
        /\ \A p \in mounted \ mounted' : count'[p] = 0
    BY SMTT(30), <1>0, <2>1, <2>2, RemovedStorages
  <2>7. \A p \in Path : Sound(p) => entry'[p] # "dummy"
    BY Zenon, <1>00, <2>5, <2>6 DEF EntryInv
  <2>8. \A p \in Path : entry'[p] = "device" => p \in mounted'
    BY Zenon, <1>00, <2>6 DEF DeviceInv, EntryInv
  <2>9. \A p \in Path : Sound(p)' = Sound(p)
    BY Zenon, <1>0 DEF Sound, Failures, Shared
  <2> QED BY Zenon, <2>4, <2>7, <2>8, <2>9 DEF DeviceInv
<1>6. ASSUME NEW r \in Req, CreateContainer(r) \/ StartFails(r)
      PROVE  DeviceInv'
  <2>1. /\ pc[r] = "add" /\ pc' = [pc EXCEPT ![r] = "idle"]
        /\ UNCHANGED <<entry, mounted>> \/ \E S : RemoveStorages(S)
    BY Zenon, <1>6 DEF CreateContainer, StartFails, RemoveContainerResources, AllAdded, End, store
  <2>2. \A s \in Req \ {r} : pc[s] = "idle"
    BY Zenon, <2>1, OthersIdle
  <2>3. \A s \in Req : ~Busy(s) /\ ~Busy(s)'
    BY Zenon, <1>0, <2>1, <2>2 DEF Ranges, Busy
  <2> QED BY Zenon, <1>0, <1>00, <2>1, <2>3, DeviceQuiet
<1>7. ASSUME NEW c \in Cid, RemoveContainer(c)
      PROVE  DeviceInv'
  <2>1. (\A s \in Req : pc[s] = "idle") /\ pc' = pc /\ \E S : RemoveStorages(S)
    BY Zenon, <1>7 DEF RemoveContainer, RemoveContainerResources, Accepted, Orderly, requests
  <2>2. \A s \in Req : ~Busy(s) /\ ~Busy(s)'
    BY Zenon, <2>1 DEF Busy
  <2> QED BY Zenon, <1>0, <1>00, <2>1, <2>2, DeviceQuiet
<1> QED BY Zenon, <1>1, <1>2, <1>3, <1>4, <1>5, <1>6, <1>7, OrderlySteps
\* A container that the sandbox has gives back what it was created with.
LEMMA ListStep ==
  ASSUME Orderly, CoverInv, SerialInv, DeviceInv, ListInv, Next
  PROVE  ListInv'
<1>0. setting' = setting /\ Ranges /\ RequestInv /\ EntryInv
  BY Zenon DEF Next, CoverInv
<1>00. /\ Storages' = Storages /\ (\A p : Kept(p)' = Kept(p)) /\ (Orderly' = Orderly)
       /\ \A p : InUse(p)' = {c \in ctrs' : \E i \in DOMAIN Storages[c] : Storages[c][i] = p}
  BY Zenon, <1>0 DEF Storages, Kept, Sound, NoPath, Shared, Failures, Orderly, Serial, InUse
<1>1. ASSUME NEW r \in Req, NEW c \in Cid, CreateBegin(r, c)
      PROVE  ListInv'
  <2>1. /\ \A s \in Req : pc[s] = "idle" /\ at[s] = 1 /\ list[s] = {}
        /\ UNCHANGED <<ctrs, mounts, at, list>>
    BY Zenon, <1>0, <1>1 DEF CreateBegin, Accepted, Orderly, RequestInv
  <2>2. \A p : InUse(p)' = InUse(p)
    BY Zenon, <1>00, <2>1 DEF InUse
  <2>4. \A s \in Req : pc'[s] # "idle" => s = r
    BY Zenon, <1>0, <1>1, <2>1 DEF CreateBegin, Ranges
  <2>5. cid'[r] = c /\ Storages[c] \in Seq(Path)
    BY Zenon, <1>0, <1>1, StorageAssumption DEF CreateBegin, Ranges, Storages
  <2>6. \A i \in DOMAIN Storages[cid'[r]] : ~(i < at'[r])
    BY SMTT(30), <2>1, <2>5
  <2> QED BY SMTT(30), <1>00, <2>1, <2>2, <2>4, <2>6 DEF ListInv
<1>2. ASSUME NEW r \in Req, \/ AddSandboxStorage(r) \/ NewDevice(r) \/ CreateDevice(r)
                            \/ CreateDeviceFails(r)
      PROVE  ListInv'
  <2>1. /\ pc[r] # "idle" /\ UNCHANGED <<ctrs, mounts, cid, at, list>>
        /\ \E q : pc' = [pc EXCEPT ![r] = q]
    BY Zenon, <1>2 DEF AddSandboxStorage, NewDevice, CreateDevice, CreateDeviceFails
  <2>2. \A p : InUse(p)' = InUse(p)
    BY Zenon, <1>00, <2>1 DEF InUse
  <2>3. \A s \in Req : pc'[s] # "idle" => pc[s] # "idle"
    BY ZenonT(60), <1>0, <2>1 DEF Ranges
  <2> QED BY SMTT(30), <1>00, <2>1, <2>2, <2>3 DEF ListInv
<1>3. ASSUME NEW r \in Req, ReuseDevice(r) \/ UpdateSandboxStorage(r)
      PROVE  ListInv'
  <2>1. /\ Busy(r) /\ pc[r] # "idle" /\ UNCHANGED <<ctrs, mounts, cid>>
        /\ \E h \in BOOLEAN : /\ Advance(r, Here(r), h)
                              /\ ~h => pc[r] = "load" /\ count[Here(r)] > 1 /\ snap[r] # "device"
    BY Zenon, <1>3 DEF ReuseDevice, UpdateSandboxStorage, Advance, Busy
  <2>2. Here(r) \in Path /\ at[r] \in DOMAIN Storages[cid[r]] /\ r \in Holders(Here(r))
        /\ Storages[cid[r]] \in Seq(Path)
    BY Zenon, <1>0, <2>1, HereIsPath DEF Holders, Busy
  <2>3. entry[Here(r)] \in {"dummy", "device"}
    BY Zenon, <1>0, <2>2, HeldCounted DEF Ranges, EntryState
  <2>4. Kept(Here(r)) => Here(r) \notin NoPath
                         /\ (pc[r] = "load" /\ count[Here(r)] > 1 => snap[r] = "device")
    BY <2>2, <2>3 DEF DeviceInv, Kept
  <2>5. /\ at'[r] = at[r] + 1
        /\ list'[r] \in {list[r], list[r] \cup {Here(r)}}
        /\ Kept(Here(r)) => list'[r] = list[r] \cup {Here(r)}
        /\ \A s \in Req \ {r} : pc'[s] = pc[s] /\ at'[s] = at[s] /\ list'[s] = list[s]
    BY Zenon, <1>0, <2>1, <2>4 DEF Advance, Ranges
  <2>6. \A i \in DOMAIN Storages[cid[r]] : i \in Nat
    BY <2>2
  <2>7. at[r] \in Nat
    BY Zenon, <1>0 DEF Ranges
  <2>8. \A p \in list'[r] : \E i \in DOMAIN Storages[cid[r]] : i < at'[r] /\ Storages[cid[r]][i] = p
    <3> SUFFICES ASSUME NEW p \in list'[r]
                 PROVE  \E i \in DOMAIN Storages[cid[r]] : i < at'[r] /\ Storages[cid[r]][i] = p
      BY Zenon
    <3>1. CASE p = Here(r)
      <4>1. at[r] < at'[r] /\ Storages[cid[r]][at[r]] = p
        BY <2>5, <2>7, <3>1 DEF Here
      <4> QED BY Zenon, <2>2, <4>1
    <3>2. CASE p \in list[r]
      <4>1. PICK i \in DOMAIN Storages[cid[r]] : i < at[r] /\ Storages[cid[r]][i] = p
        BY Zenon, <3>2 DEF ListInv
      <4>2. i < at'[r]
        BY SMTT(30), <2>5, <2>6, <2>7, <4>1
      <4> QED BY Zenon, <4>1, <4>2
    <3> QED BY Zenon, <2>5, <3>1, <3>2
  <2>9. ASSUME NEW i \in DOMAIN Storages[cid[r]], i < at'[r], Kept(Storages[cid[r]][i])
        PROVE  Storages[cid[r]][i] \in list'[r]
    <3>1. i < at[r] \/ i = at[r]
      BY SMTT(30), <2>5, <2>6, <2>7, <2>9
    <3>2. CASE i < at[r]
      BY Zenon, <2>1, <2>5, <2>9, <3>2 DEF ListInv
    <3>3. CASE i = at[r]
      BY Zenon, <2>5, <2>9, <3>3 DEF Here
    <3> QED BY Zenon, <3>1, <3>2, <3>3
  <2>10. \A p : InUse(p)' = InUse(p)
    BY Zenon, <1>00, <2>1 DEF InUse
  <2>11. \A s \in Req : \A p \in list'[s] : \E i \in DOMAIN Storages[cid[s]] :
           i < at'[s] /\ Storages[cid[s]][i] = p
    BY <2>5, <2>8 DEF ListInv
  <2>12. \A s \in Req : pc'[s] # "idle" => \A i \in DOMAIN Storages[cid[s]] :
           i < at'[s] /\ Kept(Storages[cid[s]][i]) => Storages[cid[s]][i] \in list'[s]
    BY Zenon, <2>5, <2>9 DEF ListInv
  <2> QED BY SMTT(30), <1>00, <2>1, <2>10, <2>11, <2>12 DEF ListInv
<1>4. ASSUME NEW r \in Req, pc[r] # "idle", End(r)
      PROVE  \A s \in Req : pc'[s] = "idle" /\ list'[s] = {}
  <2>1. \A s \in Req \ {r} : pc[s] = "idle" /\ list[s] = {}
    BY ZenonT(60), <1>0, <1>4, OthersIdle DEF RequestInv
  <2> QED BY Zenon, <1>0, <1>4, <2>1 DEF End, Ranges
<1>5. ASSUME NEW r \in Req, Undo(r)
      PROVE  ListInv'
  <2>1. (\A s \in Req : pc'[s] = "idle" /\ list'[s] = {}) /\ UNCHANGED <<ctrs, mounts>>
    BY Zenon, <1>4, <1>5 DEF Undo
  <2>2. \A p : InUse(p)' = InUse(p)
    BY Zenon, <1>00, <2>1 DEF InUse
  <2> QED BY SMTT(30), <1>00, <2>1, <2>2 DEF ListInv
<1>6. ASSUME NEW r \in Req, CreateContainer(r)
      PROVE  ListInv'
  <2>1. /\ \A s \in Req : pc'[s] = "idle" /\ list'[s] = {}
        /\ mounts' = [mounts EXCEPT ![cid[r]] = list[r]]
        /\ ctrs' = ctrs \cup {cid[r]}
        /\ pc[r] = "add" /\ at[r] > Len(Storages[cid[r]])
    BY Zenon, <1>4, <1>6 DEF CreateContainer, AllAdded
  <2>2. cid[r] \in Cid /\ cid[r] \in DOMAIN Storages /\ at[r] \in Nat
    BY Zenon, <1>0, <2>1 DEF Ranges, RequestInv
  <2>3. Storages[cid[r]] \in Seq(Path)
    BY Zenon, <1>0, <2>2, StorageAssumption DEF Ranges, Storages
  <2>4. \A i \in DOMAIN Storages[cid[r]] : i < at[r]
    BY SMTT(30), <2>1, <2>2, <2>3
  <2>5. /\ mounts'[cid[r]] = list[r]
        /\ \A c \in Cid \ {cid[r]} : mounts'[c] = mounts[c]
    BY Zenon, <1>0, <2>1, <2>2 DEF Ranges
  <2>6. \A c \in Cid \ ctrs' : mounts'[c] = {}
    BY Zenon, <2>1, <2>5 DEF ListInv
  <2>7. \A c \in ctrs' : c \in Cid
    BY Zenon, <1>0, <2>1, <2>2 DEF Ranges
  <2>8. \A c \in ctrs' : \A p \in mounts'[c] : c \in InUse(p)'
    BY SMTT(30), <1>00, <2>1, <2>5, <2>7 DEF ListInv, InUse
  <2>9. \A c \in ctrs', p \in Path : Kept(p) /\ c \in InUse(p)' => p \in mounts'[c]
    <3> SUFFICES ASSUME NEW c \in ctrs', NEW p \in Path, Kept(p), c \in InUse(p)'
                 PROVE  p \in mounts'[c]
      BY Zenon
    <3>1. PICK i \in DOMAIN Storages[c] : Storages[c][i] = p
      BY Zenon, <1>00
    <3>2. CASE c = cid[r]
      BY ZenonT(60), <2>1, <2>4, <2>5, <3>1, <3>2 DEF ListInv
    <3>3. CASE c # cid[r]
      BY Zenon, <2>1, <2>5, <2>7, <3>1, <3>3 DEF ListInv, InUse
    <3> QED BY Zenon, <3>2, <3>3
  <2> QED BY Zenon, <1>00, <2>1, <2>6, <2>8, <2>9 DEF ListInv
<1>7. ASSUME NEW c \in Cid, mounts' = [mounts EXCEPT ![c] = {}], ctrs' = ctrs \ {c},
             \A s \in Req : pc'[s] = "idle" /\ list'[s] = {}
      PROVE  ListInv'
  <2>1. mounts'[c] = {} /\ \A d \in Cid \ {c} : mounts'[d] = mounts[d]
    BY Zenon, <1>0, <1>7 DEF Ranges
  <2>2. \A d \in ctrs' : d \in Cid \ {c} /\ d \in ctrs
    BY Zenon, <1>0, <1>7 DEF Ranges
  <2>3. \A p : \A d \in ctrs' : d \in InUse(p)' <=> d \in InUse(p)
    BY Zenon, <1>00, <2>2 DEF InUse
  <2>4. \A d \in Cid \ ctrs' : mounts'[d] = {}
    BY Zenon, <1>7, <2>1 DEF ListInv
  <2>5. \A d \in ctrs' : \A p \in mounts'[d] : d \in InUse(p)'
    BY Zenon, <2>1, <2>2, <2>3 DEF ListInv
  <2>6. \A d \in ctrs', p \in Path : Kept(p) /\ d \in InUse(p)' => p \in mounts'[d]
    BY Zenon, <2>1, <2>2, <2>3 DEF ListInv
  <2> QED BY Zenon, <1>00, <1>7, <2>4, <2>5, <2>6 DEF ListInv
<1>8. ASSUME NEW r \in Req, StartFails(r)
      PROVE  ListInv'
  <2>1. cid[r] \in Cid
    BY Zenon, <1>0 DEF Ranges
  <2> QED BY Zenon, <1>4, <1>7, <1>8, <2>1 DEF StartFails, RemoveContainerResources, AllAdded
<1>9. ASSUME NEW c \in Cid, RemoveContainer(c)
      PROVE  ListInv'
  <2>1. \A s \in Req : pc'[s] = "idle" /\ list'[s] = {}
    BY Zenon, <1>0, <1>9 DEF RemoveContainer, Accepted, Orderly, RequestInv, requests
  <2> QED BY Zenon, <1>7, <1>9, <2>1 DEF RemoveContainer, RemoveContainerResources
<1> QED BY Zenon, <1>1, <1>2, <1>3, <1>5, <1>6, <1>8, <1>9, OrderlySteps
\* A step that takes, passes on or gives back exactly the references it counts.
MovesExactly(U, H, n, V, G, m) ==
  \/ V = U /\ G = H /\ m = n
  \/ V = U /\ m = n + 1 /\ \E x : x \notin H /\ G = H \cup {x}
  \/ V = U /\ m = n - 1 /\ \E x \in H : G = H \ {x}
  \/ G = H /\ m = n - 1 /\ \E x \in U : V = U \ {x}
  \/ m = n /\ (\E x \in H : G = H \ {x}) /\ \E y : y \notin U /\ V = U \cup {y}

\* After it the count is still exact.
LEMMA ExactKept ==
  ASSUME NEW U, NEW H, NEW n, NEW V, NEW G, NEW m, MovesExactly(U, H, n, V, G, m),
         IsFiniteSet(U), IsFiniteSet(H), n \in Nat, m \in Nat,
         n = Cardinality(U) + Cardinality(H)
  PROVE  m = Cardinality(V) + Cardinality(G)
<1>0. Cardinality(U) \in Nat /\ Cardinality(H) \in Nat
  BY Zenon, FS_CardinalityType
<1>1. \A x : x \notin H => Cardinality(H \cup {x}) = Cardinality(H) + 1
  BY Zenon, FS_AddElement
<1>2. \A x : x \notin U => Cardinality(U \cup {x}) = Cardinality(U) + 1
  BY Zenon, FS_AddElement
<1>3. \A x \in H : Cardinality(H \ {x}) = Cardinality(H) - 1
  BY Zenon, FS_RemoveElement
<1>4. \A x \in U : Cardinality(U \ {x}) = Cardinality(U) - 1
  BY Zenon, FS_RemoveElement
<1>5. CASE V = U /\ G = H /\ m = n
  BY Zenon, <1>5
<1>6. CASE V = U /\ m = n + 1 /\ \E x : x \notin H /\ G = H \cup {x}
  <2>1. PICK x : x \notin H /\ G = H \cup {x}
    BY Zenon, <1>6
  <2>2. Cardinality(G) = Cardinality(H) + 1
    BY Zenon, <1>1, <2>1
  <2> QED BY SMTT(30), <1>0, <1>6, <2>2
<1>7. CASE V = U /\ m = n - 1 /\ \E x \in H : G = H \ {x}
  <2>1. PICK x \in H : G = H \ {x}
    BY Zenon, <1>7
  <2>2. Cardinality(G) = Cardinality(H) - 1
    BY Zenon, <1>3, <2>1
  <2> QED BY <1>0, <1>7, <2>2
<1>8. CASE G = H /\ m = n - 1 /\ \E x \in U : V = U \ {x}
  <2>1. PICK x \in U : V = U \ {x}
    BY Zenon, <1>8
  <2>2. Cardinality(V) = Cardinality(U) - 1
    BY Zenon, <1>4, <2>1
  <2> QED BY <1>0, <1>8, <2>2
<1>9. CASE m = n /\ (\E x \in H : G = H \ {x}) /\ \E y : y \notin U /\ V = U \cup {y}
  <2>1. PICK x \in H : G = H \ {x}
    BY Zenon, <1>9
  <2>2. PICK y : y \notin U /\ V = U \cup {y}
    BY Zenon, <1>9
  <2>3. Cardinality(G) = Cardinality(H) - 1
    BY Zenon, <1>3, <2>1
  <2>4. Cardinality(V) = Cardinality(U) + 1
    BY Zenon, <1>2, <2>2
  <2> QED BY SMTT(30), <1>0, <1>9, <2>3, <2>4
<1> QED BY Zenon, <1>5, <1>6, <1>7, <1>8, <1>9 DEF MovesExactly

\* The uses of p and its count: what a step of an orderly client does to them.
Exact(p)     == p \notin Shared \cup NoPath /\ ("device" \in Failures => OneEach)
Tracks(p)    == MovesExactly(InUse(p), Adding(p), count[p], InUse(p)', Adding(p)', count'[p])
Follows(p)   == Moves(InUse(p), Adding(p), count[p], InUse(p)', Adding(p)', count'[p])

\* Such a step is one of the others.
LEMMA ExactMoves ==
  ASSUME NEW U, NEW H, NEW n \in Nat, NEW V, NEW G, NEW m \in Nat,
         MovesExactly(U, H, n, V, G, m)
  PROVE  Moves(U, H, n, V, G, m)
<1>1. CASE V = U /\ G = H /\ m = n
  BY <1>1 DEF Moves
<1>2. CASE V = U /\ m = n + 1 /\ \E x : x \notin H /\ G = H \cup {x}
  <2>1. V \subseteq U /\ m >= n + 1 /\ \E x : G \subseteq H \cup {x}
    BY <1>2
  <2> QED BY Zenon, <2>1 DEF Moves
<1>3. CASE V = U /\ m = n - 1 /\ \E x \in H : G = H \ {x}
  <2>1. V \subseteq U /\ m + 1 >= n /\ \E x \in H : G \subseteq H \ {x}
    BY <1>3
  <2> QED BY Zenon, <2>1 DEF Moves
<1>4. CASE G = H /\ m = n - 1 /\ \E x \in U : V = U \ {x}
  <2>1. G \subseteq H /\ m + 1 >= n /\ \E x \in U : V \subseteq U \ {x}
    BY <1>4
  <2> QED BY Zenon, <2>1 DEF Moves
<1>5. CASE m = n /\ (\E x \in H : G = H \ {x}) /\ \E y : y \notin U /\ V = U \cup {y}
  <2>1. m >= n /\ (\E x \in H : G \subseteq H \ {x}) /\ \E y : V \subseteq U \cup {y}
    BY <1>5
  <2> QED BY Zenon, <2>1 DEF Moves
<1> QED BY Zenon, <1>1, <1>2, <1>3, <1>4, <1>5 DEF MovesExactly

\* Steps that do no more than this to the uses and the counts keep CountInv.
LEMMA CountKept ==
  ASSUME Orderly, CoverInv, CoverInv', CountInv, setting' = setting,
         \A p \in Path : Tracks(p) \/ (Follows(p) /\ ~Exact(p))
  PROVE  CountInv'
<1> SUFFICES ASSUME NEW p \in Path
             PROVE  /\ count'[p] >= Cardinality(InUse(p)') + Cardinality(Adding(p)')
                    /\ Exact(p) => count'[p] = Cardinality(InUse(p)') + Cardinality(Adding(p)')
  BY Zenon DEF CountInv, Exact, OneEach, Storages, Shared, NoPath, Failures, Orderly, Serial
<1>1. InUse(p) \subseteq Cid /\ Adding(p) \subseteq Req
  BY Zenon DEF InUse, Adding, CoverInv, Ranges
<1>2. IsFiniteSet(InUse(p)) /\ IsFiniteSet(Adding(p))
  BY Zenon, <1>1, StorageAssumption, FS_Subset
<1>3. count[p] \in Nat /\ count'[p] \in Nat
  BY Zenon DEF CoverInv, Ranges
<1>4. /\ count[p] >= Cardinality(InUse(p)) + Cardinality(Adding(p))
      /\ Exact(p) => count[p] = Cardinality(InUse(p)) + Cardinality(Adding(p))
  BY Zenon DEF CountInv, Exact
<1>5. Follows(p) /\ (Exact(p) => Tracks(p))
  BY Zenon, <1>3, ExactMoves DEF Tracks, Follows
<1>6. count'[p] >= Cardinality(InUse(p)') + Cardinality(Adding(p)')
  BY Zenon, <1>2, <1>3, <1>4, <1>5, CoverKept DEF Follows
<1>7. Exact(p) => count'[p] = Cardinality(InUse(p)') + Cardinality(Adding(p)')
  BY Zenon, <1>2, <1>3, <1>4, <1>5, ExactKept DEF Tracks
<1> QED BY Zenon, <1>6, <1>7

\* Whether the only request under way has added p.
HasAdded(r, p) == \E i \in DOMAIN Storages[cid[r]] : Storages[cid[r]][i] = p /\ Added(r, i)

\* It is the only one that can have.
LEMMA AddingIs ==
  ASSUME NEW r \in Req, \A s \in Req \ {r} : pc[s] = "idle", NEW p
  PROVE  Adding(p) = IF pc[r] # "idle" /\ HasAdded(r, p) THEN {r} ELSE {}
BY Zenon DEF Adding, HasAdded

\* No request is under way: none has added anything.
LEMMA AddingNone ==
  ASSUME \A s \in Req : pc[s] = "idle"
  PROVE  \A p : Adding(p) = {}
BY Zenon DEF Adding
\* Every use is counted, exactly where no failure leaves one behind.
LEMMA CountStep ==
  ASSUME Orderly, CoverInv, SerialInv, DeviceInv, ListInv, CountInv, Next
  PROVE  CountInv'
<1>0. setting' = setting /\ Ranges /\ RequestInv /\ EntryInv /\ CoverInv' /\ Ranges'
  BY Zenon, CoverStep DEF Next, CoverInv
<1>00. /\ Storages' = Storages
       /\ \A p \in Path : count[p] \in Nat /\ count'[p] \in Nat
       /\ \A r \in Req : at[r] \in Nat
  BY Zenon, <1>0 DEF Storages, Ranges
<1>1. SUFFICES \A p \in Path : Tracks(p) \/ (Follows(p) /\ ~Exact(p))
  BY Zenon, <1>0, CountKept
<1>2. ASSUME NEW r \in Req, NEW c \in Cid, CreateBegin(r, c)
      PROVE  \A p \in Path : Tracks(p)
  <2>1. /\ \A s \in Req : pc[s] = "idle" /\ at[s] = 1
        /\ UNCHANGED <<ctrs, count, at>>
    BY Zenon, <1>0, <1>2 DEF CreateBegin, Accepted, Orderly, RequestInv, store
  <2>2. /\ \A s \in Req \ {r} : pc'[s] = "idle"
        /\ pc'[r] = "add" /\ cid'[r] = c /\ Storages[c] \in Seq(Path)
    BY Zenon, <1>0, <1>2, <2>1, StorageAssumption DEF CreateBegin, Ranges, Storages
  <2>3. \A i \in DOMAIN Storages[c] : ~(i < at'[r])
    BY <2>1, <2>2
  <2>4. \A p : ~HasAdded(r, p)'
    BY Zenon, <1>00, <2>2, <2>3 DEF HasAdded, Added, Busy
  <2>5. \A p : Adding(p)' = {}
    BY Zenon, <2>2, <2>4 DEF Adding, HasAdded
  <2>6. \A p : Adding(p) = {}
    BY Zenon, <2>1, AddingNone
  <2>7. \A p : InUse(p)' = InUse(p)
    BY Zenon, <1>00, <2>1 DEF InUse
  <2> QED BY Zenon, <2>1, <2>5, <2>6, <2>7 DEF Tracks, MovesExactly
<1>3. ASSUME NEW r \in Req, AddSandboxStorage(r)
      PROVE  \A p \in Path : Tracks(p)
  <2>1. /\ pc[r] = "add" /\ cid[r] \in DOMAIN Storages /\ Storages[cid[r]] \in Seq(Path)
        /\ at[r] \in DOMAIN Storages[cid[r]]
    BY Zenon, <1>0, <1>3, HereIsPath DEF AddSandboxStorage
  <2>2. \A s \in Req \ {r} : pc[s] = "idle"
    BY Zenon, <2>1, OthersIdle
  <2>3. /\ pc'[r] = "load" /\ (\A s \in Req \ {r} : pc'[s] = "idle")
        /\ UNCHANGED <<ctrs, cid, at>>
        /\ \A p \in Path : count'[p] = IF p = Here(r) THEN count[p] + 1 ELSE count[p]
    BY Zenon, <1>0, <1>3, <2>2 DEF AddSandboxStorage, Ranges
  <2>4. \A i, j \in DOMAIN Storages[cid[r]] : Storages[cid[r]][i] = Storages[cid[r]][j] => i = j
    BY Zenon, <1>0, <2>1, StorageAssumption DEF Ranges, Storages
  <2>5. ~HasAdded(r, Here(r))
    BY SMTT(30), <1>00, <2>1, <2>4 DEF HasAdded, Added, Busy, Here
  <2>6. \A p : HasAdded(r, p)' <=> HasAdded(r, p) \/ p = Here(r)
    BY Zenon, <1>00, <2>1, <2>3 DEF HasAdded, Added, Busy, Here
  <2>7. \A p : InUse(p)' = InUse(p)
    BY Zenon, <1>00, <2>3 DEF InUse
  <2>8. \A p : Adding(p) = IF HasAdded(r, p) THEN {r} ELSE {}
    BY Zenon, <2>1, <2>2, AddingIs
  <2>9. \A p : Adding(p)' = IF HasAdded(r, p)' THEN {r} ELSE {}
    BY ZenonT(60), <2>3 DEF Adding, HasAdded
  <2>10. \A p : p = Here(r) => Adding(p) = {} /\ Adding(p)' = {r}
    BY Zenon, <2>5, <2>6, <2>8, <2>9
  <2>11. \A p : p # Here(r) => Adding(p)' = Adding(p)
    BY Zenon, <2>6, <2>8, <2>9
  <2>12. \A p \in Path : p = Here(r) => Tracks(p)
    BY Zenon, <2>3, <2>7, <2>10 DEF Tracks, MovesExactly
  <2>13. \A p \in Path : p # Here(r) => Tracks(p)
    BY Zenon, <2>3, <2>7, <2>11 DEF Tracks, MovesExactly
  <2> QED BY Zenon, <2>12, <2>13
<1>4. ASSUME NEW r \in Req, NewDevice(r) \/ CreateDevice(r) \/ CreateDeviceFails(r)
      PROVE  \A p \in Path : Tracks(p)
  <2>1. /\ Busy(r) /\ pc[r] # "idle" /\ UNCHANGED <<count, ctrs, cid, at>>
        /\ \E q \in {"device", "update", "undo"} : pc' = [pc EXCEPT ![r] = q]
    BY Zenon, <1>4 DEF NewDevice, CreateDevice, CreateDeviceFails, Busy, store
  <2>2. \A s \in Req : (Busy(s)' <=> Busy(s)) /\ (pc'[s] = "idle" <=> pc[s] = "idle")
    BY Zenon, <1>0, <2>1 DEF Ranges, Busy
  <2>3. \A p : Adding(p)' = Adding(p) /\ InUse(p)' = InUse(p)
    BY Zenon, <1>00, <2>1, <2>2 DEF Adding, Added, InUse
  <2> QED BY Zenon, <2>1, <2>3 DEF Tracks, MovesExactly
<1>5. ASSUME NEW r \in Req, ReuseDevice(r) \/ UpdateSandboxStorage(r)
      PROVE  \A p \in Path : Tracks(p)
  <2>1. /\ Busy(r) /\ pc[r] # "idle" /\ UNCHANGED <<count, ctrs, cid>>
        /\ pc' = [pc EXCEPT ![r] = "add"] /\ at' = [at EXCEPT ![r] = @ + 1]
    BY Zenon, <1>5 DEF ReuseDevice, UpdateSandboxStorage, Advance, Busy, store
  <2>2. Storages[cid[r]] \in Seq(Path)
    BY Zenon, <1>0, <2>1, HereIsPath
  <2>3. /\ pc'[r] = "add" /\ at'[r] = at[r] + 1
        /\ \A s \in Req \ {r} : pc'[s] = pc[s] /\ at'[s] = at[s]
    BY Zenon, <1>0, <2>1 DEF Ranges
  <2>4. \A i \in DOMAIN Storages[cid[r]] : i \in Nat
    BY SMTT(30), <2>2
  <2>5. \A i \in DOMAIN Storages[cid[r]] : Added(r, i)' <=> Added(r, i)
    BY SMTT(30), <1>00, <2>1, <2>3, <2>4 DEF Added, Busy
  <2>6. \A s \in Req \ {r} : \A i : Added(s, i)' <=> Added(s, i)
    BY Zenon, <2>3 DEF Added, Busy
  <2>7. \A p : Adding(p)' = Adding(p) /\ InUse(p)' = InUse(p)
    BY Zenon, <1>00, <2>1, <2>3, <2>5, <2>6 DEF Adding, InUse
  <2> QED BY Zenon, <2>1, <2>7 DEF Tracks, MovesExactly
<1>6. ASSUME NEW r \in Req, pc[r] # "idle", End(r)
      PROVE  /\ \A p : Adding(p)' = {}
             /\ \A p : Adding(p) = IF HasAdded(r, p) THEN {r} ELSE {}
  <2>1. \A s \in Req \ {r} : pc[s] = "idle"
    BY Zenon, <1>6, OthersIdle
  <2>2. \A s \in Req : pc'[s] = "idle"
    BY Zenon, <1>0, <1>6, <2>1 DEF End, Ranges
  <2> QED BY Zenon, <1>6, <2>1, <2>2, AddingIs DEF Adding
<1>7. ASSUME NEW r \in Req, Undo(r)
      PROVE  \A p \in Path : Tracks(p) \/ (Follows(p) /\ ~Exact(p))
  <2>1. /\ pc[r] = "undo" /\ RemoveStorages({Here(r)}) /\ End(r) /\ UNCHANGED ctrs
        /\ Busy(r)
    BY Zenon, <1>7 DEF Undo, Busy
  <2>2. /\ Here(r) \in Path /\ count[Here(r)] = 1 /\ "device" \in Failures
        /\ cid[r] \in DOMAIN Storages /\ Storages[cid[r]] \in Seq(Path)
        /\ at[r] \in DOMAIN Storages[cid[r]]
    BY Zenon, <1>0, <2>1, HereIsPath DEF DeviceInv
  <2>3. /\ \A p : Adding(p)' = {} /\ InUse(p)' = InUse(p)
        /\ \A p : Adding(p) = IF HasAdded(r, p) THEN {r} ELSE {}
    BY ZenonT(60), <1>00, <1>6, <2>1 DEF InUse
  <2>4. /\ Here(r) \notin Shared => count'[Here(r)] = count[Here(r)] - 1
        /\ count'[Here(r)] + 1 >= count[Here(r)]
        /\ \A p \in Path \ {Here(r)} : count'[p] = count[p]
    BY SMTT(30), <1>0, <2>1, <2>2, RemovedStorages
  <2>5. HasAdded(r, Here(r))
    BY Zenon, <2>1, <2>2 DEF HasAdded, Added, Here
  <2>8. ASSUME NEW p \in Path, p = Here(r)
        PROVE  Tracks(p) \/ (Follows(p) /\ ~Exact(p))
    <3>1. /\ Adding(p) = {r} /\ Adding(p)' = {} /\ InUse(p)' = InUse(p)
          /\ p \notin Shared => count'[p] = count[p] - 1
          /\ count'[p] + 1 >= count[p]
      BY Zenon, <2>3, <2>4, <2>5, <2>8
    <3>2. CASE p \notin Shared
      BY Zenon, <3>1, <3>2 DEF Tracks, MovesExactly
    <3>3. CASE p \in Shared
      <4>1. InUse(p)' \subseteq InUse(p) /\ \E x \in Adding(p) : Adding(p)' \subseteq Adding(p) \ {x}
        BY Zenon, <3>1
      <4>2. Follows(p)
        BY Zenon, <3>1, <4>1 DEF Follows, Moves
      <4> QED BY Zenon, <3>3, <4>2 DEF Exact
    <3> QED BY Zenon, <3>2, <3>3
  <2>9. ASSUME NEW p \in Path \ {Here(r)}
        PROVE  Tracks(p) \/ (Follows(p) /\ ~Exact(p))
    <3>1. CASE HasAdded(r, p)
      <4>1. PICK i \in DOMAIN Storages[cid[r]] : Storages[cid[r]][i] = p
        BY Zenon, <3>1 DEF HasAdded
      <4>2. i # at[r]
        BY Zenon, <2>9, <4>1 DEF Here
      <4>3. ~OneEach
        BY SMTT(30), <2>2, <4>1, <4>2 DEF OneEach
      <4>4. InUse(p)' \subseteq InUse(p) /\ Adding(p)' \subseteq Adding(p) /\ count'[p] >= count[p]
        BY SMTT(30), <1>00, <2>3, <2>4
      <4> QED BY Zenon, <2>2, <4>3, <4>4 DEF Follows, Moves, Exact
    <3>2. CASE ~HasAdded(r, p)
      BY Zenon, <2>3, <2>4, <3>2 DEF Tracks, MovesExactly
    <3> QED BY Zenon, <3>1, <3>2
  <2> QED BY Zenon, <2>8, <2>9
<1>8. ASSUME NEW r \in Req, CreateContainer(r)
      PROVE  \A p \in Path : Tracks(p)
  <2>1. /\ pc[r] = "add" /\ at[r] > Len(Storages[cid[r]]) /\ End(r)
        /\ UNCHANGED count /\ ctrs' = ctrs \cup {cid[r]}
    BY Zenon, <1>8 DEF CreateContainer, AllAdded, store
  <2>2. cid[r] \notin ctrs /\ cid[r] \in DOMAIN Storages
    BY Zenon, <1>0, <2>1 DEF SerialInv, RequestInv
  <2>3. Storages[cid[r]] \in Seq(Path)
    BY ZenonT(60), <1>0, <2>2, StorageAssumption DEF Ranges, Storages
  <2>4. \A i \in DOMAIN Storages[cid[r]] : i < at[r]
    BY SMTT(30), <1>00, <2>1, <2>3
  <2>5. \A p : HasAdded(r, p) <=> \E i \in DOMAIN Storages[cid[r]] : Storages[cid[r]][i] = p
    BY Zenon, <2>4 DEF HasAdded, Added
  <2>6. /\ \A p : Adding(p)' = {}
        /\ \A p : Adding(p) = IF HasAdded(r, p) THEN {r} ELSE {}
    BY Zenon, <1>6, <2>1
  <2>7. \A p : InUse(p)' = IF HasAdded(r, p) THEN InUse(p) \cup {cid[r]} ELSE InUse(p)
    BY Zenon, <1>00, <2>1, <2>5 DEF InUse
  <2>8. \A p : cid[r] \notin InUse(p)
    BY Zenon, <2>2 DEF InUse
  <2>9. \A p \in Path : HasAdded(r, p) => Tracks(p)
    BY Zenon, <2>1, <2>6, <2>7, <2>8 DEF Tracks, MovesExactly
  <2>10. \A p \in Path : ~HasAdded(r, p) => Tracks(p)
    BY Zenon, <2>1, <2>6, <2>7 DEF Tracks, MovesExactly
  <2> QED BY Zenon, <2>9, <2>10
<1>9. ASSUME NEW r \in Req, StartFails(r), NEW p \in Path
      PROVE  Tracks(p) \/ (Follows(p) /\ ~Exact(p))
  <2>1. /\ pc[r] = "add" /\ at[r] > Len(Storages[cid[r]]) /\ End(r)
        /\ RemoveStorages({q \in list[r] : entry[q] # "none"}) /\ ctrs' = ctrs \ {cid[r]}
    BY Zenon, <1>9 DEF StartFails, RemoveContainerResources, AllAdded
  <2>2. cid[r] \notin ctrs /\ cid[r] \in DOMAIN Storages
    BY Zenon, <1>0, <2>1 DEF SerialInv, RequestInv
  <2>3. Storages[cid[r]] \in Seq(Path)
    BY Zenon, <1>0, <2>2, StorageAssumption DEF Ranges, Storages
  <2>4. \A i \in DOMAIN Storages[cid[r]] : i < at[r]
    BY SMTT(30), <1>00, <2>1, <2>3
  <2>5. /\ Adding(p)' = {} /\ InUse(p)' = InUse(p)
        /\ Adding(p) = IF HasAdded(r, p) THEN {r} ELSE {}
    BY Zenon, <1>00, <1>6, <2>1, <2>2 DEF InUse
  <2>6. CASE p \in list[r]
    <3>1. HasAdded(r, p)
      BY Zenon, <2>6 DEF ListInv, HasAdded, Added
    <3>2. Users(p) # {} \/ Holders(p) # {}
      BY Zenon, <2>6 DEF Holders
    <3>3. count[p] > 0 /\ entry[p] # "none"
      BY ZenonT(60), <3>2, HeldCounted
    <3>4. count'[p] + 1 >= count[p] /\ (p \notin Shared => count'[p] = count[p] - 1)
      BY SMTT(30), <1>0, <2>1, <2>6, <3>3, RemovedStorages
    <3>5. CASE p \notin Shared
      BY Zenon, <2>5, <3>1, <3>4, <3>5 DEF Tracks, MovesExactly
    <3>6. CASE p \in Shared
      <4>1. InUse(p)' \subseteq InUse(p) /\ \E x \in Adding(p) : Adding(p)' \subseteq Adding(p) \ {x}
        BY Zenon, <2>5, <3>1
      <4>2. Follows(p)
        BY Zenon, <3>4, <4>1 DEF Follows, Moves
      <4> QED BY Zenon, <3>6, <4>2 DEF Exact
    <3> QED BY Zenon, <3>5, <3>6
  <2>7. CASE p \notin list[r]
    <3>1. count'[p] = count[p]
      BY SMTT(30), <1>0, <2>1, <2>7, RemovedStorages
    <3>2. CASE HasAdded(r, p)
      <4>1. ~Kept(p)
        BY SMTT(30), <2>1, <2>4, <2>7, <3>2 DEF HasAdded, ListInv
      <4>2. ~Exact(p)
        BY Zenon, <4>1 DEF Kept, Sound, Exact
      <4>3. InUse(p)' \subseteq InUse(p) /\ Adding(p)' \subseteq Adding(p) /\ count'[p] >= count[p]
        BY SMTT(30), <1>00, <2>5, <3>1
      <4> QED BY ZenonT(60), <4>2, <4>3 DEF Follows, Moves
    <3>3. CASE ~HasAdded(r, p)
      BY Zenon, <2>5, <3>1, <3>3 DEF Tracks, MovesExactly
    <3> QED BY Zenon, <3>2, <3>3
  <2> QED BY Zenon, <2>6, <2>7
<1>10. ASSUME NEW c \in Cid, RemoveContainer(c), NEW p \in Path
       PROVE  Tracks(p) \/ (Follows(p) /\ ~Exact(p))
  <2>1. /\ (\A s \in Req : pc[s] = "idle") /\ pc' = pc /\ c \in ctrs
        /\ RemoveStorages({q \in mounts[c] : entry[q] # "none"}) /\ ctrs' = ctrs \ {c}
    BY Zenon, <1>10 DEF RemoveContainer, RemoveContainerResources, Accepted, Orderly, requests
  <2>2. Adding(p)' = {} /\ Adding(p) = {} /\ InUse(p)' = InUse(p) \ {c}
    BY Zenon, <1>00, <2>1 DEF Adding, InUse
  <2>3. CASE p \in mounts[c]
    <3>1. c \in InUse(p)
      BY Zenon, <2>1, <2>3 DEF ListInv
    <3>2. Users(p) # {} \/ Holders(p) # {}
      BY ZenonT(60), <2>3 DEF Users
    <3>3. count[p] > 0 /\ entry[p] # "none"
      BY Zenon, <3>2, HeldCounted
    <3>4. count'[p] + 1 >= count[p] /\ (p \notin Shared => count'[p] = count[p] - 1)
      BY SMTT(30), <1>0, <2>1, <2>3, <3>3, RemovedStorages
    <3>5. CASE p \notin Shared
      BY Zenon, <2>2, <3>1, <3>4, <3>5 DEF Tracks, MovesExactly
    <3>6. CASE p \in Shared
      <4>1. Adding(p)' \subseteq Adding(p) /\ \E x \in InUse(p) : InUse(p)' \subseteq InUse(p) \ {x}
        BY Zenon, <2>2, <3>1
      <4>2. Follows(p)
        BY Zenon, <3>4, <4>1 DEF Follows, Moves
      <4> QED BY Zenon, <3>6, <4>2 DEF Exact
    <3> QED BY Zenon, <3>5, <3>6
  <2>4. CASE p \notin mounts[c]
    <3>1. count'[p] = count[p]
      BY SMTT(30), <1>0, <2>1, <2>4, RemovedStorages
    <3>2. CASE c \in InUse(p)
      <4>1. ~Kept(p)
        BY Zenon, <2>1, <2>4, <3>2 DEF ListInv
      <4>2. ~Exact(p)
        BY Zenon, <4>1 DEF Kept, Sound, Exact
      <4>3. InUse(p)' \subseteq InUse(p) /\ Adding(p)' \subseteq Adding(p) /\ count'[p] >= count[p]
        BY SMTT(30), <1>00, <2>2, <3>1
      <4> QED BY Zenon, <4>2, <4>3 DEF Follows, Moves
    <3>3. CASE c \notin InUse(p)
      <4>1. InUse(p)' = InUse(p)
        BY Zenon, <2>2, <3>3
      <4> QED BY Zenon, <2>2, <3>1, <4>1 DEF Tracks, MovesExactly
    <3> QED BY Zenon, <3>2, <3>3
  <2> QED BY Zenon, <2>3, <2>4
<1> QED BY Zenon, <1>2, <1>3, <1>4, <1>5, <1>7, <1>8, <1>9, <1>10, OrderlySteps
\* The invariant of an orderly client holds at the start,
LEMMA OrderlyInit == Init => OrderlyInv
<1> SUFFICES ASSUME Init PROVE OrderlyInv
  BY Zenon
<1>1. SerialInv /\ DeviceInv /\ ListInv
  BY Zenon DEF Init, SerialInv, DeviceInv, ListInv, InUse
<1>2. \A p \in Path : InUse(p) = {} /\ Adding(p) = {} /\ count[p] = 0
  BY Zenon DEF Init, InUse, Adding
<1>3. Cardinality({}) = 0
  BY Zenon, FS_EmptySet
<1> QED BY SMTT(30), <1>1, <1>2, <1>3 DEF OrderlyInv, CountInv

\* every step preserves it,
LEMMA OrderlyStep == CoverInv /\ OrderlyInv /\ [Next]_vars => OrderlyInv'
<1> SUFFICES ASSUME CoverInv, OrderlyInv, [Next]_vars PROVE OrderlyInv'
  BY Zenon
<1>1. setting' = setting
  BY Zenon DEF Next, vars
<1>2. CASE ~Orderly
  <2>1. ~Orderly'
    BY Zenon, <1>1, <1>2 DEF Orderly, Serial, Failures
  <2> QED BY Zenon, <2>1 DEF OrderlyInv, SerialInv, DeviceInv, ListInv, CountInv
<1>3. CASE Orderly /\ Next
  BY Zenon, <1>3, SerialStep, DeviceStep, ListStep, CountStep DEF OrderlyInv
<1>4. CASE UNCHANGED vars
  <2>0. UNCHANGED <<setting, entry, count, mounted, mounts, ctrs, pc, cid, at, list, snap>>
    BY Zenon, <1>4 DEF vars, store, requests
  <2>1. SerialInv'
    BY ZenonT(60), <2>0 DEF OrderlyInv, SerialInv, Orderly, Serial, Failures, Storages
  <2>o. (Orderly' <=> Orderly) /\ Failures' = Failures /\ Storages' = Storages
    BY Zenon, <2>0 DEF Orderly, Serial, Failures, Storages
  <2>h. \A r \in Req : Here(r)' = Here(r) /\ (Busy(r)' <=> Busy(r))
    BY Zenon, <2>0 DEF Here, Busy, Storages
  <2>p. \A p : (Sound(p)' <=> Sound(p)) /\ (Kept(p)' <=> Kept(p))
    BY Zenon, <2>0 DEF Kept, Sound, Shared, NoPath, Failures
  <2>2. DeviceInv'
    BY ZenonT(60), <2>0, <2>o, <2>h, <2>p DEF OrderlyInv, DeviceInv
  <2>3. \A p : InUse(p)' = InUse(p) /\ Adding(p)' = Adding(p)
    BY ZenonT(60), <2>0 DEF InUse, Adding, Added, Busy, Storages
  <2>4. ListInv'
    BY ZenonT(60), <2>0, <2>o, <2>p, <2>3 DEF OrderlyInv, ListInv
  <2>5. CountInv'
    BY Zenon, <2>0, <2>3 DEF OrderlyInv, CountInv, Orderly, Serial, Failures, OneEach, Storages, Shared,
       NoPath
  <2> QED BY Zenon, <2>1, <2>2, <2>4, <2>5 DEF OrderlyInv
<1> QED BY Zenon, <1>2, <1>3, <1>4

\* and so it always holds.
LEMMA OrderlyAlways == Spec => [](CoverInv /\ OrderlyInv)
BY CoverInit, CoverStep, OrderlyInit, OrderlyStep, PTL DEF Spec

\* Nothing is leaked: between the requests of an orderly client the count of a storage is
\* the number of the containers that use it, and a storage that none uses has no entry.
THEOREM ReferencesExact == Spec => []RefsExact
<1>1. CoverInv /\ OrderlyInv => RefsExact
  <2> SUFFICES ASSUME CoverInv, OrderlyInv, Orderly, "device" \in Failures => OneEach,
                      \A r \in Req : pc[r] = "idle",
                      NEW p \in Path \ (Shared \cup NoPath)
               PROVE  /\ count[p] = Cardinality(InUse(p))
                      /\ entry[p] = IF count[p] = 0 THEN "none" ELSE "device"
    BY Zenon DEF RefsExact
  <2>1. Adding(p) = {} /\ Cardinality({}) = 0
    BY Zenon, AddingNone, FS_EmptySet
  <2>2. count[p] = Cardinality(InUse(p)) + 0
    BY Zenon, <2>1 DEF OrderlyInv, CountInv
  <2>3. InUse(p) \subseteq Cid
    BY Zenon DEF InUse, CoverInv, Ranges
  <2>4. Cardinality(InUse(p)) \in Nat
    BY Zenon, <2>3, StorageAssumption, FS_Subset, FS_CardinalityType
  <2>5. entry[p] # "dummy"
    BY Zenon, NoDummy DEF OrderlyInv, Busy, Sound
  <2>6. entry[p] \in EntryState /\ (entry[p] = "none" <=> count[p] = 0)
    BY Zenon DEF CoverInv, Ranges, EntryInv
  <2> QED BY SMTT(30), <2>2, <2>4, <2>5, <2>6 DEF EntryState
<1> QED BY OrderlyAlways, <1>1, PTL

\* The storages of a container that an orderly client has created are mounted for as long
\* as the container is there.
THEOREM UsedAreMounted == Spec => []InUseIsMounted
<1>1. CoverInv /\ OrderlyInv => InUseIsMounted
  <2> SUFFICES ASSUME CoverInv, OrderlyInv, Orderly, "device" \in Failures => Shared = {},
                      NEW c \in ctrs, NEW i \in DOMAIN Storages[c]
               PROVE  Storages[c][i] \in mounted
    BY Zenon DEF InUseIsMounted
  <2> DEFINE p == Storages[c][i]
  <2>1. c \in DOMAIN Storages
    BY Zenon DEF OrderlyInv, SerialInv
  <2>2. Storages[c] \in Seq(Path)
    BY Zenon, <2>1, StorageAssumption DEF CoverInv, Ranges, Storages
  <2>3. p \in Path /\ c \in InUse(p)
    BY <2>2 DEF InUse
  <2> HIDE DEF p
  <2>4. IsFiniteSet(InUse(p)) /\ IsFiniteSet(Adding(p))
    <3>1. InUse(p) \subseteq Cid /\ Adding(p) \subseteq Req
      BY Zenon DEF InUse, Adding, CoverInv, Ranges
    <3> QED BY Zenon, <3>1, StorageAssumption, FS_Subset
  <2>5. /\ Cardinality(InUse(p)) \in Nat /\ Cardinality(InUse(p)) # 0
        /\ Cardinality(Adding(p)) \in Nat /\ (Adding(p) # {} => Cardinality(Adding(p)) # 0)
    BY ZenonT(60), <2>3, <2>4, FS_CardinalityType, FS_EmptySet
  <2>6. count[p] >= Cardinality(InUse(p)) + Cardinality(Adding(p)) /\ count[p] \in Nat
    BY ZenonT(60), <2>3 DEF OrderlyInv, CountInv, CoverInv, Ranges
  <2>7. entry[p] # "none"
    BY SMTT(30), <2>3, <2>5, <2>6 DEF CoverInv, EntryInv
  <2>8. entry[p] # "dummy"
    <3> SUFFICES ASSUME entry[p] = "dummy" PROVE FALSE
      BY Zenon
    <3>1. Sound(p)
      BY Zenon DEF Sound
    <3>2. count[p] = 1 /\ \E r \in Req : Busy(r) /\ Here(r) = p
      BY Zenon, <2>3, <3>1 DEF OrderlyInv, DeviceInv
    <3>3. PICK r \in Req : Busy(r) /\ Here(r) = p
      BY Zenon, <3>2
    <3>4. at[r] \in DOMAIN Storages[cid[r]]
      BY Zenon, <3>3, HereIsPath DEF CoverInv
    <3>5. r \in Adding(p)
      BY Zenon, <3>3, <3>4 DEF Adding, Added, Here, Busy
    <3> QED BY SMTT(30), <2>5, <2>6, <3>2, <3>5
  <2>9. entry[p] = "device"
    BY Zenon, <2>3, <2>7, <2>8 DEF CoverInv, Ranges, EntryState
  <2>10. p \in mounted
    BY Zenon, <2>3, <2>9 DEF OrderlyInv, DeviceInv
  <2> QED BY Zenon, <2>10 DEF p
<1> QED BY OrderlyAlways, <1>1, PTL

=============================================================================
