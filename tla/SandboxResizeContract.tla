---------------------- MODULE SandboxResizeContract ----------------------
(* Proofs about the runtime's resizing, part 1: sums and quotients, what   *)
(* every step of an operation preserves, and that the runtime keeps to the *)
(* VMM's contract.                                                         *)
EXTENDS SandboxResize, VcpuHotplugProofs, FiniteSetTheorems, WellFoundedInduction, TLAPS

-----------------------------------------------------------------------------
(* Sums and quotients.                                                     *)

\* A set that has zero, and with a number the next one, has them all.
LEMMA NatSet ==
  ASSUME NEW G, 0 \in G, \A n \in Nat : n \in G => n + 1 \in G
  PROVE  \A n \in Nat : n \in G
<1> DEFINE less == OpToRel(<, Nat)
           bad  == {n \in Nat : n \notin G}
<1> SUFFICES ASSUME bad # {} PROVE FALSE
  BY Zenon
<1>1. PICK m \in bad : \A n \in bad : <<n, m>> \notin less
  <2>1. IsWellFoundedOn(less, Nat)
    BY Zenon, NatLessThanWellFounded
  <2> HIDE DEF less
  <2>2. bad \subseteq Nat
    BY Zenon
  <2> HIDE DEF bad
  <2> QED
    BY Zenon, <2>1, <2>2, WFMin
<1>2. m # 0 /\ m - 1 \in Nat
  OBVIOUS
<1>3. <<m - 1, m>> \in less
  BY <1>2 DEF OpToRel
<1>4. m - 1 \in G
  BY Zenon, <1>1, <1>2, <1>3
<1> QED
  BY SMTT(30), <1>2, <1>4

\* A sum of natural numbers over a finite set is one: the fold's recursive function exists,
\* being built up to sets of any size, and its values are natural numbers.
LEMMA SumIsNat ==
  ASSUME NEW S, IsFiniteSet(S), NEW f, \A x \in S : f[x] \in Nat
  PROVE  SumFunctionOnSet(f, S) \in Nat
<1> DEFINE pick(s) == CHOOSE x \in s : TRUE
           Rec(g)  == g = [s \in SUBSET S |-> IF s = {} THEN 0 ELSE f[pick(s)] + g[s \ {pick(s)}]]
           sum     == CHOOSE g : Rec(g)
           Upto(n) == {s \in SUBSET S : Cardinality(s) <= n}
<1>1. SumFunctionOnSet(f, S) = sum[S]
  BY Zenon DEF SumFunctionOnSet, FoldFunctionOnSet, MapThenFoldSet
<1>2. ASSUME NEW s \in SUBSET S, s # {}
      PROVE  /\ pick(s) \in s /\ f[pick(s)] \in Nat /\ s \ {pick(s)} \in SUBSET S
             /\ Cardinality(s) \in Nat /\ Cardinality(s \ {pick(s)}) = Cardinality(s) - 1
  <2>1. pick(s) \in s
    BY Zenon, <1>2
  <2>2. IsFiniteSet(s)
    BY Zenon, FS_Subset
  <2> HIDE DEF pick
  <2> QED
    BY Zenon, <2>1, <2>2, FS_RemoveElement, FS_CardinalityType
<1>3. \A s \in SUBSET S : Cardinality(s) \in Nat /\ (Cardinality(s) = 0 <=> s = {})
  BY Zenon, FS_Subset, FS_CardinalityType, FS_EmptySet
<1> HIDE DEF pick
<1>4. \E g : Rec(g)
  <2> DEFINE Up(n, g) == \A s \in Upto(n) :
                            g[s] = IF s = {} THEN 0 ELSE f[pick(s)] + g[s \ {pick(s)}]
             good == {n \in Nat : \E g : g = [s \in Upto(n) |-> g[s]] /\ Up(n, g)}
  <2>1. 0 \in good
    <3> DEFINE g == [s \in Upto(0) |-> 0]
    <3>1. \A s \in Upto(0) : s = {}
      BY <1>3
    <3>2. g = [s \in Upto(0) |-> g[s]]
      BY Zenon
    <3>3. Up(0, g)
      BY Zenon, <3>1
    <3> QED
      BY Zenon, <3>2, <3>3
  <2>2. ASSUME NEW n \in Nat, n \in good
        PROVE  n + 1 \in good
    <3>1. PICK g : Up(n, g)
      BY Zenon, <2>2
    <3> DEFINE val(s) == IF s = {} THEN 0 ELSE f[pick(s)] + g[s \ {pick(s)}]
               h == [s \in Upto(n + 1) |-> val(s)]
    <3>2. h = [s \in Upto(n + 1) |-> h[s]]
      BY Zenon
    <3>3. ASSUME NEW s \in Upto(n + 1), s # {}
          PROVE  h[s \ {pick(s)}] = g[s \ {pick(s)}]
      <4>1. s \ {pick(s)} \in Upto(n)
        BY SMTT(30), <1>2, <3>3
      <4>2. s \ {pick(s)} \in Upto(n + 1)
        BY SMTT(30), <4>1, <1>3
      <4>3. g[s \ {pick(s)}] = val(s \ {pick(s)})
        BY Zenon, <4>1, <3>1
      <4> QED
        BY Zenon, <4>2, <4>3
    <3>4. Up(n + 1, h)
      <4> SUFFICES ASSUME NEW s \in Upto(n + 1)
                   PROVE  h[s] = IF s = {} THEN 0 ELSE f[pick(s)] + h[s \ {pick(s)}]
        BY Zenon
      <4>1. h[s] = val(s)
        BY Zenon
      <4> HIDE DEF h
      <4> QED
        BY Zenon, <4>1, <3>3
    <3> HIDE DEF h, Up, Upto
    <3> QED
      BY SMTT(30), <3>2, <3>4
  <2>3. Cardinality(S) \in good
    <3> HIDE DEF good
    <3> QED
      BY Zenon, <2>1, <2>2, <1>3, NatSet
  <2>4. PICK g : g = [s \in Upto(Cardinality(S)) |-> g[s]] /\ Up(Cardinality(S), g)
    BY Zenon, <2>3
  <2>5. Upto(Cardinality(S)) = SUBSET S
    BY Zenon, <1>3, FS_Subset
  <2>6. Rec(g)
    BY Zenon, <2>4, <2>5
  <2> QED
    BY Zenon, <2>6
<1>5. Rec(sum)
  <2> HIDE DEF Rec
  <2> QED
    BY Zenon, <1>4
<1> HIDE DEF sum
<1>6. \A s \in SUBSET S : sum[s] = IF s = {} THEN 0 ELSE f[pick(s)] + sum[s \ {pick(s)}]
  BY Zenon, <1>5
<1> DEFINE nat == {n \in Nat : \A s \in Upto(n) : sum[s] \in Nat}
<1>7. 0 \in nat
  BY SMTT(30), <1>3, <1>6
<1>8. ASSUME NEW n \in Nat, n \in nat
      PROVE  n + 1 \in nat
  <2> SUFFICES ASSUME NEW s \in Upto(n + 1)
               PROVE  sum[s] \in Nat
    OBVIOUS
  <2>0. CASE s = {}
    <3>1. sum[{}] = 0
      <4>1. {} \in SUBSET S
        BY Zenon
      <4> QED
        BY <4>1, <1>6, Zenon
    <3> QED
      BY SMTT(30), <2>0, <3>1
  <2> SUFFICES ASSUME s # {} PROVE sum[s] \in Nat
    BY Zenon, <2>0
  <2>1. s \ {pick(s)} \in Upto(n)
    BY <1>2
  <2>2. sum[s \ {pick(s)}] \in Nat /\ f[pick(s)] \in Nat
    BY Zenon, <2>1, <1>8, <1>2
  <2>3. sum[s] = f[pick(s)] + sum[s \ {pick(s)}]
    BY Zenon, <1>6
  <2> QED
    BY SMTT(30), <2>2, <2>3
<1>9. Cardinality(S) \in nat
  <2> HIDE DEF nat
  <2> QED
    BY Zenon, <1>7, <1>8, <1>3, NatSet
<1>10. S \in Upto(Cardinality(S))
  BY <1>3
<1> QED
  BY Zenon, <1>1, <1>9, <1>10
\* Multiples of u are at least u apart.
LEMMA Product ==
  ASSUME NEW a \in Int, NEW b \in Int, NEW u \in Nat \ {0}, a < b
  PROVE  a * u + u <= b * u
<1>1. b * u = a * u + (b - a) * u
  BY SMT
<1>2. (b - a) * u >= u
  BY SMT
<1> QED
  BY SMTT(30), <1>1, <1>2

\* f32::ceil of a number of vcpus in fractions, within a vcpu of it.
LEMMA CeilIs ==
  ASSUME NEW x \in Nat
  PROVE  /\ Ceil(x) \in Nat
         /\ x <= Ceil(x) * Unit
         /\ Ceil(x) * Unit < x + Unit
<1> DEFINE y == x + Unit - 1
<1>1. y \in Nat /\ Unit \in Nat \ {0}
  BY ResizeAssumption
<1>2. y \div Unit \in Nat /\ (y \div Unit) * Unit <= y /\ y < (y \div Unit) * Unit + Unit
  <2> HIDE DEF y
  <2>1. y = Unit * (y \div Unit) + (y % Unit) /\ y % Unit \in 0..(Unit - 1)
    BY SMTT(30), <1>1
  <2>2. y \div Unit \in Int
    BY <1>1
  <2>3. y \div Unit \in Nat
    BY <1>1
  <2> QED
    BY SMTT(30), <2>1, <2>2, <2>3, <1>1
<1>3. Ceil(x) = y \div Unit
  BY Zenon DEF Ceil
<1> DEFINE q == y \div Unit
<1>4. q * Unit \in Int
  BY SMTT(30), <1>2, <1>1
<1> HIDE DEF q
<1> QED
  BY SMTT(30), <1>1, <1>2, <1>3, <1>4 DEF q

\* It is the only such number.
LEMMA CeilOnly ==
  ASSUME NEW x \in Nat, NEW n \in Nat, x <= n * Unit, n * Unit < x + Unit
  PROVE  Ceil(x) = n
<1> DEFINE q == Ceil(x)
<1>1. q \in Nat /\ x <= q * Unit /\ q * Unit < x + Unit /\ Unit \in Nat \ {0}
  BY Zenon, CeilIs, ResizeAssumption
<1>2. q * Unit \in Nat /\ n * Unit \in Nat
  BY SMTT(30), <1>1
<1> HIDE DEF q
<1>3. CASE q < n
  <2>1. q * Unit + Unit <= n * Unit
    BY SMTT(30), <1>1, <1>3, Product
  <2> QED
    BY SMTT(30), <1>1, <1>2, <2>1
<1>4. CASE n < q
  <2>1. n * Unit + Unit <= q * Unit
    BY SMTT(30), <1>1, <1>4, Product
  <2> QED
    BY SMTT(30), <1>1, <1>2, <2>1
<1> QED
  BY SMTT(30), <1>1, <1>3, <1>4 DEF q

\* It grows with the number.
LEMMA CeilGrows ==
  ASSUME NEW x \in Nat, NEW y \in Nat, x <= y
  PROVE  Ceil(x) <= Ceil(y)
<1> DEFINE a == Ceil(x)
           b == Ceil(y)
<1>1. /\ a \in Nat /\ x <= a * Unit /\ a * Unit < x + Unit
      /\ b \in Nat /\ y <= b * Unit /\ b * Unit < y + Unit /\ Unit \in Nat \ {0}
  BY Zenon, CeilIs, ResizeAssumption
<1>2. a * Unit \in Nat /\ b * Unit \in Nat
  BY SMTT(30), <1>1
<1> HIDE DEF a, b
<1>3. CASE b < a
  <2>1. b * Unit + Unit <= a * Unit
    BY SMTT(30), <1>1, <1>3, Product
  <2> QED
    BY SMTT(30), <1>1, <1>2, <2>1
<1> QED
  BY SMTT(30), <1>1, <1>3 DEF a, b
-----------------------------------------------------------------------------
(* The sums over the containers.                                           *)

\* The setting is one of those assumed, its resources are ones containers may ask for.
LEMMA SettingIs ==
  ASSUME RuntimeInv
  PROVE  \A r \in Resources : IsResource(r)
  BY Zenon, ResizeAssumption DEF RuntimeInv, Resources

\* calc_cpu_resources gives a number of vcpus.
LEMMA RequiredIsNat ==
  ASSUME RuntimeInv
  PROVE  Required \in Nat
<1> DEFINE S == Entries(cpus)
           f == [c \in S |-> Greatest(cpus[c].quota, 0)]
           cpuset == UNION {cpus[c].cpuset : c \in S}
<1>1. IsFiniteSet(S) /\ S \subseteq Cid
  <2>1. S \subseteq Cid
    BY Zenon DEF Entries
  <2> HIDE DEF S
  <2> QED
    BY Zenon, <2>1, FS_Subset, ResizeAssumption
<1>2. \A c \in S : cpus[c].quota \in Int /\ IsFiniteSet(cpus[c].cpuset)
  <2> SUFFICES ASSUME NEW c \in S
               PROVE  cpus[c].quota \in Int /\ IsFiniteSet(cpus[c].cpuset)
    BY Zenon
  <2>1. c \in Cid /\ cpus[c] # NoEntry
    BY Zenon DEF Entries
  <2>2. PICK r \in Resources : cpus[c] = r.cpu
    BY Zenon, <2>1 DEF RuntimeInv, RuntimeTypeOK
  <2> QED
    BY Zenon, <2>1, <2>2, SettingIs DEF IsResource
<1>3. SumFunction(f) \in Nat
  <2>1. \A c \in S : f[c] \in Nat
    BY SMTT(30), <1>2 DEF Greatest
  <2>2. DOMAIN f = S
    BY Zenon
  <2> HIDE DEF f, S
  <2> QED
    BY Zenon, <1>1, <2>1, <2>2, SumIsNat DEF SumFunction
<1>4. Cardinality(cpuset) \in Nat
  <2> DEFINE sets == {cpus[c].cpuset : c \in S}
  <2>1. IsFiniteSet(sets)
    <3> DEFINE g == [c \in S |-> cpus[c].cpuset]
    <3>1. g \in [S -> sets] /\ \A y \in sets : \E x \in S : g[x] = y
      BY Zenon
    <3> HIDE DEF g, sets, S
    <3> QED
      BY SMTT(30), <3>1, <1>1, FS_Surjection DEF Surjection
  <2>2. \A y \in sets : IsFiniteSet(y)
    BY Zenon, <1>2
  <2>3. cpuset = UNION sets
    BY Zenon
  <2> HIDE DEF sets, cpuset
  <2> QED
    BY Zenon, <2>1, <2>2, <2>3, FS_UNION, FS_CardinalityType
<1>5. Cardinality(cpuset) * Unit \in Nat /\ Unit \in Nat
  BY SMTT(30), <1>4, ResizeAssumption
<1> DEFINE card == Cardinality(cpuset) * Unit
           quota == SumFunction(f)
<1>6. Required = CASE S = {}                      -> DefaultVcpu
                   [] quota = 0 /\ cpuset # {}    -> card
                   [] quota > 0                   -> quota + DefaultVcpu
                   [] OTHER                       -> Greatest(DefaultVcpu, Unit)
  BY Zenon DEF Required
<1>7. quota \in Nat /\ card \in Nat
  BY Zenon, <1>3, <1>5
<1> HIDE DEF quota, card, S, cpuset
<1>8. DefaultVcpu \in Nat /\ Greatest(DefaultVcpu, Unit) \in Nat /\ quota + DefaultVcpu \in Nat
  BY SMTT(30), <1>5, <1>7, ResizeAssumption DEF Greatest
<1> QED
  BY ZenonT(60), <1>6, <1>7, <1>8

\* get_current_mb gives an amount of memory.
LEMMA RequiredMemIsNat ==
  ASSUME RuntimeInv
  PROVE  RequiredMem \in Nat
<1> DEFINE S == Entries(mems)
<1>1. IsFiniteSet(S) /\ S \subseteq Cid
  <2>1. S \subseteq Cid
    BY Zenon DEF Entries
  <2> HIDE DEF S
  <2> QED
    BY Zenon, <2>1, FS_Subset, ResizeAssumption
<1>2. \A c \in S : mems[c] \in Nat
  BY SettingIs DEF RuntimeInv, RuntimeTypeOK, IsResource, Entries
<1> HIDE DEF S
<1>3. SumFunctionOnSet(mems, S) \in Nat
  BY ZenonT(60), <1>1, <1>2, SumIsNat
<1> QED
  BY SMTT(30), <1>3, ResizeAssumption DEF RequiredMem, S
-----------------------------------------------------------------------------
(* What holds of any operations.                                           *)

\* At the start no operation is under way.
LEMMA RuntimeInit ==
  Init => RuntimeInv
  BY SMTT(30), ResizeAssumption, VmmAssumption
  DEF Init, VmmInit, RuntimeInv, RuntimeTypeOK, Resources, Steps, Op, Writing, Reading

\* A task goes from one step to another, maybe with another number; a step that takes
\* the driver's lock waits until it is free.
Moves(c, n) ==
  /\ pc[c] # "idle"
  /\ \E step \in Steps \ {"idle"} : Goto(c, step)
  /\ num' = [num EXCEPT ![c] = n]
  /\ pc'[c] \in {"mem_deflate", "mem_recv"} =>
       Writing(c) \/ \A d \in Cid : ~Writing(d) /\ ~Reading(d)
  /\ pc'[c] \in {"cpu_recv", "cpu_wait"} => Reading(c) \/ \A d \in Cid : ~Writing(d)
  /\ pc'[c] = "mem_deflate" => n > DefaultMem + hotplugged'
  /\ pc'[c] = "cpu_send" => n > 0
  /\ hotplugged' # hotplugged => Writing(c) \/ \A d \in Cid : ~Writing(d)
  /\ UNCHANGED <<live, linux, op, setting>>

\* A step that moves a task so preserves the invariant.
LEMMA RuntimeMoves ==
  ASSUME RuntimeInv, NEW c \in Cid, NEW n \in Nat, Moves(c, n),
         cpus' \in [Cid -> {NoEntry} \cup {r.cpu : r \in Resources}],
         mems' \in [Cid -> {NoEntry} \cup {r.mem : r \in Resources}],
         current' \in Nat, granted' \in Nat \cup {NoEntry},
         hotplugged' \in Nat, inflated' \in Nat
  PROVE  RuntimeInv'
<1>1. setting' = setting /\ Resources' = Resources
  BY Zenon DEF Moves, Resources
<1>2. pc' \in [Cid -> Steps] /\ num' \in [Cid -> Nat] /\ op' \in [Cid -> Op]
  BY Zenon DEF Moves, Goto, RuntimeInv, RuntimeTypeOK
<1>3. RuntimeTypeOK'
  BY Zenon, <1>1, <1>2 DEF Moves, RuntimeInv, RuntimeTypeOK
<1>4. \A d \in Cid : d # c => pc'[d] = pc[d] /\ num'[d] = num[d]
  BY Zenon DEF Moves, Goto, RuntimeInv, RuntimeTypeOK
<1>5. \A d \in Cid : d \in live' \/ pc'[d] # "idle" => linux'[d] \in Resources'
  BY Zenon, <1>1, <1>4 DEF Moves, RuntimeInv
<1>6. \A d, e \in Cid : Writing(d)' /\ (Writing(e)' \/ Reading(e)') => d = e
  BY Zenon, <1>4 DEF Moves, RuntimeInv, Writing, Reading
<1>7. \A d \in Cid : pc'[d] = "mem_deflate" => num'[d] > DefaultMem + hotplugged'
  <2> SUFFICES ASSUME NEW d \in Cid, pc'[d] = "mem_deflate"
               PROVE  num'[d] > DefaultMem + hotplugged'
    BY Zenon
  <2>1. CASE d = c
    BY ZenonT(60), <2>1 DEF Moves, RuntimeInv, RuntimeTypeOK
  <2>2. CASE d # c
    <3>1. Writing(d) /\ pc[d] = "mem_deflate" /\ num'[d] = num[d]
      BY Zenon, <2>2, <1>4 DEF Writing
    <3>2. hotplugged' = hotplugged
      <4>1. ~Writing(c)
        BY Zenon, <2>2, <3>1 DEF RuntimeInv
      <4> QED
        BY Zenon, <4>1, <3>1 DEF Moves
    <3> QED
      BY ZenonT(60), <3>1, <3>2 DEF RuntimeInv, HadMem
  <2> QED
    BY Zenon, <2>1, <2>2
<1>8. \A d \in Cid : pc'[d] = "cpu_send" => num'[d] > 0
  <2>1. num'[c] = n
    BY Zenon DEF Moves, RuntimeInv, RuntimeTypeOK
  <2> QED
    BY ZenonT(60), <2>1, <1>4 DEF Moves, RuntimeInv
<1> QED
  BY Zenon, <1>1, <1>3, <1>5, <1>6, <1>7, <1>8 DEF RuntimeInv, HadMem, Moves

\* So does the end of an operation, which leaves the containers there are with resources.
LEMMA RuntimeFinish ==
  ASSUME RuntimeInv, NEW c \in Cid, NEW ok \in BOOLEAN, Finish(c, ok),
         pc[c] # "idle", UNCHANGED <<setting, sums, hotplugged, inflated>>,
         granted' \in Nat \cup {NoEntry}
  PROVE  RuntimeInv'
<1>1. setting' = setting /\ Resources' = Resources
  BY Zenon DEF Resources
<1>2. /\ pc' = [pc EXCEPT ![c] = "idle"] /\ num' = [num EXCEPT ![c] = 0]
      /\ op' = [op EXCEPT ![c] = "Add"]
  BY Zenon DEF Finish, GotoWith, Goto
<1>3. /\ live' \subseteq live \cup {c} /\ live \subseteq live'
      /\ linux' = IF c \in live' THEN linux ELSE [linux EXCEPT ![c] = NoEntry]
  BY Zenon DEF Finish
<1>4. pc' \in [Cid -> Steps] /\ num' \in [Cid -> Nat] /\ op' \in [Cid -> Op]
  BY Zenon, <1>2 DEF RuntimeInv, RuntimeTypeOK, Steps, Op
<1>5. linux' \in [Cid -> Resources \cup {NoEntry}] /\ live' \subseteq Cid
  BY Zenon, <1>3 DEF RuntimeInv, RuntimeTypeOK
<1>6. RuntimeTypeOK'
  BY Zenon, <1>1, <1>4, <1>5 DEF RuntimeInv, RuntimeTypeOK, sums
<1>7. \A d \in Cid : d # c => pc'[d] = pc[d] /\ num'[d] = num[d] /\ linux'[d] = linux[d]
  BY ZenonT(60), <1>2, <1>3 DEF RuntimeInv, RuntimeTypeOK
<1>8. pc'[c] = "idle"
  BY Zenon, <1>2 DEF RuntimeInv, RuntimeTypeOK
<1>9. \A d \in Cid : d \in live' \/ pc'[d] # "idle" => linux'[d] \in Resources'
  BY SMTT(30), <1>1, <1>3, <1>7, <1>8 DEF RuntimeInv
<1>10. \A d, e \in Cid : Writing(d)' /\ (Writing(e)' \/ Reading(e)') => d = e
  BY Zenon, <1>7, <1>8 DEF RuntimeInv, Writing, Reading
<1>11. \A d \in Cid : pc'[d] = "mem_deflate" => num'[d] > HadMem'
  BY Zenon, <1>7, <1>8 DEF RuntimeInv, HadMem
<1>12. \A d \in Cid : pc'[d] = "cpu_send" => num'[d] > 0
  BY Zenon, <1>7, <1>8 DEF RuntimeInv
<1> QED
  BY Zenon, <1>1, <1>6, <1>9, <1>10, <1>11, <1>12 DEF RuntimeInv

\* So does the beginning of one: no step that has the driver's lock is taken yet.
LEMMA RuntimeBegin ==
  ASSUME RuntimeInv, NEW c \in Cid, Begin(c)
  PROVE  RuntimeInv'
<1>1. /\ setting' = setting /\ Resources' = Resources /\ pc[c] = "idle"
      /\ pc' = [pc EXCEPT ![c] = "cpu_map"] /\ UNCHANGED <<num, sums, driver>>
  BY Zenon DEF Begin, Goto, Resources
<1>2. /\ live' \subseteq live
      /\ \E o \in Op : op' = [op EXCEPT ![c] = o]
      /\ \E r \in Resources : linux' = [linux EXCEPT ![c] = r]
  <2>1. c \in live => linux = [linux EXCEPT ![c] = linux[c]] /\ linux[c] \in Resources
    BY ZenonT(60) DEF RuntimeInv, RuntimeTypeOK
  <2> QED
    BY Zenon, <2>1 DEF Begin, Op
<1>3. RuntimeTypeOK'
  BY SMTT(30), <1>1, <1>2 DEF RuntimeInv, RuntimeTypeOK, Steps, sums, driver
<1>4. /\ pc'[c] = "cpu_map" /\ linux'[c] \in Resources
      /\ \A d \in Cid : d # c => pc'[d] = pc[d] /\ linux'[d] = linux[d]
  BY Zenon, <1>1, <1>2 DEF RuntimeInv, RuntimeTypeOK
<1>5. \A d \in Cid : d \in live' \/ pc'[d] # "idle" => linux'[d] \in Resources'
  BY Zenon, <1>1, <1>2, <1>4 DEF RuntimeInv
<1>6. \A d, e \in Cid : Writing(d)' /\ (Writing(e)' \/ Reading(e)') => d = e
  BY Zenon, <1>4 DEF RuntimeInv, Writing, Reading
<1>7. \A d \in Cid : pc'[d] = "mem_deflate" => num'[d] > HadMem'
  BY Zenon, <1>1, <1>4 DEF RuntimeInv, HadMem, driver
<1>8. \A d \in Cid : pc'[d] = "cpu_send" => num'[d] > 0
  BY Zenon, <1>1, <1>4 DEF RuntimeInv
<1> QED
  BY Zenon, <1>1, <1>3, <1>5, <1>6, <1>7, <1>8 DEF RuntimeInv

\* do_update_cpu_resources asks for at least one vcpu.
LEMMA TargetIs ==
  ASSUME RuntimeInv, NEW c \in Cid
  PROVE  Target(c) \in Nat /\ Target(c) > 0
<1> DEFINE n == Greatest(num[c], Unit)
<1>1. n \in Nat /\ n > 0
  BY SMTT(30), ResizeAssumption DEF Greatest, RuntimeInv, RuntimeTypeOK
<1> HIDE DEF n
<1>2. Ceil(n) \in Nat /\ n <= Ceil(n) * Unit
  BY Zenon, <1>1, CeilIs
<1>3. Ceil(n) # 0
  BY SMTT(30), <1>1, <1>2, ResizeAssumption
<1> QED
  BY SMTT(30), <1>2, <1>3 DEF Target, n

\* The steps of update_cpu_resources.
LEMMA RuntimeCpu ==
  ASSUME RuntimeInv, NEW c \in Cid,
         \/ CpuMap(c) \/ CpuMapFails(c) \/ CpuSum(c) \/ CpuCompare(c) \/ CpuOld(c)
         \/ CpuResize(c) \/ CpuRecv(c) \/ CpuWait(c) \/ CpuCurrent(c)
  PROVE  RuntimeInv'
<1>0. /\ pc \in [Cid -> Steps] /\ num \in [Cid -> Nat] /\ num[c] \in Nat
      /\ cpus \in [Cid -> {NoEntry} \cup {r.cpu : r \in Resources}]
      /\ mems \in [Cid -> {NoEntry} \cup {r.mem : r \in Resources}]
      /\ current \in Nat /\ granted \in Nat \cup {NoEntry}
      /\ hotplugged \in Nat /\ inflated \in Nat
      /\ num = [num EXCEPT ![c] = num[c]]
  BY Zenon DEF RuntimeInv, RuntimeTypeOK
<1>a. \A step \in Steps : Goto(c, step) => pc'[c] = step
  BY Zenon, <1>0 DEF Goto
<1>1. CASE CpuMap(c)
  <2>1. Moves(c, num[c])
    BY Zenon, <1>0, <1>1, <1>a DEF Moves, CpuMap, Steps, driver
  <2>2. cpus' \in [Cid -> {NoEntry} \cup {r.cpu : r \in Resources}]
    <3>1. linux[c] \in Resources
      BY Zenon, <1>1 DEF CpuMap, RuntimeInv
    <3> DEFINE new == linux[c].cpu
    <3>2. \/ cpus' = cpus \/ cpus' = [cpus EXCEPT ![c] = NoEntry]
          \/ cpus' = [cpus EXCEPT ![c] = new]
      BY SMTT(30), SMT, <1>1 DEF CpuMap
    <3> QED
      BY ZenonT(60), <1>0, <3>1, <3>2
  <2> QED
    BY Zenon, <1>0, <1>1, <2>1, <2>2, RuntimeMoves DEF CpuMap, driver
<1>2. CASE CpuSum(c)
  <2>1. Required \in Nat
    BY Zenon, RequiredIsNat
  <2>2. Moves(c, Required)
    BY Zenon, <1>2, <1>a DEF Moves, CpuSum, GotoWith, Steps, driver
  <2> QED
    BY Zenon, <1>0, <1>2, <2>1, <2>2, RuntimeMoves DEF CpuSum, sums, driver
<1>3. CASE CpuCompare(c)
  <2>1. Moves(c, 0) \/ Moves(c, num[c])
    BY Zenon, <1>0, <1>3, <1>a DEF Moves, CpuCompare, GotoWith, Steps, driver
  <2> QED
    BY Zenon, <1>0, <1>3, <2>1, RuntimeMoves DEF CpuCompare, sums, driver
<1>4. CASE CpuOld(c)
  <2>1. Ceil(current) \in Nat /\ Target(c) \in Nat /\ Target(c) > 0
    BY Zenon, <1>0, CeilIs, TargetIs
  <2>2. Moves(c, Ceil(current)) \/ Moves(c, Target(c))
    <3>1. CASE GotoWith(c, "cpu_cur", Ceil(current))
      BY Zenon, <1>4, <1>a, <3>1 DEF Moves, CpuOld, GotoWith, Steps, driver
    <3>2. CASE GotoWith(c, "cpu_send", Target(c))
      BY Zenon, <1>4, <1>a, <2>1, <3>2 DEF Moves, CpuOld, GotoWith, Steps, driver
    <3> QED
      BY Zenon, <1>4, <3>1, <3>2 DEF CpuOld
  <2> QED
    BY Zenon, <1>0, <1>4, <2>1, <2>2, RuntimeMoves DEF CpuOld, sums, driver
<1>5. CASE CpuResize(c)
  <2> DEFINE n == Least(num[c], MaxVcpu)
  <2>1. n \in Nat
    BY Zenon, <1>0, VmmAssumption DEF Least
  <2>2. Moves(c, n)
    BY Zenon, <1>5, <1>a DEF Moves, CpuResize, GotoWith, Steps, driver
  <2> HIDE DEF n
  <2> QED
    BY Zenon, <1>0, <1>5, <2>1, <2>2, RuntimeMoves DEF CpuResize, sums, driver
<1>6. CASE CpuRecv(c)
  <2>1. CASE Head(resp).ok
    <3>1. Moves(c, num[c])
      BY Zenon, <1>0, <1>6, <1>a, <2>1 DEF Moves, CpuRecv, Steps, driver, Reading
    <3> QED
      BY Zenon, <1>0, <1>6, <3>1, RuntimeMoves DEF CpuRecv, sums, driver
  <2>2. CASE ~Head(resp).ok
    <3>1. Finish(c, FALSE) /\ pc[c] # "idle"
      BY Zenon, <1>6, <2>2 DEF CpuRecv
    <3> QED
      BY Zenon, <1>0, <1>6, <3>1, RuntimeFinish DEF CpuRecv, driver
  <2> QED
    BY Zenon, <2>1, <2>2
<1>7. CASE CpuWait(c)
  <2>1. CASE Goto(c, "cpu_cur") /\ UNCHANGED <<live, linux, op, num>>
    <3>1. Moves(c, num[c])
      BY Zenon, <1>0, <1>7, <1>a, <2>1 DEF Moves, CpuWait, Steps, driver, Reading
    <3> QED
      BY Zenon, <1>0, <1>7, <3>1, RuntimeMoves DEF CpuWait, sums, driver
  <2>2. CASE Finish(c, FALSE)
    BY Zenon, <1>0, <1>7, <2>2, RuntimeFinish DEF CpuWait, driver
  <2> QED
    BY Zenon, <1>7, <2>1, <2>2 DEF CpuWait
<1>8. CASE CpuCurrent(c)
  <2>1. Moves(c, 0)
    BY ZenonT(60), <1>8, <1>a DEF Moves, CpuCurrent, GotoWith, Steps, driver
  <2>2. current' \in Nat
    BY SMTT(30), <1>0, <1>8, ResizeAssumption DEF CpuCurrent
  <2> QED
    BY Zenon, <1>0, <1>8, <2>1, <2>2, RuntimeMoves DEF CpuCurrent, driver
<1>9. CASE CpuMapFails(c)
  <2>1. Finish(c, FALSE) /\ pc[c] # "idle"
    BY Zenon, <1>9 DEF CpuMapFails
  <2> QED
    BY Zenon, <1>0, <1>9, <2>1, RuntimeFinish DEF CpuMapFails, driver
<1> QED
  BY Zenon, <1>1, <1>2, <1>3, <1>4, <1>5, <1>6, <1>7, <1>8, <1>9

\* The steps of update_mem_resources and of resize_memory.
LEMMA RuntimeMem ==
  ASSUME RuntimeInv, NEW c \in Cid,
         \/ MemMap(c) \/ MemSum(c) \/ MemSize(c) \/ MemDeflated(c) \/ MemRecv(c) \/ Online(c)
  PROVE  RuntimeInv'
<1>0. /\ pc \in [Cid -> Steps] /\ num \in [Cid -> Nat] /\ num[c] \in Nat
      /\ cpus \in [Cid -> {NoEntry} \cup {r.cpu : r \in Resources}]
      /\ mems \in [Cid -> {NoEntry} \cup {r.mem : r \in Resources}]
      /\ current \in Nat /\ granted \in Nat \cup {NoEntry}
      /\ hotplugged \in Nat /\ inflated \in Nat
      /\ num = [num EXCEPT ![c] = num[c]] /\ DefaultMem \in Nat
  BY Zenon, ResizeAssumption DEF RuntimeInv, RuntimeTypeOK
<1>a. \A step \in Steps : Goto(c, step) => pc'[c] = step
  BY Zenon, <1>0 DEF Goto
<1>b. /\ num[c] > HadMem => num[c] - DefaultMem \in Nat
      /\ num[c] < HadMem => HadMem - num[c] \in Nat
  <2>1. num[c] \in Nat /\ DefaultMem \in Nat /\ hotplugged \in Nat
    BY ZenonT(60), <1>0
  <2>2. ASSUME NEW n \in Nat, NEW d \in Nat, NEW h \in Nat
        PROVE  (n > d + h => n - d \in Nat) /\ (n < d + h => (d + h) - n \in Nat)
    BY SMTT(30)
  <2> QED
    BY ZenonT(60), <2>1, <2>2 DEF HadMem
<1>c. 0 \in Nat
  BY SMTT(30)
<1>1. CASE MemMap(c)
  <2>1. Moves(c, num[c])
    BY ZenonT(60), <1>0, <1>1, <1>a DEF Moves, MemMap, Steps, driver
  <2>2. mems' \in [Cid -> {NoEntry} \cup {r.mem : r \in Resources}]
    <3>1. linux[c] \in Resources
      BY ZenonT(60), <1>1 DEF MemMap, RuntimeInv
    <3> QED
      BY Zenon, <1>0, <1>1, <3>1 DEF MemMap
  <2> QED
    BY ZenonT(60), <1>0, <1>1, <2>1, <2>2, RuntimeMoves DEF MemMap, driver
<1>2. CASE MemSum(c)
  <2>1. RequiredMem \in Nat
    BY ZenonT(60), RequiredMemIsNat
  <2>2. Moves(c, RequiredMem)
    BY Zenon, <1>2, <1>a DEF Moves, MemSum, GotoWith, Steps, driver
  <2> QED
    BY ZenonT(60), <1>0, <1>2, <2>1, <2>2, RuntimeMoves DEF MemSum, sums, driver
<1>3. CASE MemSize(c)
  <2>1. Moves(c, num[c])
    BY ZenonT(60), <1>0, <1>3, <1>a DEF Moves, MemSize, HotplugMem, HadMem, Steps, driver
  <2>2. hotplugged' \in Nat /\ inflated' \in Nat /\ granted' \in Nat \cup {NoEntry}
    BY Zenon, <1>0, <1>3, <1>b, <1>c DEF MemSize, HotplugMem, driver
  <2> QED
    BY Zenon, <1>0, <1>3, <2>1, <2>2, RuntimeMoves DEF MemSize, sums
<1>4. CASE MemDeflated(c)
  <2>1. CASE Head(resp).ok
    <3>1. num[c] > HadMem /\ Writing(c)
      BY Zenon, <1>4 DEF MemDeflated, RuntimeInv, Writing
    <3>2. Moves(c, num[c])
      BY Zenon, <1>0, <1>4, <1>a, <2>1, <3>1 DEF Moves, MemDeflated, HotplugMem, Steps
    <3>3. hotplugged' \in Nat /\ inflated' \in Nat /\ granted' \in Nat \cup {NoEntry}
      BY Zenon, <1>0, <1>4, <1>b, <1>c, <2>1, <3>1 DEF MemDeflated, HotplugMem
    <3> QED
      BY ZenonT(60), <1>0, <1>4, <3>2, <3>3, RuntimeMoves DEF MemDeflated, sums
  <2>2. CASE ~Head(resp).ok
    <3>1. Finish(c, FALSE) /\ pc[c] # "idle" /\ granted' = NoEntry
      BY Zenon, <1>4, <2>2 DEF MemDeflated
    <3> QED
      BY Zenon, <1>0, <1>4, <2>2, <3>1, RuntimeFinish DEF MemDeflated
  <2> QED
    BY Zenon, <2>1, <2>2
<1>5. CASE MemRecv(c)
  <2>1. CASE Head(resp).ok
    <3>1. Moves(c, num[c])
      BY Zenon, <1>0, <1>5, <1>a, <2>1 DEF Moves, MemRecv, Steps
    <3>2. granted' \in Nat \cup {NoEntry}
      BY Zenon, <1>0, <1>5, <2>1 DEF MemRecv
    <3> QED
      BY Zenon, <1>0, <1>5, <3>1, <3>2, RuntimeMoves DEF MemRecv, sums
  <2>2. CASE ~Head(resp).ok
    <3>1. Finish(c, FALSE) /\ pc[c] # "idle" /\ granted' = NoEntry
      BY Zenon, <1>5, <2>2 DEF MemRecv
    <3> QED
      BY Zenon, <1>0, <1>5, <3>1, RuntimeFinish DEF MemRecv
  <2> QED
    BY Zenon, <2>1, <2>2
<1>6. CASE Online(c)
  <2>1. (Finish(c, TRUE) \/ Finish(c, FALSE)) /\ pc[c] # "idle"
    BY Zenon, <1>6 DEF Online
  <2> QED
    BY Zenon, <1>0, <1>6, <2>1, RuntimeFinish DEF Online, driver
<1> QED
  BY Zenon, <1>1, <1>2, <1>3, <1>4, <1>5, <1>6

\* So does every step of the system.
LEMMA RuntimeStep ==
  ASSUME RuntimeInv, [Next]_vars
  PROVE  RuntimeInv'
<1>1. CASE UNCHANGED <<setting, task, sums, driver>>
  BY Zenon, <1>1 DEF RuntimeInv, RuntimeTypeOK, Resources, Writing, Reading, HadMem, task, sums, driver
<1>2. ASSUME NEW c \in Cid, Begin(c) \/ TaskStep(c)
      PROVE  RuntimeInv'
  BY Zenon, <1>2, RuntimeBegin, RuntimeCpu, RuntimeMem DEF TaskStep
<1> QED
  BY Zenon, <1>1, <1>2 DEF Next, Below, vars
-----------------------------------------------------------------------------
(* The runtime keeps to the VMM's contract.                                *)

\* What send_request adds to the channel, if it is proper.
LEMMA SendIs ==
  ASSUME queue \in Seq(ProperRequest), NEW k \in {"vcpu", "mem", "balloon"}, NEW n \in Nat,
         k = "vcpu" => n \in 1..MaxVcpu, Send(k, n)
  PROVE  Sends
<1> DEFINE r == [kind |-> k, n |-> n]
<1>1. Proper(r) /\ r \in ProperRequest
  BY Zenon DEF Proper, Request, ProperRequest
<1>2. queue' = Append(queue, r) /\ bell' = TRUE
  BY Zenon DEF Send
<1> HIDE DEF r
<1>3. Len(queue') = Len(queue) + 1 /\ queue'[Len(queue) + 1] = r
  BY SMTT(30), <1>1, <1>2
<1> QED
  BY Zenon, <1>1, <1>2, <1>3 DEF Sends

\* Every step of the runtime is one of the VMM's callers, or none of the VMM's.
LEMMA ContractStep ==
  ASSUME RuntimeInv, queue \in Seq(ProperRequest), [Next]_vars
  PROVE  [VmmNext]_<<setting, vmm>>
<1>1. CASE UNCHANGED <<setting, vmm>>
  BY Zenon, <1>1
<1>2. ASSUME setting' = setting, UNCHANGED <<vcpu, conn, dev, guest>>,
             UNCHANGED <<queue, bell>> \/ Sends,
             UNCHANGED <<resp, held, signalled>> \/ \E c \in Cid : Receive(c) \/ Drop(c)
      PROVE  VmmNext
  BY Zenon, <1>2, ResizeAssumption DEF VmmNext, CallerStep
<1>3. ASSUME NEW c \in Cid, Begin(c) \/ TaskStep(c)
      PROVE  [VmmNext]_<<setting, vmm>>
  <2>1. CASE Begin(c) \/ CpuMap(c) \/ CpuMapFails(c) \/ CpuSum(c) \/ CpuCompare(c) \/ CpuOld(c)
             \/ CpuCurrent(c) \/ MemMap(c) \/ MemSum(c) \/ Online(c)
    BY Zenon, <1>1, <2>1 DEF Begin, CpuMap, CpuMapFails, CpuSum, CpuCompare, CpuOld, CpuCurrent,
                             MemMap, MemSum, Online
  <2>2. CASE CpuResize(c)
    <3>1. Sends
      <4>1. num[c] \in Nat /\ num[c] > 0
        BY Zenon, <2>2 DEF CpuResize, RuntimeInv, RuntimeTypeOK
      <4>2. Least(num[c], MaxVcpu) \in 1..MaxVcpu
        BY SMTT(30), <4>1, VmmAssumption DEF Least
      <4>3. Send("vcpu", Least(num[c], MaxVcpu))
        BY Zenon, <2>2 DEF CpuResize
      <4> QED
        BY SMTT(30), <4>2, <4>3, SendIs
    <3> QED
      BY ZenonT(60), <1>2, <2>2, <3>1 DEF CpuResize
  <2>3. CASE CpuRecv(c)
    BY Zenon, <1>2, <2>3 DEF CpuRecv
  <2>4. CASE CpuWait(c)
    BY ZenonT(60), <1>2, <2>4 DEF CpuWait
  <2>5. CASE MemSize(c)
    <3>1. UNCHANGED <<queue, bell>> \/ Sends
      <4>1. num[c] \in Nat /\ HadMem \in Nat
        BY SMTT(30), ResizeAssumption DEF RuntimeInv, RuntimeTypeOK, HadMem
      <4>2. \/ UNCHANGED <<queue, bell>>
            \/ num[c] < HadMem /\ Send("balloon", HadMem - num[c])
            \/ Send("balloon", 0)
            \/ num[c] > HadMem /\ Send("mem", num[c] - HadMem)
        BY Zenon, <2>5 DEF MemSize, HotplugMem
      <4> QED
        BY SMTT(30), <4>1, <4>2, SendIs
    <3> QED
      BY Zenon, <1>2, <2>5, <3>1 DEF MemSize
  <2>6. CASE MemDeflated(c)
    <3>1. UNCHANGED <<queue, bell>> \/ Sends
      <4>1. num[c] \in Nat /\ HadMem \in Nat /\ num[c] > HadMem
        BY SMTT(30), <2>6, ResizeAssumption DEF RuntimeInv, RuntimeTypeOK, HadMem, MemDeflated
      <4>2. UNCHANGED <<queue, bell>> \/ Send("mem", num[c] - HadMem)
        BY Zenon, <2>6 DEF MemDeflated, HotplugMem
      <4> QED
        BY SMTT(30), <4>1, <4>2, SendIs
    <3> QED
      BY Zenon, <1>2, <2>6, <3>1 DEF MemDeflated
  <2>7. CASE MemRecv(c)
    BY Zenon, <1>2, <2>7 DEF MemRecv
  <2> QED
    BY Zenon, <1>3, <2>1, <2>2, <2>3, <2>4, <2>5, <2>6, <2>7 DEF TaskStep
<1> QED
  BY Zenon, <1>1, <1>3 DEF Next, Below, vars, VmmNext

\* The runtime's invariant and the one of the VMM thread hold together: each step of the
\* one is justified by the other.
LEMMA ContractAlways ==
  Spec => [](RuntimeInv /\ VcpuInv)
<1>1. Init => RuntimeInv /\ VcpuInv
  BY Zenon, RuntimeInit, InitInv DEF Init
<1>2. RuntimeInv /\ VcpuInv /\ [Next]_vars => RuntimeInv' /\ VcpuInv'
  <2> SUFFICES ASSUME RuntimeInv, VcpuInv, [Next]_vars
               PROVE  RuntimeInv' /\ VcpuInv'
    BY Zenon
  <2>1. [VmmNext]_<<setting, vmm>>
    BY ZenonT(60), ContractStep DEF VcpuInv
  <2> QED
    BY ZenonT(60), <2>1, RuntimeStep, VcpuStep
<1> QED
  BY <1>1, <1>2, PTL DEF Spec

\* The runtime is a caller that keeps to the VMM's contract (ImplementsVmm): with any
\* number of containers and whatever they ask for, the resource manager and the driver
\* ask for at least one vcpu and at most max_vcpu_count, and for no negative memory.
THEOREM RuntimeKeepsContract ==
  Spec => ImplementsVmm
<1>1. Init => VmmInit
  BY Zenon DEF Init
<1>2. RuntimeInv /\ VcpuInv /\ [Next]_vars => [VmmNext]_<<setting, vmm>>
  BY Zenon, ContractStep DEF VcpuInv
<1> QED
  BY <1>1, <1>2, ContractAlways, PTL DEF Spec, VmmSpec, ImplementsVmm

\* So that the vcpu manager is right with the runtime as its caller.
LEMMA VmmAlways ==
  Spec => [](RuntimeInv /\ VcpuInv /\ PlugInv /\ AgreeInv)
  BY RuntimeKeepsContract, ContractAlways, Invariant, PTL DEF ImplementsVmm

\* With the runtime as its caller the VMM keeps its vcpus, their thread ids and the guest's
\* kernel in step, whatever the operations of the containers and their interleaving.
THEOREM RuntimeKeepsVcpus ==
  Spec => [](TidsArePresent /\ OnlineHasThread /\ GuestAgrees)
  BY RuntimeKeepsContract, TidsMatch, ThreadsOutliveGuest, GuestKeepsUp, PTL DEF ImplementsVmm

\* And the runtime gets the service of VcpuService: however resize operations of several
\* containers overlap in the driver (inner_hypervisor.rs), the VM changes its vcpus by one of
\* them at a time, and to the number that one asked for.
THEOREM RuntimeGetsService ==
  Spec => ImplementsService
  BY RuntimeKeepsContract, VmmImplementsService, PTL DEF ImplementsVmm
==========================================================================
