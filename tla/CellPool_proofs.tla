-------------------------- MODULE CellPool_proofs --------------------------
(***************************************************************************)
(* Proofs about CellPool, for any number of threads, zones and cells, and  *)
(* about AlignedMemory, which says where the cells of a zone lie.          *)
(***************************************************************************)
EXTENDS CellPool, AlignedMemory, FiniteSetTheorems, WellFoundedInduction, TLAPS

-----------------------------------------------------------------------------
(* The invariant.                                                          *)

\* A thread goes to record that there are n zones.
Records(t, n) ==
  \/ pc[t] \in {"expand", "alloc", "install"} /\ zone_index[t] = n
  \/ pc[t] \in {"fill", "pushed"} /\ zone_index[t] = n - 1

\* There are n zones, and the threads that make the pool grow have not gone
\* beyond.
Zones(n) ==
  /\ zone_list = 0 .. n - 1
  /\ nbr_zones <= n
  /\ \A t \in Thread :
       /\ pc[t] \in {"expand", "alloc", "install"} => zone_index[t] <= n
       /\ pc[t] \in {"fill", "pushed"} => zone_index[t] = n - 1
  /\ nbr_zones = n \/ \E t \in Thread : Records(t, n)

\* One thread fills a zone at a time.
Filling ==
  \A t \in Thread :
    /\ pc[t] \in {"install", "fill", "pushed"} <=> lock = t
    /\ pc[t] \in {"alloc", "install"} => zone_index[t] < MaxZones
    /\ pc[t] \in {"fill", "pushed"} => pos[t] < ZoneSize[zone_index[t]]

Pushed == Allocated \ NotPushed

Counting ==
  /\ IsFiniteSet(Pushed) /\ IsFiniteSet(Held)
  /\ Cardinality(Pushed) = stack + Cardinality(At({"taken"})) + Cardinality(Held)

\* A thread that takes a cell has room for it.
Taking == \A t \in Thread : pc[t] \notin {"idle", "returned"} => held[t] < MaxHeld

\* The cells that the counter is about to count.
Available ==
  stack + Cardinality(At({"taken"})) - Cardinality(At({"pushed", "returned"}))

IInv ==
  TypeOK /\ Taking /\ (\E n \in 0 .. MaxZones : Zones(n)) /\ Filling /\ Counting /\ AvailMatches

-----------------------------------------------------------------------------
(* The sizes of the zones.                                                 *)

\* Induction over the numbers of a set.
LEMMA SetInduction ==
  ASSUME NEW S, 0 \in S, \A n \in Nat : n \in S => n + 1 \in S
  PROVE  Nat \subseteq S
<1> DEFINE T == Nat \ S
           R == OpToRel(<, Nat)
<1>1. SUFFICES ASSUME T # {} PROVE FALSE
  OBVIOUS
<1>2. \E n \in T : \A m \in T : ~ (<<m, n>> \in R)
  <2>1. IsWellFoundedOn(R, Nat)
    BY NatLessThanWellFounded
  <2>2. T \subseteq Nat
    OBVIOUS
  <2> HIDE DEF T, R
  <2> QED BY <1>1, <2>1, <2>2, WFMin
<1>3. PICK n \in T : \A m \in T : ~ (m < n)
  <2>1. \A m, n \in Nat : m < n => <<m, n>> \in R
    BY DEF OpToRel
  <2> QED BY <1>2, <2>1
<1> QED BY <1>3

\* A function of the first numbers that gives each value from the one before.
Recursive(f, A, a, M, g) ==
  /\ f \in [0 .. M -> A]
  /\ f[0] = a
  /\ \A n \in 1 .. M : f[n] = g[<<n - 1, f[n - 1]>>]

LEMMA Recursion ==
  ASSUME NEW A, NEW a \in A, NEW M \in Nat, NEW g \in [(0 .. M) \X A -> A]
  PROVE  \E f : Recursive(f, A, a, M, g)
<1> DEFINE Is(f, m) ==
             f[0] = a /\ \A n \in 1 .. m : f[n] = g[<<n - 1, f[n - 1]>>]
           S == {m \in Nat : m <= M => \E f \in [0 .. m -> A] : Is(f, m)}
<1>1. 0 \in S
  <2> DEFINE f == [n \in 0 .. 0 |-> a]
  <2>1. f \in [0 .. 0 -> A] /\ Is(f, 0)
    OBVIOUS
  <2> QED BY <2>1
<1>2. ASSUME NEW m \in Nat, m \in S
      PROVE  m + 1 \in S
  <2> SUFFICES ASSUME m + 1 <= M PROVE \E f \in [0 .. m + 1 -> A] : Is(f, m + 1)
    OBVIOUS
  <2>1. PICK f \in [0 .. m -> A] : Is(f, m)
    BY <1>2
  <2> DEFINE h == [n \in 0 .. m + 1 |-> IF n <= m THEN f[n] ELSE g[<<m, f[m]>>]]
  <2>2. m \in 0 .. m /\ m \in 0 .. M
    OBVIOUS
  <2>3. g[<<m, f[m]>>] \in A
    BY <2>2
  <2>4. h \in [0 .. m + 1 -> A]
    BY <2>3
  <2>5. h[0] = a /\ h[m + 1] = g[<<m, f[m]>>] /\ \A n \in 0 .. m : h[n] = f[n]
    BY <2>1
  <2> HIDE DEF h
  <2>6. ASSUME NEW n \in 1 .. m + 1
        PROVE  h[n] = g[<<n - 1, h[n - 1]>>]
    <3>1. n - 1 \in 0 .. m
      OBVIOUS
    <3>2. CASE n \in 1 .. m
      BY <2>1, <2>5, <3>1, <3>2
    <3>3. CASE n = m + 1
      <4>1. n - 1 = m
        BY <3>3
      <4> QED BY <2>5, <2>2, <3>3, <4>1
    <3> QED BY <3>2, <3>3
  <2> QED BY <2>4, <2>5, <2>6
<1> HIDE DEF S
<1>3. Nat \subseteq S
  BY <1>1, <1>2, SetInduction
<1> QED BY <1>3 DEF S, Recursive

LEMMA Bounds ==
  /\ MaxZones \in Nat \ {0} /\ BaseSize \in Nat \ {0, 1}
  /\ IsFiniteSet(Thread) /\ None \notin Thread
  /\ InitCells \in Nat /\ MaxHeld \in Nat /\ Modulus \in Nat
BY PoolAssumption

LEMMA Sizes ==
  ZoneSize \in [0 .. MaxZones -> Nat \ {0, 1}]
<1> DEFINE Size == Nat \ {0, 1}
           g == [p \in (0 .. MaxZones) \X Size |-> compute_grown_size(p[2])]
           Is(f) == f = [z \in 0 .. MaxZones |->
                           IF z = 0 THEN BaseSize ELSE compute_grown_size(f[z - 1])]
<1>1. \A n \in Size : compute_grown_size(n) \in Size
  BY DEF compute_grown_size
<1>2. BaseSize \in Size /\ MaxZones \in Nat /\ g \in [(0 .. MaxZones) \X Size -> Size]
  BY <1>1, Bounds
<1>3. PICK f : Recursive(f, Size, BaseSize, MaxZones, g)
  <2> HIDE DEF Size, g
  <2> QED BY <1>2, Recursion
<1>4. Is(f)
  <2>1. \A z \in 1 .. MaxZones :
          /\ z - 1 \in 0 .. MaxZones /\ f[z - 1] \in Size
          /\ g[<<z - 1, f[z - 1]>>] = compute_grown_size(f[z - 1])
    BY <1>3, Bounds DEF Recursive
  <2> HIDE DEF g
  <2>2. \A z \in 0 .. MaxZones :
          f[z] = IF z = 0 THEN BaseSize ELSE compute_grown_size(f[z - 1])
    <3> TAKE z \in 0 .. MaxZones
    <3>1. z = 0 \/ z \in 1 .. MaxZones
      BY Bounds
    <3>2. z \in 1 .. MaxZones => z # 0
      OBVIOUS
    <3> QED BY <1>3, <2>1, <3>1, <3>2 DEF Recursive
  <2> QED BY <1>3, <2>2 DEF Recursive
<1>5. Is(ZoneSize)
  BY <1>4, Zenon DEF ZoneSize
<1> DEFINE S == {n \in Nat : n <= MaxZones => ZoneSize[n] \in Size}
<1>6. Nat \subseteq S
  <2>1. 0 \in S
    BY <1>2, <1>5
  <2>2. ASSUME NEW n \in Nat, n \in S PROVE n + 1 \in S
    <3> SUFFICES ASSUME n + 1 <= MaxZones PROVE ZoneSize[n + 1] \in Size
      OBVIOUS
    <3>1. ZoneSize[n + 1] = compute_grown_size(ZoneSize[n])
      BY <1>5, Bounds
    <3>2. ZoneSize[n] \in Size
      BY <2>2, Bounds
    <3> QED BY <1>1, <3>1, <3>2
  <2> HIDE DEF S
  <2> QED BY <2>1, <2>2, SetInduction
<1>7. \A n \in 0 .. MaxZones : ZoneSize[n] \in Size
  BY <1>6, Bounds
<1> QED BY <1>5, <1>7

LEMMA Totals ==
  /\ compute_total_size_for_zones \in [0 .. MaxZones -> Nat]
  /\ compute_total_size_for_zones[0] = 0
  /\ \A n \in 1 .. MaxZones :
       compute_total_size_for_zones[n] =
         compute_total_size_for_zones[n - 1] + ZoneSize[n - 1]
<1> DEFINE T == compute_total_size_for_zones
           g == [p \in (0 .. MaxZones) \X Nat |-> p[2] + ZoneSize[p[1]]]
           Is(f) == f = [n \in 0 .. MaxZones |->
                           IF n = 0 THEN 0 ELSE f[n - 1] + ZoneSize[n - 1]]
<1>1. \A z \in 0 .. MaxZones : ZoneSize[z] \in Nat
  BY Sizes
<1>2. 0 \in Nat /\ MaxZones \in Nat /\ g \in [(0 .. MaxZones) \X Nat -> Nat]
  BY <1>1, Bounds
<1>3. PICK f : Recursive(f, Nat, 0, MaxZones, g)
  <2> HIDE DEF g
  <2> QED BY <1>2, Recursion
<1>4. Is(f)
  <2>1. \A n \in 1 .. MaxZones :
          /\ n - 1 \in 0 .. MaxZones
          /\ g[<<n - 1, f[n - 1]>>] = f[n - 1] + ZoneSize[n - 1]
    BY <1>3, Bounds DEF Recursive
  <2> HIDE DEF g
  <2>2. \A n \in 0 .. MaxZones :
          f[n] = IF n = 0 THEN 0 ELSE f[n - 1] + ZoneSize[n - 1]
    <3> TAKE n \in 0 .. MaxZones
    <3>1. n = 0 \/ n \in 1 .. MaxZones
      BY Bounds
    <3>2. n \in 1 .. MaxZones => n # 0
      OBVIOUS
    <3> QED BY <1>3, <2>1, <3>1, <3>2 DEF Recursive
  <2> QED BY <1>3, <2>2 DEF Recursive
<1>5. Is(T)
  BY <1>4, Zenon DEF compute_total_size_for_zones
<1> HIDE DEF T
<1> DEFINE S == {n \in Nat : n <= MaxZones => T[n] \in Nat}
<1>6. Nat \subseteq S
  <2>1. 0 \in S
    BY <1>5, Bounds
  <2>2. ASSUME NEW n \in Nat, n \in S PROVE n + 1 \in S
    <3> SUFFICES ASSUME n + 1 <= MaxZones PROVE T[n + 1] \in Nat
      OBVIOUS
    <3>1. T[n + 1] = T[n] + ZoneSize[n]
      BY <1>5, Bounds
    <3>2. T[n] \in Nat /\ ZoneSize[n] \in Nat
      BY <1>1, <2>2, Bounds
    <3> QED BY <3>1, <3>2
  <2> HIDE DEF S
  <2> QED BY <2>1, <2>2, SetInduction
<1>7. \A n \in 0 .. MaxZones : T[n] \in Nat
  BY <1>6, Bounds
<1>8. T \in [0 .. MaxZones -> Nat]
  BY <1>5, <1>7
<1>9. T[0] = 0 /\ \A n \in 1 .. MaxZones : T[n] = T[n - 1] + ZoneSize[n - 1]
  BY <1>5, Bounds
<1> QED BY <1>8, <1>9 DEF T

LEMMA ZonesForType == ZonesFor(InitCells) \in 0 .. MaxZones
<1> DEFINE C == {n \in 0 .. MaxZones :
                   n = MaxZones \/ compute_total_size_for_zones[n] >= InitCells}
           R == OpToRel(<, Nat)
<1>1. MaxZones \in C
  BY Bounds
<1>2. \E n \in C : \A m \in C : ~ (<<m, n>> \in R)
  <2>1. IsWellFoundedOn(R, Nat)
    BY NatLessThanWellFounded
  <2>2. C \subseteq Nat /\ C # {}
    BY <1>1
  <2> HIDE DEF C, R
  <2> QED BY <2>1, <2>2, WFMin
<1>3. PICK n \in C : \A m \in C : n <= m
  <2>1. \A m, n \in Nat : m < n => <<m, n>> \in R
    BY DEF OpToRel
  <2>2. C \subseteq Nat
    OBVIOUS
  <2> HIDE DEF C
  <2>3. PICK n \in C : \A m \in C : ~ (m < n)
    BY <1>2, <2>1, <2>2
  <2> QED BY <2>2, <2>3
<1> HIDE DEF C
<1>4. Min(C) \in C
  BY <1>3 DEF Min
<1> QED BY <1>4 DEF ZonesFor, C

-----------------------------------------------------------------------------
(* Sets of cells.                                                          *)

LEMMA CellsFromFacts ==
  ASSUME NEW z \in 0 .. MaxZones, NEW i \in Nat
  PROVE  /\ IsFiniteSet(CellsFrom(z, i))
         /\ Cardinality(CellsFrom(z, i)) =
              IF i <= ZoneSize[z] THEN ZoneSize[z] - i ELSE 0
         /\ \A c : c \in CellsFrom(z, i) <=> \E j \in i .. ZoneSize[z] - 1 : c = <<z, j>>
<1>1. ZoneSize[z] \in Nat
  BY Sizes
<1> DEFINE J == i .. ZoneSize[z] - 1
<1>2. /\ IsFiniteSet({z}) /\ Cardinality({z}) = 1
      /\ IsFiniteSet(J)
      /\ Cardinality(J) = IF i > ZoneSize[z] - 1 THEN 0 ELSE ZoneSize[z] - 1 - i + 1
  <2>1. IsFiniteSet({z}) /\ Cardinality({z}) = 1
    BY FS_Singleton
  <2>2. i \in Int /\ ZoneSize[z] - 1 \in Int
    BY <1>1
  <2> QED BY <2>1, <2>2, FS_Interval
<1>3. Cardinality(J) = IF i <= ZoneSize[z] THEN ZoneSize[z] - i ELSE 0
  BY <1>1, <1>2
<1> HIDE DEF J
<1>4. /\ IsFiniteSet({z} \X J)
      /\ Cardinality({z} \X J) = Cardinality({z}) * Cardinality(J)
  BY <1>2, FS_Product
<1>5. 1 * Cardinality(J) = Cardinality(J)
  BY <1>2, FS_CardinalityType
<1>6. \A c : c \in {z} \X J <=> \E j \in J : c = <<z, j>>
  OBVIOUS
<1> QED BY <1>2, <1>3, <1>4, <1>5, <1>6 DEF CellsFrom, J

\* The cells of the first zones.
LEMMA FirstZones ==
  \A n \in 0 .. MaxZones :
    LET cells == UNION {CellsFrom(z, 0) : z \in 0 .. n - 1}
    IN  /\ IsFiniteSet(cells)
        /\ Cardinality(cells) = compute_total_size_for_zones[n]
<1> DEFINE U(n) == UNION {CellsFrom(z, 0) : z \in 0 .. n - 1}
           T == compute_total_size_for_zones
           S == {n \in Nat : n <= MaxZones =>
                   IsFiniteSet(U(n)) /\ Cardinality(U(n)) = T[n]}
<1>1. 0 \in S
  <2>1. U(0) = {}
    OBVIOUS
  <2> HIDE DEF U
  <2> QED BY <2>1, FS_EmptySet, Totals
<1>2. ASSUME NEW n \in Nat, n \in S PROVE n + 1 \in S
  <2> SUFFICES ASSUME n + 1 <= MaxZones
               PROVE  IsFiniteSet(U(n + 1)) /\ Cardinality(U(n + 1)) = T[n + 1]
    OBVIOUS
  <2> DEFINE new == CellsFrom(n, 0)
  <2>1. n \in 0 .. MaxZones /\ n + 1 \in 1 .. MaxZones /\ n + 1 - 1 = n
    BY Bounds
  <2>2. /\ IsFiniteSet(new) /\ Cardinality(new) = ZoneSize[n]
        /\ ZoneSize[n] \in Nat /\ ZoneSize[n] - 0 = ZoneSize[n]
    BY <2>1, CellsFromFacts, Sizes
  <2>3. U(n + 1) = U(n) \cup new
    <3>1. 0 .. n + 1 - 1 = (0 .. n - 1) \cup {n}
      OBVIOUS
    <3> QED BY <3>1
  <2>4. U(n) \cap new = {}
    BY DEF CellsFrom
  <2>5. IsFiniteSet(U(n)) /\ Cardinality(U(n)) = T[n] /\ T[n] \in Nat
    BY <1>2, <2>1, Totals
  <2>6. T[n + 1] = T[n] + ZoneSize[n]
    BY <2>1, Totals
  <2> HIDE DEF U, new, T
  <2>7. /\ IsFiniteSet(U(n) \cup new)
        /\ Cardinality(U(n) \cup new) = Cardinality(U(n)) + Cardinality(new)
                                        - Cardinality(U(n) \cap new)
    BY <2>2, <2>5, FS_Union
  <2> QED BY <2>2, <2>3, <2>4, <2>5, <2>6, <2>7, FS_EmptySet
<1> HIDE DEF S
<1>3. Nat \subseteq S
  BY <1>1, <1>2, SetInduction
<1> QED BY <1>3 DEF S

-----------------------------------------------------------------------------
(* The types, and what a thread does alone.                                *)

LEMMA MaxOfTwo ==
  ASSUME NEW a \in Nat, NEW b \in Nat
  PROVE  Max({a, b}) = IF a < b THEN b ELSE a
<1>1. \E m \in {a, b} : \A x \in {a, b} : m >= x
  OBVIOUS
<1>2. Max({a, b}) \in {a, b} /\ \A x \in {a, b} : Max({a, b}) >= x
  BY <1>1 DEF Max
<1> QED BY <1>2

LEMMA ModulusPositive == Modulus \in Nat \ {0}
<1>1. compute_total_size_for_zones[ZonesFor(InitCells)] \in Nat
  BY ZonesForType, Totals
<1> QED BY <1>1, Bounds, SizeAssumption

LEMMA Wraps ==
  ASSUME NEW n \in Int
  PROVE  n % Modulus \in 0 .. Modulus - 1
BY ModulusPositive

\* The steps of a thread, by what they leave alone.
LEMMA TypeStep ==
  ASSUME TypeOK, Taking, Filling, \E n \in 0 .. MaxZones : Zones(n), [Next]_vars
  PROVE  TypeOK' /\ Taking'
<1> PICK n \in 0 .. MaxZones : Zones(n)
  OBVIOUS
<1>0. CASE UNCHANGED vars
  BY <1>0 DEF TypeOK, Taking, vars
<1>1. ASSUME NEW t \in Thread, CallTake(t) PROVE TypeOK' /\ Taking'
  BY <1>1, Bounds DEF CallTake, Goto, zones, TypeOK, Taking
<1>2. ASSUME NEW t \in Thread, Pop(t) PROVE TypeOK' /\ Taking'
  BY <1>2, Bounds DEF Pop, Goto, zones, TypeOK, Taking
<1>3. ASSUME NEW t \in Thread, Taken(t) PROVE TypeOK' /\ Taking'
  <2>1. nbr_avail' \in 0 .. Modulus - 1
    BY <1>3, Wraps DEF Taken, add, TypeOK
  <2> QED BY <1>3, <2>1, Bounds DEF Taken, Goto, zones, locals, TypeOK, Taking
<1>4. ASSUME NEW t \in Thread, ReadZone(t) PROVE TypeOK' /\ Taking'
  <2>1. zone_index[t] < MaxZones
    BY <1>4, Bounds DEF ReadZone, Reached, TypeOK
  <2> QED BY <1>4, <2>1, Bounds DEF ReadZone, Goto, zones, TypeOK, Taking
<1>5. ASSUME NEW t \in Thread, LockAlloc(t) PROVE TypeOK' /\ Taking'
  BY <1>5, Bounds DEF LockAlloc, Goto, zones, locals, TypeOK, Taking
<1>6. ASSUME NEW t \in Thread, InstallZone(t) PROVE TypeOK' /\ Taking'
  <2>1. zone_index[t] < MaxZones
    BY <1>6 DEF InstallZone, Filling
  <2>2. zone_list' \subseteq 0 .. MaxZones - 1
    <3>1. zone_index[t] \in 0 .. MaxZones - 1
      BY <1>6, <2>1, Bounds DEF TypeOK
    <3> QED BY <1>6, <3>1 DEF InstallZone, TypeOK
  <2>3. zone_index' \in [Thread -> 0 .. MaxZones]
    BY <1>6, <2>1, Bounds DEF InstallZone, TypeOK
  <2> QED BY <1>6, <2>2, <2>3, Bounds DEF InstallZone, Goto, TypeOK, Taking
<1>7. ASSUME NEW t \in Thread, PushNew(t) PROVE TypeOK' /\ Taking'
  BY <1>7, Bounds DEF PushNew, Goto, zones, locals, TypeOK, Taking
<1>8. ASSUME NEW t \in Thread, CountNew(t) PROVE TypeOK' /\ Taking'
  <2>1. nbr_avail' \in 0 .. Modulus - 1
    BY <1>8, Wraps DEF CountNew, add, TypeOK
  <2>2. zone_index[t] < MaxZones
    BY <1>8, Bounds DEF CountNew, Zones
  <2> QED BY <1>8, <2>1, <2>2, Bounds DEF CountNew, Goto, zones, TypeOK, Taking
<1>9. ASSUME NEW t \in Thread, RecordZones(t) PROVE TypeOK' /\ Taking'
  <2>1. nbr_zones' \in 0 .. MaxZones
    BY <1>9, MaxOfTwo, Bounds DEF RecordZones, AioMax, TypeOK
  <2> QED BY <1>9, <2>1, Bounds DEF RecordZones, Goto, locals, TypeOK, Taking
<1>10. ASSUME NEW t \in Thread, NEW u \in Thread, CallReturn(t, u)
       PROVE  TypeOK' /\ Taking'
  BY <1>10, Bounds DEF CallReturn, Goto, zones, locals, TypeOK, Taking
<1>11. ASSUME NEW t \in Thread, Returned(t) PROVE TypeOK' /\ Taking'
  <2>1. nbr_avail' \in 0 .. Modulus - 1
    BY <1>11, Wraps DEF Returned, add, TypeOK
  <2> QED BY <1>11, <2>1, Bounds DEF Returned, Goto, zones, locals, TypeOK, Taking
<1>12. CASE ClearAll
  BY <1>12, ModulusPositive, Bounds DEF ClearAll, locals, TypeOK, Taking
<1> QED
  BY <1>0, <1>1, <1>2, <1>3, <1>4, <1>5, <1>6, <1>7, <1>8, <1>9, <1>10, <1>11,
     <1>12 DEF Next, ThreadStep, TakeStep, ExpandStep

LEMMA FillingStep ==
  ASSUME TypeOK, Filling, \E n \in 0 .. MaxZones : Zones(n), [Next]_vars
  PROVE  Filling'
<1> PICK n \in 0 .. MaxZones : Zones(n)
  OBVIOUS
<1>0. CASE UNCHANGED vars
  BY <1>0 DEF Filling, vars
<1>1. ASSUME NEW t \in Thread, CallTake(t) PROVE Filling'
  BY <1>1, Bounds DEF CallTake, Goto, TypeOK, Filling
<1>2. ASSUME NEW t \in Thread, Pop(t) PROVE Filling'
  BY <1>2, Bounds DEF Pop, Goto, TypeOK, Filling
<1>3. ASSUME NEW t \in Thread, Taken(t) PROVE Filling'
  BY <1>3, Bounds DEF Taken, Goto, locals, TypeOK, Filling
<1>4. ASSUME NEW t \in Thread, ReadZone(t) PROVE Filling'
  <2>1. zone_index[t] < MaxZones
    BY <1>4, Bounds DEF ReadZone, Reached, TypeOK
  <2> QED BY <1>4, <2>1, Bounds DEF ReadZone, Goto, TypeOK, Filling
<1>5. ASSUME NEW t \in Thread, LockAlloc(t) PROVE Filling'
  BY <1>5, Bounds DEF LockAlloc, Goto, locals, TypeOK, Filling
<1>6. ASSUME NEW t \in Thread, InstallZone(t) PROVE Filling'
  <2>1. 0 < ZoneSize[zone_index[t]]
    BY <1>6, Sizes, Bounds DEF TypeOK
  <2> QED BY <1>6, <2>1, Bounds DEF InstallZone, Goto, TypeOK, Filling
<1>7. ASSUME NEW t \in Thread, PushNew(t) PROVE Filling'
  BY <1>7, Bounds DEF PushNew, Goto, locals, TypeOK, Filling
<1>8. ASSUME NEW t \in Thread, CountNew(t) PROVE Filling'
  <2>1. ZoneSize[zone_index[t]] \in Nat /\ pos[t] \in Nat
    BY <1>8, Sizes, Bounds DEF TypeOK
  <2> QED BY <1>8, <2>1, Bounds DEF CountNew, ZoneIsFull, Goto, TypeOK, Filling
<1>9. ASSUME NEW t \in Thread, RecordZones(t) PROVE Filling'
  BY <1>9, Bounds DEF RecordZones, Goto, locals, TypeOK, Filling
<1>10. ASSUME NEW t \in Thread, NEW u \in Thread, CallReturn(t, u)
       PROVE  Filling'
  BY <1>10, Bounds DEF CallReturn, Goto, locals, TypeOK, Filling
<1>11. ASSUME NEW t \in Thread, Returned(t) PROVE Filling'
  BY <1>11, Bounds DEF Returned, Goto, locals, TypeOK, Filling
<1>12. CASE ClearAll
  BY <1>12, Bounds DEF ClearAll, locals, TypeOK, Filling
<1> QED
  BY <1>0, <1>1, <1>2, <1>3, <1>4, <1>5, <1>6, <1>7, <1>8, <1>9, <1>10, <1>11,
     <1>12 DEF Next, ThreadStep, TakeStep, ExpandStep

-----------------------------------------------------------------------------
(* The zones.                                                              *)

LEMMA ZonesStep ==
  ASSUME TypeOK, Filling, \E n \in 0 .. MaxZones : Zones(n), [Next]_vars
  PROVE  \E n \in 0 .. MaxZones : Zones(n)'
<1> PICK n \in 0 .. MaxZones : Zones(n)
  OBVIOUS
<1> n \in Nat /\ nbr_zones \in Nat /\ \A u \in Thread : zone_index[u] \in Nat
  BY Bounds DEF TypeOK
<1>0. CASE UNCHANGED vars
  BY <1>0 DEF Zones, Records, vars
<1>1. ASSUME NEW t \in Thread, CallTake(t) PROVE Zones(n)'
  BY <1>1 DEF CallTake, Goto, zones, TypeOK, Zones, Records
<1>2. ASSUME NEW t \in Thread, Pop(t) PROVE Zones(n)'
  <2>1. /\ zone_list' = zone_list /\ nbr_zones' = nbr_zones /\ pc[t] = "pop"
        /\ \A u \in Thread \ {t} : pc'[u] = pc[u] /\ zone_index'[u] = zone_index[u]
    BY <1>2 DEF Pop, Goto, zones, TypeOK
  <2>2. \/ pc'[t] \in {"taken", "idle"}
        \/ pc'[t] = "expand" /\ zone_index'[t] = 0
    <3>1. CASE stack > 0 /\ Goto(t, "taken")
      BY <3>1 DEF Goto, TypeOK
    <3>2. CASE zone_index' = [zone_index EXCEPT ![t] = 0] /\ Goto(t, "expand")
      BY <3>2 DEF Goto, TypeOK
    <3>3. CASE Goto(t, "idle")
      BY <3>3 DEF Goto, TypeOK
    <3> QED BY <1>2, <3>1, <3>2, <3>3 DEF Pop
  <2>3. \A u \in Thread : Records(u, n) => Records(u, n)'
    BY <2>1 DEF Records
  <2>4. \A u \in Thread :
          /\ pc'[u] \in {"expand", "alloc", "install"} => zone_index'[u] <= n
          /\ pc'[u] \in {"fill", "pushed"} => zone_index'[u] = n - 1
    BY <2>1, <2>2 DEF Zones
  <2> QED BY <2>1, <2>3, <2>4 DEF Zones
<1>3. ASSUME NEW t \in Thread, Taken(t) PROVE Zones(n)'
  BY <1>3 DEF Taken, Goto, zones, locals, TypeOK, Zones, Records
\* The next zone is there, or it is the one to allocate.
<1>4. ASSUME NEW t \in Thread, ReadZone(t) PROVE Zones(n)'
  <2>1. /\ zone_list' = zone_list /\ nbr_zones' = nbr_zones /\ pc[t] = "expand"
        /\ zone_index[t] <= n
        /\ \A u \in Thread \ {t} : pc'[u] = pc[u] /\ zone_index'[u] = zone_index[u]
    BY <1>4 DEF ReadZone, Goto, zones, TypeOK, Zones
  <2>2. CASE zone_index[t] \in zone_list
    <3>1. pc'[t] = "expand" /\ zone_index'[t] = zone_index[t] + 1 /\ zone_index[t] # n
      BY <1>4, <2>1, <2>2 DEF ReadZone, Goto, TypeOK, Zones
    <3>2. zone_index'[t] <= n
      BY <2>1, <3>1
    <3>3. nbr_zones = n \/ \E u \in Thread \ {t} : Records(u, n)
      BY <2>1, <3>1 DEF Zones, Records
    <3>4. \A u \in Thread \ {t} : Records(u, n) => Records(u, n)'
      BY <2>1 DEF Records
    <3> QED BY <2>1, <3>1, <3>2, <3>3, <3>4 DEF Zones
  <2>3. CASE zone_index[t] \notin zone_list
    <3>1. pc'[t] = "alloc" /\ zone_index'[t] = zone_index[t]
      BY <1>4, <2>3 DEF ReadZone, Goto, TypeOK
    <3>2. \A u \in Thread : Records(u, n) => Records(u, n)'
      BY <2>1, <3>1 DEF Records
    <3> QED BY <2>1, <3>1, <3>2 DEF Zones
  <2> QED BY <2>2, <2>3
<1>5. ASSUME NEW t \in Thread, LockAlloc(t) PROVE Zones(n)'
  BY <1>5 DEF LockAlloc, Goto, zones, locals, TypeOK, Zones, Records
\* Only the zone behind the last one can be missing.
<1>6. ASSUME NEW t \in Thread, InstallZone(t)
      PROVE  \E m \in 0 .. MaxZones : Zones(m)'
  <2>1. /\ pc[t] = "install" /\ zone_index[t] <= n /\ zone_index[t] < MaxZones
        /\ UNCHANGED nbr_zones
    BY <1>6 DEF InstallZone, Zones, Filling
  <2>2. CASE ZoneIsMissing(t)
    <3>1. zone_index[t] = n
      BY <2>1, <2>2 DEF ZoneIsMissing, Zones
    <3>2. zone_list' = 0 .. n + 1 - 1
      <4>1. zone_list' = zone_list \cup {n}
        BY <1>6, <2>2, <3>1 DEF InstallZone
      <4>2. 0 .. n + 1 - 1 = (0 .. n - 1) \cup {n}
        OBVIOUS
      <4> QED BY <4>1, <4>2 DEF Zones
    <3>3. n + 1 \in 0 .. MaxZones
      BY <2>1, <3>1, Bounds
    <3>4. pc'[t] = "fill" /\ zone_index' = zone_index
      BY <1>6, <2>2 DEF InstallZone, Goto, TypeOK
    <3>5. \A u \in Thread \ {t} : pc'[u] = pc[u] /\ pc[u] \notin {"fill", "pushed"}
      BY <1>6, <2>1 DEF InstallZone, Goto, TypeOK, Filling
    <3>6. Records(t, n + 1)'
      BY <3>1, <3>4 DEF Records
    <3>7. Zones(n + 1)'
      BY <2>1, <3>1, <3>2, <3>4, <3>5, <3>6 DEF Zones
    <3> QED BY <3>3, <3>7
  <2>3. CASE ~ZoneIsMissing(t)
    <3>1. zone_index[t] + 1 <= n
      BY <2>1, <2>3 DEF ZoneIsMissing, Zones
    <3>2. /\ pc' = [pc EXCEPT ![t] = "expand"]
          /\ zone_index' = [zone_index EXCEPT ![t] = @ + 1]
          /\ zone_list' = zone_list
      BY <1>6, <2>3 DEF InstallZone, Goto
    <3>3. pc'[t] = "expand" /\ zone_index'[t] = zone_index[t] + 1
      BY <3>2 DEF TypeOK
    <3>4. \A u \in Thread \ {t} : pc'[u] = pc[u] /\ zone_index'[u] = zone_index[u]
      BY <3>2 DEF TypeOK
    <3>5. nbr_zones = n \/ \E u \in Thread \ {t} : Records(u, n)
      BY <2>1, <3>1 DEF Zones, Records
    <3>6. \A u \in Thread \ {t} : Records(u, n) => Records(u, n)'
      BY <3>4 DEF Records
    <3>7. Zones(n)'
      BY <2>1, <3>1, <3>2, <3>3, <3>4, <3>5, <3>6 DEF Zones
    <3> QED BY <3>7
  <2> QED BY <2>2, <2>3
<1>7. ASSUME NEW t \in Thread, PushNew(t) PROVE Zones(n)'
  BY <1>7 DEF PushNew, Goto, zones, locals, TypeOK, Zones, Records
<1>8. ASSUME NEW t \in Thread, CountNew(t) PROVE Zones(n)'
  <2>1. /\ zone_list' = zone_list /\ nbr_zones' = nbr_zones /\ pc[t] = "pushed"
        /\ zone_index[t] = n - 1
        /\ \A u \in Thread \ {t} : pc'[u] = pc[u] /\ zone_index'[u] = zone_index[u]
    BY <1>8 DEF CountNew, Goto, zones, TypeOK, Zones
  <2>2. \/ pc'[t] = "fill" /\ zone_index'[t] = zone_index[t]
        \/ pc'[t] = "expand" /\ zone_index'[t] = zone_index[t] + 1
    BY <1>8 DEF CountNew, Goto, TypeOK
  <2>3. \/ pc'[t] = "fill" /\ zone_index'[t] = n - 1
        \/ pc'[t] = "expand" /\ zone_index'[t] = n
    BY <2>1, <2>2
  <2>4. \A u \in Thread \ {t} : Records(u, n) => Records(u, n)'
    BY <2>1 DEF Records
  <2>5. Records(t, n)'
    BY <2>3 DEF Records
  <2>6. \A u \in Thread :
          /\ pc'[u] \in {"expand", "alloc", "install"} => zone_index'[u] <= n
          /\ pc'[u] \in {"fill", "pushed"} => zone_index'[u] = n - 1
    BY <2>1, <2>3 DEF Zones
  <2> QED BY <2>1, <2>5, <2>6 DEF Zones
\* The number that is recorded is not beyond the zones, and the last one when
\* there is no other thread to record it.
<1>9. ASSUME NEW t \in Thread, RecordZones(t) PROVE Zones(n)'
  <2>1. /\ zone_list' = zone_list /\ zone_index' = zone_index
        /\ pc[t] = "expand" /\ pc'[t] = "pop"
        /\ \A u \in Thread \ {t} : pc'[u] = pc[u]
    BY <1>9 DEF RecordZones, Goto, locals, TypeOK
  <2>2. /\ zone_index[t] <= n
        /\ nbr_zones' = IF nbr_zones < zone_index[t] THEN zone_index[t] ELSE nbr_zones
    BY <1>9, <2>1, MaxOfTwo DEF RecordZones, AioMax, Zones
  <2>3. nbr_zones <= n
    BY DEF Zones
  <2>4. nbr_zones' <= n
    BY <2>2, <2>3
  <2>5. nbr_zones' = n \/ \E u \in Thread \ {t} : Records(u, n)
    <3>1. CASE nbr_zones = n \/ zone_index[t] = n
      BY <2>2, <2>3, <3>1
    <3>2. CASE zone_index[t] # n /\ nbr_zones # n
      BY <2>1, <3>2 DEF Zones, Records
    <3> QED BY <3>1, <3>2
  <2>6. \A u \in Thread \ {t} : Records(u, n) => Records(u, n)'
    BY <2>1 DEF Records
  <2> QED BY <2>1, <2>4, <2>5, <2>6 DEF Zones
<1>10. ASSUME NEW t \in Thread, NEW u \in Thread, CallReturn(t, u)
       PROVE  Zones(n)'
  BY <1>10 DEF CallReturn, Goto, zones, locals, TypeOK, Zones, Records
<1>11. ASSUME NEW t \in Thread, Returned(t) PROVE Zones(n)'
  BY <1>11 DEF Returned, Goto, zones, locals, TypeOK, Zones, Records
<1>12. CASE ClearAll
  <2>1. nbr_zones = n
    BY <1>12 DEF ClearAll, Quiescent, Zones, Records
  <2>2. zone_list' = 0 .. 0 - 1
    BY <1>12, <2>1 DEF ClearAll, Zones
  <2>3. Zones(0)'
    BY <1>12, <2>2 DEF ClearAll, Quiescent, locals, Zones
  <2> QED BY <2>3, Bounds
<1> QED
  BY <1>0, <1>1, <1>2, <1>3, <1>4, <1>5, <1>6, <1>7, <1>8, <1>9, <1>10, <1>11,
     <1>12 DEF Next, ThreadStep, TakeStep, ExpandStep

-----------------------------------------------------------------------------
(* The counter of the free cells.                                          *)

\* A thread that moves leaves one place for another.
LEMMA AtMoves ==
  ASSUME TypeOK, NEW t \in Thread, NEW l, pc' = [pc EXCEPT ![t] = l], NEW labels
  PROVE  /\ Cardinality(At(labels)) \in Nat
         /\ Cardinality(At(labels))' =
              Cardinality(At(labels)) + (IF l \in labels THEN 1 ELSE 0)
                - (IF pc[t] \in labels THEN 1 ELSE 0)
<1>1. IsFiniteSet(At(labels))
  BY Bounds, FS_Subset DEF At
<1>2. \A u \in Thread : pc'[u] = IF u = t THEN l ELSE pc[u]
  BY DEF TypeOK
<1>3. t \in At(labels) <=> pc[t] \in labels
  BY DEF At
<1>4. At(labels)' = IF l \in labels THEN At(labels) \cup {t} ELSE At(labels) \ {t}
  BY <1>2 DEF At
<1>5. Cardinality(At(labels)) \in Nat
  BY <1>1, FS_CardinalityType
<1>6. /\ Cardinality(At(labels) \cup {t}) =
            IF t \in At(labels) THEN Cardinality(At(labels)) ELSE Cardinality(At(labels)) + 1
      /\ Cardinality(At(labels) \ {t}) =
            IF t \in At(labels) THEN Cardinality(At(labels)) - 1 ELSE Cardinality(At(labels))
  BY <1>1, FS_AddElement, FS_RemoveElement
<1>7. Cardinality(At(labels))' = Cardinality(At(labels)')
  OBVIOUS
<1> QED BY <1>3, <1>4, <1>5, <1>6, <1>7

\* What a thread at a place is for the counter.
Weight(l) ==
  (IF l = "taken" THEN 1 ELSE 0) - (IF l \in {"pushed", "returned"} THEN 1 ELSE 0)

LEMMA Weights ==
  /\ \A l \in {"idle", "pop", "expand", "alloc", "install", "fill"} : Weight(l) = 0
  /\ Weight("taken") = 1 /\ Weight("pushed") = -1 /\ Weight("returned") = -1
BY DEF Weight

LEMMA AvailableMoves ==
  ASSUME TypeOK, NEW t \in Thread, NEW l, pc' = [pc EXCEPT ![t] = l],
         NEW d \in Int, stack' = stack + d
  PROVE  Available' = Available + d + Weight(l) - Weight(pc[t])
<1> DEFINE a == Cardinality(At({"taken"}))
           b == Cardinality(At({"pushed", "returned"}))
           One(B) == IF B THEN 1 ELSE 0
<1>1. a \in Nat /\ a' = a + One(l = "taken") - One(pc[t] = "taken")
  <2>1. /\ a \in Nat
        /\ a' = a + (IF l \in {"taken"} THEN 1 ELSE 0)
                   - (IF pc[t] \in {"taken"} THEN 1 ELSE 0)
    BY AtMoves, Zenon
  <2> QED BY <2>1
<1>2. /\ b \in Nat
      /\ b' = b + One(l \in {"pushed", "returned"}) - One(pc[t] \in {"pushed", "returned"})
  <2>1. PICK S : S = {"pushed", "returned"}
    OBVIOUS
  <2>2. /\ Cardinality(At(S)) \in Nat
        /\ Cardinality(At(S))' =
             Cardinality(At(S)) + (IF l \in S THEN 1 ELSE 0) - (IF pc[t] \in S THEN 1 ELSE 0)
    BY AtMoves, Zenon
  <2> QED BY <2>1, <2>2
<1>3. stack \in Nat /\ Available = stack + a - b /\ Available' = stack' + a' - b'
  BY DEF TypeOK, Available
<1> HIDE DEF a, b
<1> QED BY <1>1, <1>2, <1>3 DEF Weight

LEMMA AtSame == pc' = pc => \A labels : At(labels)' = At(labels)
BY DEF At

LEMMA ModUnique ==
  ASSUME NEW M \in Nat \ {0}, NEW q \in Int, NEW r \in 0 .. M - 1
  PROVE  (M * q + r) % M = r
BY SMTT(30)

\* What is added to the remainder may be added before.
LEMMA ModAdd ==
  ASSUME NEW M \in Nat \ {0}, NEW x \in Int, NEW d \in {-1, 1}
  PROVE  ((x % M) + d) % M = (x + d) % M
<1> DEFINE q == x \div M
           r == x % M
           k == (r + d) \div M
           s == (r + d) % M
<1>1. x = M * q + r /\ q \in Int /\ r \in 0 .. M - 1
  OBVIOUS
<1>2. r + d \in Int
  BY <1>1
<1> HIDE DEF q, r
<1>3. r + d = M * k + s /\ k \in Int /\ s \in 0 .. M - 1
  BY <1>2
<1> HIDE DEF k, s
<1>4. M * (q + k) = M * q + M * k /\ q + k \in Int /\ M * q \in Int /\ M * k \in Int
  BY <1>1, <1>3
<1>5. x + d = M * (q + k) + s
  BY <1>1, <1>2, <1>3, <1>4
<1>6. (x + d) % M = s
  BY <1>3, <1>4, <1>5, ModUnique
<1> QED BY <1>6 DEF s, r

LEMMA AvailStep ==
  ASSUME TypeOK, AvailMatches, [Next]_vars
  PROVE  AvailMatches'
<1>a. Available \in Int /\ stack \in Nat
  <2>1. /\ Cardinality(At({"taken"})) \in Nat
        /\ Cardinality(At({"pushed", "returned"})) \in Nat
    BY Bounds, FS_Subset, FS_CardinalityType DEF At
  <2> QED BY <2>1 DEF Available, TypeOK
<1>b. ASSUME Available' = Available, nbr_avail' = nbr_avail
      PROVE  AvailMatches'
  BY <1>b DEF AvailMatches, Available
<1>c. ASSUME NEW d \in {-1, 1}, Available' = Available + d, add(d)
      PROVE  AvailMatches'
  BY <1>a, <1>c, ModAdd, ModulusPositive DEF AvailMatches, Available, add
<1>0. CASE UNCHANGED vars
  BY <1>0, <1>b, AtSame DEF vars, Available
\* A step of a thread does with the stack and with the counter what its
\* places before and after make up for.
<1>d. ASSUME NEW t \in Thread, NEW k, pc[t] = k, NEW l, Goto(t, l),
             NEW d \in Int, stack' = stack + d,
             NEW e \in {-1, 0, 1}, e = d + Weight(l) - Weight(k),
             IF e = 0 THEN nbr_avail' = nbr_avail ELSE add(e)
      PROVE  AvailMatches'
  <2>1. Available' = Available + d + Weight(l) - Weight(k)
    BY <1>d, AvailableMoves DEF Goto
  <2>2. Weight(l) \in Int /\ Weight(k) \in Int
    BY DEF Weight
  <2>3. Available' = Available + e
    BY <1>a, <1>d, <2>1, <2>2
  <2>4. CASE e = 0
    BY <1>a, <1>b, <1>d, <2>3, <2>4
  <2>5. CASE e \in {-1, 1}
    BY <1>c, <1>d, <2>3, <2>5
  <2> QED BY <2>4, <2>5
<1>1. ASSUME NEW t \in Thread, NEW l, NEW k, pc[t] = k, Goto(t, l),
             Weight(k) = 0, Weight(l) = 0, UNCHANGED <<stack, nbr_avail>>
      PROVE  AvailMatches'
  <2>1. stack' = stack + 0
    BY <1>a, <1>1
  <2> QED BY <1>1, <1>d, <2>1
<1>2. ASSUME NEW t \in Thread, Pop(t) PROVE AvailMatches'
  <2>1. pc[t] = "pop" /\ nbr_avail' = nbr_avail
    BY <1>2 DEF Pop
  <2>2. CASE stack' = stack - 1 /\ Goto(t, "taken")
    <3>1. stack' = stack + (-1) /\ 0 = -1 + Weight("taken") - Weight("pop")
      BY <2>2, <1>a, Weights
    <3> QED BY <1>d, <2>1, <2>2, <3>1
  <2>3. ASSUME stack' = stack, NEW l \in {"expand", "idle"}, Goto(t, l)
        PROVE  AvailMatches'
    BY <1>1, <2>1, <2>3, Weights
  <2>4. CASE stack' = stack /\ Goto(t, IF MayGrow(t) THEN "expand" ELSE "idle")
    <3>1. \E l \in {"expand", "idle"} : l = IF MayGrow(t) THEN "expand" ELSE "idle"
      OBVIOUS
    <3> QED BY <2>3, <2>4, <3>1
  <2> QED BY <1>2, <2>2, <2>4 DEF Pop
<1>3. ASSUME NEW t \in Thread, Taken(t) PROVE AvailMatches'
  <2>1. stack' = stack + 0 /\ pc[t] = "taken" /\ Goto(t, "idle") /\ add(-1)
    BY <1>3, <1>a DEF Taken
  <2>2. -1 = 0 + Weight("idle") - Weight("taken")
    BY Weights
  <2> QED BY <1>d, <2>1, <2>2
<1>4. ASSUME NEW t \in Thread, PushNew(t) PROVE AvailMatches'
  <2>1. stack' = stack + 1 /\ pc[t] = "fill" /\ Goto(t, "pushed") /\ nbr_avail' = nbr_avail
    BY <1>4 DEF PushNew
  <2>2. 0 = 1 + Weight("pushed") - Weight("fill")
    BY Weights
  <2> QED BY <1>d, <2>1, <2>2
<1>5. ASSUME NEW t \in Thread, CountNew(t) PROVE AvailMatches'
  <2>1. /\ stack' = stack + 0 /\ pc[t] = "pushed" /\ add(1)
        /\ Goto(t, "fill") \/ Goto(t, "expand")
    BY <1>5, <1>a DEF CountNew
  <2>2. /\ 1 = 0 + Weight("fill") - Weight("pushed")
        /\ 1 = 0 + Weight("expand") - Weight("pushed")
    BY Weights
  <2> QED BY <1>d, <2>1, <2>2
<1>6. ASSUME NEW t \in Thread, NEW u \in Thread, CallReturn(t, u)
      PROVE  AvailMatches'
  <2>1. /\ stack' = stack + 1 /\ pc[t] = "idle" /\ Goto(t, "returned")
        /\ nbr_avail' = nbr_avail
    BY <1>6 DEF CallReturn
  <2>2. 0 = 1 + Weight("returned") - Weight("idle")
    BY Weights
  <2> QED BY <1>d, <2>1, <2>2
<1>7. ASSUME NEW t \in Thread, Returned(t) PROVE AvailMatches'
  <2>1. stack' = stack + 0 /\ pc[t] = "returned" /\ Goto(t, "idle") /\ add(1)
    BY <1>7, <1>a DEF Returned
  <2>2. 1 = 0 + Weight("idle") - Weight("returned")
    BY Weights
  <2> QED BY <1>d, <2>1, <2>2
\* The others change neither, and are of no weight before and after.
<1>8. ASSUME NEW t \in Thread,
             \/ CallTake(t) \/ ReadZone(t) \/ LockAlloc(t) \/ InstallZone(t)
             \/ RecordZones(t)
      PROVE  AvailMatches'
  <2>1. /\ UNCHANGED <<stack, nbr_avail>>
        /\ pc[t] \in {"idle", "expand", "alloc", "install"}
        /\ \/ pc' = pc
           \/ \E l \in {"pop", "alloc", "install", "fill", "expand"} : Goto(t, l)
    BY <1>8 DEF CallTake, ReadZone, LockAlloc, InstallZone, RecordZones, locals
  <2>2. CASE pc' = pc
    BY <1>b, <2>1, <2>2, AtSame DEF Available
  <2>3. ASSUME NEW l \in {"pop", "alloc", "install", "fill", "expand"}, Goto(t, l)
        PROVE  AvailMatches'
    BY <1>1, <2>1, <2>3, Weights
  <2> QED BY <2>1, <2>2, <2>3
<1>9. CASE ClearAll
  <2>1. At({"taken"})' = {} /\ At({"pushed", "returned"})' = {}
    BY <1>9 DEF ClearAll, Quiescent, At
  <2>2. 0 % Modulus = 0
    BY ModulusPositive
  <2>3. /\ Cardinality(At({"taken"}))' = 0
        /\ Cardinality(At({"pushed", "returned"}))' = 0
    BY <2>1, FS_EmptySet
  <2>4. stack' = 0 /\ nbr_avail' = 0
    BY <1>9 DEF ClearAll
  <2>5. Available' = 0
    BY <2>3, <2>4 DEF Available
  <2> QED BY <2>2, <2>4, <2>5 DEF AvailMatches, Available
<1> QED
  BY <1>0, <1>2, <1>3, <1>4, <1>5, <1>6, <1>7, <1>8, <1>9
     DEF Next, ThreadStep, TakeStep, ExpandStep

-----------------------------------------------------------------------------
(* The cells.                                                              *)

\* The cells that a thread which fills a zone has not pushed.
Left(t) ==
  CellsFrom(zone_index[t], IF pc[t] = "fill" THEN pos[t] ELSE pos[t] + 1)

LEMMA NotPushedSame ==
  ASSUME \A u \in Thread :
           pc[u] \in {"fill", "pushed"} \/ pc'[u] \in {"fill", "pushed"} =>
             /\ pc'[u] = pc[u] /\ zone_index'[u] = zone_index[u]
             /\ pos'[u] = pos[u]
  PROVE  NotPushed' = NotPushed
<1>1. At({"fill", "pushed"})' = At({"fill", "pushed"})
  BY DEF At
<1>2. \A u \in At({"fill", "pushed"}) : Left(u)' = Left(u)
  BY DEF At, Left
<1>3. NotPushed = UNION {Left(u) : u \in At({"fill", "pushed"})}
  BY DEF NotPushed, Left
<1>4. NotPushed' = UNION {Left(u)' : u \in At({"fill", "pushed"})'}
  BY DEF NotPushed, Left
<1> QED BY <1>1, <1>2, <1>3, <1>4

\* Only one thread has cells to push.
LEMMA NotPushedOne ==
  ASSUME Filling, NEW t \in Thread, pc[t] \in {"fill", "pushed"}
  PROVE  NotPushed = Left(t)
<1>1. At({"fill", "pushed"}) = {t}
  BY DEF Filling, At
<1>2. NotPushed = UNION {Left(u) : u \in At({"fill", "pushed"})}
  BY DEF NotPushed, Left
<1> QED BY <1>1, <1>2

LEMMA NotPushedNone ==
  ASSUME \A u \in Thread : pc[u] \notin {"fill", "pushed"}
  PROVE  NotPushed = {}
BY DEF NotPushed, At

LEMMA NotPushedNext ==
  ASSUME NEW t \in Thread,
         pc'[t] \in {"fill", "pushed"},
         \A u \in Thread \ {t} : pc'[u] \notin {"fill", "pushed"}
  PROVE  NotPushed' = Left(t)'
<1>1. At({"fill", "pushed"})' = {t}
  BY DEF At
<1>2. NotPushed' = UNION {Left(u)' : u \in At({"fill", "pushed"})'}
  BY DEF NotPushed, Left
<1> QED BY <1>1, <1>2

LEMMA NotPushedNoneNext ==
  ASSUME \A u \in Thread : pc'[u] \notin {"fill", "pushed"}
  PROVE  NotPushed' = {}
BY DEF NotPushed, At

LEMMA AllocatedSame == zone_list' = zone_list => Allocated' = Allocated
BY DEF Allocated

LEMMA HeldSame == held' = held => Held' = Held
BY DEF Held

\* What happens to the cells on the stack and to those that are not.
LEMMA CountingKept ==
  ASSUME TypeOK, Counting, NEW t \in Thread, NEW k, pc[t] = k, NEW l, Goto(t, l),
         NEW d \in Int, stack' = stack + d,
         NEW p \in Int, NEW h \in Int,
         IsFiniteSet(Pushed)', Cardinality(Pushed)' = Cardinality(Pushed) + p,
         IsFiniteSet(Held)', Cardinality(Held)' = Cardinality(Held) + h,
         p = d + h + (IF l = "taken" THEN 1 ELSE 0) - (IF k = "taken" THEN 1 ELSE 0)
  PROVE  Counting'
<1> DEFINE a == Cardinality(At({"taken"}))
<1>1. /\ a \in Nat
      /\ a' = a + (IF l = "taken" THEN 1 ELSE 0) - (IF pc[t] = "taken" THEN 1 ELSE 0)
  <2>1. PICK S : S = {"taken"}
    OBVIOUS
  <2>2. /\ Cardinality(At(S)) \in Nat
        /\ Cardinality(At(S))' =
             Cardinality(At(S)) + (IF l \in S THEN 1 ELSE 0) - (IF pc[t] \in S THEN 1 ELSE 0)
    BY AtMoves, Zenon DEF Goto
  <2> QED BY <2>1, <2>2
<1>2. /\ Cardinality(Pushed) \in Nat /\ Cardinality(Held) \in Nat /\ stack \in Nat
      /\ Cardinality(Pushed) = stack + a + Cardinality(Held)
  BY FS_CardinalityType DEF Counting, TypeOK
<1>3. Cardinality(Pushed)' = stack' + a' + Cardinality(Held)'
  <2> DEFINE x == IF l = "taken" THEN 1 ELSE 0
             y == IF k = "taken" THEN 1 ELSE 0
  <2>1. /\ x \in Int /\ y \in Int /\ a \in Nat
        /\ a' = a + x - y /\ p = d + h + x - y
    BY <1>1
  <2> HIDE DEF a, x, y
  <2> QED BY <1>2, <2>1
<1> QED BY <1>3 DEF Counting

\* The same when no cell is pushed, taken or returned.
LEMMA CountingUnchanged ==
  ASSUME TypeOK, Counting, NEW t \in Thread, NEW k, pc[t] = k, NEW l, Goto(t, l),
         NEW d \in Int, stack' = stack + d, Pushed' = Pushed, held' = held,
         0 = d + (IF l = "taken" THEN 1 ELSE 0) - (IF k = "taken" THEN 1 ELSE 0)
  PROVE  Counting'
<1>1. /\ IsFiniteSet(Pushed)' /\ IsFiniteSet(Held)'
      /\ Cardinality(Pushed)' = Cardinality(Pushed) + 0
      /\ Cardinality(Held)' = Cardinality(Held) + 0
  BY HeldSame, FS_CardinalityType DEF Counting
<1> QED BY <1>1, CountingKept

LEMMA CountingStep ==
  ASSUME TypeOK, Filling, \E n \in 0 .. MaxZones : Zones(n), Counting, [Next]_vars
  PROVE  Counting'
<1> PICK n \in 0 .. MaxZones : Zones(n)
  OBVIOUS
<1>a. stack \in Nat /\ stack' = stack => stack' = stack + 0
  OBVIOUS
<1>0. CASE UNCHANGED vars
  BY <1>0 DEF Counting, Pushed, Allocated, NotPushed, Held, At, vars
\* The steps of a thread that fills no zone.
<1>b. ASSUME NEW t \in Thread, pc[t] \notin {"fill", "pushed"}, NEW l, Goto(t, l),
             l \notin {"fill", "pushed"},
             \A u \in Thread \ {t} :
               zone_index'[u] = zone_index[u] /\ pos'[u] = pos[u],
             zone_list' = zone_list
      PROVE  Pushed' = Pushed
  <2>1. \A u \in Thread : pc'[u] = IF u = t THEN l ELSE pc[u]
    BY <1>b DEF Goto, TypeOK
  <2>2. NotPushed' = NotPushed
    BY <1>b, <2>1, NotPushedSame
  <2> QED BY <1>b, <2>2, AllocatedSame DEF Pushed
<1>1. ASSUME NEW t \in Thread, CallTake(t) PROVE Counting'
  <2>1. /\ pc[t] = "idle" /\ Goto(t, "pop") /\ stack' = stack + 0 /\ held' = held
        /\ zone_index' = zone_index /\ pos' = pos /\ zone_list' = zone_list
    BY <1>1, <1>a DEF CallTake, zones, TypeOK
  <2>2. Pushed' = Pushed
    BY <1>b, <2>1
  <2> QED BY <2>1, <2>2, CountingUnchanged
<1>2. ASSUME NEW t \in Thread, Pop(t) PROVE Counting'
  <2>1. /\ pc[t] = "pop" /\ held' = held /\ pos' = pos /\ zone_list' = zone_list
        /\ \A u \in Thread \ {t} : zone_index'[u] = zone_index[u]
    BY <1>2 DEF Pop, zones, TypeOK
  <2>2. CASE stack' = stack - 1 /\ Goto(t, "taken")
    <3>1. stack' = stack + (-1)
      BY <2>2 DEF TypeOK
    <3>2. Pushed' = Pushed
      BY <1>b, <2>1, <2>2
    <3> QED BY <2>1, <2>2, <3>1, <3>2, CountingUnchanged
  <2>3. ASSUME stack' = stack, NEW l \in {"expand", "idle"}, Goto(t, l)
        PROVE  Counting'
    <3>1. stack' = stack + 0
      BY <2>3 DEF TypeOK
    <3>2. Pushed' = Pushed
      BY <1>b, <2>1, <2>3
    <3> QED BY <2>1, <2>3, <3>1, <3>2, CountingUnchanged
  <2>4. CASE stack' = stack /\ Goto(t, IF MayGrow(t) THEN "expand" ELSE "idle")
    <3>1. \E l \in {"expand", "idle"} : l = IF MayGrow(t) THEN "expand" ELSE "idle"
      OBVIOUS
    <3> QED BY <2>3, <2>4, <3>1
  <2> QED BY <1>2, <2>2, <2>4 DEF Pop
\* The cell of the thread that took it becomes one that it holds.
<1>3. ASSUME NEW t \in Thread, Taken(t) PROVE Counting'
  <2>1. /\ pc[t] = "taken" /\ Goto(t, "idle") /\ stack' = stack + 0
        /\ zone_index' = zone_index /\ pos' = pos /\ zone_list' = zone_list
        /\ held' = [held EXCEPT ![t] = @ + 1] /\ held[t] \in Nat
    BY <1>3, <1>a, Bounds DEF Taken, zones, locals, TypeOK
  <2>2. Pushed' = Pushed
    BY <1>b, <2>1
  <2> DEFINE c == <<t, held[t] + 1>>
  <2>3. Held' = Held \cup {c}
    <3>1. 1 .. held[t] + 1 = (1 .. held[t]) \cup {held[t] + 1}
      BY <2>1
    <3>2. \A u \in Thread : held'[u] = IF u = t THEN held[t] + 1 ELSE held[u]
      BY <2>1 DEF TypeOK
    <3> QED BY <3>1, <3>2 DEF Held
  <2>4. c \notin Held
    BY <2>1 DEF Held
  <2>5. /\ IsFiniteSet(Held)' /\ Cardinality(Held)' = Cardinality(Held) + 1
        /\ IsFiniteSet(Pushed)' /\ Cardinality(Pushed)' = Cardinality(Pushed) + 0
    BY <2>2, <2>3, <2>4, FS_AddElement, FS_CardinalityType DEF Counting
  <2> QED BY <2>1, <2>5, CountingKept
<1>4. ASSUME NEW t \in Thread, ReadZone(t) PROVE Counting'
  <2>1. /\ pc[t] = "expand" /\ stack' = stack + 0 /\ held' = held
        /\ pos' = pos /\ zone_list' = zone_list
        /\ \A u \in Thread \ {t} : zone_index'[u] = zone_index[u]
    BY <1>4, <1>a DEF ReadZone, zones, TypeOK
  <2>2. Goto(t, "expand") \/ Goto(t, "alloc")
    <3>1. CASE UNCHANGED pc
      BY <2>1, <3>1 DEF Goto, TypeOK
    <3> QED BY <1>4, <3>1 DEF ReadZone
  <2>3. Pushed' = Pushed
    BY <1>b, <2>1, <2>2
  <2> QED BY <2>1, <2>2, <2>3, CountingUnchanged
<1>5. ASSUME NEW t \in Thread, LockAlloc(t) PROVE Counting'
  <2>1. /\ pc[t] = "alloc" /\ Goto(t, "install") /\ stack' = stack + 0 /\ held' = held
        /\ zone_index' = zone_index /\ pos' = pos /\ zone_list' = zone_list
    BY <1>5, <1>a DEF LockAlloc, zones, locals, TypeOK
  <2>2. Pushed' = Pushed
    BY <1>b, <2>1
  <2> QED BY <2>1, <2>2, CountingUnchanged
\* The cells of the new zone are all to push.
<1>6. ASSUME NEW t \in Thread, InstallZone(t) PROVE Counting'
  <2>1. /\ pc[t] = "install" /\ stack' = stack + 0 /\ held' = held
        /\ \A u \in Thread : pc[u] \notin {"fill", "pushed"}
    BY <1>6, <1>a DEF InstallZone, TypeOK, Filling
  <2>2. CASE ZoneIsMissing(t)
    <3>1. /\ Goto(t, "fill") /\ zone_index' = zone_index
          /\ zone_list' = zone_list \cup {zone_index[t]}
          /\ pos' = [pos EXCEPT ![t] = 0]
      BY <1>6, <2>2 DEF InstallZone
    <3>2. pc'[t] = "fill" /\ pos'[t] = 0 /\ \A u \in Thread \ {t} : pc'[u] = pc[u]
      BY <3>1 DEF Goto, TypeOK
    <3> DEFINE new == CellsFrom(zone_index[t], 0)
    <3>3. NotPushed = {}
      BY <2>1, NotPushedNone
    <3>4. NotPushed' = new
      <4>1. NotPushed' = Left(t)'
        BY <2>1, <3>2, NotPushedNext
      <4> QED BY <3>1, <3>2, <4>1 DEF Left
    <3>5. Allocated' = Allocated \cup new
      BY <3>1 DEF Allocated
    <3>6. Allocated \cap new = {}
      BY <2>2 DEF Allocated, CellsFrom, ZoneIsMissing
    <3>7. Pushed' = Pushed
      BY <3>3, <3>4, <3>5, <3>6 DEF Pushed
    <3> QED BY <2>1, <3>1, <3>7, CountingUnchanged
  <2>3. CASE ~ZoneIsMissing(t)
    <3>1. /\ Goto(t, "expand") /\ zone_list' = zone_list /\ pos' = pos
          /\ \A u \in Thread \ {t} : zone_index'[u] = zone_index[u]
      BY <1>6, <2>3 DEF InstallZone, TypeOK
    <3>2. Pushed' = Pushed
      BY <1>b, <2>1, <3>1
    <3> QED BY <2>1, <3>1, <3>2, CountingUnchanged
  <2> QED BY <2>2, <2>3
\* The first of the cells to push goes on the stack.
<1>7. ASSUME NEW t \in Thread, PushNew(t) PROVE Counting'
  <2>1. /\ pc[t] = "fill" /\ Goto(t, "pushed") /\ stack' = stack + 1 /\ held' = held
        /\ zone_index' = zone_index /\ pos' = pos /\ zone_list' = zone_list
    BY <1>7 DEF PushNew, zones, locals
  <2>2. /\ zone_index[t] \in zone_list /\ zone_index[t] \in 0 .. MaxZones
        /\ pos[t] \in Nat /\ pos[t] < ZoneSize[zone_index[t]]
        /\ ZoneSize[zone_index[t]] \in Nat
    BY <2>1, Sizes, Bounds DEF TypeOK, Zones, Filling
  <2>3. pc'[t] = "pushed" /\ \A u \in Thread \ {t} : pc'[u] \notin {"fill", "pushed"}
    BY <2>1 DEF Goto, TypeOK, Filling
  <2> DEFINE z == zone_index[t]
             c == <<z, pos[t]>>
  <2>4. NotPushed = CellsFrom(z, pos[t])
    BY <2>1, NotPushedOne DEF Left
  <2>5. NotPushed' = CellsFrom(z, pos[t] + 1)
    <3>1. NotPushed' = Left(t)'
      BY <2>3, NotPushedNext
    <3> QED BY <2>1, <2>3, <3>1 DEF Left
  <2>6. NotPushed = NotPushed' \cup {c} /\ c \notin NotPushed'
    <3>1. pos[t] .. ZoneSize[z] - 1 = (pos[t] + 1 .. ZoneSize[z] - 1) \cup {pos[t]}
      BY <2>2
    <3> QED BY <2>2, <2>4, <2>5, <3>1 DEF CellsFrom
  <2>7. c \in Allocated
    BY <2>2 DEF Allocated, CellsFrom
  <2>8. Allocated' = Allocated
    BY <2>1, AllocatedSame
  <2>9. Pushed' = Pushed \cup {c} /\ c \notin Pushed
    <3> HIDE DEF c
    <3> QED BY <2>6, <2>7, <2>8 DEF Pushed
  <2>10. /\ IsFiniteSet(Pushed)' /\ Cardinality(Pushed)' = Cardinality(Pushed) + 1
         /\ IsFiniteSet(Held)' /\ Cardinality(Held)' = Cardinality(Held) + 0
    BY <2>1, <2>9, HeldSame, FS_AddElement, FS_CardinalityType DEF Counting
  <2> QED BY <2>1, <2>10, CountingKept
\* The last cell of a zone leaves none to push.
<1>8. ASSUME NEW t \in Thread, CountNew(t) PROVE Counting'
  <2>1. /\ pc[t] = "pushed" /\ stack' = stack + 0 /\ held' = held
        /\ zone_list' = zone_list
        /\ pos'[t] = pos[t] + 1
        /\ \A u \in Thread \ {t} : zone_index'[u] = zone_index[u] /\ pos'[u] = pos[u]
    BY <1>8, <1>a DEF CountNew, zones, TypeOK
  <2>2. /\ zone_index[t] \in 0 .. MaxZones /\ pos[t] \in Nat
        /\ ZoneSize[zone_index[t]] \in Nat
    BY Sizes DEF TypeOK
  <2>3. NotPushed = CellsFrom(zone_index[t], pos[t] + 1)
    BY <2>1, NotPushedOne DEF Left
  <2>4. Allocated' = Allocated
    BY <2>1, AllocatedSame
  <2>5. \A u \in Thread \ {t} : pc[u] \notin {"fill", "pushed"}
    BY <2>1 DEF Filling
  <2>6. CASE ~ZoneIsFull(t)
    <3>1. Goto(t, "fill") /\ zone_index' = zone_index
      BY <1>8, <2>6 DEF CountNew
    <3>2. pc'[t] = "fill" /\ \A u \in Thread \ {t} : pc'[u] = pc[u]
      BY <3>1 DEF Goto, TypeOK
    <3>3. NotPushed' = NotPushed
      <4>1. NotPushed' = Left(t)'
        BY <2>5, <3>2, NotPushedNext
      <4> QED BY <2>1, <2>3, <3>1, <3>2, <4>1 DEF Left
    <3>4. Pushed' = Pushed
      BY <2>4, <3>3 DEF Pushed
    <3> QED BY <2>1, <3>1, <3>4, CountingUnchanged
  <2>7. CASE ZoneIsFull(t)
    <3>1. Goto(t, "expand")
      BY <1>8, <2>7 DEF CountNew
    <3>2. pc'[t] = "expand" /\ \A u \in Thread \ {t} : pc'[u] = pc[u]
      BY <3>1 DEF Goto, TypeOK
    <3>3. NotPushed = {}
      BY <2>2, <2>3, <2>7 DEF CellsFrom, ZoneIsFull
    <3>4. NotPushed' = {}
      BY <2>5, <3>2, NotPushedNoneNext
    <3>5. Pushed' = Pushed
      BY <2>4, <3>3, <3>4 DEF Pushed
    <3> QED BY <2>1, <3>1, <3>5, CountingUnchanged
  <2> QED BY <2>6, <2>7
<1>9. ASSUME NEW t \in Thread, RecordZones(t) PROVE Counting'
  <2>1. /\ pc[t] = "expand" /\ Goto(t, "pop") /\ stack' = stack + 0 /\ held' = held
        /\ zone_index' = zone_index /\ pos' = pos /\ zone_list' = zone_list
    BY <1>9, <1>a DEF RecordZones, locals, TypeOK
  <2>2. Pushed' = Pushed
    BY <1>b, <2>1
  <2> QED BY <2>1, <2>2, CountingUnchanged
\* A cell that a thread holds goes back on the stack.
<1>10. ASSUME NEW t \in Thread, NEW u \in Thread, CallReturn(t, u)
       PROVE  Counting'
  <2>1. /\ pc[t] = "idle" /\ Goto(t, "returned") /\ stack' = stack + 1
        /\ zone_index' = zone_index /\ pos' = pos /\ zone_list' = zone_list
        /\ held' = [held EXCEPT ![u] = @ - 1] /\ held[u] \in Nat /\ held[u] > 0
    BY <1>10, Bounds DEF CallReturn, zones, locals, TypeOK
  <2>2. Pushed' = Pushed
    BY <1>b, <2>1
  <2> DEFINE c == <<u, held[u]>>
  <2>3. Held' = Held \ {c}
    <3>1. 1 .. held[u] - 1 = (1 .. held[u]) \ {held[u]}
      BY <2>1
    <3>2. \A v \in Thread : held'[v] = IF v = u THEN held[u] - 1 ELSE held[v]
      BY <2>1 DEF TypeOK
    <3> QED BY <3>1, <3>2 DEF Held
  <2>4. c \in Held
    BY <2>1 DEF Held
  <2>5. /\ IsFiniteSet(Held)' /\ Cardinality(Held)' = Cardinality(Held) + (-1)
        /\ IsFiniteSet(Pushed)' /\ Cardinality(Pushed)' = Cardinality(Pushed) + 0
    BY <2>2, <2>3, <2>4, FS_RemoveElement, FS_CardinalityType DEF Counting
  <2> QED BY <2>1, <2>5, CountingKept
<1>11. ASSUME NEW t \in Thread, Returned(t) PROVE Counting'
  <2>1. /\ pc[t] = "returned" /\ Goto(t, "idle") /\ stack' = stack + 0 /\ held' = held
        /\ zone_index' = zone_index /\ pos' = pos /\ zone_list' = zone_list
    BY <1>11, <1>a DEF Returned, zones, locals, TypeOK
  <2>2. Pushed' = Pushed
    BY <1>b, <2>1
  <2> QED BY <2>1, <2>2, CountingUnchanged
<1>12. CASE ClearAll
  <2>1. nbr_zones = n
    BY <1>12 DEF ClearAll, Quiescent, Zones, Records
  <2>2. zone_list' = {} /\ stack' = 0 /\ pc' = pc /\ held' = held
    BY <1>12, <2>1 DEF ClearAll, Zones
  <2>3. Pushed' = {}
    BY <2>2 DEF Pushed, Allocated
  <2>4. At({"taken"})' = {} /\ Held' = {}
    BY <1>12, <2>2 DEF ClearAll, Quiescent, At, Held
  <2>5. /\ IsFiniteSet(Pushed)' /\ Cardinality(Pushed)' = 0
        /\ IsFiniteSet(Held)' /\ Cardinality(Held)' = 0
        /\ Cardinality(At({"taken"}))' = 0
    BY <2>3, <2>4, FS_EmptySet
  <2> QED BY <2>2, <2>5 DEF Counting
<1> QED
  BY <1>0, <1>1, <1>2, <1>3, <1>4, <1>5, <1>6, <1>7, <1>8, <1>9, <1>10, <1>11,
     <1>12 DEF Next, ThreadStep, TakeStep, ExpandStep

-----------------------------------------------------------------------------
(* The theorems.                                                           *)

LEMMA InvInit == Init => IInv
<1> SUFFICES ASSUME Init PROVE IInv
  OBVIOUS
<1>1. PICK n \in 0 .. MaxZones : n = ZonesFor(InitCells)
  BY ZonesForType
<1> DEFINE total == compute_total_size_for_zones[n]
<1>2. /\ nbr_zones = n /\ zone_list = 0 .. n - 1 /\ stack = total /\ nbr_avail = total
      /\ lock = None /\ held = [t \in Thread |-> 0]
      /\ \A t \in Thread : pc[t] = "idle" /\ held[t] = 0
  BY <1>1 DEF Init
<1>3. total \in Nat /\ total < Modulus
  BY <1>1, Totals, SizeAssumption
<1>4. TypeOK
  <2>1. zone_list \subseteq 0 .. MaxZones - 1
    BY <1>2, Bounds
  <2>2. total \in 0 .. Modulus - 1
    BY <1>3, Bounds
  <2> HIDE DEF total
  <2>3. 0 \in 0 .. MaxZones /\ 0 \in 0 .. MaxHeld
    BY Bounds
  <2> QED BY <1>2, <1>3, <2>1, <2>2, <2>3 DEF Init, TypeOK
<1>5. Zones(n)
  BY <1>2 DEF Zones
<1>6. Filling /\ Taking
  BY <1>2, Bounds DEF Filling, Taking
<1>7. At({"taken"}) = {} /\ At({"pushed", "returned"}) = {} /\ Held = {} /\ NotPushed = {}
  BY <1>2, NotPushedNone DEF At, Held
<1>8. /\ Cardinality(At({"taken"})) = 0 /\ Cardinality(At({"pushed", "returned"})) = 0
      /\ IsFiniteSet(Held) /\ Cardinality(Held) = 0
  BY <1>7, FS_EmptySet
<1>9. Counting
  <2>1. Pushed = Allocated
    BY <1>7 DEF Pushed
  <2>2. IsFiniteSet(Allocated) /\ Cardinality(Allocated) = total
    BY <1>2, FirstZones DEF Allocated
  <2> HIDE DEF total
  <2> QED BY <1>2, <1>3, <1>8, <2>1, <2>2 DEF Counting
<1>10. AvailMatches
  <2>1. \A M \in Nat : \A x \in 0 .. M - 1 : x % M = x
    OBVIOUS
  <2>2. total % Modulus = total
    BY <1>3, <2>1, Bounds
  <2> HIDE DEF total
  <2> QED BY <1>2, <1>3, <1>8, <2>2 DEF AvailMatches
<1> QED BY <1>4, <1>5, <1>6, <1>9, <1>10 DEF IInv

LEMMA InvStep == IInv /\ [Next]_vars => IInv'
<1> SUFFICES ASSUME IInv, [Next]_vars PROVE IInv'
  OBVIOUS
<1>1. TypeOK' /\ Taking'
  BY TypeStep DEF IInv
<1>2. Filling'
  BY FillingStep DEF IInv
<1>3. \E n \in 0 .. MaxZones : Zones(n)'
  BY ZonesStep DEF IInv
<1>4. Counting'
  BY CountingStep DEF IInv
<1>5. AvailMatches'
  BY AvailStep DEF IInv
<1> QED BY <1>1, <1>2, <1>3, <1>4, <1>5 DEF IInv

\* The invariant of the proofs holds in every reachable state.
THEOREM Invariance == Spec => []IInv
BY InvInit, InvStep, PTL DEF Spec

\* The zones of the pool are the first ones, without a gap: threads that find
\* the stack empty together allocate each of them once, in the order of the
\* indexes, and between the calls _nbr_zones counts them all, so that
\* clear_all frees every one (CellPool.hpp:87-97, 106-129, 188-213).
THEOREM NoZoneLost == Spec => []ZonesContiguous
<1>1. IInv => ZonesContiguous
  <2> SUFFICES ASSUME IInv PROVE ZonesContiguous
    OBVIOUS
  <2>1. PICK n \in 0 .. MaxZones : Zones(n)
    BY DEF IInv
  <2>2. nbr_zones \in Nat
    BY DEF IInv, TypeOK
  <2>3. 0 .. nbr_zones - 1 \subseteq zone_list
    BY <2>1, <2>2 DEF Zones
  <2>4. (\A t \in Thread : pc[t] \in {"idle", "taken", "returned"}) => nbr_zones = n
    BY <2>1 DEF Zones, Records
  <2> QED BY <2>1, <2>3, <2>4 DEF ZonesContiguous, Zones
<1> QED BY <1>1, Invariance, PTL

\* No cell of a zone is lost or given twice: each is on the stack, about to be
\* pushed, just popped or held by a caller, whatever the number of threads
\* that take and return cells while others make the pool grow
\* (CellPool.hpp:136-176, 188-213).
THEOREM NoCellMissing == Spec => []CellsAccounted
<1>1. IInv => CellsAccounted
  <2> SUFFICES ASSUME IInv PROVE CellsAccounted
    OBVIOUS
  <2>1. PICK n \in 0 .. MaxZones : Zones(n)
    BY DEF IInv
  <2>2. IsFiniteSet(NotPushed) /\ NotPushed \subseteq Allocated
    <3>1. CASE \A u \in Thread : pc[u] \notin {"fill", "pushed"}
      BY <3>1, NotPushedNone, FS_EmptySet
    <3>2. ASSUME NEW t \in Thread, pc[t] \in {"fill", "pushed"}
          PROVE  IsFiniteSet(NotPushed) /\ NotPushed \subseteq Allocated
      <4>1. NotPushed = Left(t)
        BY <3>2, NotPushedOne DEF IInv
      <4>2. /\ zone_index[t] \in 0 .. MaxZones /\ zone_index[t] \in zone_list
            /\ pos[t] \in Nat /\ pos[t] + 1 \in Nat
            /\ ZoneSize[zone_index[t]] \in Nat
        <5>1. zone_index[t] \in 0 .. MaxZones /\ pos[t] \in Nat
          BY DEF IInv, TypeOK
        <5>2. zone_index[t] = n - 1 /\ zone_list = 0 .. n - 1
          BY <2>1, <3>2 DEF Zones
        <5> QED BY <5>1, <5>2, Sizes, Bounds
      <4>3. PICK i \in Nat : Left(t) = CellsFrom(zone_index[t], i)
        BY <4>2 DEF Left
      <4>4. CellsFrom(zone_index[t], i) \subseteq Allocated
        BY <4>2 DEF Allocated, CellsFrom
      <4> QED BY <4>1, <4>2, <4>3, <4>4, CellsFromFacts
    <3> QED BY <3>1, <3>2
  <2>3. Allocated = Pushed \cup NotPushed /\ Pushed \cap NotPushed = {}
    BY <2>2 DEF Pushed
  <2>4. IsFiniteSet(Pushed) /\ Cardinality(Pushed) \in Nat /\ Cardinality(NotPushed) \in Nat
    BY <2>2, FS_CardinalityType DEF IInv, Counting
  <2>5. Cardinality(Allocated) = Cardinality(Pushed) + Cardinality(NotPushed)
    BY <2>2, <2>3, <2>4, FS_Union, FS_EmptySet
  <2>6. /\ Cardinality(Pushed) = stack + Cardinality(At({"taken"})) + Cardinality(Held)
        /\ Cardinality(Held) \in Nat /\ stack \in Nat
    BY FS_CardinalityType DEF IInv, Counting, TypeOK
  <2>7. Cardinality(At({"taken"})) \in Nat
    BY Bounds, FS_Subset, FS_CardinalityType DEF At
  <2>8. Cardinality(Allocated) = stack + Cardinality(NotPushed)
                                    + Cardinality(At({"taken"})) + Cardinality(Held)
    BY <2>4, <2>5, <2>6, <2>7
  <2> QED BY <2>8 DEF CellsAccounted, IInv
<1> QED BY <1>1, Invariance, PTL

\* The wrapping counter is the number of free cells, but for what the calls
\* under way have not counted yet: with every cell back it is what clear_all
\* asserts (CellPool.hpp:76-79, 160, 174, 210).
THEOREM CounterIsRight == Spec => []AvailMatches
<1>1. IInv => AvailMatches
  BY DEF IInv
<1> QED BY <1>1, Invariance, PTL

-----------------------------------------------------------------------------
(* Addresses.                                                              *)

LEMMA DivMod ==
  ASSUME NEW x \in Nat, NEW align \in Positive
  PROVE  /\ x = (align * (x \div align)) + (x % align)
         /\ x \div align \in Int
         /\ x % align \in 0 .. align - 1
  BY DEF Positive

LEMMA MultipleMod ==
  ASSUME NEW q \in Int, NEW align \in Positive
  PROVE  (align * q) % align = 0
  BY SMTT(20) DEF Positive

\* Rounding an address down gives an aligned one, less than align below.
LEMMA Rounded ==
  ASSUME NEW x \in Nat, NEW align \in Positive
  PROVE  /\ AlignDown(x, align) \in Int
         /\ is_ptr_aligned(AlignDown(x, align), align)
         /\ AlignDown(x, align) <= x
         /\ x < AlignDown(x, align) + align
<1>1. AlignDown(x, align) = align * (x \div align)
  BY DivMod DEF AlignDown, Positive
<1>2. is_ptr_aligned(AlignDown(x, align), align)
  BY <1>1, DivMod, MultipleMod DEF is_ptr_aligned
<1> QED
  BY <1>2, DivMod DEF AlignDown, Positive

\* An address that is a whole number of aligned cells after an aligned one.
LEMMA CellAligned ==
  ASSUME NEW zone \in Nat, NEW cell \in Nat, NEW i \in Nat,
         NEW align \in Positive,
         is_ptr_aligned(zone, align), is_ptr_aligned(cell, align)
  PROVE  is_ptr_aligned(zone + i * cell, align)
<1> DEFINE q == zone \div align
           k == cell \div align
<1>1. /\ q \in Int /\ k \in Int
      /\ zone = align * q
      /\ cell = align * k
  BY DivMod, SMTT(20) DEF is_ptr_aligned, Positive
<1>2. i * k \in Int /\ q + i * k \in Int
  BY <1>1
<1>3. zone + i * cell = align * (q + i * k)
  BY <1>1, SMTT(20) DEF Positive
<1> HIDE DEF q, k
<1> QED
  BY <1>2, <1>3, MultipleMod DEF is_ptr_aligned

-----------------------------------------------------------------------------
\* The zone that AllocAlign returns is aligned, and it lies in the block with
\* its header, wherever the block is (AllocAlign.hpp:86-98, which asserts a part
\* of it; AtomicPtrIntPair needs it, whose compare-and-swap faults otherwise).
THEOREM ZoneFits ==
  ASSUME NEW alloc_ptr \in Nat, NEW n \in Nat, NEW ptr_size \in Nat,
         NEW alig \in Positive
  PROVE  LET zone == allocate(alloc_ptr, ptr_size, alig)
         IN  /\ is_ptr_aligned(zone, alig)
             /\ Header(zone, ptr_size) \cup Bytes(zone, n)
                  \subseteq Bytes(alloc_ptr, alloc_bytes(n, ptr_size, alig))
<1> DEFINE x == alloc_ptr + ptr_size + alig - 1
           zone == AlignDown(x, alig)
<1>1. x \in Nat
  BY DEF Positive
<1>2. /\ zone \in Int
      /\ is_ptr_aligned(zone, alig)
      /\ zone <= x /\ x < zone + alig
  BY <1>1, Rounded
<1> HIDE DEF zone
<1>3. Header(zone, ptr_size) \cup Bytes(zone, n)
        \subseteq Bytes(alloc_ptr, alloc_bytes(n, ptr_size, alig))
  BY <1>2 DEF Header, Bytes, alloc_bytes, Positive
<1> QED
  BY <1>2, <1>3 DEF allocate, zone

\* The cells of a zone of CellPool are aligned, and lie in its block with their
\* header, although the block has room for one more cell only: a cell is not
\* smaller than its alignment, which divides its size (CellPool.hpp:251-263).
THEOREM CellsFit ==
  ASSUME NEW raw_ptr \in Nat, NEW n \in Nat, NEW info \in Nat,
         NEW cell \in Positive, NEW align \in Positive,
         is_ptr_aligned(cell, align)
  PROVE  LET zone == alloc_cells(raw_ptr, info, cell, align)
             block == Bytes(raw_ptr, nbr_bytes(n, info, cell))
         IN  /\ Header(zone, info) \subseteq block
             /\ \A i \in 0 .. n - 1 :
                  /\ is_ptr_aligned(zone + i * cell, align)
                  /\ Bytes(zone + i * cell, cell) \subseteq block
<1> DEFINE x == raw_ptr + info + cell
           zone == AlignDown(x, align)
           block == Bytes(raw_ptr, nbr_bytes(n, info, cell))
<1>1. x \in Nat
  BY DEF Positive
<1>2. align <= cell
  <2>1. CASE cell < align
    <3>1. cell % align = cell
      BY <2>1, SMTT(20) DEF Positive
    <3> QED
      BY <3>1 DEF is_ptr_aligned, Positive
  <2> QED
    BY <2>1 DEF Positive
<1>3. /\ zone \in Int
      /\ is_ptr_aligned(zone, align)
      /\ zone <= x /\ x < zone + align
  BY <1>1, Rounded
<1> HIDE DEF zone
<1>4. zone >= raw_ptr + info /\ zone <= raw_ptr + info + cell /\ zone \in Nat
  BY <1>2, <1>3 DEF Positive
<1>5. n * cell \in Nat /\ (n + 1) * cell = n * cell + cell
  BY DEF Positive
<1>6. Header(zone, info) \subseteq block
  BY <1>4, <1>5 DEF Header, Bytes, nbr_bytes, Positive
<1>7. ASSUME NEW i \in 0 .. n - 1
      PROVE  /\ is_ptr_aligned(zone + i * cell, align)
             /\ Bytes(zone + i * cell, cell) \subseteq block
  <2>1. is_ptr_aligned(zone + i * cell, align)
    BY <1>3, <1>4, CellAligned DEF Positive
  <2>2. i * cell \in Nat /\ i * cell + cell <= n * cell
    <3>1. i * cell + cell = (i + 1) * cell
      BY DEF Positive
    <3>2. (i + 1) * cell <= n * cell
      BY SMTT(20) DEF Positive
    <3> QED
      BY <3>1, <3>2, <1>5 DEF Positive
  <2>3. Bytes(zone + i * cell, cell) \subseteq block
    BY <1>4, <1>5, <2>2 DEF Bytes, nbr_bytes, Positive
  <2> QED
    BY <2>1, <2>3
<1> QED
  BY <1>6, <1>7 DEF alloc_cells, zone
=============================================================================
