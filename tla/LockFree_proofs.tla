--------------------------- MODULE LockFree_proofs ---------------------------
(***************************************************************************)
(* Proofs about LockFreeStack and LockFreeQueue, for any number of threads,*)
(* of cells and of calls: no cell is lost, the tail of the queue stays     *)
(* near its end, the stack implements FreeList and the queue CellQueue.    *)
(*                                                                         *)
(* There is one sequence of linked cells, the one that ChainOf finds, and  *)
(* both proofs use what it becomes when a cell is linked before or behind  *)
(* it, or its first cell leaves.  What ChainOf computes is proved by       *)
(* induction over the numbers of a set, with WFMin.                        *)
(***************************************************************************)
EXTENDS LockFreeStack, LockFreeQueue, SequenceTheorems, FiniteSetTheorems,
        WellFoundedInduction, TLAPS

-----------------------------------------------------------------------------
(* Chains.                                                                 *)

\* Induction over the numbers of a set.
LEMMA SetInduction ==
  ASSUME NEW S, 0 \in S, \A n \in Nat : n \in S => n + 1 \in S
  PROVE  Nat \subseteq S
<1> DEFINE T == Nat \ S
           R == OpToRel(<, Nat)
<1>1. SUFFICES ASSUME T # {} PROVE FALSE
  OBVIOUS
<1>2. \E n \in T : \A m \in T : ~ (<<m, n>> \in R)
  <2>1. IsWellFoundedOn(R, Nat)
    BY NatLessThanWellFounded
  <2>2. T \subseteq Nat
    OBVIOUS
  <2> HIDE DEF T, R
  <2> QED BY <1>1, <2>1, <2>2, WFMin
<1>3. PICK n \in T : \A m \in T : ~ (m < n)
  <2>1. \A m, n \in Nat : m < n => <<m, n>> \in R
    BY DEF OpToRel
  <2> QED BY <1>2, <2>1
<1> QED BY <1>3

\* The first n cells, or all of them.
Prefix(s, n) == SubSeq(s, 1, IF n < Len(s) THEN n ELSE Len(s))

LEMMA PrefixFacts ==
  ASSUME NEW S, NEW s \in Seq(S), NEW n \in Nat
  PROVE  LET p == Prefix(s, n) IN
         /\ p \in Seq(S)
         /\ n <= Len(s) => Len(p) = n
         /\ \A i \in 1 .. Len(p) : p[i] = s[i]
         /\ n >= Len(s) => p = s
<1> DEFINE m == IF n < Len(s) THEN n ELSE Len(s)
<1>1. m \in Nat /\ m <= Len(s)
  OBVIOUS
<1>2. \A i \in 1 .. m : s[i] \in S
  BY <1>1
<1> HIDE DEF m
<1>3. /\ SubSeq(s, 1, m) \in Seq(S)
      /\ Len(SubSeq(s, 1, m)) = m
      /\ \A i \in 1 .. m : SubSeq(s, 1, m)[i] = s[i]
  BY <1>1, <1>2, SubSeqProperties
<1>4. n >= Len(s) => SubSeq(s, 1, m) = s
  BY SubSeqFull DEF m
<1> QED BY <1>3, <1>4 DEF m, Prefix

\* A sequence of different cells is not longer than there are cells.
LEMMA InjectiveIsShort ==
  ASSUME NEW S, IsFiniteSet(S), NEW s \in Seq(S),
         \A i, j \in 1 .. Len(s) : s[i] = s[j] => i = j
  PROVE  Len(s) <= Cardinality(S)
<1>1. s \in Injection(1 .. Len(s), S)
  BY DEF Injection, IsInjective
<1>2. Cardinality(1 .. Len(s)) <= Cardinality(S)
  BY <1>1, FS_Injection
<1> QED
  BY <1>2, FS_Interval

\* The pointers lead through the cells that are linked, in their order.
LEMMA LinkedIsChain ==
  ASSUME NEW Nodes, IsFiniteSet(Nodes), NEW null, null \notin Nodes,
         NEW nxt \in [Nodes -> Nodes \cup {null}], NEW first,
         NEW s, Linked(s, first, nxt, null)
  PROVE  ChainOf(first, nxt, null) = s
<1> DEFINE start == IF first = null THEN << >> ELSE <<first>>
           After(t) == IF t = << >> \/ nxt[Last(t)] = null THEN t
                       ELSE Append(t, nxt[Last(t)])
           IsChain(f) == f = [n \in Nat |-> IF n = 0 THEN start ELSE After(f[n - 1])]
           pre == [n \in Nat |-> Prefix(s, n + 1)]
<1>1. /\ s \in Seq(Nodes)
      /\ \A i, j \in 1 .. Len(s) : s[i] = s[j] => i = j
      /\ first = IF s = << >> THEN null ELSE s[1]
      /\ \A i \in 1 .. Len(s) : nxt[s[i]] = IF i < Len(s) THEN s[i + 1] ELSE null
  BY DEF Linked
<1>2. \A n \in Nat : LET p == Prefix(s, n) IN
         /\ p \in Seq(Nodes)
         /\ n <= Len(s) => Len(p) = n
         /\ \A i \in 1 .. Len(p) : p[i] = s[i]
         /\ n >= Len(s) => p = s
  BY <1>1, PrefixFacts
<1>3. Prefix(s, 1) = start
  <2>1. CASE s = << >>
    BY <1>1, <1>2, <2>1
  <2>2. CASE s # << >>
    <3>1. Len(s) \in Nat \ {0} /\ s[1] \in Nodes
      BY <1>1, <2>2
    <3>2. Prefix(s, 1) \in Seq(Nodes) /\ Len(Prefix(s, 1)) = 1 /\ Prefix(s, 1)[1] = s[1]
      <4>1. 1 \in Nat /\ 1 <= Len(s)
        BY <3>1
      <4>2. LET p == Prefix(s, 1) IN
            /\ p \in Seq(Nodes)
            /\ 1 <= Len(s) => Len(p) = 1
            /\ \A i \in 1 .. Len(p) : p[i] = s[i]
        BY Zenon, <1>2, <4>1
      <4> QED BY <4>1, <4>2
    <3>3. start = <<s[1]>>
      BY <1>1, <2>2, <3>1
    <3> QED BY <3>1, <3>2, <3>3
  <2> QED BY <2>1, <2>2
<1>4. ASSUME NEW n \in Nat \ {0}
      PROVE  Prefix(s, n + 1) = After(Prefix(s, n))
  <2> DEFINE p == Prefix(s, n)
             q == Prefix(s, n + 1)
  <2>1. CASE n >= Len(s)
    <3>1. p = s /\ q = s
      BY <1>2, <2>1, <1>1
    <3>2. s # << >> => Last(s) = s[Len(s)] /\ nxt[Last(s)] = null
      BY <1>1 DEF Last
    <3> QED BY <3>1, <3>2
  <2>2. CASE n < Len(s)
    <3>1. /\ p \in Seq(Nodes) /\ Len(p) = n /\ \A i \in 1 .. n : p[i] = s[i]
          /\ q \in Seq(Nodes) /\ Len(q) = n + 1 /\ \A i \in 1 .. n + 1 : q[i] = s[i]
      <4>1. /\ p \in Seq(Nodes)
            /\ n <= Len(s) => Len(p) = n
            /\ \A i \in 1 .. Len(p) : p[i] = s[i]
        BY Zenon, <1>2, n \in Nat
      <4>0. n + 1 \in Nat
        OBVIOUS
      <4>2. /\ q \in Seq(Nodes)
            /\ n + 1 <= Len(s) => Len(q) = n + 1
            /\ \A i \in 1 .. Len(q) : q[i] = s[i]
        BY Zenon, <1>2, <4>0
      <4>3. Len(s) \in Nat
        BY <1>1
      <4> HIDE DEF p, q
      <4> QED BY <2>2, <4>1, <4>2, <4>3
    <3>2. p # << >> /\ Last(p) = s[n] /\ nxt[s[n]] = s[n + 1] /\ s[n + 1] \in Nodes
      BY <1>1, <2>2, <3>1 DEF Last
    <3>3. After(p) = Append(p, s[n + 1])
      BY <3>2
    <3> HIDE DEF p, q
    <3>4. q = Append(p, s[n + 1])
      BY <3>1, <3>2
    <3> QED BY <3>3, <3>4 DEF p, q
  <2> QED BY <1>1, <2>1, <2>2
<1>5. IsChain(pre)
  <2>1. ASSUME NEW n \in Nat
        PROVE  pre[n] = IF n = 0 THEN start ELSE After(pre[n - 1])
    BY <1>3, <1>4
  <2> HIDE DEF start, After
  <2> QED BY <2>1
<1> DEFINE chain == CHOOSE f : IsChain(f)
<1>6. IsChain(chain)
  BY <1>5
<1>7. ChainOf(first, nxt, null) = chain[Cardinality(Nodes)]
  BY Zenon DEF ChainOf
<1>8. \A n \in Nat : chain[n] = Prefix(s, n + 1)
  <2> HIDE DEF start, After, chain
  <2> DEFINE S == {n \in Nat : chain[n] = Prefix(s, n + 1)}
  <2>1. 0 \in S
    BY <1>3, <1>6
  <2>2. \A n \in Nat : n \in S => n + 1 \in S
    BY <1>4, <1>6
  <2> HIDE DEF S
  <2>3. Nat \subseteq S
    BY <2>1, <2>2, SetInduction
  <2> QED BY <2>3 DEF S
<1>9. Len(s) <= Cardinality(Nodes) /\ Cardinality(Nodes) \in Nat
  BY <1>1, InjectiveIsShort, FS_CardinalityType
<1>10. Prefix(s, Cardinality(Nodes) + 1) = s
  BY <1>1, <1>9, PrefixFacts
<1> QED
  BY <1>7, <1>8, <1>9, <1>10

-----------------------------------------------------------------------------
(* What the writes of the two containers do to linked cells.               *)

\* A write to a cell that is elsewhere.
LEMMA LinkedOther ==
  ASSUME NEW nxt, NEW null, NEW first, NEW s, Linked(s, first, nxt, null),
         NEW c, NEW d, \A i \in 1 .. Len(s) : s[i] # c
  PROVE  Linked(s, first, [nxt EXCEPT ![c] = d], null)
<1>1. DOMAIN [nxt EXCEPT ![c] = d] = DOMAIN nxt
  OBVIOUS
<1>2. ASSUME NEW i \in 1 .. Len(s)
      PROVE  [nxt EXCEPT ![c] = d][s[i]] = nxt[s[i]]
  BY s[i] \in DOMAIN nxt DEF Linked
<1> QED BY <1>1, <1>2 DEF Linked

\* A cell that points to the first one is linked before it.
LEMMA LinkedPush ==
  ASSUME NEW nxt, NEW null, NEW first, NEW s, Linked(s, first, nxt, null),
         NEW c \in DOMAIN nxt, nxt[c] = first,
         \A i \in 1 .. Len(s) : s[i] # c
  PROVE  Linked(<<c>> \o s, c, nxt, null)
<1> DEFINE p == <<c>> \o s
<1>1. /\ s \in Seq(DOMAIN nxt)
      /\ \A i, j \in 1 .. Len(s) : s[i] = s[j] => i = j
      /\ first = IF s = << >> THEN null ELSE s[1]
      /\ \A i \in 1 .. Len(s) : nxt[s[i]] = IF i < Len(s) THEN s[i + 1] ELSE null
  BY DEF Linked
<1>2. /\ p \in Seq(DOMAIN nxt)
      /\ Len(p) = Len(s) + 1
      /\ p[1] = c
      /\ \A i \in 2 .. Len(p) : p[i] = s[i - 1]
      /\ \A i \in 2 .. Len(p) : i - 1 \in 1 .. Len(s)
      /\ p # << >>
  BY <1>1
<1>3. Len(s) \in Nat /\ (s = << >> <=> Len(s) = 0)
  BY <1>1
<1> HIDE DEF p
<1>4. \A i, j \in 1 .. Len(p) : p[i] = p[j] => i = j
  <2> SUFFICES ASSUME NEW i \in 1 .. Len(p), NEW j \in 1 .. Len(p), p[i] = p[j]
               PROVE  i = j
    OBVIOUS
  <2>1. CASE i = 1 /\ j = 1
    BY <2>1
  <2>2. CASE i = 1 /\ j # 1
    BY <1>2, <1>3, <2>2
  <2>3. CASE i # 1 /\ j = 1
    BY <1>2, <1>3, <2>3
  <2>4. CASE i # 1 /\ j # 1
    <3>1. i - 1 \in 1 .. Len(s) /\ j - 1 \in 1 .. Len(s) /\ s[i - 1] = s[j - 1]
      BY <1>2, <1>3, <2>4
    <3>2. i - 1 = j - 1
      BY <1>1, <3>1
    <3> QED BY <3>2
  <2> QED BY <2>1, <2>2, <2>3, <2>4
<1>5. ASSUME NEW i \in 1 .. Len(p)
      PROVE  nxt[p[i]] = IF i < Len(p) THEN p[i + 1] ELSE null
  <2>1. CASE i = 1
    <3>1. CASE s = << >>
      BY <1>1, <1>2, <1>3, <2>1, <3>1
    <3>2. CASE s # << >>
      <4>1. p[2] = s[1] /\ i < Len(p) /\ p[i + 1] = p[2]
        BY <1>2, <1>3, <2>1, <3>2
      <4> QED BY <1>1, <1>2, <2>1, <3>2, <4>1
    <3> QED BY <3>1, <3>2
  <2>2. CASE i # 1
    <3> DEFINE k == i - 1
    <3>1. k \in 1 .. Len(s) /\ p[i] = s[k] /\ i = k + 1
      BY <1>2, <1>3, <2>2
    <3>2. nxt[s[k]] = IF k < Len(s) THEN s[k + 1] ELSE null
      BY <1>1, <3>1
    <3>3. k < Len(s) <=> i < Len(p)
      BY <1>2, <1>3, <3>1
    <3>4. i < Len(p) => p[i + 1] = s[k + 1]
      BY <1>2, <1>3, <3>1
    <3> HIDE DEF k
    <3> QED BY <3>1, <3>2, <3>3, <3>4
  <2> QED BY <2>1, <2>2
<1>6. c = IF p = << >> THEN null ELSE p[1]
  BY <1>2
<1> QED BY <1>2, <1>4, <1>5, <1>6 DEF Linked, p

\* The first cell leaves.
LEMMA LinkedPop ==
  ASSUME NEW nxt, NEW null, NEW first, NEW s, Linked(s, first, nxt, null),
         s # << >>
  PROVE  Linked(Tail(s), nxt[first], nxt, null)
<1> DEFINE p == Tail(s)
<1>1. /\ s \in Seq(DOMAIN nxt)
      /\ \A i, j \in 1 .. Len(s) : s[i] = s[j] => i = j
      /\ first = s[1]
      /\ \A i \in 1 .. Len(s) : nxt[s[i]] = IF i < Len(s) THEN s[i + 1] ELSE null
  BY DEF Linked
<1>2. Len(s) \in Nat \ {0}
  BY <1>1
<1>3. /\ p \in Seq(DOMAIN nxt)
      /\ Len(p) = Len(s) - 1
      /\ \A i \in 1 .. Len(p) : p[i] = s[i + 1]
      /\ \A i \in 1 .. Len(p) : i + 1 \in 1 .. Len(s)
  BY <1>1, <1>2
<1> HIDE DEF p
<1>4. p = << >> <=> Len(p) = 0
  BY <1>3
<1>5. \A i, j \in 1 .. Len(p) : p[i] = p[j] => i = j
  <2> SUFFICES ASSUME NEW i \in 1 .. Len(p), NEW j \in 1 .. Len(p), p[i] = p[j]
               PROVE  i = j
    OBVIOUS
  <2>1. i + 1 = j + 1
    BY <1>1, <1>3
  <2> QED BY <2>1
<1>6. nxt[first] = IF p = << >> THEN null ELSE p[1]
  <2>1. nxt[s[1]] = IF 1 < Len(s) THEN s[2] ELSE null
    BY <1>1, <1>2
  <2>2. 1 < Len(s) <=> p # << >>
    BY <1>2, <1>3, <1>4
  <2>3. p # << >> => p[1] = s[2]
    BY <1>2, <1>3, <1>4
  <2> QED BY <1>1, <2>1, <2>2, <2>3
<1>7. ASSUME NEW i \in 1 .. Len(p)
      PROVE  nxt[p[i]] = IF i < Len(p) THEN p[i + 1] ELSE null
  <2> DEFINE k == i + 1
  <2>1. k \in 1 .. Len(s) /\ p[i] = s[k]
    BY <1>3
  <2>2. nxt[s[k]] = IF k < Len(s) THEN s[k + 1] ELSE null
    BY <1>1, <2>1
  <2>3. k < Len(s) <=> i < Len(p)
    BY <1>2, <1>3
  <2>4. i < Len(p) => p[i + 1] = s[k + 1]
    BY <1>2, <1>3
  <2> HIDE DEF k
  <2> QED BY <2>1, <2>2, <2>3, <2>4
<1> QED BY <1>3, <1>5, <1>6, <1>7 DEF Linked, p

\* A cell without a next one is linked behind the last.
LEMMA LinkedAppend ==
  ASSUME NEW nxt, NEW null, null \notin DOMAIN nxt,
         NEW first, NEW s, Linked(s, first, nxt, null), s # << >>,
         NEW c \in DOMAIN nxt, nxt[c] = null,
         \A i \in 1 .. Len(s) : s[i] # c
  PROVE  Linked(Append(s, c), first, [nxt EXCEPT ![s[Len(s)]] = c], null)
<1> DEFINE p == Append(s, c)
           n == Len(s)
           mod == [nxt EXCEPT ![s[n]] = c]
<1>1. /\ s \in Seq(DOMAIN nxt)
      /\ \A i, j \in 1 .. n : s[i] = s[j] => i = j
      /\ first = s[1]
      /\ \A i \in 1 .. n : nxt[s[i]] = IF i < n THEN s[i + 1] ELSE null
  BY DEF Linked
<1>2. n \in Nat \ {0} /\ s[n] \in DOMAIN nxt
  BY <1>1
<1>3. /\ p \in Seq(DOMAIN nxt)
      /\ Len(p) = n + 1
      /\ \A i \in 1 .. n : p[i] = s[i]
      /\ p[n + 1] = c
      /\ p # << >>
  BY <1>1, <1>2
<1>4. \A i \in 1 .. n : s[i] # c
  OBVIOUS
<1>5. /\ DOMAIN mod = DOMAIN nxt
      /\ mod[s[n]] = c
      /\ \A x \in DOMAIN nxt : x # s[n] => mod[x] = nxt[x]
  BY <1>2
<1> HIDE DEF p, n, mod
<1>6. \A i, j \in 1 .. Len(p) : p[i] = p[j] => i = j
  BY <1>1, <1>2, <1>3, <1>4
<1>7. first = IF p = << >> THEN null ELSE p[1]
  BY <1>1, <1>2, <1>3
<1>8. ASSUME NEW i \in 1 .. Len(p)
      PROVE  mod[p[i]] = IF i < Len(p) THEN p[i + 1] ELSE null
  <2>1. CASE i = n + 1
    <3>1. c # s[n]
      BY <1>2, <1>4
    <3>2. p[i] = c /\ ~ (i < Len(p))
      BY <1>2, <1>3, <2>1
    <3> QED BY <1>5, <3>1, <3>2
  <2>2. CASE i = n
    BY <1>2, <1>3, <1>5, <2>2
  <2>3. CASE i \in 1 .. n - 1
    <3>1. s[i] # s[n] /\ s[i] \in DOMAIN nxt
      BY <1>1, <1>2, <2>3 DEF n
    <3>2. p[i] = s[i] /\ i < n /\ i < Len(p) /\ p[i + 1] = s[i + 1]
      BY <1>2, <1>3, <2>3
    <3>3. mod[s[i]] = nxt[s[i]]
      BY <1>5, <3>1
    <3>4. nxt[s[i]] = s[i + 1]
      BY <1>1, <2>3, <1>2
    <3> QED BY <3>2, <3>3, <3>4
  <2> QED BY <1>2, <1>3, <2>1, <2>2, <2>3
<1> QED BY <1>3, <1>5, <1>6, <1>7, <1>8 DEF Linked, p, n, mod
-----------------------------------------------------------------------------
(* The cells that are linked.                                              *)

Among(c, s) == \E i \in 1 .. Len(s) : s[i] = c

\* The first cell is one of them, and so is the next one of each; only the
\* last has none, and none leads back to the first.
LEMMA LinkedFacts ==
  ASSUME NEW nxt, NEW null, null \notin DOMAIN nxt,
         NEW first, NEW s, Linked(s, first, nxt, null)
  PROVE  /\ s \in Seq(DOMAIN nxt)
         /\ \A i, j \in 1 .. Len(s) : s[i] = s[j] => i = j
         /\ first = null <=> s = << >>
         /\ s # << >> => first = s[1] /\ first = Head(s) /\ Among(first, s)
         /\ \A c : Among(c, s) =>
              /\ c \in DOMAIN nxt
              /\ nxt[c] # null => Among(nxt[c], s) /\ nxt[c] # first
              /\ nxt[c] = null <=> c = s[Len(s)]
<1>1. /\ s \in Seq(DOMAIN nxt)
      /\ \A i, j \in 1 .. Len(s) : s[i] = s[j] => i = j
      /\ first = IF s = << >> THEN null ELSE s[1]
      /\ \A i \in 1 .. Len(s) : nxt[s[i]] = IF i < Len(s) THEN s[i + 1] ELSE null
  BY DEF Linked
<1>2. Len(s) \in Nat /\ (s # << >> => 1 \in 1 .. Len(s) /\ s[1] = Head(s))
  BY <1>1
<1>3. \A i \in 1 .. Len(s) : s[i] \in DOMAIN nxt
  BY <1>1
<1>4. s # << >> => first = s[1] /\ first = Head(s) /\ Among(first, s)
  BY <1>1, <1>2 DEF Among
<1>5. first = null <=> s = << >>
  BY <1>1, <1>2, <1>3
<1>6. ASSUME NEW i \in 1 .. Len(s)
      PROVE  /\ nxt[s[i]] # null => Among(nxt[s[i]], s) /\ nxt[s[i]] # first
             /\ nxt[s[i]] = null <=> s[i] = s[Len(s)]
  <2>1. CASE i = Len(s)
    BY <1>1, <1>2, <2>1
  <2>2. CASE i < Len(s)
    <3>1. /\ i + 1 \in 1 .. Len(s) /\ 1 \in 1 .. Len(s) /\ Len(s) \in 1 .. Len(s)
          /\ i + 1 # 1 /\ i # Len(s) /\ s # << >>
      BY <1>2, <2>2
    <3>2. nxt[s[i]] = s[i + 1]
      BY <1>1, <2>2
    <3>3. s[i + 1] # s[1] /\ s[i] # s[Len(s)]
      BY <1>1, <3>1
    <3>4. s[i + 1] # null /\ Among(s[i + 1], s)
      BY <1>3, <3>1 DEF Among
    <3> QED BY <1>4, <3>1, <3>2, <3>3, <3>4
  <2> QED BY <1>2, <2>1, <2>2
<1>7. \A c : Among(c, s) =>
        /\ c \in DOMAIN nxt
        /\ nxt[c] # null => Among(nxt[c], s) /\ nxt[c] # first
        /\ nxt[c] = null <=> c = s[Len(s)]
  BY <1>3, <1>6 DEF Among
<1> QED BY <1>1, <1>4, <1>5, <1>7

LEMMA AmongPush ==
  ASSUME NEW S, NEW s \in Seq(S), NEW k
  PROVE  \A c : Among(c, <<k>> \o s) <=> Among(c, s) \/ c = k
<1> DEFINE p == <<k>> \o s
<1>1. /\ Len(p) = Len(s) + 1 /\ Len(s) \in Nat
      /\ p[1] = k
      /\ \A i \in 1 .. Len(s) : p[i + 1] = s[i]
      /\ \A i \in 2 .. Len(p) : p[i] = s[i - 1]
  OBVIOUS
<1> HIDE DEF p
<1>2. ASSUME NEW c, NEW i \in 1 .. Len(p), p[i] = c
      PROVE (\E j \in 1 .. Len(s) : s[j] = c) \/ c = k
  <2>1. CASE i = 1
    BY <1>1, <1>2, <2>1
  <2>2. CASE i # 1
    <3>1. i - 1 \in 1 .. Len(s) /\ s[i - 1] = c
      BY <1>1, <1>2, <2>2
    <3> QED BY <3>1
  <2> QED BY <2>1, <2>2
<1>3. ASSUME NEW c, NEW j \in 1 .. Len(s), s[j] = c
      PROVE  \E i \in 1 .. Len(p) : p[i] = c
  <2>1. j + 1 \in 1 .. Len(p) /\ p[j + 1] = c
    BY <1>1, <1>3
  <2> QED BY <2>1
<1>4. 1 \in 1 .. Len(p) /\ p[1] = k
  BY <1>1
<1>5. \A c : Among(c, p) <=> Among(c, s) \/ c = k
  BY <1>2, <1>3, <1>4 DEF Among
<1> QED BY <1>5 DEF p

LEMMA AmongPop ==
  ASSUME NEW S, NEW s \in Seq(S), s # << >>,
         \A i, j \in 1 .. Len(s) : s[i] = s[j] => i = j
  PROVE  \A c : Among(c, Tail(s)) <=> Among(c, s) /\ c # s[1]
<1> DEFINE p == Tail(s)
<1>1. /\ Len(p) = Len(s) - 1 /\ Len(s) \in Nat \ {0}
      /\ \A i \in 1 .. Len(p) : p[i] = s[i + 1]
      /\ \A i \in 2 .. Len(s) : s[i] = p[i - 1]
  OBVIOUS
<1> HIDE DEF p
<1>2. ASSUME NEW c, NEW i \in 1 .. Len(p), p[i] = c
      PROVE  (\E j \in 1 .. Len(s) : s[j] = c) /\ c # s[1]
  <2>1. i + 1 \in 1 .. Len(s) /\ s[i + 1] = c /\ 1 \in 1 .. Len(s) /\ i + 1 # 1
    BY <1>1, <1>2
  <2> QED BY <2>1
<1>3. ASSUME NEW c, NEW j \in 1 .. Len(s), s[j] = c, c # s[1]
      PROVE  \E i \in 1 .. Len(p) : p[i] = c
  <2>1. j - 1 \in 1 .. Len(p) /\ p[j - 1] = c
    BY <1>1, <1>3
  <2> QED BY <2>1
<1>4. \A c : Among(c, p) <=> Among(c, s) /\ c # s[1]
  BY <1>2, <1>3 DEF Among
<1> QED BY <1>4 DEF p

LEMMA AmongAppend ==
  ASSUME NEW S, NEW s \in Seq(S), NEW k
  PROVE  \A c : Among(c, Append(s, k)) <=> Among(c, s) \/ c = k
<1> DEFINE p == Append(s, k)
<1>1. /\ Len(p) = Len(s) + 1 /\ Len(s) \in Nat
      /\ p[Len(s) + 1] = k
      /\ \A i \in 1 .. Len(s) : p[i] = s[i]
  OBVIOUS
<1> HIDE DEF p
<1>2. ASSUME NEW c, NEW i \in 1 .. Len(p), p[i] = c
      PROVE (\E j \in 1 .. Len(s) : s[j] = c) \/ c = k
  <2>1. CASE i = Len(s) + 1
    BY <1>1, <1>2, <2>1
  <2>2. CASE i # Len(s) + 1
    <3>1. i \in 1 .. Len(s) /\ s[i] = c
      BY <1>1, <1>2, <2>2
    <3> QED BY <3>1
  <2> QED BY <2>1, <2>2
<1>3. ASSUME NEW c, NEW j \in 1 .. Len(s), s[j] = c
      PROVE  \E i \in 1 .. Len(p) : p[i] = c
  <2>1. j \in 1 .. Len(p) /\ p[j] = c
    BY <1>1, <1>3
  <2> QED BY <2>1
<1>4. Len(s) + 1 \in 1 .. Len(p) /\ p[Len(s) + 1] = k
  BY <1>1
<1>5. \A c : Among(c, p) <=> Among(c, s) \/ c = k
  BY <1>2, <1>3, <1>4 DEF Among
<1> QED BY <1>5 DEF p

\* The cells from the head on are linked, each is there once.
Chained == Linked(Contents, head.ptr, next, Null)

-----------------------------------------------------------------------------
(* LockFreeStack.  The invariant says where the cells are, and what a      *)
(* thread may still believe when it is about to swap: what it has read     *)
(* counts only when the swap would succeed.                                *)

Stacked(c) == Among(c, Contents)

\* A cell is on the stack, in one hand, or fresh.
StackApart ==
  /\ \A c \in fresh : ~ Stacked(c)
  /\ \A t \in Thread : hand[t] # Null => ~ Stacked(hand[t]) /\ hand[t] \notin fresh
  /\ \A t, u \in Thread : hand[t] # Null /\ hand[t] = hand[u] => t = u

Somewhere ==
  \A c \in Cell : c \in fresh \/ Stacked(c) \/ \E t \in Thread : hand[t] = c

\* What a thread that is about to swap knows.
Snapshots ==
  \A t \in Thread :
    /\ count[t] <= head.val
    /\ pc[t] \in {"pop", "popval", "popnext", "popcas"} => hand[t] = Null
    /\ pc[t] = "pushcas" => next[hand[t]] = head_ptr[t]
    /\ pc[t] = "popcas" /\ Matches(t) => next_ptr[t] = next[head_ptr[t]]

StackInv == StackTypeOK /\ Chained /\ StackApart /\ Somewhere /\ Snapshots

-----------------------------------------------------------------------------
\* Initially, and after every step, the values are of their types
\* (LockFreeStack.hpp:50-115).
LEMMA StackTypeInit == StackInit => StackTypeOK
  BY StackAssumption DEF StackInit, StackTypeOK, Pair

LEMMA StackTypeStep == StackTypeOK /\ [StackNext]_stackVars => StackTypeOK'
<1> SUFFICES ASSUME StackTypeOK, [StackNext]_stackVars PROVE StackTypeOK'
  OBVIOUS
<1> USE StackAssumption DEF StackTypeOK, Goto, Pair, locals
<1>1. ASSUME NEW t \in Thread, CallPush(t) PROVE StackTypeOK'
  BY <1>1 DEF CallPush
<1>2. ASSUME NEW t \in Thread, CallPop(t) PROVE StackTypeOK'
  BY <1>2 DEF CallPop
<1>3. ASSUME NEW t \in Thread, LinkElsewhere(t) PROVE StackTypeOK'
  BY <1>3 DEF LinkElsewhere
<1>4. ASSUME NEW t \in Thread, PushReadPtr(t) PROVE StackTypeOK'
  BY <1>4 DEF PushReadPtr, ReadPtr
<1>5. ASSUME NEW t \in Thread, PushReadVal(t) PROVE StackTypeOK'
  BY <1>5 DEF PushReadVal, ReadVal
<1>6. ASSUME NEW t \in Thread, PushCas(t) PROVE StackTypeOK'
  BY <1>6 DEF PushCas, cas2_head, Matches
<1>7. ASSUME NEW t \in Thread, PopReadPtr(t) PROVE StackTypeOK'
  BY <1>7 DEF PopReadPtr, ReadPtr, Empty
<1>8. ASSUME NEW t \in Thread, PopReadVal(t) PROVE StackTypeOK'
  BY <1>8 DEF PopReadVal, ReadVal
<1>9. ASSUME NEW t \in Thread, PopReadNext(t) PROVE StackTypeOK'
  BY <1>9 DEF PopReadNext
<1>10. ASSUME NEW t \in Thread, PopCas(t) PROVE StackTypeOK'
  BY <1>10 DEF PopCas, cas2_head, Matches
<1>11. ASSUME NEW t \in Thread, ClearNext(t) PROVE StackTypeOK'
  BY <1>11 DEF ClearNext
<1>12. CASE UNCHANGED stackVars
  BY <1>12 DEF stackVars
<1> QED
  BY <1>1, <1>2, <1>3, <1>4, <1>5, <1>6, <1>7, <1>8, <1>9, <1>10, <1>11,
     <1>12 DEF StackNext, PushStep, PopStep

-----------------------------------------------------------------------------
\* What is linked after a step is what Contents is.
LEMMA StackSequel ==
  ASSUME StackTypeOK', NEW s, Linked(s, head'.ptr, next', Null)
  PROVE  Contents' = s /\ Chained'
<1>1. next' \in [Cell -> Cell \cup {Null}]
  BY DEF StackTypeOK
<1>2. ChainOf(head'.ptr, next', Null) = s
  BY <1>1, StackAssumption, LinkedIsChain
<1> QED BY <1>2 DEF Contents, Chained

\* The stack is a sequence of cells, empty if there is no top.
LEMMA StackFacts ==
  ASSUME StackTypeOK, Chained
  PROVE  /\ Contents \in Seq(Cell)
         /\ \A i, j \in 1 .. Len(Contents) : Contents[i] = Contents[j] => i = j
         /\ head.ptr = Null <=> Contents = << >>
         /\ Contents # << >> => head.ptr = Contents[1] /\ Stacked(head.ptr)
<1>1. DOMAIN next = Cell
  BY DEF StackTypeOK
<1> QED BY <1>1, StackAssumption, LinkedFacts DEF Chained, Stacked

\* A step that writes neither the top nor a pointer leaves the stack.
LEMMA SameStack ==
  ASSUME Chained, UNCHANGED <<next, head>>
  PROVE  /\ Contents' = Contents
         /\ Chained'
         /\ \A c : Stacked(c)' <=> Stacked(c)
<1>1. Contents' = Contents
  BY DEF Contents
<1> QED BY <1>1 DEF Chained, Stacked

\* A thread may write the pointer of the cell in its hand.
LEMMA HandWritten ==
  ASSUME StackInv, StackTypeOK', NEW t \in Thread, hand[t] # Null, NEW d,
         next' = [next EXCEPT ![hand[t]] = d], UNCHANGED head
  PROVE  /\ Contents' = Contents
         /\ Chained'
         /\ \A c : Stacked(c)' <=> Stacked(c)
<1>1. \A i \in 1 .. Len(Contents) : Contents[i] # hand[t]
  BY DEF StackInv, StackApart, Stacked, Among
<1>2. Linked(Contents, head'.ptr, next', Null)
  BY <1>1, LinkedOther DEF StackInv, Chained
<1>3. Contents' = Contents /\ Chained'
  BY <1>2, StackSequel
<1> QED BY <1>3 DEF Stacked

-----------------------------------------------------------------------------
(* The steps that swap the top.                                            *)

\* A push that succeeds puts the cell on top.
LEMMA PushSwaps ==
  ASSUME StackInv, StackTypeOK', NEW t \in Thread, PushCas(t), Matches(t)
  PROVE  /\ Contents' = <<hand[t]>> \o Contents
         /\ Chained'
         /\ \A c : Stacked(c)' <=> Stacked(c) \/ c = hand[t]
<1>1. /\ head = Pair(head_ptr[t], count[t])
      /\ head' = Pair(hand[t], count[t] + 1)
      /\ next' = next
      /\ next[hand[t]] = head.ptr
      /\ hand[t] \in Cell
  BY DEF StackInv, StackTypeOK, Snapshots, PushCas, cas2_head, Matches, Pair
<1>2. \A i \in 1 .. Len(Contents) : Contents[i] # hand[t]
  BY <1>1, StackAssumption DEF StackInv, StackApart, Stacked, Among
<1>3. DOMAIN next = Cell
  BY DEF StackInv, StackTypeOK
<1>4. Linked(<<hand[t]>> \o Contents, hand[t], next, Null)
  BY <1>1, <1>2, <1>3, LinkedPush DEF StackInv, Chained
<1>5. Contents' = <<hand[t]>> \o Contents /\ Chained'
  BY <1>1, <1>4, StackSequel DEF Pair
<1>6. Contents \in Seq(Cell)
  BY StackFacts DEF StackInv
<1> QED BY <1>5, <1>6, AmongPush DEF Stacked

\* A pop that succeeds takes the top, and leaves the cells below.
LEMMA PopSwaps ==
  ASSUME StackInv, StackTypeOK', NEW t \in Thread, PopCas(t), Matches(t)
  PROVE  /\ Contents # << >>
         /\ head_ptr[t] = Head(Contents)
         /\ Contents' = Tail(Contents)
         /\ Chained'
         /\ \A c : Stacked(c)' <=> Stacked(c) /\ c # head_ptr[t]
<1>1. /\ head = Pair(head_ptr[t], count[t])
      /\ head' = Pair(next_ptr[t], count[t] + 1)
      /\ next' = next
      /\ next_ptr[t] = next[head.ptr]
      /\ head.ptr # Null
      /\ head.ptr = head_ptr[t]
  BY DEF StackInv, StackTypeOK, Snapshots, PopCas, cas2_head, Matches, Pair
<1>2. /\ Contents \in Seq(Cell) /\ Contents # << >>
      /\ head.ptr = Contents[1]
      /\ \A i, j \in 1 .. Len(Contents) : Contents[i] = Contents[j] => i = j
  BY <1>1, StackFacts DEF StackInv
<1>3. Linked(Tail(Contents), next[head.ptr], next, Null)
  BY <1>2, LinkedPop DEF StackInv, Chained
<1>4. Contents' = Tail(Contents) /\ Chained'
  BY <1>1, <1>3, StackSequel DEF Pair
<1>5. \A c : Among(c, Tail(Contents)) <=> Among(c, Contents) /\ c # Contents[1]
  BY <1>2, AmongPop
<1>6. Head(Contents) = Contents[1]
  BY <1>2
<1> QED BY <1>1, <1>2, <1>4, <1>5, <1>6 DEF Stacked

-----------------------------------------------------------------------------
(* The invariant.                                                          *)

LEMMA StackInvInit == StackInit => StackInv
<1> SUFFICES ASSUME StackInit PROVE StackInv
  OBVIOUS
<1>1. StackTypeOK
  BY StackTypeInit
<1>2. Linked(<< >>, head.ptr, next, Null)
  BY DEF StackInit, Pair, Linked
<1>3. Contents = << >> /\ Chained
  <2>1. ChainOf(head.ptr, next, Null) = << >>
    BY <1>1, <1>2, StackAssumption, LinkedIsChain DEF StackTypeOK
  <2> QED BY <1>2, <2>1 DEF Contents, Chained
<1>4. StackApart /\ Somewhere /\ Snapshots
  BY <1>3 DEF StackInit, StackApart, Somewhere, Snapshots, Stacked, Among, Pair
<1> QED BY <1>1, <1>3, <1>4 DEF StackInv

\* A step keeps the invariant if it changes neither the stack nor who holds
\* which cell, and the threads that swap know what they must.
LEMMA StackQuietStep ==
  ASSUME StackInv, StackTypeOK', UNCHANGED <<next, head, fresh, hand>>, Snapshots'
  PROVE  StackInv'
  BY SameStack DEF StackInv, StackApart, Somewhere

LEMMA StackInvStep == StackInv /\ [StackNext]_stackVars => StackInv'
<1> SUFFICES ASSUME StackInv, [StackNext]_stackVars PROVE StackInv'
  OBVIOUS
<1>0. StackTypeOK /\ StackTypeOK'
  BY StackTypeStep DEF StackInv
<1> USE DEF Goto, locals
<1>1. ASSUME NEW t \in Thread, CallPush(t) PROVE StackInv'
  <2>1. Chained' /\ \A c : Stacked(c)' <=> Stacked(c)
    BY <1>1, SameStack DEF StackInv, CallPush
  <2>2. Snapshots'
    BY <1>0, <1>1 DEF StackInv, CallPush, Snapshots, StackTypeOK, Matches
  <2>3. CASE UNCHANGED <<fresh, hand>>
    BY <1>0, <2>1, <2>2, <2>3 DEF StackInv, StackApart, Somewhere
  <2>4. ASSUME NEW c \in fresh, fresh' = fresh \ {c}, hand[t] = Null,
               hand' = [hand EXCEPT ![t] = c]
        PROVE  StackInv'
    <3>1. /\ hand'[t] = c /\ \A u \in Thread : u # t => hand'[u] = hand[u]
          /\ c \in Cell /\ c # Null
      BY <1>0, <2>4, StackAssumption DEF StackTypeOK
    <3>2. StackApart'
      BY <2>1, <2>4, <3>1 DEF StackInv, StackApart
    <3>3. Somewhere'
      BY <2>1, <2>4, <3>1, StackAssumption DEF StackInv, Somewhere
    <3> QED BY <1>0, <2>1, <2>2, <3>2, <3>3 DEF StackInv
  <2> QED BY <1>1, <2>3, <2>4 DEF CallPush
<1>2. ASSUME NEW t \in Thread, CallPop(t) PROVE StackInv'
  <2>1. Snapshots'
    BY <1>0, <1>2 DEF StackInv, CallPop, Snapshots, StackTypeOK, Matches
  <2> QED BY <1>0, <1>2, <2>1, StackQuietStep DEF CallPop
<1>3. ASSUME NEW t \in Thread, LinkElsewhere(t) PROVE StackInv'
  <2>1. PICK d \in Cell : next' = [next EXCEPT ![hand[t]] = d]
    BY <1>3 DEF LinkElsewhere
  <2>2. UNCHANGED <<head, fresh, hand>> /\ hand[t] # Null
    BY <1>3 DEF LinkElsewhere
  <2>3. Chained' /\ \A c : Stacked(c)' <=> Stacked(c)
    BY <1>0, <2>1, <2>2, HandWritten
  <2>4. StackApart' /\ Somewhere'
    BY <2>2, <2>3 DEF StackInv, StackApart, Somewhere
  <2>5. Snapshots'
    <3> SUFFICES ASSUME NEW u \in Thread
                 PROVE  /\ pc[u] = "pushcas" => next'[hand[u]] = head_ptr[u]
                        /\ pc[u] = "popcas" /\ Matches(u) =>
                             next_ptr[u] = next'[head_ptr[u]]
      BY <1>3 DEF StackInv, LinkElsewhere, Snapshots, Matches
    <3>1. pc[u] = "pushcas" => hand[u] # hand[t]
      BY <1>0, <1>3 DEF StackInv, StackApart, LinkElsewhere, StackTypeOK
    <3>2. pc[u] = "popcas" /\ Matches(u) => head_ptr[u] # hand[t]
      <4>1. pc[u] = "popcas" /\ Matches(u) => head_ptr[u] = head.ptr /\ head.ptr # Null
        BY <1>0 DEF StackTypeOK, Matches, Pair
      <4>2. head.ptr # Null => Stacked(head.ptr)
        BY <1>0, StackFacts DEF StackInv
      <4> QED BY <2>2, <4>1, <4>2 DEF StackInv, StackApart
    <3> QED BY <1>0, <2>1, <3>1, <3>2 DEF StackInv, Snapshots, StackTypeOK
  <2> QED BY <1>0, <2>3, <2>4, <2>5 DEF StackInv
<1>4. ASSUME NEW t \in Thread, PushReadPtr(t) PROVE StackInv'
  <2>1. Snapshots'
    BY <1>0, <1>4 DEF StackInv, PushReadPtr, ReadPtr, Snapshots, StackTypeOK, Matches
  <2> QED BY <1>0, <1>4, <2>1, StackQuietStep DEF PushReadPtr
<1>5. ASSUME NEW t \in Thread, PushReadVal(t) PROVE StackInv'
  <2>1. /\ next' = [next EXCEPT ![hand[t]] = head_ptr[t]]
        /\ UNCHANGED <<head, fresh, hand>>
        /\ hand[t] # Null
    BY <1>0, <1>5 DEF PushReadVal, StackTypeOK
  <2>2. Chained' /\ \A c : Stacked(c)' <=> Stacked(c)
    BY <1>0, <2>1, HandWritten
  <2>3. StackApart' /\ Somewhere'
    BY <2>1, <2>2 DEF StackInv, StackApart, Somewhere
  <2>4. Snapshots'
    <3> SUFFICES ASSUME NEW u \in Thread
                 PROVE  /\ count'[u] <= head.val
                        /\ pc'[u] \in {"pop", "popval", "popnext", "popcas"} => hand[u] = Null
                        /\ pc'[u] = "pushcas" => next'[hand[u]] = head_ptr[u]
                        /\ pc'[u] = "popcas" /\ Matches(u)' =>
                             next_ptr[u] = next'[head_ptr[u]]
      BY <1>5 DEF PushReadVal, Snapshots
    <3>1. CASE u = t
      BY <1>0, <1>5, <2>1, <3>1, StackAssumption DEF PushReadVal, ReadVal, StackTypeOK
    <3>2. CASE u # t
      <4>1. count'[u] = count[u] /\ pc'[u] = pc[u] /\ (Matches(u)' <=> Matches(u))
        BY <1>0, <1>5, <3>2 DEF PushReadVal, ReadVal, StackTypeOK, Matches
      <4>2. pc[u] = "pushcas" => hand[u] # hand[t]
        BY <1>0, <2>1, <3>2 DEF StackInv, StackApart, StackTypeOK
      <4>3. pc[u] = "popcas" /\ Matches(u) => head_ptr[u] # hand[t]
        <5>1. pc[u] = "popcas" /\ Matches(u) => head_ptr[u] = head.ptr /\ head.ptr # Null
          BY <1>0 DEF StackTypeOK, Matches, Pair
        <5>2. head.ptr # Null => Stacked(head.ptr)
          BY <1>0, StackFacts DEF StackInv
        <5> QED BY <2>1, <5>1, <5>2 DEF StackInv, StackApart
      <4> QED BY <1>0, <2>1, <4>1, <4>2, <4>3 DEF StackInv, Snapshots, StackTypeOK
    <3> QED BY <3>1, <3>2
  <2> QED BY <1>0, <2>2, <2>3, <2>4 DEF StackInv
<1>6. ASSUME NEW t \in Thread, PushCas(t) PROVE StackInv'
  <2>1. CASE ~ Matches(t)
    <3>1. UNCHANGED <<next, head, fresh, hand, locals>>
      BY <1>6, <2>1 DEF PushCas, cas2_head
    <3>2. Snapshots'
      BY <1>0, <1>6, <2>1, <3>1 DEF StackInv, PushCas, Snapshots, StackTypeOK, Matches
    <3> QED BY <1>0, <3>1, <3>2, StackQuietStep
  <2>2. CASE Matches(t)
    <3>1. Chained' /\ \A c : Stacked(c)' <=> Stacked(c) \/ c = hand[t]
      BY <1>0, <1>6, <2>2, PushSwaps
    <3>2. /\ head = Pair(head_ptr[t], count[t]) /\ head' = Pair(hand[t], count[t] + 1)
          /\ UNCHANGED <<next, fresh, locals>>
          /\ pc' = [pc EXCEPT ![t] = "idle"]
          /\ hand' = [hand EXCEPT ![t] = Null]
          /\ hand[t] # Null
      BY <1>0, <1>6, <2>2 DEF PushCas, cas2_head, Matches, StackTypeOK
    <3>3. /\ hand'[t] = Null /\ pc'[t] = "idle"
          /\ \A u \in Thread : u # t => hand'[u] = hand[u] /\ pc'[u] = pc[u]
      BY <1>0, <3>2 DEF StackTypeOK
    <3>4. StackApart'
      BY <3>1, <3>2, <3>3, StackAssumption DEF StackInv, StackApart
    <3>5. Somewhere'
      BY <3>1, <3>2, <3>3, StackAssumption DEF StackInv, Somewhere
    <3>6. Snapshots'
      <4>1. head.val = count[t] /\ head'.val = count[t] + 1 /\ count[t] \in Nat
        BY <1>0, <3>2 DEF Pair, StackTypeOK
      <4>2. ASSUME NEW u \in Thread PROVE count[u] <= head'.val /\ ~ Matches(u)'
        BY <1>0, <3>2, <4>1 DEF StackInv, Snapshots, Matches, Pair, StackTypeOK
      <4> QED BY <3>2, <3>3, <4>2 DEF StackInv, Snapshots
    <3> QED BY <1>0, <3>1, <3>4, <3>5, <3>6 DEF StackInv
  <2> QED BY <2>1, <2>2
<1>7. ASSUME NEW t \in Thread, PopReadPtr(t) PROVE StackInv'
  <2>1. Snapshots'
    BY <1>0, <1>7 DEF StackInv, PopReadPtr, ReadPtr, Empty, Snapshots, StackTypeOK, Matches
  <2> QED BY <1>0, <1>7, <2>1, StackQuietStep DEF PopReadPtr
<1>8. ASSUME NEW t \in Thread, PopReadVal(t) PROVE StackInv'
  <2>1. Snapshots'
    BY <1>0, <1>8 DEF StackInv, PopReadVal, ReadVal, Snapshots, StackTypeOK, Matches
  <2> QED BY <1>0, <1>8, <2>1, StackQuietStep DEF PopReadVal
<1>9. ASSUME NEW t \in Thread, PopReadNext(t) PROVE StackInv'
  <2>1. Snapshots'
    BY <1>0, <1>9 DEF StackInv, PopReadNext, Snapshots, StackTypeOK, Matches
  <2> QED BY <1>0, <1>9, <2>1, StackQuietStep DEF PopReadNext
<1>10. ASSUME NEW t \in Thread, PopCas(t) PROVE StackInv'
  <2>1. CASE ~ Matches(t)
    <3>1. UNCHANGED <<next, head, fresh, hand, locals>>
      BY <1>10, <2>1 DEF PopCas, cas2_head
    <3>2. Snapshots'
      BY <1>0, <1>10, <2>1, <3>1 DEF StackInv, PopCas, Snapshots, StackTypeOK, Matches
    <3> QED BY <1>0, <3>1, <3>2, StackQuietStep
  <2>2. CASE Matches(t)
    <3>1. Chained' /\ \A c : Stacked(c)' <=> Stacked(c) /\ c # head_ptr[t]
      BY <1>0, <1>10, <2>2, PopSwaps
    <3>2. /\ head = Pair(head_ptr[t], count[t]) /\ head' = Pair(next_ptr[t], count[t] + 1)
          /\ UNCHANGED <<next, fresh, locals>>
          /\ pc' = [pc EXCEPT ![t] = "clear"]
          /\ hand' = [hand EXCEPT ![t] = head_ptr[t]]
          /\ hand[t] = Null /\ head_ptr[t] \in Cell /\ head_ptr[t] = head.ptr
      BY <1>0, <1>10, <2>2 DEF StackInv, Snapshots, PopCas, cas2_head, Matches, StackTypeOK, Pair
    <3>3. /\ hand'[t] = head_ptr[t] /\ pc'[t] = "clear"
          /\ \A u \in Thread : u # t => hand'[u] = hand[u] /\ pc'[u] = pc[u]
      BY <1>0, <3>2 DEF StackTypeOK
    <3>4. Stacked(head_ptr[t])
      BY <1>0, <3>2, StackAssumption, StackFacts DEF StackInv
    <3>5. StackApart'
      BY <3>1, <3>2, <3>3, <3>4, StackAssumption DEF StackInv, StackApart
    <3>6. Somewhere'
      BY <3>1, <3>2, <3>3, StackAssumption DEF StackInv, Somewhere
    <3>7. Snapshots'
      <4>1. head.val = count[t] /\ head'.val = count[t] + 1 /\ count[t] \in Nat
        BY <1>0, <3>2 DEF Pair, StackTypeOK
      <4>2. ASSUME NEW u \in Thread PROVE count[u] <= head'.val /\ ~ Matches(u)'
        BY <1>0, <3>2, <4>1 DEF StackInv, Snapshots, Matches, Pair, StackTypeOK
      <4> QED BY <3>2, <3>3, <4>2 DEF StackInv, Snapshots
    <3> QED BY <1>0, <3>1, <3>5, <3>6, <3>7 DEF StackInv
  <2> QED BY <2>1, <2>2
<1>11. ASSUME NEW t \in Thread, ClearNext(t) PROVE StackInv'
  <2>1. /\ next' = [next EXCEPT ![hand[t]] = Null]
        /\ UNCHANGED <<head, fresh, hand, locals>>
        /\ pc' = [pc EXCEPT ![t] = "idle"]
        /\ hand[t] # Null
    BY <1>0, <1>11 DEF ClearNext, StackTypeOK
  <2>2. Chained' /\ \A c : Stacked(c)' <=> Stacked(c)
    BY <1>0, <2>1, HandWritten
  <2>3. StackApart' /\ Somewhere'
    BY <2>1, <2>2 DEF StackInv, StackApart, Somewhere
  <2>4. Snapshots'
    <3> SUFFICES ASSUME NEW u \in Thread, u # t
                 PROVE  /\ pc[u] = "pushcas" => next'[hand[u]] = head_ptr[u]
                        /\ pc[u] = "popcas" /\ Matches(u) =>
                             next_ptr[u] = next'[head_ptr[u]]
      BY <1>0, <2>1 DEF StackInv, Snapshots, Matches, StackTypeOK
    <3>1. pc[u] = "pushcas" => hand[u] # hand[t]
      BY <1>0, <2>1 DEF StackInv, StackApart, StackTypeOK
    <3>2. pc[u] = "popcas" /\ Matches(u) => head_ptr[u] # hand[t]
      <4>1. pc[u] = "popcas" /\ Matches(u) => head_ptr[u] = head.ptr /\ head.ptr # Null
        BY <1>0 DEF StackTypeOK, Matches, Pair
      <4>2. head.ptr # Null => Stacked(head.ptr)
        BY <1>0, StackFacts DEF StackInv
      <4> QED BY <2>1, <4>1, <4>2 DEF StackInv, StackApart
    <3> QED BY <1>0, <2>1, <3>1, <3>2 DEF StackInv, Snapshots, StackTypeOK
  <2> QED BY <1>0, <2>2, <2>3, <2>4 DEF StackInv
<1>12. CASE UNCHANGED stackVars
  <2>1. Snapshots'
    BY <1>12 DEF StackInv, stackVars, Snapshots, Matches
  <2> QED BY <1>0, <1>12, <2>1, StackQuietStep DEF stackVars
<1> QED
  BY <1>1, <1>2, <1>3, <1>4, <1>5, <1>6, <1>7, <1>8, <1>9, <1>10, <1>11,
     <1>12 DEF StackNext, PushStep, PopStep

LEMMA StackInvariance == StackSpec => []StackInv
<1>1. StackInit => StackInv
  BY StackInvInit
<1>2. StackInv /\ [StackNext]_stackVars => StackInv'
  BY StackInvStep
<1> QED BY <1>1, <1>2, PTL DEF StackSpec

\* No cell is lost, or is in two places (LockFreeStack.hpp:50-115).
THEOREM CellsKept == StackSpec => []NoCellLost
<1>1. StackInv => NoCellLost
  <2> SUFFICES ASSUME StackInv PROVE NoCellLost
    OBVIOUS
  <2>1. /\ Contents \in Seq(Cell)
        /\ \A i, j \in 1 .. Len(Contents) : Contents[i] = Contents[j] => i = j
    BY StackFacts DEF StackInv
  <2>2. DOMAIN Contents = 1 .. Len(Contents)
    BY <2>1
  <2>3. IsInjective(Contents)
    BY <2>1, <2>2 DEF IsInjective
  <2>4. \A c : Stacked(c) <=> c \in ToSet(Contents)
    BY <2>2 DEF Stacked, Among, ToSet
  <2>5. \A c : Stacked(c) => c \in Cell
    BY <2>1 DEF Stacked, Among
  <2>6. Cell = fresh \cup ToSet(Contents) \cup ({hand[t] : t \in Thread} \ {Null})
    BY <2>4, <2>5, StackAssumption DEF StackInv, Somewhere, StackTypeOK
  <2> QED BY <2>3, <2>6 DEF NoCellLost, StackInv
<1> QED BY <1>1, StackInvariance, PTL

-----------------------------------------------------------------------------
(* The refinement.                                                         *)

\* A step of the stack is one of FreeList, or changes neither what is stacked
\* nor who holds what.
LEMMA StackStepMaps == StackInv /\ [StackNext]_stackVars => [FL!Next]_(FL!vars)
<1> SUFFICES ASSUME StackInv, [StackNext]_stackVars PROVE [FL!Next]_(FL!vars)
  OBVIOUS
<1>0. StackTypeOK /\ StackTypeOK'
  BY StackTypeStep DEF StackInv
<1> USE DEF locals
<1>1. ASSUME UNCHANGED <<next, head, hand>> PROVE UNCHANGED FL!vars
  BY <1>1, SameStack DEF StackInv, FL!vars
<1>2. ASSUME NEW t \in Thread, CallPush(t) PROVE [FL!Next]_(FL!vars)
  <2>1. CASE UNCHANGED <<fresh, hand>>
    BY <1>1, <1>2, <2>1 DEF CallPush
  <2>2. ASSUME NEW c \in fresh, hand[t] = Null, hand' = [hand EXCEPT ![t] = c]
        PROVE  FL!Bring(t, c) /\ c \in Cell
    <3>1. Contents' = Contents /\ c \in Cell
      BY <1>0, <1>2, SameStack DEF StackInv, CallPush, StackTypeOK
    <3>2. /\ \A i \in 1 .. Len(Contents) : Contents[i] # c
          /\ \A u \in Thread : hand[u] # c
      BY <2>2, <3>1, StackAssumption DEF StackInv, StackApart, Stacked, Among
    <3> QED BY <2>2, <3>1, <3>2 DEF FL!Bring
  <2> QED BY <1>2, <2>1, <2>2 DEF CallPush, FL!Next
<1>3. ASSUME NEW t \in Thread,
             CallPop(t) \/ PushReadPtr(t) \/ PopReadPtr(t) \/ PopReadVal(t) \/ PopReadNext(t)
      PROVE  [FL!Next]_(FL!vars)
  BY <1>1, <1>3 DEF CallPop, PushReadPtr, PopReadPtr, PopReadVal, PopReadNext
<1>4. ASSUME NEW t \in Thread, LinkElsewhere(t) \/ PushReadVal(t) \/ ClearNext(t)
      PROVE  [FL!Next]_(FL!vars)
  <2>1. /\ \E d : next' = [next EXCEPT ![hand[t]] = d]
        /\ UNCHANGED <<head, hand>>
        /\ hand[t] # Null
    BY <1>0, <1>4 DEF LinkElsewhere, PushReadVal, ClearNext, StackTypeOK
  <2>2. Contents' = Contents
    BY <1>0, <2>1, HandWritten
  <2> QED BY <2>1, <2>2 DEF FL!vars
<1>5. ASSUME NEW t \in Thread, PushCas(t) PROVE [FL!Next]_(FL!vars)
  <2>1. CASE Matches(t)
    <3>1. Contents' = <<hand[t]>> \o Contents
      BY <1>0, <1>5, <2>1, PushSwaps
    <3>2. hand[t] # Null /\ hand' = [hand EXCEPT ![t] = Null]
      BY <1>0, <1>5, <2>1 DEF PushCas, StackTypeOK
    <3> QED BY <3>1, <3>2 DEF FL!Next, FL!Push
  <2>2. CASE ~ Matches(t)
    BY <1>1, <1>5, <2>2 DEF PushCas, cas2_head
  <2> QED BY <2>1, <2>2
<1>6. ASSUME NEW t \in Thread, PopCas(t) PROVE [FL!Next]_(FL!vars)
  <2>1. CASE Matches(t)
    <3>1. /\ Contents # << >> /\ head_ptr[t] = Head(Contents)
          /\ Contents' = Tail(Contents)
      BY <1>0, <1>6, <2>1, PopSwaps
    <3>2. hand[t] = Null /\ hand' = [hand EXCEPT ![t] = head_ptr[t]]
      BY <1>0, <1>6, <2>1 DEF PopCas, StackInv, Snapshots
    <3> QED BY <3>1, <3>2 DEF FL!Next, FL!Pop
  <2>2. CASE ~ Matches(t)
    BY <1>1, <1>6, <2>2 DEF PopCas, cas2_head
  <2> QED BY <2>1, <2>2
<1>7. CASE UNCHANGED stackVars
  BY <1>1, <1>7 DEF stackVars
<1> QED BY <1>2, <1>3, <1>4, <1>5, <1>6, <1>7 DEF StackNext, PushStep, PopStep

\* LockFreeStack is the stack that CellPool relies on: each cell is popped by
\* one thread, and the cells below it stay (LockFreeStack.hpp:63-93).
THEOREM StackIsFreeList == StackSpec => ImplementsFreeList
<1>1. StackInit => FL!Init
  <2> SUFFICES ASSUME StackInit PROVE FL!Init
    OBVIOUS
  <2>1. Contents = << >>
    BY StackInvInit, StackFacts DEF StackInv, StackInit, Pair
  <2> QED BY <2>1 DEF StackInit, FL!Init
<1>2. StackInv /\ [StackNext]_stackVars => [FL!Next]_(FL!vars)
  BY StackStepMaps
<1> QED BY <1>1, <1>2, StackInvariance, PTL DEF StackSpec, ImplementsFreeList, FL!Spec

-----------------------------------------------------------------------------
(* LockFreeQueue.  The invariant says what a thread may believe of the     *)
(* queue at each line of enqueue and of dequeue; what it has read of the   *)
(* tail counts only as long as the tail has not moved since.  A build that *)
(* loads the pair again in get breaks it: the lemmas that need the single  *)
(* copy assume ~ Reloads.                                                 *)

Linking == {"eget", "echeck", "enext", "etest", "elink"}
Enqueuing == Linking \cup {"eswing"}
Dequeuing == {"dget", "dcheck", "dnext", "empty", "dtake", "dhelp", "dloop"}
Labels == Enqueuing \cup Dequeuing \cup {"idle", "elock", "dlock", "got"}

Queued(c) == Among(c, Contents)

\* A cell is in the pool, in the queue, or in one hand.
QueueApart ==
  /\ \A c \in pool : ~ Queued(c)
  /\ \A t \in Thread : Hand[t] # Null => ~ Queued(Hand[t]) /\ Hand[t] \notin pool
  /\ \A t, u \in Thread : Hand[t] # Null /\ Hand[t] = Hand[u] => t = u

\* The tail is the last cell, or the one before.
TailNear ==
  /\ Queued(tail.ptr)
  /\ next[tail.ptr] = Null \/ next[next[tail.ptr]] = Null

\* Each mutex is held by the thread that is between its lines.
Locked ==
  \A t \in Thread :
    /\ pc[t] \in Enqueuing <=> enq_lock = t
    /\ pc[t] \in Dequeuing <=> deq_lock = t

Holding ==
  /\ pc \in [Thread -> Labels]
  /\ \A t \in Thread :
       /\ cell[t] # Null <=> pc[t] \in Enqueuing \cup {"elock", "got"}
       /\ pc[t] = "got" => cell[t] \in Cell

\* What was read of the tail is older than the tail, or still right.
Seen(t) ==
  /\ tail_seen[t].val <= tail.val
  /\ tail_seen[t].val = tail.val => tail_seen[t] = tail

\* What a thread knows in enqueue ...
EnqKnows(t) ==
  /\ pc[t] \in Linking => next[cell[t]] = Null
  /\ pc[t] \in {"etest", "elink"} /\ tail = tail_seen[t] => next_ptr[t] = next[tail.ptr]
  /\ pc[t] = "elink" /\ next_ptr[t] = Null => tail = tail_seen[t]
  /\ pc[t] = "eswing" =>
       /\ Queued(cell[t]) /\ next[cell[t]] = Null
       /\ tail = tail_seen[t] => next[tail.ptr] = cell[t]

\* ... and in dequeue: after the first iteration the tail is past the head.
DeqKnows(t) ==
  /\ loop_cnt[t] \in {0, 1}
  /\ pc[t] \in {"dhelp", "dloop"} => loop_cnt[t] = 0
  /\ pc[t] = "dget" /\ loop_cnt[t] = 1 => tail.ptr # head.ptr
  /\ pc[t] \in {"dcheck", "dnext"} /\ loop_cnt[t] = 1 => tail_seen[t].ptr # head.ptr
  /\ pc[t] \in {"dcheck", "dnext", "dhelp"} => tail = tail_seen[t] \/ tail.ptr # head.ptr
  /\ pc[t] = "dhelp" => tail_seen[t].ptr = head.ptr
  /\ pc[t] \in {"dtake", "dloop"} => tail.ptr # head.ptr
  /\ pc[t] \in {"dhelp", "dtake"} => next_ptr[t] = next[head.ptr] /\ next_ptr[t] # Null

Knows(t) == Seen(t) /\ EnqKnows(t) /\ DeqKnows(t)

QueueInv ==
  /\ QueueTypeOK /\ Chained /\ QueueApart /\ TailNear /\ Locked /\ Holding
  /\ \A t \in Thread : Knows(t)
\* What thread u knows of its own call.
Same(u) ==
  /\ pc'[u] = pc[u] /\ cell'[u] = cell[u] /\ tail_seen'[u] = tail_seen[u]
  /\ next_ptr'[u] = next_ptr[u] /\ loop_cnt'[u] = loop_cnt[u]

-----------------------------------------------------------------------------
(* The queue before and after a step.                                      *)

\* The queue has a first cell, the head, and only its last one has no next.
LEMMA QueueFacts ==
  ASSUME QueueTypeOK, Chained
  PROVE  /\ Contents \in Seq(Node)
         /\ \A i, j \in 1 .. Len(Contents) : Contents[i] = Contents[j] => i = j
         /\ Contents # << >>
         /\ head.ptr = Contents[1] /\ head.ptr = Head(Contents) /\ Queued(head.ptr)
         /\ \A c : Queued(c) =>
              /\ c \in Node
              /\ next[c] # Null => Queued(next[c]) /\ next[c] # head.ptr
              /\ next[c] = Null <=> c = Contents[Len(Contents)]
<1>1. DOMAIN next = Node /\ Null \notin Node /\ head.ptr # Null
  BY QueueAssumption DEF QueueTypeOK
<1>2. LET s == Contents IN
         /\ s \in Seq(Node)
         /\ \A i, j \in 1 .. Len(s) : s[i] = s[j] => i = j
         /\ head.ptr = Null <=> s = << >>
         /\ s # << >> => head.ptr = s[1] /\ head.ptr = Head(s) /\ Among(head.ptr, s)
         /\ \A c : Among(c, s) =>
              /\ c \in Node
              /\ next[c] # Null => Among(next[c], s) /\ next[c] # head.ptr
              /\ next[c] = Null <=> c = s[Len(s)]
  BY <1>1, LinkedFacts DEF Chained
<1> QED BY <1>1, <1>2 DEF Queued

\* What is linked after a step is what Contents is.
LEMMA QueueSequel ==
  ASSUME QueueTypeOK', NEW s, Linked(s, head'.ptr, next', Null)
  PROVE  Contents' = s /\ Chained'
<1>1. next' \in [Node -> Node \cup {Null}] /\ Null \notin Node /\ IsFiniteSet(Node)
  BY QueueAssumption, FS_AddElement DEF QueueTypeOK, Node
<1>2. ChainOf(head'.ptr, next', Null) = s
  BY <1>1, LinkedIsChain
<1> QED BY <1>2 DEF Contents, Chained

\* A step that writes neither the head nor a pointer leaves the queue.
LEMMA SameQueue ==
  ASSUME Chained, UNCHANGED <<next, head>>
  PROVE  /\ Contents' = Contents
         /\ Chained'
         /\ \A c : Queued(c)' <=> Queued(c)
<1>1. Contents' = Contents
  BY DEF Contents
<1> QED BY <1>1 DEF Chained, Queued

\* Neither does a write to a cell that is elsewhere.
LEMMA Elsewhere ==
  ASSUME QueueInv, QueueTypeOK', NEW c, ~ Queued(c), NEW d,
         next' = [next EXCEPT ![c] = d], UNCHANGED head
  PROVE  /\ Contents' = Contents
         /\ Chained'
         /\ \A x : Queued(x)' <=> Queued(x)
         /\ \A x : Queued(x) => next'[x] = next[x]
<1>1. \A i \in 1 .. Len(Contents) : Contents[i] # c
  BY DEF Queued, Among
<1>2. Linked(Contents, head'.ptr, next', Null)
  BY <1>1, LinkedOther DEF QueueInv, Chained
<1>3. Contents' = Contents /\ Chained'
  BY <1>2, QueueSequel
<1>4. ASSUME NEW x, Queued(x) PROVE next'[x] = next[x]
  BY <1>4, QueueFacts DEF QueueInv, QueueTypeOK
<1> QED BY <1>3, <1>4 DEF Queued

LEMMA TailElsewhere ==
  ASSUME QueueInv, QueueTypeOK', NEW c, ~ Queued(c), NEW d,
         next' = [next EXCEPT ![c] = d], UNCHANGED <<head, tail>>
  PROVE  TailNear'
<1>1. /\ \A x : Queued(x)' <=> Queued(x)
      /\ \A x : Queued(x) => next'[x] = next[x]
  BY Elsewhere
<1>2. Queued(tail.ptr) /\ next'[tail.ptr] = next[tail.ptr]
  BY <1>1 DEF QueueInv, TailNear
<1>3. next[tail.ptr] # Null => next'[next[tail.ptr]] = next[next[tail.ptr]]
  BY <1>1, <1>2, QueueFacts DEF QueueInv
<1> QED BY <1>1, <1>2, <1>3 DEF QueueInv, TailNear

\* A cell is linked behind the tail.
LEMMA Behind ==
  ASSUME QueueInv, QueueTypeOK', NEW c \in Node, ~ Queued(c), next[c] = Null,
         next[tail.ptr] = Null, next' = [next EXCEPT ![tail.ptr] = c], UNCHANGED head
  PROVE  /\ Contents' = Append(Contents, c)
         /\ Chained'
         /\ \A x : Queued(x)' <=> Queued(x) \/ x = c
         /\ next'[tail.ptr] = c /\ next'[c] = Null
         /\ \A x \in Node : x # tail.ptr => next'[x] = next[x]
<1>1. /\ Contents \in Seq(Node) /\ Contents # << >>
      /\ Queued(tail.ptr) /\ tail.ptr = Contents[Len(Contents)]
      /\ DOMAIN next = Node /\ Null \notin Node
  BY QueueFacts, QueueAssumption DEF QueueInv, TailNear, QueueTypeOK
<1>2. \A i \in 1 .. Len(Contents) : Contents[i] # c
  BY DEF Queued, Among
<1>3. Linked(Append(Contents, c), head'.ptr, next', Null)
  BY <1>1, <1>2, LinkedAppend DEF QueueInv, Chained
<1>4. Contents' = Append(Contents, c) /\ Chained'
  BY <1>3, QueueSequel
<1>5. tail.ptr # c /\ tail.ptr \in Node
  BY <1>1 DEF QueueInv, QueueTypeOK
<1>6. /\ next'[tail.ptr] = c /\ next'[c] = Null
      /\ \A x \in Node : x # tail.ptr => next'[x] = next[x]
  BY <1>1, <1>5
<1>7. \A x : Queued(x)' <=> Queued(x) \/ x = c
  BY <1>1, <1>4, AmongAppend DEF Queued
<1> QED BY <1>4, <1>6, <1>7

\* The head is taken.
LEMMA Ahead ==
  ASSUME QueueInv, QueueTypeOK', head'.ptr = next[head.ptr], UNCHANGED next
  PROVE  /\ Contents' = Tail(Contents)
         /\ Chained'
         /\ \A x : Queued(x)' <=> Queued(x) /\ x # head.ptr
<1>1. /\ Contents \in Seq(Node) /\ Contents # << >> /\ head.ptr = Contents[1]
      /\ \A i, j \in 1 .. Len(Contents) : Contents[i] = Contents[j] => i = j
  BY QueueFacts DEF QueueInv
<1>2. Linked(Tail(Contents), head'.ptr, next', Null)
  BY <1>1, LinkedPop DEF QueueInv, Chained
<1>3. Contents' = Tail(Contents) /\ Chained'
  BY <1>2, QueueSequel
<1> QED BY <1>1, <1>3, AmongPop DEF Queued

-----------------------------------------------------------------------------
(* What a step of one thread leaves of what another one knows.             *)

LEMMA OthersSame ==
  ASSUME QueueInv, UNCHANGED <<next, head, tail>>, NEW u \in Thread, Same(u)
  PROVE  Knows(u)'
<1>1. \A c : Queued(c)' <=> Queued(c)
  BY SameQueue DEF QueueInv
<1>2. Knows(u)
  BY DEF QueueInv
<1>3. Seen(u)'
  BY <1>2 DEF Knows, Seen, Same
<1>4. EnqKnows(u)'
  BY <1>1, <1>2 DEF Knows, EnqKnows, Same
<1>5. DeqKnows(u)'
  BY <1>2 DEF Knows, DeqKnows, Same
<1> QED BY <1>3, <1>4, <1>5 DEF Knows

\* A pointer is written outside the queue, of a cell that u does not hold.
LEMMA OthersElsewhere ==
  ASSUME QueueInv, QueueTypeOK', NEW c, ~ Queued(c), NEW d,
         next' = [next EXCEPT ![c] = d], UNCHANGED <<head, tail>>,
         NEW u \in Thread, Same(u), pc[u] \in Linking => cell[u] # c
  PROVE  Knows(u)'
<1>1. /\ \A x : Queued(x)' <=> Queued(x)
      /\ \A x : Queued(x) => next'[x] = next[x]
  BY Elsewhere
<1>2. Queued(tail.ptr) /\ Queued(head.ptr)
  BY QueueFacts DEF QueueInv, TailNear
<1>3. Knows(u)
  BY DEF QueueInv
<1>4. Seen(u)'
  BY <1>3 DEF Knows, Seen, Same
<1>5. EnqKnows(u)'
  <2>1. pc[u] \in Linking => next'[cell[u]] = next[cell[u]]
    <3>1. pc[u] \in Linking => cell[u] \in Node
      BY DEF QueueInv, QueueTypeOK, Holding, Enqueuing
    <3> QED BY <3>1 DEF QueueInv, QueueTypeOK
  <2>2. pc[u] = "eswing" => next'[cell[u]] = next[cell[u]]
    BY <1>1, <1>3 DEF Knows, EnqKnows
  <2> QED BY <1>1, <1>2, <1>3, <2>1, <2>2 DEF Knows, EnqKnows, Same
<1>6. DeqKnows(u)'
  BY <1>1, <1>2, <1>3 DEF Knows, DeqKnows, Same
<1> QED BY <1>4, <1>5, <1>6 DEF Knows

\* The tail moves to the next cell, for which u was not needed.
LEMMA OthersMoved ==
  ASSUME QueueInv, UNCHANGED <<next, head>>, next[tail.ptr] # Null,
         tail' = Pair(next[tail.ptr], tail.val + 1), NEW u \in Thread, Same(u)
  PROVE  Knows(u)'
<1>1. \A c : Queued(c)' <=> Queued(c)
  BY SameQueue DEF QueueInv
<1>2. /\ tail'.ptr = next[tail.ptr] /\ tail'.ptr # head.ptr
      /\ tail'.val = tail.val + 1 /\ tail.val \in Nat
  BY QueueFacts DEF QueueInv, TailNear, Pair, QueueTypeOK
<1>3. Knows(u) /\ tail_seen[u].val \in Nat
  BY DEF QueueInv, QueueTypeOK
<1>4. tail_seen[u].val < tail'.val
  BY <1>2, <1>3 DEF Knows, Seen
<1>5. tail' # tail_seen[u]
  BY <1>2, <1>3, <1>4
<1>6. Seen(u)'
  BY <1>2, <1>3, <1>4 DEF Seen, Same
<1>7. EnqKnows(u)'
  <2>1. ~ (pc[u] = "elink" /\ next_ptr[u] = Null)
    BY <1>3 DEF Knows, EnqKnows
  <2> QED BY <1>1, <1>3, <1>5, <2>1 DEF Knows, EnqKnows, Same
<1>8. DeqKnows(u)'
  BY <1>2, <1>3 DEF Knows, DeqKnows, Same
<1> QED BY <1>6, <1>7, <1>8 DEF Knows

\* A cell is linked behind the tail, by the thread that may.
LEMMA OthersBehind ==
  ASSUME QueueInv, QueueTypeOK', NEW c \in Node, ~ Queued(c), next[c] = Null,
         next[tail.ptr] = Null, next' = [next EXCEPT ![tail.ptr] = c],
         UNCHANGED <<head, tail>>,
         NEW u \in Thread, Same(u), pc[u] \notin Enqueuing
  PROVE  Knows(u)'
<1>1. /\ \A x \in Node : x # tail.ptr => next'[x] = next[x]
      /\ head.ptr \in Node
  BY Behind DEF QueueInv, QueueTypeOK
<1>2. Knows(u)
  BY DEF QueueInv
<1>3. Seen(u)' /\ EnqKnows(u)'
  BY <1>2 DEF Knows, Seen, EnqKnows, Same, Enqueuing, Linking
<1>4. DeqKnows(u)'
  <2>1. pc[u] \in {"dhelp", "dtake"} => head.ptr # tail.ptr
    BY <1>2 DEF Knows, DeqKnows
  <2> QED BY <1>1, <1>2, <2>1 DEF Knows, DeqKnows, Same
<1> QED BY <1>3, <1>4 DEF Knows

\* The head is taken, by the thread that may.
LEMMA OthersAhead ==
  ASSUME QueueInv, QueueTypeOK', head'.ptr = next[head.ptr], next[head.ptr] # Null,
         UNCHANGED <<next, tail>>,
         NEW u \in Thread, Same(u), pc[u] \notin Dequeuing
  PROVE  Knows(u)'
<1>1. \A x : Queued(x)' <=> Queued(x) /\ x # head.ptr
  BY Ahead
<1>2. Knows(u)
  BY DEF QueueInv
<1>3. Seen(u)' /\ DeqKnows(u)'
  BY <1>2 DEF Knows, Seen, DeqKnows, Same, Dequeuing
<1>4. EnqKnows(u)'
  BY <1>1, <1>2 DEF Knows, EnqKnows, Same
<1> QED BY <1>3, <1>4 DEF Knows
-----------------------------------------------------------------------------
(* Types.                                                                  *)

LEMMA QueueTypeStep ==
  ASSUME ~ Reloads, QueueInv, [QueueNext]_queueVars
  PROVE  QueueTypeOK'
<1>0. QueueTypeOK /\ \A t \in Thread : Knows(t)
  BY DEF QueueInv
<1>a. Cell \subseteq Node /\ Dummy \in Node /\ Null \notin Node /\ MaxLoop \in Nat \ {0}
      /\ MaxCalls \in Nat
  BY QueueAssumption DEF Node
<1> USE <1>0, <1>a DEF QueueTypeOK, Goto, Pair, locks, user
<1>1. ASSUME NEW t \in Thread, CallEnqueue(t) PROVE QueueTypeOK'
  BY <1>1 DEF CallEnqueue
<1>2. ASSUME NEW t \in Thread, CallDequeue(t) PROVE QueueTypeOK'
  BY <1>2 DEF CallDequeue
<1>3. ASSUME NEW t \in Thread, StartEnqueue(t) PROVE QueueTypeOK'
  BY <1>3 DEF StartEnqueue, LockEnqueue
<1>4. ASSUME NEW t \in Thread, GetTailToLink(t) PROVE QueueTypeOK'
  <2>1. tail' = tail /\ UNCHANGED <<next, head, locks, user, cell, next_ptr, loop_cnt>>
    BY <1>4 DEF GetTailToLink, GetTail, Loaded
  <2>2. tail_seen' \in [Thread -> [ptr : Node, val : Nat]]
    BY <1>4 DEF GetTailToLink, GetTail
  <2> QED BY <2>1, <2>2
<1>5. ASSUME NEW t \in Thread, ReadTailNext(t) PROVE QueueTypeOK'
  BY <1>5 DEF ReadTailNext
<1>6. ASSUME NEW t \in Thread, TestTail(t) PROVE QueueTypeOK'
  BY <1>6 DEF TestTail
<1>7. ASSUME NEW t \in Thread, LinkCell(t) PROVE QueueTypeOK'
  <2>1. cell[t] \in Node
    BY <1>7 DEF QueueInv, Holding, LinkCell, Enqueuing, Linking
  <2>2. next' \in [Node -> Node \cup {Null}]
    BY <1>7, <2>1 DEF LinkCell
  <2>3. tail' \in [ptr : Node, val : Nat]
    <3>1. CASE next_ptr[t] = Null
      BY <1>7, <3>1 DEF LinkCell
    <3>2. CASE next_ptr[t] # Null /\ tail = tail_seen[t]
      <4>1. next[tail_seen[t].ptr] \in Node
        BY <1>7, <3>2 DEF LinkCell, Knows, EnqKnows
      <4> QED BY <1>7, <3>2, <4>1 DEF LinkCell, cas2_tail
    <3>3. CASE next_ptr[t] # Null /\ tail # tail_seen[t]
      BY <1>7, <3>3 DEF LinkCell, cas2_tail
    <3> QED BY <3>1, <3>2, <3>3
  <2> QED BY <1>7, <2>2, <2>3 DEF LinkCell
<1>8. ASSUME NEW t \in Thread, SwingTail(t) PROVE QueueTypeOK'
  <2>1. cell[t] \in Node
    BY <1>8 DEF QueueInv, Holding, SwingTail, Enqueuing, Linking
  <2> QED BY <1>8, <2>1 DEF SwingTail, cas2_tail
<1>9. ASSUME NEW t \in Thread, StartDequeue(t) PROVE QueueTypeOK'
  BY <1>9 DEF StartDequeue, LockDequeue
<1>10. ASSUME NEW t \in Thread, GetTailToCompare(t) PROVE QueueTypeOK'
  <2>1. tail' = tail /\ UNCHANGED <<next, head, locks, user, cell, next_ptr, loop_cnt>>
    BY <1>10 DEF GetTailToCompare, GetTail, Loaded
  <2>2. tail_seen' \in [Thread -> [ptr : Node, val : Nat]]
    BY <1>10 DEF GetTailToCompare, GetTail
  <2> QED BY <2>1, <2>2
<1>11. ASSUME NEW t \in Thread, ReadHeadNext(t) PROVE QueueTypeOK'
  BY <1>11 DEF ReadHeadNext
<1>12. ASSUME NEW t \in Thread, ReturnEmpty(t) PROVE QueueTypeOK'
  BY <1>12 DEF ReturnEmpty
<1>13. ASSUME NEW t \in Thread, TakeHead(t) PROVE QueueTypeOK'
  <2>1. next_ptr[t] \in Node
    BY <1>13 DEF TakeHead, Knows, DeqKnows
  <2> QED BY <1>13, <2>1 DEF TakeHead
<1>14. ASSUME NEW t \in Thread, HelpDequeue(t) PROVE QueueTypeOK'
  <2>1. next_ptr[t] \in Node
    BY <1>14 DEF HelpDequeue, Knows, DeqKnows
  <2> QED BY <1>14, <2>1 DEF HelpDequeue, cas2_tail
<1>15. ASSUME NEW t \in Thread, Loop(t) PROVE QueueTypeOK'
  <2>1. loop_cnt[t] = 0
    BY <1>15 DEF Loop, Knows, DeqKnows
  <2>2. loop_cnt' = [loop_cnt EXCEPT ![t] = 1] /\ 1 \in 0 .. MaxLoop
    BY <1>15, <2>1 DEF Loop
  <2> QED BY <1>15, <2>2 DEF Loop
<1>16. ASSUME NEW t \in Thread, ReturnCell(t) PROVE QueueTypeOK'
  <2>1. cell[t] \in Cell
    BY <1>16 DEF ReturnCell, QueueInv, Holding
  <2> QED BY <1>16, <2>1 DEF ReturnCell
<1>17. CASE UNCHANGED queueVars
  BY <1>17 DEF queueVars
<1> QED
  BY <1>1, <1>2, <1>3, <1>4, <1>5, <1>6, <1>7, <1>8, <1>9, <1>10, <1>11,
     <1>12, <1>13, <1>14, <1>15, <1>16, <1>17
  DEF QueueNext, EnqueueStep, DequeueStep

-----------------------------------------------------------------------------
(* The steps that only read what is shared.                                *)

LEMMA QueueQuietStep ==
  ASSUME QueueInv, QueueTypeOK', UNCHANGED <<next, head, tail, pool, cell>>,
         NEW t \in Thread, \A u \in Thread \ {t} : Same(u),
         pc'[t] = "eswing" <=> pc[t] = "eswing",
         Locked', Holding', Knows(t)'
  PROVE  QueueInv' /\ UNCHANGED <<Contents, Hand>>
<1>1. /\ Contents' = Contents /\ Chained'
      /\ \A c : Queued(c)' <=> Queued(c)
  BY SameQueue DEF QueueInv
<1>2. Hand' = Hand
  BY DEF Hand, Same
<1>3. \A u \in Thread : Knows(u)'
  BY OthersSame
<1>4. QueueApart' /\ TailNear'
  BY <1>1, <1>2 DEF QueueInv, QueueApart, TailNear
<1> QED BY <1>1, <1>2, <1>3, <1>4 DEF QueueInv

\* A thread that goes to a line at which it holds the same.
LEMMA Goes ==
  ASSUME QueueInv, QueueTypeOK', NEW t \in Thread, NEW l \in Labels, Goto(t, l),
         UNCHANGED <<enq_lock, deq_lock, cell>>,
         l \in Enqueuing <=> pc[t] \in Enqueuing,
         l \in Dequeuing <=> pc[t] \in Dequeuing,
         l = "elock" <=> pc[t] = "elock", l = "got" <=> pc[t] = "got"
  PROVE  Locked' /\ Holding'
<1>1. pc' \in [Thread -> Labels] /\ pc'[t] = l /\ \A u \in Thread \ {t} : pc'[u] = pc[u]
  BY DEF QueueInv, Holding, Goto
<1>2. Locked'
  BY <1>1 DEF QueueInv, Locked
<1>3. Holding'
  BY <1>1 DEF QueueInv, Holding
<1> QED BY <1>2, <1>3

LEMMA GetTailToLinkInv ==
  ASSUME ~ Reloads, QueueInv, QueueTypeOK', NEW t \in Thread, GetTailToLink(t)
  PROVE  QueueInv' /\ UNCHANGED <<Contents, Hand>>
<1>0. QueueTypeOK /\ Knows(t) /\ tail' = tail /\ pc \in [Thread -> Labels]
  BY DEF QueueInv, GetTailToLink, GetTail, Loaded, Holding
<1>1. \A u \in Thread \ {t} : Same(u)
  BY <1>0 DEF GetTailToLink, GetTail, QueueTypeOK, Goto, Same
<1>2. PICK l \in {"eget", "echeck", "enext"} : Goto(t, l) /\ pc'[t] = l
  BY <1>0 DEF GetTailToLink, GetTail, Goto
<1>3. pc[t] \in {"eget", "echeck"}
  BY DEF GetTailToLink, GetTail
<1>4. Locked' /\ Holding'
  BY <1>2, <1>3, Goes DEF GetTailToLink, locks, Labels, Enqueuing, Linking, Dequeuing
<1>5. Knows(t)'
  <2>1. UNCHANGED <<next, head, tail, cell, next_ptr, loop_cnt>>
    BY <1>0 DEF GetTailToLink
  <2>2. Seen(t)'
    BY <1>0 DEF GetTailToLink, GetTail, QueueTypeOK, Knows, Seen
  <2>3. EnqKnows(t)'
    BY <1>0, <1>2, <1>3, <2>1 DEF EnqKnows, Linking, Knows
  <2>4. DeqKnows(t)'
    BY <1>0, <1>2, <2>1 DEF Knows, DeqKnows
  <2> QED BY <2>2, <2>3, <2>4 DEF Knows
<1> QED BY <1>0, <1>1, <1>2, <1>3, <1>4, <1>5, QueueQuietStep DEF GetTailToLink, user

LEMMA ReadTailNextInv ==
  ASSUME QueueInv, QueueTypeOK', NEW t \in Thread, ReadTailNext(t)
  PROVE  QueueInv' /\ UNCHANGED <<Contents, Hand>>
<1>0. QueueTypeOK /\ Knows(t) /\ pc \in [Thread -> Labels]
  BY DEF QueueInv, Holding
<1>1. \A u \in Thread \ {t} : Same(u)
  BY <1>0 DEF ReadTailNext, QueueTypeOK, Goto, Same
<1>2. pc[t] = "enext" /\ pc'[t] = "etest"
  BY <1>0 DEF ReadTailNext, Goto
<1>3. Locked' /\ Holding'
  BY <1>2, Goes DEF ReadTailNext, locks, Labels, Enqueuing, Linking, Dequeuing
<1>4. Knows(t)'
  BY <1>0, <1>2 DEF ReadTailNext, QueueTypeOK, Knows, Seen, EnqKnows, DeqKnows, Linking
<1> QED BY <1>1, <1>2, <1>3, <1>4, QueueQuietStep DEF ReadTailNext, user

LEMMA TestTailInv ==
  ASSUME QueueInv, QueueTypeOK', NEW t \in Thread, TestTail(t)
  PROVE  QueueInv' /\ UNCHANGED <<Contents, Hand>>
<1>0. QueueTypeOK /\ Knows(t) /\ pc \in [Thread -> Labels]
  BY DEF QueueInv, Holding
<1>1. \A u \in Thread \ {t} : Same(u)
  BY <1>0 DEF TestTail, QueueTypeOK, Goto, Same
<1>2. PICK l \in {"elink", "eget"} :
         /\ Goto(t, l) /\ pc'[t] = l
         /\ l = "elink" => TailUnmoved(t)
  BY <1>0 DEF TestTail, Goto
<1>3. pc[t] = "etest"
  BY DEF TestTail
<1>4. Locked' /\ Holding'
  BY <1>2, <1>3, Goes DEF TestTail, locks, Labels, Enqueuing, Linking, Dequeuing
<1>5. Knows(t)'
  BY <1>0, <1>2, <1>3 DEF TestTail, TailUnmoved, Knows, Seen, EnqKnows, DeqKnows, Linking
<1> QED BY <1>1, <1>2, <1>3, <1>4, <1>5, QueueQuietStep DEF TestTail, user

LEMMA CallDequeueInv ==
  ASSUME QueueInv, QueueTypeOK', NEW t \in Thread, CallDequeue(t)
  PROVE  QueueInv' /\ UNCHANGED <<Contents, Hand>>
<1>0. QueueTypeOK /\ Knows(t) /\ pc \in [Thread -> Labels]
  BY DEF QueueInv, Holding
<1>1. \A u \in Thread \ {t} : Same(u)
  BY <1>0 DEF CallDequeue, QueueTypeOK, Goto, Same
<1>2. pc[t] = "idle" /\ pc'[t] = "dlock"
  BY <1>0 DEF CallDequeue, Goto
<1>3. Locked' /\ Holding'
  BY <1>2, Goes DEF CallDequeue, locks, Labels, Enqueuing, Linking, Dequeuing
<1>4. Knows(t)'
  BY <1>0, <1>2 DEF CallDequeue, Knows, Seen, EnqKnows, DeqKnows, Linking
<1> QED BY <1>1, <1>2, <1>3, <1>4, QueueQuietStep DEF CallDequeue, user

LEMMA StartDequeueInv ==
  ASSUME QueueInv, QueueTypeOK', NEW t \in Thread, StartDequeue(t)
  PROVE  QueueInv' /\ UNCHANGED <<Contents, Hand>>
<1>0. QueueTypeOK /\ Knows(t) /\ pc \in [Thread -> Labels]
  BY DEF QueueInv, Holding
<1>1. \A u \in Thread \ {t} : Same(u)
  BY <1>0 DEF StartDequeue, QueueTypeOK, Goto, Same
<1>2. pc[t] = "dlock" /\ pc'[t] = "dget" /\ pc' \in [Thread -> Labels]
  BY <1>0 DEF StartDequeue, Goto, Labels, Dequeuing
<1>3. Locked'
  BY <1>1, <1>2, QueueAssumption
  DEF QueueInv, Locked, StartDequeue, LockDequeue, Same, Enqueuing, Linking, Dequeuing, Node
<1>4. Holding'
  BY <1>1, <1>2 DEF QueueInv, Holding, StartDequeue, Same, Enqueuing, Linking
<1>5. Knows(t)'
  BY <1>0, <1>2 DEF StartDequeue, QueueTypeOK, Knows, Seen, EnqKnows, DeqKnows, Linking
<1> QED BY <1>1, <1>2, <1>3, <1>4, <1>5, QueueQuietStep DEF StartDequeue, user

LEMMA GetTailToCompareInv ==
  ASSUME ~ Reloads, QueueInv, QueueTypeOK', NEW t \in Thread, GetTailToCompare(t)
  PROVE  QueueInv' /\ UNCHANGED <<Contents, Hand>>
<1>0. QueueTypeOK /\ Knows(t) /\ tail' = tail /\ pc \in [Thread -> Labels]
  BY DEF QueueInv, GetTailToCompare, GetTail, Loaded, Holding
<1>1. \A u \in Thread \ {t} : Same(u)
  BY <1>0 DEF GetTailToCompare, GetTail, QueueTypeOK, Goto, Same
<1>2. PICK l \in {"dget", "dcheck", "dnext"} : Goto(t, l) /\ pc'[t] = l
  BY <1>0 DEF GetTailToCompare, GetTail, Goto
<1>3. pc[t] \in {"dget", "dcheck"}
  BY DEF GetTailToCompare, GetTail
<1>4. Locked' /\ Holding'
  BY <1>2, <1>3, Goes DEF GetTailToCompare, locks, Labels, Enqueuing, Linking, Dequeuing
<1>5. Knows(t)'
  <2>1. UNCHANGED <<next, head, tail, cell, next_ptr, loop_cnt>>
    BY <1>0 DEF GetTailToCompare
  <2>2. Seen(t)'
    BY <1>0 DEF GetTailToCompare, GetTail, QueueTypeOK, Knows, Seen
  <2>3. EnqKnows(t)'
    BY <1>0, <1>2, <1>3, <2>1 DEF EnqKnows, Linking, Knows
  <2>4. DeqKnows(t)'
    <3>1. CASE pc[t] = "dget"
      <4>1. pc'[t] = "dcheck" /\ tail_seen'[t] = tail
        BY <1>0, <3>1 DEF GetTailToCompare, GetTail, QueueTypeOK, Goto
      <4> QED BY <1>0, <2>1, <3>1, <4>1 DEF Knows, DeqKnows
    <3>2. CASE pc[t] = "dcheck"
      <4>1. pc'[t] \in {"dnext", "dget"} /\ UNCHANGED tail_seen
        BY <1>0, <3>2 DEF GetTailToCompare, GetTail, Goto
      <4> QED BY <1>0, <2>1, <3>2, <4>1 DEF Knows, DeqKnows
    <3> QED BY <1>3, <3>1, <3>2
  <2> QED BY <2>2, <2>3, <2>4 DEF Knows
<1> QED BY <1>0, <1>1, <1>2, <1>3, <1>4, <1>5, QueueQuietStep DEF GetTailToCompare, user

LEMMA ReadHeadNextInv ==
  ASSUME QueueInv, QueueTypeOK', NEW t \in Thread, ReadHeadNext(t)
  PROVE  QueueInv' /\ UNCHANGED <<Contents, Hand>>
<1>0. QueueTypeOK /\ Knows(t) /\ pc \in [Thread -> Labels]
  BY DEF QueueInv, Holding
<1>1. \A u \in Thread \ {t} : Same(u)
  BY <1>0 DEF ReadHeadNext, QueueTypeOK, Goto, Same
<1>2. PICK l \in {"empty", "dhelp", "dloop", "dtake"} :
         /\ Goto(t, l) /\ pc'[t] = l
         /\ l = "dhelp" => TailReached(t) /\ next[head.ptr] # Null
         /\ l = "dtake" => ~ TailReached(t) /\ next[head.ptr] # Null
         /\ l = "dloop" => ~ TailReached(t) /\ next[head.ptr] = Null
  BY <1>0 DEF ReadHeadNext, Goto
<1>3. pc[t] = "dnext"
  BY DEF ReadHeadNext
<1>4. Locked' /\ Holding'
  BY <1>2, <1>3, Goes DEF ReadHeadNext, locks, Labels, Enqueuing, Linking, Dequeuing
<1>5. ~ TailReached(t) => tail.ptr # head.ptr /\ next[head.ptr] # Null
  <2> SUFFICES ASSUME ~ TailReached(t)
               PROVE  tail.ptr # head.ptr /\ next[head.ptr] # Null
    OBVIOUS
  <2>1. tail.ptr # head.ptr
    BY <1>0, <1>3 DEF TailReached, Knows, DeqKnows
  <2>2. Queued(tail.ptr) /\ Queued(head.ptr)
    BY QueueFacts DEF QueueInv, TailNear
  <2>3. next[head.ptr] = Null => Len(Contents) = 1
    <3>1. next[head.ptr] = Null => Contents[1] = Contents[Len(Contents)]
      BY <2>2, QueueFacts DEF QueueInv
    <3>2. /\ Contents \in Seq(Node) /\ Contents # << >>
          /\ \A i, j \in 1 .. Len(Contents) : Contents[i] = Contents[j] => i = j
      BY QueueFacts DEF QueueInv
    <3>3. 1 \in 1 .. Len(Contents) /\ Len(Contents) \in 1 .. Len(Contents)
      BY <3>2
    <3> QED BY <3>1, <3>2, <3>3
  <2>4. Len(Contents) = 1 => tail.ptr = head.ptr
    BY <2>2, QueueFacts DEF QueueInv, Queued, Among
  <2> QED BY <2>1, <2>3, <2>4
<1>6. Knows(t)'
  <2>1. /\ UNCHANGED <<next, head, tail, cell, tail_seen, loop_cnt>>
        /\ next_ptr'[t] = next[head.ptr]
    BY <1>0 DEF ReadHeadNext, QueueTypeOK
  <2>2. Seen(t)' /\ EnqKnows(t)'
    BY <1>0, <1>2, <2>1 DEF Knows, Seen, EnqKnows, Linking
  <2>3. DeqKnows(t)'
    BY <1>0, <1>2, <1>3, <1>5, <2>1 DEF Knows, DeqKnows, TailReached
  <2> QED BY <2>2, <2>3 DEF Knows
<1> QED BY <1>1, <1>2, <1>3, <1>4, <1>6, QueueQuietStep DEF ReadHeadNext, user

LEMMA ReturnEmptyInv ==
  ASSUME QueueInv, QueueTypeOK', NEW t \in Thread, ReturnEmpty(t)
  PROVE  QueueInv' /\ UNCHANGED <<Contents, Hand>>
<1>0. QueueTypeOK /\ Knows(t) /\ pc \in [Thread -> Labels]
  BY DEF QueueInv, Holding
<1>1. \A u \in Thread \ {t} : Same(u)
  BY <1>0 DEF ReturnEmpty, QueueTypeOK, Goto, Same
<1>2. pc[t] = "empty" /\ pc'[t] = "idle" /\ pc' \in [Thread -> Labels]
  BY <1>0 DEF ReturnEmpty, Goto, Labels
<1>3. Locked'
  BY <1>1, <1>2, QueueAssumption
  DEF QueueInv, Locked, ReturnEmpty, Same, Enqueuing, Linking, Dequeuing, Node
<1>4. Holding'
  BY <1>1, <1>2 DEF QueueInv, Holding, ReturnEmpty, Same, Enqueuing, Linking
<1>5. Knows(t)'
  BY <1>0, <1>2 DEF ReturnEmpty, Knows, Seen, EnqKnows, DeqKnows, Linking
<1> QED BY <1>1, <1>2, <1>3, <1>4, <1>5, QueueQuietStep DEF ReturnEmpty, user

LEMMA LoopInv ==
  ASSUME QueueInv, QueueTypeOK', NEW t \in Thread, Loop(t)
  PROVE  QueueInv' /\ UNCHANGED <<Contents, Hand>>
<1>0. QueueTypeOK /\ Knows(t) /\ pc \in [Thread -> Labels]
  BY DEF QueueInv, Holding
<1>1. \A u \in Thread \ {t} : Same(u)
  BY <1>0 DEF Loop, QueueTypeOK, Goto, Same
<1>2. PICK l \in {"empty", "dget"} : Goto(t, l) /\ pc'[t] = l
  BY <1>0 DEF Loop, Goto
<1>3. pc[t] = "dloop"
  BY DEF Loop
<1>4. Locked' /\ Holding'
  BY <1>2, <1>3, Goes DEF Loop, locks, Labels, Enqueuing, Linking, Dequeuing
<1>5. Knows(t)'
  <2>1. /\ UNCHANGED <<next, head, tail, cell, tail_seen, next_ptr>>
        /\ loop_cnt'[t] = 1
    BY <1>0, <1>3 DEF Loop, QueueTypeOK, Knows, DeqKnows
  <2> QED BY <1>0, <1>2, <1>3, <2>1 DEF Knows, Seen, EnqKnows, DeqKnows, Linking
<1> QED BY <1>1, <1>2, <1>3, <1>4, <1>5, QueueQuietStep DEF Loop, user
-----------------------------------------------------------------------------
(* The steps that write a pointer outside the queue.                       *)

LEMMA CallEnqueueInv ==
  ASSUME QueueInv, QueueTypeOK', NEW t \in Thread, CallEnqueue(t)
  PROVE  QueueInv' /\ \E c \in Node : Q!Bring(t, c)
<1>0. QueueTypeOK /\ Knows(t) /\ pc \in [Thread -> Labels]
  BY DEF QueueInv, Holding
<1>1. PICK c \in pool :
         /\ pool' = pool \ {c}
         /\ cell' = [cell EXCEPT ![t] = c]
         /\ next' = [next EXCEPT ![c] = Null]
  BY DEF CallEnqueue
<1>2. /\ pc[t] = "idle" /\ pc'[t] = "elock" /\ pc' \in [Thread -> Labels]
      /\ UNCHANGED <<head, tail, locks, tail_seen, next_ptr, loop_cnt>>
  BY <1>0 DEF CallEnqueue, Goto, Labels
<1>3. \A u \in Thread \ {t} : Same(u)
  BY <1>0, <1>1 DEF CallEnqueue, QueueTypeOK, Goto, Same
<1>4. c \in Cell /\ c \in Node /\ c # Null /\ cell'[t] = c /\ cell[t] = Null
  BY <1>0, <1>1, <1>2, QueueAssumption
  DEF QueueTypeOK, Node, QueueInv, Holding, Enqueuing, Linking
<1>5. ~ Queued(c) /\ \A u \in Thread : Hand[u] # c
  BY <1>1, <1>4 DEF QueueInv, QueueApart
<1>6. /\ Contents' = Contents /\ Chained'
      /\ \A x : Queued(x)' <=> Queued(x)
      /\ \A x : Queued(x) => next'[x] = next[x]
  BY <1>1, <1>2, <1>5, Elsewhere
<1>7. Locked'
  BY <1>2, <1>3
  DEF QueueInv, Locked, locks, Same, Enqueuing, Linking, Dequeuing
<1>8. Holding'
  BY <1>2, <1>3, <1>4 DEF QueueInv, Holding, Same, Enqueuing, Linking
<1>9. Hand' = [Hand EXCEPT ![t] = c] /\ Hand[t] = Null
  BY <1>2, <1>3, <1>4 DEF Hand, Same
<1>10. QueueApart'
  <2>1. Hand'[t] = c /\ \A u \in Thread : u # t => Hand'[u] = Hand[u]
    BY <1>9 DEF Hand
  <2> QED BY <1>1, <1>5, <1>6, <2>1 DEF QueueInv, QueueApart
<1>11. TailNear'
  BY <1>1, <1>2, <1>5, TailElsewhere
<1>12. ASSUME NEW u \in Thread, u # t PROVE Knows(u)'
  <2>1. pc[u] \in Linking => Hand[u] = cell[u]
    BY DEF Hand, Linking
  <2> QED BY <1>1, <1>2, <1>3, <1>5, <1>12, <2>1, OthersElsewhere
<1>13. Knows(t)'
  BY <1>0, <1>2 DEF Knows, Seen, EnqKnows, DeqKnows, Linking
<1>14. Q!Bring(t, c)
  BY <1>5, <1>6, <1>9 DEF Q!Bring, Queued, Among
<1> QED BY <1>4, <1>6, <1>7, <1>8, <1>10, <1>11, <1>12, <1>13, <1>14 DEF QueueInv

LEMMA StartEnqueueInv ==
  ASSUME QueueInv, QueueTypeOK', NEW t \in Thread, StartEnqueue(t)
  PROVE  QueueInv' /\ UNCHANGED <<Contents, Hand>>
<1>0. QueueTypeOK /\ Knows(t) /\ pc \in [Thread -> Labels]
  BY DEF QueueInv, Holding
<1>2. /\ pc[t] = "elock" /\ pc'[t] = "eget" /\ pc' \in [Thread -> Labels]
      /\ next' = [next EXCEPT ![cell[t]] = Null]
      /\ UNCHANGED <<head, tail, deq_lock, pool, cell, tail_seen, next_ptr, loop_cnt>>
  BY <1>0 DEF StartEnqueue, Goto, Labels, Enqueuing, Linking, user
<1>3. \A u \in Thread \ {t} : Same(u)
  BY <1>0 DEF StartEnqueue, QueueTypeOK, Goto, Same
<1>4. cell[t] \in Node /\ cell[t] # Null /\ Hand[t] = cell[t]
  BY <1>0, <1>2 DEF QueueTypeOK, QueueInv, Holding, Hand
<1>5. ~ Queued(cell[t])
  BY <1>4 DEF QueueInv, QueueApart
<1>6. /\ Contents' = Contents /\ Chained'
      /\ \A x : Queued(x)' <=> Queued(x)
      /\ \A x : Queued(x) => next'[x] = next[x]
  BY <1>2, <1>5, Elsewhere
<1>7. Locked'
  BY <1>2, <1>3, QueueAssumption
  DEF QueueInv, Locked, StartEnqueue, LockEnqueue, Same, Enqueuing, Linking, Dequeuing, Node
<1>8. Holding'
  BY <1>2, <1>3 DEF QueueInv, Holding, Same, Enqueuing, Linking
<1>9. Hand' = Hand
  BY <1>2, <1>3 DEF Hand, Same
<1>10. QueueApart'
  BY <1>2, <1>6, <1>9 DEF QueueInv, QueueApart
<1>11. TailNear'
  BY <1>2, <1>5, TailElsewhere
<1>12. ASSUME NEW u \in Thread, u # t PROVE Knows(u)'
  <2>1. pc[u] \in Linking => cell[u] # cell[t]
    <3>1. pc[u] \in Linking => Hand[u] = cell[u]
      BY DEF Hand, Linking
    <3> QED BY <1>4, <1>12, <3>1 DEF QueueInv, QueueApart
  <2> QED BY <1>2, <1>3, <1>5, <1>12, <2>1, OthersElsewhere
<1>13. Knows(t)'
  <2>1. next'[cell'[t]] = Null
    BY <1>0, <1>2, <1>4 DEF QueueTypeOK
  <2> QED BY <1>0, <1>2, <2>1 DEF Knows, Seen, EnqKnows, DeqKnows, Linking
<1> QED BY <1>6, <1>7, <1>8, <1>9, <1>10, <1>11, <1>12, <1>13 DEF QueueInv

LEMMA ReturnCellInv ==
  ASSUME QueueInv, QueueTypeOK', NEW t \in Thread, ReturnCell(t)
  PROVE  QueueInv' /\ Q!Release(t)
<1>0. QueueTypeOK /\ Knows(t) /\ pc \in [Thread -> Labels]
  BY DEF QueueInv, Holding
<1>1. PICK d : next' = [next EXCEPT ![cell[t]] = d]
  BY DEF ReturnCell
<1>2. /\ pc[t] = "got" /\ pc'[t] = "idle" /\ pc' \in [Thread -> Labels]
      /\ pool' = pool \cup {cell[t]}
      /\ cell' = [cell EXCEPT ![t] = Null]
      /\ UNCHANGED <<head, tail, locks, tail_seen, next_ptr, loop_cnt>>
  BY <1>0 DEF ReturnCell, Goto, Labels
<1>3. \A u \in Thread \ {t} : Same(u)
  BY <1>0 DEF ReturnCell, QueueTypeOK, Goto, Same
<1>4. cell[t] \in Cell /\ cell[t] # Null /\ Hand[t] = cell[t] /\ cell'[t] = Null
  BY <1>0, <1>2 DEF QueueTypeOK, QueueInv, Holding, Hand
<1>5. ~ Queued(cell[t])
  BY <1>4 DEF QueueInv, QueueApart
<1>6. /\ Contents' = Contents /\ Chained'
      /\ \A x : Queued(x)' <=> Queued(x)
      /\ \A x : Queued(x) => next'[x] = next[x]
  BY <1>1, <1>2, <1>5, Elsewhere
<1>7. Locked'
  BY <1>2, <1>3 DEF QueueInv, Locked, locks, Same, Enqueuing, Linking, Dequeuing
<1>8. Holding'
  BY <1>2, <1>3, <1>4 DEF QueueInv, Holding, Same, Enqueuing, Linking
<1>9. Hand' = [Hand EXCEPT ![t] = Null]
  BY <1>2, <1>3, <1>4 DEF Hand, Same
<1>10. QueueApart'
  <2>1. Hand'[t] = Null /\ \A u \in Thread : u # t => Hand'[u] = Hand[u]
    BY <1>9 DEF Hand
  <2> QED BY <1>2, <1>4, <1>5, <1>6, <2>1 DEF QueueInv, QueueApart
<1>11. TailNear'
  BY <1>1, <1>2, <1>5, TailElsewhere
<1>12. ASSUME NEW u \in Thread, u # t PROVE Knows(u)'
  <2>1. pc[u] \in Linking => cell[u] # cell[t]
    <3>1. pc[u] \in Linking => Hand[u] = cell[u]
      BY DEF Hand, Linking
    <3> QED BY <1>4, <1>12, <3>1 DEF QueueInv, QueueApart
  <2> QED BY <1>1, <1>2, <1>3, <1>5, <1>12, <2>1, OthersElsewhere
<1>13. Knows(t)'
  BY <1>0, <1>2 DEF Knows, Seen, EnqKnows, DeqKnows, Linking
<1>14. Q!Release(t)
  BY <1>4, <1>6, <1>9 DEF Q!Release
<1> QED BY <1>6, <1>7, <1>8, <1>10, <1>11, <1>12, <1>13, <1>14 DEF QueueInv
-----------------------------------------------------------------------------
(* The steps that link a cell, move the tail or take the head.             *)

\* A step that moves the tail to the next cell, or leaves it.
Moves == tail' = Pair(next[tail.ptr], tail.val + 1) /\ next[tail.ptr] # Null

LEMMA TailMoved ==
  ASSUME QueueInv, UNCHANGED <<next, head>>, Moves \/ UNCHANGED tail
  PROVE  TailNear'
<1>1. \A c : Queued(c)' <=> Queued(c)
  BY SameQueue DEF QueueInv
<1>2. CASE UNCHANGED tail
  BY <1>1, <1>2 DEF QueueInv, TailNear
<1>3. CASE Moves
  <2>1. tail'.ptr = next[tail.ptr] /\ Queued(next[tail.ptr]) /\ next[next[tail.ptr]] = Null
    BY <1>3, QueueFacts DEF QueueInv, TailNear, Moves, Pair
  <2> QED BY <1>1, <2>1 DEF TailNear
<1> QED BY <1>2, <1>3

\* The queue and the hands are the same after the tail has moved.
LEMMA MoveStep ==
  ASSUME QueueInv, QueueTypeOK', UNCHANGED <<next, head, pool>>, Moves \/ UNCHANGED tail,
         NEW t \in Thread, \A u \in Thread \ {t} : Same(u),
         Hand' = Hand, Locked', Holding', Knows(t)'
  PROVE  QueueInv' /\ UNCHANGED <<Contents, Hand>>
<1>1. /\ Contents' = Contents /\ Chained'
      /\ \A c : Queued(c)' <=> Queued(c)
  BY SameQueue DEF QueueInv
<1>2. QueueApart'
  BY <1>1 DEF QueueInv, QueueApart
<1>3. TailNear'
  BY TailMoved
<1>4. \A u \in Thread : Knows(u)'
  BY OthersMoved, OthersSame DEF Moves
<1> QED BY <1>1, <1>2, <1>3, <1>4 DEF QueueInv

LEMMA LinkCellInv ==
  ASSUME QueueInv, QueueTypeOK', NEW t \in Thread, LinkCell(t)
  PROVE  QueueInv' /\ (Q!Link(t) \/ UNCHANGED <<Contents, Hand>>)
<1>0. QueueTypeOK /\ Knows(t) /\ pc \in [Thread -> Labels]
  BY DEF QueueInv, Holding
<1>1. \A u \in Thread \ {t} : Same(u)
  BY <1>0 DEF LinkCell, QueueTypeOK, Goto, Same
<1>2. /\ pc[t] = "elink"
      /\ cell[t] \in Node /\ cell[t] # Null /\ next[cell[t]] = Null
      /\ UNCHANGED <<head, locks, user, cell, tail_seen, next_ptr, loop_cnt>>
  BY <1>0 DEF LinkCell, QueueInv, Holding, QueueTypeOK, Enqueuing, Linking, Knows, EnqKnows
<1>3. CASE next_ptr[t] = Null
  <2>1. tail = tail_seen[t] /\ next[tail.ptr] = Null
    BY <1>0, <1>2, <1>3 DEF Knows, EnqKnows
  <2>2. /\ next' = [next EXCEPT ![tail.ptr] = cell[t]]
        /\ tail' = tail
        /\ Goto(t, "eswing") /\ pc'[t] = "eswing"
    BY <1>0, <1>3, <2>1 DEF LinkCell, Goto
  <2>3. Hand[t] = cell[t] /\ ~ Queued(cell[t])
    BY <1>2 DEF QueueInv, QueueApart, Hand
  <2>4. /\ Contents' = Append(Contents, cell[t])
        /\ Chained'
        /\ \A x : Queued(x)' <=> Queued(x) \/ x = cell[t]
        /\ next'[tail.ptr] = cell[t] /\ next'[cell[t]] = Null
    BY <1>2, <2>1, <2>2, <2>3, Behind
  <2>5. Locked' /\ Holding'
    BY <1>2, <2>2, Goes DEF locks, Labels, Enqueuing, Linking, Dequeuing
  <2>6. Hand' = [Hand EXCEPT ![t] = Null]
    BY <1>1, <1>2, <2>2 DEF Hand, Same
  <2>7. QueueApart'
    <3>1. Hand'[t] = Null /\ \A u \in Thread : u # t => Hand'[u] = Hand[u]
      BY <2>6 DEF Hand
    <3> QED BY <1>2, <2>3, <2>4, <3>1 DEF QueueInv, QueueApart, user
  <2>8. TailNear'
    BY <2>2, <2>4 DEF QueueInv, TailNear
  <2>9. ASSUME NEW u \in Thread, u # t PROVE Knows(u)'
    <3>1. pc[u] \notin Enqueuing
      BY <1>2, <2>9 DEF QueueInv, Locked, Enqueuing, Linking
    <3> QED BY <1>1, <1>2, <2>1, <2>2, <2>3, <2>9, <3>1, OthersBehind
  <2>10. Knows(t)'
    <3>1. Seen(t)' /\ DeqKnows(t)'
      BY <1>0, <1>2, <2>2 DEF Knows, Seen, DeqKnows
    <3>2. EnqKnows(t)'
      BY <1>2, <2>2, <2>4 DEF EnqKnows, Linking
    <3> QED BY <3>1, <3>2 DEF Knows
  <2>11. Q!Link(t)
    BY <1>2, <2>3, <2>4, <2>6 DEF Q!Link
  <2> QED BY <2>4, <2>5, <2>7, <2>8, <2>9, <2>10, <2>11 DEF QueueInv
<1>4. CASE next_ptr[t] # Null
  <2>1. /\ UNCHANGED next
        /\ Goto(t, "eget") /\ pc'[t] = "eget"
        /\ cas2_tail(next[tail_seen[t].ptr], tail_seen[t])
    BY <1>0, <1>4 DEF LinkCell, Goto
  <2>2. Moves \/ UNCHANGED tail
    BY <1>0, <1>2, <1>4, <2>1 DEF cas2_tail, Moves, Knows, EnqKnows
  <2>3. Locked' /\ Holding'
    BY <1>2, <2>1, Goes DEF locks, Labels, Enqueuing, Linking, Dequeuing
  <2>4. Hand' = Hand
    BY <1>1, <1>2, <2>1 DEF Hand, Same
  <2>5. Knows(t)'
    <3>1. Seen(t)'
      BY <1>0, <1>2, <2>2 DEF Knows, Seen, Moves, Pair, QueueTypeOK
    <3>2. EnqKnows(t)' /\ DeqKnows(t)'
      BY <1>0, <1>2, <2>1 DEF EnqKnows, DeqKnows, Knows, Linking
    <3> QED BY <3>1, <3>2 DEF Knows
  <2> QED BY <1>1, <1>2, <2>1, <2>2, <2>3, <2>4, <2>5, MoveStep DEF user
<1> QED BY <1>3, <1>4

LEMMA SwingTailInv ==
  ASSUME QueueInv, QueueTypeOK', NEW t \in Thread, SwingTail(t)
  PROVE  QueueInv' /\ UNCHANGED <<Contents, Hand>>
<1>0. QueueTypeOK /\ Knows(t) /\ pc \in [Thread -> Labels]
  BY DEF QueueInv, Holding
<1>1. \A u \in Thread \ {t} : Same(u)
  BY <1>0 DEF SwingTail, QueueTypeOK, Goto, Same
<1>2. PICK l \in {"dlock", "idle"} : Goto(t, l) /\ pc'[t] = l
  BY <1>0 DEF SwingTail, AfterEnqueue, Goto
<1>3. /\ pc[t] = "eswing" /\ cas2_tail(cell[t], tail_seen[t])
      /\ enq_lock' = Null /\ cell' = [cell EXCEPT ![t] = Null] /\ cell'[t] = Null
      /\ cell[t] # Null
      /\ UNCHANGED <<next, head, deq_lock, user, tail_seen, next_ptr, loop_cnt>>
  BY <1>0 DEF SwingTail, QueueTypeOK, QueueInv, Holding, Enqueuing
<1>4. Moves \/ UNCHANGED tail
  BY <1>0, <1>3 DEF cas2_tail, Moves, Knows, EnqKnows
<1>5. pc' \in [Thread -> Labels]
  BY <1>0, <1>2 DEF Goto, Labels
<1>6. Locked'
  BY <1>1, <1>2, <1>3, QueueAssumption
  DEF QueueInv, Locked, Same, Enqueuing, Linking, Dequeuing, Node
<1>7. Holding'
  BY <1>1, <1>2, <1>3, <1>5 DEF QueueInv, Holding, Same, Enqueuing, Linking
<1>8. Hand' = Hand
  BY <1>1, <1>2, <1>3 DEF Hand, Same
<1>9. Knows(t)'
  <2>1. Seen(t)'
    BY <1>0, <1>3, <1>4 DEF Knows, Seen, Moves, Pair, QueueTypeOK
  <2>2. EnqKnows(t)' /\ DeqKnows(t)'
    BY <1>0, <1>2, <1>3 DEF EnqKnows, DeqKnows, Knows, Linking
  <2> QED BY <2>1, <2>2 DEF Knows
<1> QED BY <1>1, <1>3, <1>4, <1>6, <1>7, <1>8, <1>9, MoveStep DEF user

LEMMA HelpDequeueInv ==
  ASSUME QueueInv, QueueTypeOK', NEW t \in Thread, HelpDequeue(t)
  PROVE  QueueInv' /\ UNCHANGED <<Contents, Hand>>
<1>0. QueueTypeOK /\ Knows(t) /\ pc \in [Thread -> Labels]
  BY DEF QueueInv, Holding
<1>1. \A u \in Thread \ {t} : Same(u)
  BY <1>0 DEF HelpDequeue, QueueTypeOK, Goto, Same
<1>2. /\ pc[t] = "dhelp" /\ pc'[t] = "dloop" /\ Goto(t, "dloop")
      /\ cas2_tail(next_ptr[t], tail_seen[t])
      /\ UNCHANGED <<next, head, locks, user, cell, tail_seen, next_ptr, loop_cnt>>
  BY <1>0 DEF HelpDequeue, Goto
<1>3. Moves \/ UNCHANGED tail
  BY <1>0, <1>2 DEF cas2_tail, Moves, Knows, DeqKnows
<1>4. tail'.ptr # head.ptr
  <2>1. CASE tail = tail_seen[t]
    <3>1. tail'.ptr = next[head.ptr] /\ next[head.ptr] # Null
      BY <1>0, <1>2, <2>1 DEF cas2_tail, Pair, Knows, DeqKnows
    <3> QED BY <3>1, QueueFacts DEF QueueInv
  <2>2. CASE tail # tail_seen[t]
    BY <1>0, <1>2, <2>2 DEF cas2_tail, Knows, DeqKnows
  <2> QED BY <2>1, <2>2
<1>5. Locked' /\ Holding'
  BY <1>2, Goes DEF locks, Labels, Enqueuing, Linking, Dequeuing
<1>6. Hand' = Hand
  BY <1>1, <1>2 DEF Hand, Same
<1>7. Knows(t)'
  <2>1. Seen(t)'
    BY <1>0, <1>2, <1>3 DEF Knows, Seen, Moves, Pair, QueueTypeOK
  <2>2. EnqKnows(t)' /\ DeqKnows(t)'
    BY <1>0, <1>2, <1>4 DEF EnqKnows, DeqKnows, Knows, Linking
  <2> QED BY <2>1, <2>2 DEF Knows
<1> QED BY <1>1, <1>2, <1>3, <1>5, <1>6, <1>7, MoveStep DEF user

LEMMA TakeHeadInv ==
  ASSUME QueueInv, QueueTypeOK', NEW t \in Thread, TakeHead(t)
  PROVE  QueueInv' /\ Q!Unlink(t)
<1>0. QueueTypeOK /\ Knows(t) /\ pc \in [Thread -> Labels]
  BY DEF QueueInv, Holding
<1>1. \A u \in Thread \ {t} : Same(u)
  BY <1>0 DEF TakeHead, QueueTypeOK, Goto, Same
<1>2. PICK l \in {"elock", "got"} :
         Goto(t, l) /\ pc'[t] = l /\ (l = "got" => head.ptr # Dummy)
  BY <1>0 DEF TakeHead, Goto
<1>3. /\ pc[t] = "dtake" /\ tail.ptr # head.ptr
      /\ head'.ptr = next[head.ptr] /\ next[head.ptr] # Null
      /\ cell' = [cell EXCEPT ![t] = head.ptr] /\ cell'[t] = head.ptr
      /\ cell[t] = Null /\ deq_lock' = Null
      /\ UNCHANGED <<next, tail, enq_lock, user, tail_seen, next_ptr, loop_cnt>>
  BY <1>0
  DEF TakeHead, QueueTypeOK, QueueInv, Holding, Enqueuing, Linking, Knows, DeqKnows, Pair
<1>4. head.ptr \in Node /\ head.ptr # Null /\ Queued(head.ptr)
  BY <1>0, QueueAssumption, QueueFacts DEF QueueTypeOK, QueueInv
<1>5. /\ Contents' = Tail(Contents)
      /\ Chained'
      /\ \A x : Queued(x)' <=> Queued(x) /\ x # head.ptr
  BY <1>3, Ahead
<1>6. pc' \in [Thread -> Labels]
  BY <1>0, <1>2 DEF Goto, Labels
<1>7. Locked'
  BY <1>1, <1>2, <1>3, QueueAssumption
  DEF QueueInv, Locked, Same, Enqueuing, Linking, Dequeuing, Node
<1>8. Holding'
  BY <1>1, <1>2, <1>3, <1>4, <1>6 DEF QueueInv, Holding, Same, Enqueuing, Linking, Node
<1>9. Hand' = [Hand EXCEPT ![t] = head.ptr] /\ Hand[t] = Null
  <2>1. Hand[t] = Null
    BY <1>3 DEF Hand
  <2>2. \A u \in Thread : Hand'[u] = IF u = t THEN head.ptr ELSE Hand[u]
    BY <1>1, <1>2, <1>3 DEF Hand, Same
  <2>3. DOMAIN Hand = Thread /\ Hand' = [u \in Thread |-> Hand'[u]]
    BY DEF Hand
  <2> QED BY <2>1, <2>2, <2>3
<1>10. QueueApart'
  <2>1. Hand'[t] = head.ptr /\ \A u \in Thread : u # t => Hand'[u] = Hand[u]
    BY <1>9 DEF Hand
  <2> QED BY <1>3, <1>4, <1>5, <2>1 DEF QueueInv, QueueApart, user
<1>11. TailNear'
  BY <1>3, <1>5 DEF QueueInv, TailNear
<1>12. ASSUME NEW u \in Thread, u # t PROVE Knows(u)'
  <2>1. pc[u] \notin Dequeuing
    BY <1>3, <1>12 DEF QueueInv, Locked, Dequeuing
  <2> QED BY <1>1, <1>3, <1>12, <2>1, OthersAhead
<1>13. Knows(t)'
  BY <1>0, <1>2, <1>3 DEF Knows, Seen, EnqKnows, DeqKnows, Linking
<1>14. Q!Unlink(t)
  <2>1. Contents \in Seq(Node) /\ Contents # << >> /\ head.ptr = Head(Contents)
    BY QueueFacts DEF QueueInv
  <2>2. Len(Contents) > 1
    <3>1. head.ptr = Contents[1] /\ head.ptr # Contents[Len(Contents)]
      BY <1>3, <1>4, QueueFacts DEF QueueInv
    <3> QED BY <2>1, <3>1
  <2> QED BY <1>5, <1>9, <2>1, <2>2 DEF Q!Unlink
<1> QED BY <1>5, <1>7, <1>8, <1>10, <1>11, <1>12, <1>13, <1>14 DEF QueueInv
-----------------------------------------------------------------------------
(* The theorems.                                                           *)

LEMMA QueueInvInit == QueueInit => QueueInv /\ Contents = <<Dummy>>
<1> SUFFICES ASSUME QueueInit PROVE QueueInv /\ Contents = <<Dummy>>
  OBVIOUS
<1>1. QueueTypeOK
  BY QueueAssumption DEF QueueInit, QueueTypeOK, Node, Pair
<1>2. Linked(<<Dummy>>, head.ptr, next, Null)
  BY DEF QueueInit, Pair, Linked, Node
<1>3. IsFiniteSet(Node) /\ Null \notin Node
  BY QueueAssumption, FS_AddElement DEF Node
<1>4. Contents = <<Dummy>> /\ Chained
  <2>1. ChainOf(head.ptr, next, Null) = <<Dummy>>
    BY <1>1, <1>2, <1>3, LinkedIsChain DEF QueueTypeOK
  <2> QED BY <1>2, <2>1 DEF Contents, Chained
<1>5. \A c : Queued(c) <=> c = Dummy
  BY <1>4 DEF Queued, Among
<1>6. QueueApart
  BY <1>5, QueueAssumption DEF QueueApart, QueueInit, Hand
<1>7. TailNear
  BY <1>5 DEF TailNear, QueueInit, Pair, Node
<1>8. Locked /\ Holding
  BY QueueAssumption
  DEF QueueInit, Locked, Holding, Labels, Enqueuing, Linking, Dequeuing, Node
<1>9. \A t \in Thread : Knows(t)
  BY DEF QueueInit, Knows, Seen, EnqKnows, DeqKnows, Linking, Pair
<1> QED BY <1>1, <1>4, <1>6, <1>7, <1>8, <1>9 DEF QueueInv

\* Every step keeps the invariant, and is one of CellQueue or changes neither
\* the queue nor who holds what.
LEMMA QueueStep ==
  ASSUME ~ Reloads, QueueInv, [QueueNext]_queueVars
  PROVE  QueueInv' /\ [Q!Next]_(Q!vars)
<1>0. QueueTypeOK'
  BY QueueTypeStep
<1>1. UNCHANGED <<Contents, Hand>> => UNCHANGED Q!vars
  BY DEF Q!vars
<1>2. ASSUME NEW t \in Thread, CallEnqueue(t)
      PROVE  QueueInv' /\ [Q!Next]_(Q!vars)
  BY <1>0, <1>2, CallEnqueueInv DEF Q!Next
<1>3. ASSUME NEW t \in Thread, CallDequeue(t)
      PROVE  QueueInv' /\ [Q!Next]_(Q!vars)
  BY <1>0, <1>1, <1>3, CallDequeueInv
<1>4. ASSUME NEW t \in Thread, EnqueueStep(t)
      PROVE  QueueInv' /\ [Q!Next]_(Q!vars)
  <2>1. CASE LinkCell(t)
    BY <1>0, <1>1, <2>1, LinkCellInv DEF Q!Next
  <2>2. CASE ~ LinkCell(t)
    BY <1>0, <1>1, <1>4, <2>2, StartEnqueueInv, GetTailToLinkInv, ReadTailNextInv,
       TestTailInv, SwingTailInv DEF EnqueueStep
  <2> QED BY <2>1, <2>2
<1>5. ASSUME NEW t \in Thread, DequeueStep(t)
      PROVE  QueueInv' /\ [Q!Next]_(Q!vars)
  <2>1. CASE TakeHead(t)
    BY <1>0, <2>1, TakeHeadInv DEF Q!Next
  <2>2. CASE ReturnCell(t)
    BY <1>0, <2>2, ReturnCellInv DEF Q!Next
  <2>3. CASE ~ TakeHead(t) /\ ~ ReturnCell(t)
    BY <1>0, <1>1, <1>5, <2>3, StartDequeueInv, GetTailToCompareInv, ReadHeadNextInv,
       ReturnEmptyInv, HelpDequeueInv, LoopInv DEF DequeueStep
  <2> QED BY <2>1, <2>2, <2>3
<1>6. CASE UNCHANGED queueVars
  <2>1. \A u \in Thread : Same(u)
    BY <1>6 DEF queueVars, Same
  <2>2. UNCHANGED <<next, head, tail, pool, cell, pc, enq_lock, deq_lock>>
    BY <1>6 DEF queueVars, locks, user
  <2>3. /\ Contents' = Contents /\ Chained'
        /\ \A c : Queued(c)' <=> Queued(c)
    BY <2>2, SameQueue DEF QueueInv
  <2>4. Hand' = Hand /\ Locked' /\ Holding'
    BY <2>2 DEF QueueInv, Hand, Locked, Holding
  <2>5. QueueApart' /\ TailNear'
    BY <2>2, <2>3, <2>4 DEF QueueInv, QueueApart, TailNear
  <2>6. \A u \in Thread : Knows(u)'
    BY <2>1, <2>2, OthersSame
  <2> QED BY <1>0, <1>1, <2>3, <2>4, <2>5, <2>6 DEF QueueInv
<1> QED BY <1>2, <1>3, <1>4, <1>5, <1>6 DEF QueueNext

LEMMA QueueInvariance ==
  ASSUME ~ Reloads
  PROVE  QueueSpec => []QueueInv
<1>1. QueueInit => QueueInv
  BY QueueInvInit
<1>2. QueueInv /\ [QueueNext]_queueVars => QueueInv'
  BY QueueStep
<1> QED BY <1>1, <1>2, PTL DEF QueueSpec

\* When get keeps the copy it has taken of the pair (~ Reloads), the tail
\* never leaves the queue (LockFreeQueue.hpp:61-88, 125-135).
THEOREM TailStaysNear ==
  ASSUME ~ Reloads
  PROVE  QueueSpec => []TailIsNearEnd
<1>1. QueueInv => TailIsNearEnd
  <2> SUFFICES ASSUME QueueInv PROVE TailIsNearEnd
    OBVIOUS
  <2> DEFINE n == Len(Contents)
  <2>1. /\ Contents \in Seq(Node) /\ n \in Nat
        /\ \A i \in 1 .. n : next[Contents[i]] = IF i < n THEN Contents[i + 1] ELSE Null
        /\ Null \notin Node
    BY QueueAssumption DEF QueueInv, Chained, Linked, QueueTypeOK
  <2>2. PICK i \in 1 .. n : Contents[i] = tail.ptr
    BY DEF QueueInv, TailNear, Queued, Among
  <2>3. i \in {n - 1, n}
    <3> SUFFICES ASSUME i < n - 1 PROVE FALSE
      BY <2>1
    <3>1. /\ i + 1 \in 1 .. n /\ i + 2 \in 1 .. n
          /\ next[tail.ptr] = Contents[i + 1] /\ next[Contents[i + 1]] = Contents[i + 2]
      BY <2>1, <2>2
    <3>2. Contents[i + 1] \in Node /\ Contents[i + 2] \in Node
      BY <2>1, <3>1
    <3> QED BY <2>1, <3>1, <3>2 DEF QueueInv, TailNear
  <2> QED BY <2>1, <2>2, <2>3 DEF TailIsNearEnd, QueueInv
<1> QED BY <1>1, QueueInvariance, PTL

\* When get keeps the copy it has taken of the pair, a pointer read from the
\* tail cell is the end of the queue or leads to a cell of the queue, if the
\* counter has not moved (LockFreeQueue.hpp:69).  A build that loads the pair
\* again does not keep this (AtomicPtrIntPair.hpp:74).
THEOREM NextStaysValid ==
  ASSUME ~ Reloads
  PROVE  QueueSpec => []NextIsValid
<1>1. QueueInv => NextIsValid
  <2> SUFFICES ASSUME QueueInv, NEW t \in Thread, pc[t] = "etest", tail.val = tail_seen[t].val
               PROVE  IF next_ptr[t] = Null THEN tail_seen[t].ptr = Last(Contents)
                                            ELSE next_ptr[t] \in ToSet(Contents)
    BY DEF NextIsValid
  <2>1. tail = tail_seen[t] /\ next_ptr[t] = next[tail.ptr] /\ Queued(tail.ptr)
    BY DEF QueueInv, Knows, Seen, EnqKnows, TailNear
  <2>2. next[tail.ptr] = Null => tail.ptr = Last(Contents)
    BY <2>1, QueueFacts DEF QueueInv, Last
  <2>3. Queued(next[tail.ptr]) => next[tail.ptr] \in ToSet(Contents)
    <3>1. DOMAIN Contents = 1 .. Len(Contents)
      BY QueueFacts DEF QueueInv
    <3> QED BY <3>1 DEF Queued, Among, ToSet
  <2>4. next[tail.ptr] # Null => Queued(next[tail.ptr])
    BY <2>1, QueueFacts DEF QueueInv
  <2> QED BY <2>1, <2>2, <2>3, <2>4
<1> QED BY <1>1, QueueInvariance, PTL

\* When get keeps the copy it has taken of the pair, two iterations of the
\* loop of dequeue are enough (LockFreeQueue.hpp:148-156).
THEOREM TwoIterations ==
  ASSUME ~ Reloads
  PROVE  QueueSpec => []FewLoops
<1>1. QueueInv => FewLoops
  BY DEF QueueInv, Knows, DeqKnows, FewLoops
<1> QED BY <1>1, QueueInvariance, PTL

\* When get keeps the copy it has taken of the pair, LockFreeQueue is the
\* FIFO that ThreadPool relies on: cells leave in the order they are linked,
\* each to one thread (LockFreeQueue.hpp:50-168).
THEOREM QueueIsFifo ==
  ASSUME ~ Reloads
  PROVE  QueueSpec => ImplementsCellQueue
<1>1. QueueInit => Q!Init
  <2> SUFFICES ASSUME QueueInit PROVE Q!Init
    OBVIOUS
  <2>1. Contents = <<Dummy>>
    BY QueueInvInit
  <2> QED BY <2>1 DEF QueueInit, Q!Init, Hand
<1>2. QueueInv /\ [QueueNext]_queueVars => [Q!Next]_(Q!vars)
  BY QueueStep
<1> QED BY <1>1, <1>2, QueueInvariance, PTL DEF QueueSpec, ImplementsCellQueue, Q!Spec
=============================================================================
