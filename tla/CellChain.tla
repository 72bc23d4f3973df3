----------------------------- MODULE CellChain -----------------------------
(***************************************************************************)
(* Cells linked by their pointers, as LockFreeStack and LockFreeQueue link *)
(* them.                                                                   *)
(***************************************************************************)
EXTENDS Naturals, Sequences, SequencesExt, FiniteSets

\* The cells from first on, nxt[c] being the pointer of cell c.
ChainOf(first, nxt, null) ==
  LET chain[n \in Nat] ==
        IF n = 0 THEN IF first = null THEN << >> ELSE <<first>>
        ELSE LET s == chain[n - 1] IN
             IF s = << >> \/ nxt[Last(s)] = null THEN s
             ELSE Append(s, nxt[Last(s)])
  IN  chain[Cardinality(DOMAIN nxt)]

\* s is the cells linked one to the next from first on, each there once.
Linked(s, first, nxt, null) ==
  /\ s \in Seq(DOMAIN nxt)
  /\ \A i, j \in 1 .. Len(s) : s[i] = s[j] => i = j
  /\ first = IF s = << >> THEN null ELSE s[1]
  /\ \A i \in 1 .. Len(s) : nxt[s[i]] = IF i < Len(s) THEN s[i + 1] ELSE null
=============================================================================
