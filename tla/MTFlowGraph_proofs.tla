------------------------- MODULE MTFlowGraph_proofs -------------------------
(***************************************************************************)
(* Proofs about MTFlowGraph, for graphs of any size and any number of      *)
(* runs.  A task is executed when the last of the links into it has been   *)
(* followed, and a link is followed once: the invariant counts the links   *)
(* that the calls of complete_task have passed.                            *)
(***************************************************************************)
EXTENDS MTFlowGraph, FiniteSetTheorems, SequenceTheorems, TLAPS

\* The links into a task, and those that have been followed.
Target(l) == out_arr[l[1]][l[2]]
Into(n) == {l \in Links : Target(l) = n}
Ahead(l) == \E i \in 1 .. Len(stack) : stack[i].node = l[1] /\ stack[i].pos <= l[2]
Followed(n) == {l \in Into(n) : run[l[1]] = 1 /\ ~Ahead(l)}

\* The counts of the graph are those of its links.
Counts ==
  /\ Cardinality(Links) <= MaxDeps
  /\ \A n \in Node : nbr_in[n] = Cardinality(Into(n))
  /\ \A n \in Node : Len(out_arr[n]) <= MAXT
  /\ \A l \in Links : l[1] <= last_node /\ Target(l) <= last_node

\* The calls of complete_task: one at most for each task, which has been
\* executed.
Calls ==
  /\ stack = << >> <=> pc # "busy"
  /\ \A i, j \in 1 .. Len(stack) : stack[i].node = stack[j].node => i = j
  /\ \A i \in 1 .. Len(stack) :
       /\ run[stack[i].node] = 1
       /\ stack[i].pos <= Len(out_arr[stack[i].node]) + 1

\* What has been executed, and counted.
Executed ==
  /\ \A n \in Node : run[n] \in {0, 1}
  /\ pc # "idle" =>
       /\ \A n \in 0 .. last_node : in_cnt[n] = Cardinality(Followed(n))
       /\ \A n \in Node \ {0} : run[n] = 1 => Into(n) = Followed(n)

IInv == TypeOK /\ Counts /\ Calls /\ Executed

-----------------------------------------------------------------------------
(* Links.                                                                  *)

LEMMA Bounds == MAXT \in Nat \ {0} /\ 0 \in Node /\ Node \subseteq Nat
<1>1. MAXT \in Nat \ {0}
  BY FlowAssumption
<1> QED BY <1>1 DEF Node

LEMMA LinksFinite ==
  /\ IsFiniteSet(Links)
  /\ \A n : IsFiniteSet(Into(n)) /\ Cardinality(Into(n)) \in Nat
  /\ \A n : IsFiniteSet(Followed(n)) /\ Cardinality(Followed(n)) \in Nat
<1>1. IsFiniteSet(Node) /\ IsFiniteSet(1 .. MAXT)
  BY Bounds, FS_Interval DEF Node
<1>2. IsFiniteSet(Links)
  BY <1>1, FS_Product, FS_Subset DEF Links
<1>3. \A n : IsFiniteSet(Into(n))
  BY <1>2, FS_Subset DEF Into
<1>4. \A n : Followed(n) \subseteq Into(n)
  BY DEF Followed
<1>5. \A n : IsFiniteSet(Followed(n))
  BY <1>3, <1>4, FS_Subset
<1> QED BY <1>2, <1>3, <1>5, FS_CardinalityType

LEMMA LinkFacts ==
  ASSUME TypeOK, NEW l \in Links
  PROVE  /\ l = <<l[1], l[2]>>
         /\ l[1] \in Node /\ l[2] \in 1 .. MAXT
         /\ l[2] \in 1 .. Len(out_arr[l[1]])
         /\ Target(l) \in Node \ {0}
<1>1. /\ l = <<l[1], l[2]>> /\ l[1] \in Node /\ l[2] \in 1 .. MAXT
      /\ l[2] <= Len(out_arr[l[1]])
  BY DEF Links
<1>2. out_arr[l[1]] \in Seq(Node \ {0})
  BY <1>1 DEF TypeOK
<1>3. l[2] \in 1 .. Len(out_arr[l[1]])
  BY <1>1, <1>2, Bounds
<1> QED BY <1>1, <1>2, <1>3 DEF Target

LEMMA LinkIs ==
  ASSUME TypeOK, Counts, NEW n \in Node, NEW i \in 1 .. Len(out_arr[n])
  PROVE  <<n, i>> \in Links /\ Target(<<n, i>>) = out_arr[n][i]
<1>1. out_arr[n] \in Seq(Node \ {0}) /\ Len(out_arr[n]) <= MAXT
  BY DEF TypeOK, Counts
<1>2. i \in 1 .. MAXT
  BY <1>1, Bounds
<1> QED BY <1>2 DEF Links, Target

\* Nothing of this depends on more than the graph and the stack.
LEMMA Same ==
  /\ UNCHANGED graph => /\ Links' = Links
                        /\ \A n : Into(n)' = Into(n)
  /\ UNCHANGED <<graph, stack, run>> => \A n : Followed(n)' = Followed(n)
BY DEF graph, Links, Into, Target, Followed, Ahead

LEMMA MaxOfThree ==
  ASSUME NEW a \in Nat, NEW b \in Nat, NEW c \in Nat
  PROVE  /\ Max({a, b, c}) \in {a, b, c}
         /\ a <= Max({a, b, c}) /\ b <= Max({a, b, c}) /\ c <= Max({a, b, c})
<1>1. \E m \in {a, b, c} : \A x \in {a, b, c} : m >= x
  OBVIOUS
<1>2. /\ Max({a, b, c}) \in {a, b, c}
      /\ \A x \in {a, b, c} : Max({a, b, c}) >= x
  BY <1>1 DEF Max
<1> QED BY <1>2

-----------------------------------------------------------------------------
(* The initial states, and the steps that build the graph.                 *)

LEMMA NoLink ==
  ASSUME out_arr = [n \in Node |-> << >>]
  PROVE  /\ Links = {} /\ Cardinality(Links) = 0
         /\ \A n : Into(n) = {} /\ Cardinality(Into(n)) = 0
<1>1. Links = {}
  BY DEF Links
<1> QED BY <1>1, FS_EmptySet DEF Into

LEMMA InvInit == Init => IInv
<1> SUFFICES ASSUME Init PROVE IInv
  OBVIOUS
<1>1. out_arr \in [Node -> Seq(Node \ {0})]
  BY DEF Init
<1>2. TypeOK
  BY <1>1, Bounds, FlowAssumption DEF Init, TypeOK
<1>3. Counts
  <2>1. Links = {} /\ Cardinality(Links) = 0 /\ \A n : Cardinality(Into(n)) = 0
    BY NoLink DEF Init
  <2> QED BY <2>1, Bounds, FlowAssumption DEF Init, Counts
<1>4. Calls /\ Executed
  BY DEF Init, Calls, Executed
<1> QED BY <1>2, <1>3, <1>4 DEF IInv

\* A new link is the last of those of its task.
LEMMA AddDepInv ==
  ASSUME IInv, NEW from \in Node, NEW to \in Node, AddDep(from, to)
  PROVE  IInv'
<1> PICK n0 : n0 = Len(out_arr[from])
  OBVIOUS
<1> DEFINE new == <<from, n0 + 1>>
<1>1. TypeOK /\ Counts /\ Calls /\ Executed
  BY DEF IInv
<1>2. /\ out_arr[from] \in Seq(Node \ {0}) /\ to \in Node \ {0}
      /\ n0 \in Nat /\ n0 < MAXT
  <2>1. to > 0 /\ Len(out_arr[from]) < MAXT
    BY DEF AddDep
  <2>2. out_arr[from] \in Seq(Node \ {0})
    BY <1>1 DEF TypeOK
  <2> QED BY <2>1, <2>2, Bounds
<1>3. /\ Len(out_arr'[from]) = n0 + 1
      /\ out_arr'[from][n0 + 1] = to
      /\ \A i \in 1 .. n0 : out_arr'[from][i] = out_arr[from][i]
      /\ out_arr'[from] \in Seq(Node \ {0})
  <2>1. out_arr'[from] = Append(out_arr[from], to)
    BY <1>1 DEF TypeOK, AddDep
  <2> QED BY <2>1, <1>2, AppendProperties
<1>4. \A m \in Node \ {from} : out_arr'[m] = out_arr[m]
  BY <1>1 DEF TypeOK, AddDep
<1>5. n0 + 1 \in 1 .. MAXT
  BY <1>2, Bounds
<1>6. new \notin Links /\ Links' = Links \cup {new}
  <2>1. new \notin Links
    BY <1>2 DEF Links
  <2>2. \A l \in Node \X (1 .. MAXT) :
          l \in Links' <=> l \in Links \/ l = new
    <3> TAKE l \in Node \X (1 .. MAXT)
    <3>1. CASE l[1] # from
      BY <3>1, <1>4 DEF Links
    <3>2. CASE l[1] = from
      <4>1. l \in Links' <=> l[2] <= n0 + 1
        BY <3>2, <1>3 DEF Links
      <4>2. l \in Links <=> l[2] <= n0
        BY <3>2 DEF Links
      <4>3. l = new <=> l[2] = n0 + 1
        BY <3>2
      <4> QED BY <4>1, <4>2, <4>3, <1>2, Bounds
    <3> QED BY <3>1, <3>2
  <2>3. new \in Node \X (1 .. MAXT)
    BY <1>5
  <2> QED BY <2>1, <2>2, <2>3 DEF Links
<1>7. /\ Target(new)' = to
      /\ \A l \in Links : Target(l)' = Target(l)
  <2>1. Target(new)' = to
    BY <1>3 DEF Target
  <2>2. ASSUME NEW l \in Links PROVE Target(l)' = Target(l)
    <3>1. l[1] \in Node /\ l[2] \in 1 .. Len(out_arr[l[1]])
      BY <1>1, LinkFacts
    <3>2. CASE l[1] = from
      BY <3>1, <3>2, <1>3 DEF Target
    <3>3. CASE l[1] # from
      BY <3>1, <3>3, <1>4 DEF Target
    <3> QED BY <3>2, <3>3
  <2> QED BY <2>1, <2>2
<1>8. \A n \in Node :
        Into(n)' = IF n = to THEN Into(n) \cup {new} ELSE Into(n)
  BY <1>6, <1>7 DEF Into
<1>9. new \notin Into(to)
  BY <1>6 DEF Into
<1>10. /\ Cardinality(Links)' = Cardinality(Links) + 1
       /\ \A n \in Node : Cardinality(Into(n))' =
            IF n = to THEN Cardinality(Into(n)) + 1 ELSE Cardinality(Into(n))
  <2>1. Cardinality(Links \cup {new}) = Cardinality(Links) + 1
    BY <1>6, LinksFinite, FS_AddElement
  <2>2. Cardinality(Into(to) \cup {new}) = Cardinality(Into(to)) + 1
    BY <1>9, LinksFinite, FS_AddElement
  <2> QED BY <2>1, <2>2, <1>6, <1>8
<1>11. /\ Cardinality(Links) \in Nat /\ Cardinality(Links) < MaxDeps
       /\ \A n \in Node : Cardinality(Into(n)) <= Cardinality(Links)
  <2>1. \A n : Into(n) \subseteq Links
    BY DEF Into
  <2> QED BY <2>1, LinksFinite, FS_Subset, FS_CardinalityType DEF AddDep, NbrDeps
<1>12. last_node' \in {last_node, from, to} /\ last_node <= last_node'
         /\ from <= last_node' /\ to <= last_node'
  <2>1. last_node \in Nat /\ from \in Nat /\ to \in Nat
    BY <1>1, Bounds DEF TypeOK
  <2> QED BY <2>1, MaxOfThree DEF AddDep
<1>13. \A n \in Node : nbr_in'[n] = Cardinality(Into(n))'
  <2>1. \A n \in Node : nbr_in'[n] = IF n = to THEN nbr_in[n] + 1 ELSE nbr_in[n]
    BY <1>1 DEF AddDep, TypeOK
  <2> QED BY <2>1, <1>10, <1>1 DEF Counts
<1>14. nbr_in' \in [Node -> 0 .. MaxDeps]
  <2>1. \A n \in Node : nbr_in'[n] \in 0 .. MaxDeps
    BY <1>10, <1>11, <1>13, LinksFinite, FlowAssumption
  <2>2. nbr_in' = [n \in Node |-> nbr_in'[n]]
    BY <1>1 DEF AddDep, TypeOK
  <2> QED BY <2>1, <2>2
<1>15. out_arr' \in [Node -> Seq(Node \ {0})]
  BY <1>1, <1>3, <1>4 DEF AddDep, TypeOK
<1>16. TypeOK'
  BY <1>1, <1>12, <1>14, <1>15 DEF AddDep, TypeOK
<1>17. Counts'
  <2>1. Cardinality(Links)' <= MaxDeps
    BY <1>10, <1>11, FlowAssumption
  <2>2. \A n \in Node : Len(out_arr'[n]) <= MAXT
    BY <1>1, <1>3, <1>4, <1>5 DEF Counts
  <2>3. \A l \in Links' : l[1] <= last_node' /\ Target(l)' <= last_node'
    <3> TAKE l \in Links'
    <3>1. CASE l = new
      BY <3>1, <1>7, <1>12
    <3>2. CASE l \in Links
      <4>1. l[1] \in Nat /\ Target(l) \in Nat /\ last_node \in Nat /\ last_node' \in Nat
        BY <3>2, <1>1, <1>16, LinkFacts, Bounds DEF TypeOK
      <4>2. l[1] <= last_node /\ Target(l) <= last_node
        BY <3>2, <1>1 DEF Counts
      <4> QED BY <3>2, <4>1, <4>2, <1>7, <1>12
    <3> QED BY <3>1, <3>2, <1>6
  <2> QED BY <2>1, <2>2, <2>3, <1>13 DEF Counts
<1>18. Calls'
  <2>1. stack = << >> /\ pc = "idle" /\ UNCHANGED <<stack, pc>>
    BY <1>1 DEF Calls, AddDep
  <2> QED BY <2>1 DEF Calls
<1>19. Executed'
  BY <1>1 DEF Executed, AddDep
<1> QED BY <1>16, <1>17, <1>18, <1>19 DEF IInv

LEMMA ClearInv ==
  ASSUME IInv, Clear
  PROVE  IInv'
<1>1. TypeOK /\ Calls /\ Executed
  BY DEF IInv
<1>2. out_arr' = [n \in Node |-> << >>]
  BY DEF Clear
<1>3. Links' = {} /\ \A n : Into(n)' = {}
  BY <1>2 DEF Links, Into
<1>4. Counts'
  BY <1>2, <1>3, FS_EmptySet, Bounds, FlowAssumption DEF Counts, Clear
<1>5. TypeOK'
  BY <1>1, Bounds, FlowAssumption DEF Clear, TypeOK
<1>6. Calls'
  <2>1. stack = << >>
    BY <1>1 DEF Calls, Clear
  <2> QED BY <2>1 DEF Calls, Clear
<1>7. Executed'
  BY <1>1 DEF Executed, Clear
<1> QED BY <1>4, <1>5, <1>6, <1>7 DEF IInv

-----------------------------------------------------------------------------
(* The scheduler.                                                          *)

\* The root has been executed, and none of its links followed.
LEMMA CallStartInv ==
  ASSUME IInv, CallStart
  PROVE  IInv'
<1>1. TypeOK /\ Counts /\ Calls /\ Executed
  BY DEF IInv
<1>2. /\ pc' = "busy"
      /\ in_cnt' = [n \in Node |-> IF IsReset(n) THEN 0 ELSE in_cnt[n]]
      /\ run' = [n \in Node |-> IF n = 0 THEN 1 ELSE 0]
      /\ stack' = <<[node |-> 0, pos |-> 1]>>
      /\ starts' = starts + 1 /\ starts < MaxStarts
      /\ UNCHANGED <<nbr_in, out_arr, last_node>>
  BY DEF CallStart, graph
<1>3. Links' = Links /\ \A n : Into(n)' = Into(n)
  BY <1>2, Same DEF graph
<1>4. \A n \in 0 .. last_node : n \in Node /\ in_cnt'[n] = 0
  <2>1. last_node \in Node
    BY <1>1 DEF TypeOK
  <2>2. \A n \in 0 .. last_node : n \in Node /\ n <= last_node
    BY <2>1, Bounds DEF Node
  <2> QED BY <2>2, <1>2 DEF IsReset
<1>5. /\ Len(stack') = 1 /\ stack'[1].node = 0 /\ stack'[1].pos = 1
      /\ stack' \in Seq([node : Node, pos : 1 .. MAXT + 1])
  <2>1. [node |-> 0, pos |-> 1] \in [node : Node, pos : 1 .. MAXT + 1]
    BY Bounds
  <2> QED BY <1>2, <2>1
<1>6. TypeOK'
  <2>1. in_cnt' \in [Node -> 0 .. MaxDeps]
    BY <1>1, <1>2, FlowAssumption DEF TypeOK
  <2>2. run' \in [Node -> Nat]
    BY <1>2
  <2>3. starts' \in 0 .. MaxStarts
    BY <1>1, <1>2, FlowAssumption DEF TypeOK
  <2>4. \A n \in 0 .. last_node' : in_cnt'[n] <= nbr_in'[n]
    <3>1. \A n \in Node : nbr_in[n] \in Nat
      BY <1>1, FlowAssumption DEF TypeOK
    <3> QED BY <1>2, <1>4, <3>1
  <2> QED BY <1>1, <1>2, <1>5, <2>1, <2>2, <2>3, <2>4 DEF TypeOK
<1>7. Counts'
  <2>1. \A l : Target(l)' = Target(l)
    BY <1>2 DEF Target
  <2> QED BY <1>1, <1>2, <1>3, <2>1 DEF Counts
<1>8. Calls'
  <2>1. run'[0] = 1 /\ Len(out_arr'[0]) \in Nat
    BY <1>1, <1>2, Bounds DEF TypeOK
  <2>2. stack' # << >>
    BY <1>2
  <2> QED BY <1>2, <1>5, <2>1, <2>2 DEF Calls
<1>9. \A n : Followed(n)' = {}
  <2>1. ASSUME NEW l \in Links, run'[l[1]] = 1
        PROVE  Ahead(l)'
    <3>1. l[1] \in Node /\ l[2] \in Nat /\ l[2] >= 1
      BY <1>1, LinkFacts, Bounds
    <3>2. l[1] = 0
      BY <2>1, <3>1, <1>2
    <3> QED BY <3>1, <3>2, <1>5 DEF Ahead
  <2>2. \A n : Into(n) \subseteq Links
    BY DEF Into
  <2> QED BY <2>1, <2>2, <1>3 DEF Followed
<1>10. Executed'
  <2>1. \A n \in 0 .. last_node' : in_cnt'[n] = Cardinality(Followed(n))'
    BY <1>2, <1>4, <1>9, FS_EmptySet
  <2> QED BY <1>2, <2>1 DEF Executed
<1> QED BY <1>6, <1>7, <1>8, <1>10 DEF IInv

LEMMA CallWaitInv ==
  ASSUME IInv, CallWait
  PROVE  IInv'
<1>1. /\ UNCHANGED <<nbr_in, out_arr, last_node, in_cnt, stack, run, starts>>
      /\ pc = "done" /\ pc' = "idle"
  BY DEF CallWait, graph
<1>2. TypeOK /\ Counts /\ Calls /\ Executed
  BY DEF IInv
<1>3. TypeOK'
  BY <1>1, <1>2 DEF TypeOK
<1>4. Counts'
  BY <1>1, <1>2, Same DEF Counts, Target, graph
<1>5. Calls' /\ Executed'
  BY <1>1, <1>2 DEF Calls, Executed
<1> QED BY <1>3, <1>4, <1>5 DEF IInv

\* The deepest call of complete_task.
LEMMA TopFacts ==
  ASSUME IInv, pc = "busy"
  PROVE  /\ Len(stack) \in Nat \ {0} /\ stack[Len(stack)] = Top
         /\ Top.node \in Node /\ Top.pos \in 1 .. MAXT + 1
         /\ run[Top.node] = 1
         /\ Top.pos <= Len(out_arr[Top.node]) + 1
         /\ out_arr[Top.node] \in Seq(Node \ {0})
         /\ stack \in Seq([node : Node, pos : 1 .. MAXT + 1])
         /\ \A i \in 1 .. Len(stack) - 1 : stack[i].node # Top.node
<1>1. TypeOK /\ Calls
  BY DEF IInv
<1>2. stack \in Seq([node : Node, pos : 1 .. MAXT + 1]) /\ stack # << >>
  BY <1>1 DEF TypeOK, Calls
<1>3. Len(stack) \in Nat \ {0} /\ stack[Len(stack)] = Top
  BY <1>2, EmptySeq DEF Top, Last
<1>4. Top \in [node : Node, pos : 1 .. MAXT + 1]
  <2>1. Len(stack) \in 1 .. Len(stack)
    BY <1>3
  <2> QED BY <1>2, <1>3, <2>1, ElementOfSeq
<1>5. Len(stack) \in 1 .. Len(stack)
  BY <1>3
<1>6. run[Top.node] = 1 /\ Top.pos <= Len(out_arr[Top.node]) + 1
  BY <1>1, <1>3, <1>5 DEF Calls
<1>7. out_arr[Top.node] \in Seq(Node \ {0})
  BY <1>1, <1>4 DEF TypeOK
<1>8. \A i \in 1 .. Len(stack) - 1 : stack[i].node # Top.node
  BY <1>1, <1>3, <1>5 DEF Calls
<1> QED BY <1>2, <1>3, <1>4, <1>6, <1>7, <1>8

LEMMA ReturnFromCompleteInv ==
  ASSUME IInv, ReturnFromComplete
  PROVE  IInv'
<1>1. /\ UNCHANGED <<nbr_in, out_arr, last_node, in_cnt, run, starts>>
      /\ pc = "busy" /\ pc' = IF Len(stack) = 1 THEN "done" ELSE "busy"
      /\ ~Cont
      /\ stack' = SubSeq(stack, 1, Len(stack) - 1)
  BY DEF ReturnFromComplete, graph, Front
<1>2. TypeOK /\ Counts /\ Calls /\ Executed
  BY DEF IInv
<1>3. /\ stack' \in Seq([node : Node, pos : 1 .. MAXT + 1])
      /\ Len(stack') = Len(stack) - 1
      /\ \A i \in 1 .. Len(stack') : i \in 1 .. Len(stack) /\ stack'[i] = stack[i]
  <2>1. Len(stack) \in Nat \ {0}
           /\ stack \in Seq([node : Node, pos : 1 .. MAXT + 1])
    BY <1>1, TopFacts
  <2> DEFINE n == Len(stack) - 1
             Frame == [node : Node, pos : 1 .. MAXT + 1]
  <2>8. stack \in Seq(Frame)
    BY <2>1
  <2> HIDE DEF Frame
  <2>2. \A i \in 1 .. n : stack[i] \in Frame
    BY <2>1, <2>8, ElementOfSeq
  <2>6. n \in Int /\ n >= 0
    BY <2>1
  <2> HIDE DEF n
  <2>7. /\ SubSeq(stack, 1, n) \in Seq(Frame)
        /\ Len(SubSeq(stack, 1, n)) = IF 1 <= n THEN n - 1 + 1 ELSE 0
        /\ \A i \in 1 .. n - 1 + 1 : SubSeq(stack, 1, n)[i] = stack[1 + i - 1]
    BY <2>2, <2>6, SubSeqProperties
  <2>3. stack' \in Seq(Frame)
    BY <2>7, <1>1 DEF n
  <2>4. Len(stack') = n
    <3>1. Len(SubSeq(stack, 1, n)) = n
      BY <2>6, <2>7
    <3> QED BY <3>1, <1>1 DEF n
  <2>5. \A i \in 1 .. Len(stack') : i \in 1 .. Len(stack) /\ stack'[i] = stack[i]
    <3>1. \A i \in 1 .. n : i \in 1 .. n - 1 + 1 /\ 1 + i - 1 = i /\ i \in 1 .. Len(stack)
      BY <2>1, <2>6 DEF n
    <3> QED BY <3>1, <2>4, <2>7, <1>1 DEF n
  <2> QED BY <2>3, <2>4, <2>5 DEF n, Frame
<1>4. TypeOK'
  BY <1>1, <1>2, <1>3 DEF TypeOK
<1>5. Counts'
  BY <1>1, <1>2, Same DEF Counts, Target, graph
<1>6. Calls'
  <2>1. stack' = << >> <=> pc' # "busy"
    <3>1. Len(stack) \in Nat \ {0}
      BY <1>1, TopFacts
    <3>2. stack' = << >> <=> Len(stack') = 0
      BY <1>3, EmptySeq
    <3> QED BY <3>1, <3>2, <1>1, <1>3
  <2>2. \A i, j \in 1 .. Len(stack') : stack'[i].node = stack'[j].node => i = j
    BY <1>2, <1>3 DEF Calls
  <2>3. \A i \in 1 .. Len(stack') :
          /\ run'[stack'[i].node] = 1
          /\ stack'[i].pos <= Len(out_arr'[stack'[i].node]) + 1
    BY <1>1, <1>2, <1>3 DEF Calls
  <2> QED BY <2>1, <2>2, <2>3 DEF Calls
<1>7. \A l \in Links : Ahead(l)' <=> Ahead(l)
  <2> TAKE l \in Links
  <2>1. l[2] \in Nat /\ l[2] <= Len(out_arr[l[1]])
    BY <1>2, LinkFacts, Bounds
  <2>2. ASSUME Ahead(l) PROVE Ahead(l)'
    <3>1. PICK i \in 1 .. Len(stack) : stack[i].node = l[1] /\ stack[i].pos <= l[2]
      BY <2>2 DEF Ahead
    <3>2. i # Len(stack)
      <4>1. /\ Top.pos \in Nat /\ stack[Len(stack)] = Top
            /\ Len(out_arr[Top.node]) \in Nat
        BY <1>1, TopFacts, Bounds
      <4>2. ~(Top.pos <= Len(out_arr[Top.node]))
        BY <1>1 DEF Cont
      <4> QED BY <3>1, <2>1, <4>1, <4>2
    <3>3. i \in 1 .. Len(stack')
      BY <3>1, <3>2, <1>1, <1>3, TopFacts
    <3> QED BY <3>1, <3>3, <1>3 DEF Ahead
  <2>3. ASSUME Ahead(l)' PROVE Ahead(l)
    BY <2>3, <1>3 DEF Ahead
  <2> QED BY <2>2, <2>3
<1>8. \A n : Followed(n)' = Followed(n)
  <2>1. \A n : Into(n)' = Into(n) /\ Into(n) \subseteq Links
    BY <1>1, Same DEF graph, Into
  <2> QED BY <2>1, <1>1, <1>7 DEF Followed
<1>9. Executed'
  <2>1. \A n : Into(n)' = Into(n)
    BY <1>1, Same DEF graph
  <2> QED BY <1>1, <1>2, <1>8, <2>1 DEF Executed
<1> QED BY <1>4, <1>5, <1>6, <1>9 DEF IInv

\* An iteration of complete_task follows one link: its task has not been
\* executed, and is now if this was the last of its links.
LEMMA CountDependencyInv ==
  ASSUME IInv, CountDependency
  PROVE  IInv'
<1>1. TypeOK /\ Counts /\ Calls /\ Executed /\ pc = "busy" /\ Cont
  BY DEF IInv, CountDependency
<1> PICK N, m, p, o : N = Len(stack) /\ m = Top.node /\ p = Top.pos /\ o = out_index
  OBVIOUS
<1> DEFINE l == <<m, p>>
           frame == [node : Node, pos : 1 .. MAXT + 1]
<1>2. /\ N \in Nat \ {0} /\ m \in Node /\ p \in 1 .. MAXT + 1
      /\ run[m] = 1
      /\ out_arr[m] \in Seq(Node \ {0})
      /\ stack \in Seq(frame)
      /\ stack[N] = [node |-> m, pos |-> p]
      /\ \A i \in 1 .. N - 1 : stack[i].node # m
  <2>1. stack[N] = Top /\ N \in Nat \ {0} /\ stack \in Seq(frame)
    BY <1>1, TopFacts
  <2>2. N \in 1 .. Len(stack)
    BY <2>1
  <2> HIDE DEF frame
  <2>3. Top \in frame
    BY <2>1, <2>2, ElementOfSeq
  <2>4. Top = [node |-> m, pos |-> p]
    BY <2>3 DEF frame
  <2> QED BY <1>1, <2>1, <2>4, TopFacts DEF frame
<1>3. p \in 1 .. Len(out_arr[m]) /\ o = out_arr[m][p]
  BY <1>1, <1>2, Bounds DEF Cont, out_index
<1>4. l \in Links /\ l \in Into(o) /\ o \in Node \ {0} /\ o \in 0 .. last_node
  <2>1. l \in Links /\ Target(l) = o
    BY <1>1, <1>2, <1>3, LinkIs
  <2>2. o \in Node \ {0} /\ o <= last_node
    BY <1>1, <2>1, LinkFacts DEF Counts
  <2>3. last_node \in Nat /\ o \in Nat
    BY <1>1, <2>2, Bounds DEF TypeOK
  <2> QED BY <2>1, <2>2, <2>3 DEF Into
<1>5. l \notin Followed(o)
  <2>1. N \in 1 .. Len(stack) /\ stack[N].node = l[1]
    BY <1>2
  <2>2. stack[N].pos = l[2] /\ l[2] <= l[2]
    BY <1>2, <1>3
  <2>3. Ahead(l)
    BY <2>1, <2>2 DEF Ahead
  <2> QED BY <2>3 DEF Followed
<1>6. run[o] = 0 /\ o # m
  <2>1. run[o] # 1
    BY <1>1, <1>4, <1>5 DEF Executed
  <2> QED BY <2>1, <1>1, <1>2, <1>4 DEF Executed
<1> DEFINE count == in_cnt[o] + 1
           advanced == [stack EXCEPT ![N].pos = @ + 1]
           ready == IsReady(count, o)
<1>7. /\ in_cnt' = [in_cnt EXCEPT ![o] = count]
      /\ run' = IF ready THEN [run EXCEPT ![o] = @ + 1] ELSE run
      /\ stack' = IF ready THEN Append(advanced, [node |-> o, pos |-> 1])
                  ELSE advanced
      /\ UNCHANGED <<nbr_in, out_arr, last_node, starts, pc>>
  BY DEF CountDependency, graph
<1> HIDE DEF count
\* The stack.
<1>8. /\ advanced \in Seq(frame) /\ Len(advanced) = N
      /\ advanced[N] = [node |-> m, pos |-> p + 1]
      /\ \A i \in 1 .. N - 1 : advanced[i] = stack[i]
  <2>1. Len(out_arr[m]) <= MAXT /\ Len(out_arr[m]) \in Nat
    BY <1>1, <1>2 DEF Counts
  <2>2. p + 1 \in 1 .. MAXT + 1
    BY <2>1, <1>3, Bounds
  <2>3. advanced = [stack EXCEPT ![N] = [node |-> m, pos |-> p + 1]]
    <3>1. [stack[N] EXCEPT !.pos = @ + 1] = [node |-> m, pos |-> p + 1]
      BY <1>2
    <3>2. advanced = [stack EXCEPT ![N] = [stack[N] EXCEPT !.pos = @ + 1]]
      BY Zenon DEF advanced
    <3> QED BY <3>1, <3>2, Zenon
  <2>4. [node |-> m, pos |-> p + 1] \in frame /\ N \in 1 .. Len(stack)
    BY <2>2, <1>2
  <2> HIDE DEF frame
  <2>5. /\ advanced \in Seq(frame) /\ Len(advanced) = Len(stack)
        /\ \A i \in 1 .. Len(stack) :
             advanced[i] = IF i = N THEN [node |-> m, pos |-> p + 1] ELSE stack[i]
    BY <2>3, <2>4, <1>2, ExceptSeq
  <2> QED BY <2>5, <2>4, <1>2
<1> HIDE DEF advanced
<1>9. /\ stack' \in Seq(frame)
      /\ Len(stack') = IF ready THEN N + 1 ELSE N
      /\ \A i \in 1 .. N - 1 : stack'[i] = stack[i]
      /\ stack'[N] = [node |-> m, pos |-> p + 1]
      /\ ready => stack'[N + 1] = [node |-> o, pos |-> 1]
  <2>1. [node |-> o, pos |-> 1] \in frame
    BY <1>4, Bounds
  <2> HIDE DEF frame, ready
  <2>2. CASE ready
    BY <2>1, <2>2, <1>2, <1>7, <1>8, AppendProperties
  <2>3. CASE ~ready
    BY <2>3, <1>7, <1>8
  <2> QED BY <2>2, <2>3
<1>10. Len(stack') \in {N, N + 1} /\ (Len(stack') = N + 1 <=> ready)
  BY <1>2, <1>9
<1> HIDE DEF ready
<1>11. /\ run' \in [Node -> Nat]
       /\ \A n \in Node : run'[n] = IF n = o /\ ready THEN 1 ELSE run[n]
  <2>1. run \in [Node -> Nat] /\ run[o] + 1 = 1
    BY <1>1, <1>6 DEF TypeOK
  <2>2. CASE ready
    BY <2>1, <2>2, <1>4, <1>7
  <2>3. CASE ~ready
    BY <2>1, <2>3, <1>7
  <2> QED BY <2>2, <2>3
\* The links.
<1>12. Links' = Links /\ \A n : Into(n)' = Into(n) /\ Into(n) \subseteq Links
  BY <1>7, Same DEF graph, Into
<1>13. ASSUME NEW k \in Links, run[k[1]] = 1
       PROVE  Ahead(k)' <=> Ahead(k) /\ k # l
  <2>1. k = <<k[1], k[2]>> /\ k[1] \in Node /\ k[2] \in Nat /\ p \in Nat
    BY <1>1, <1>2, LinkFacts, Bounds
  <2>2. k[1] # o
    BY <1>6, <1>13
  <2>3. ASSUME Ahead(k), k # l PROVE Ahead(k)'
    <3>1. PICK i \in 1 .. Len(stack) : stack[i].node = k[1] /\ stack[i].pos <= k[2]
      BY <2>3 DEF Ahead
    <3>2. CASE i = N
      <4>1. k[1] = m /\ p <= k[2]
        BY <3>1, <3>2, <1>2
      <4>2. p + 1 <= k[2]
        BY <4>1, <2>1, <2>3
      <4>3. N \in 1 .. Len(stack')
        BY <1>2, <1>10
      <4>4. stack'[N].node = k[1] /\ stack'[N].pos <= k[2]
        BY <4>1, <4>2, <1>9
      <4> QED BY <4>3, <4>4 DEF Ahead
    <3>3. CASE i # N
      <4>1. i \in 1 .. N - 1 /\ i \in 1 .. Len(stack')
        BY <3>1, <3>3, <1>2, <1>10
      <4> QED BY <3>1, <4>1, <1>9 DEF Ahead
    <3> QED BY <3>2, <3>3
  <2>4. ASSUME Ahead(k)' PROVE Ahead(k) /\ k # l
    <3>1. PICK i \in 1 .. Len(stack') : stack'[i].node = k[1] /\ stack'[i].pos <= k[2]
      BY <2>4 DEF Ahead
    <3>2. i # N + 1
      BY <3>1, <2>2, <1>9, <1>10
    <3>3. CASE i = N
      <4>1. k[1] = m /\ p + 1 <= k[2]
        BY <3>1, <3>3, <1>9
      <4>2. p <= k[2] /\ k # l
        BY <4>1, <2>1
      <4>3. N \in 1 .. Len(stack)
        BY <1>2
      <4> QED BY <4>1, <4>2, <4>3, <1>2 DEF Ahead
    <3>4. CASE i # N
      <4>1. i \in 1 .. N - 1 /\ i \in 1 .. Len(stack)
        BY <3>1, <3>2, <3>4, <1>2, <1>10
      <4>2. stack[i].node = k[1] /\ stack[i].pos <= k[2]
        BY <3>1, <4>1, <1>9
      <4>3. k[1] # m
        BY <4>1, <4>2, <1>2
      <4>4. k # l
        BY <4>3
      <4> QED BY <4>1, <4>2, <4>4 DEF Ahead
    <3> QED BY <3>3, <3>4
  <2> QED BY <2>3, <2>4
<1>14. ASSUME NEW k \in Links, k[1] = o
       PROVE  /\ run[k[1]] # 1
              /\ run'[k[1]] = 1 => Ahead(k)'
  <2>1. run[o] # 1
    BY <1>6
  <2>2. ASSUME run'[o] = 1 PROVE Ahead(k)'
    <3>1. ready
      BY <2>2, <2>1, <1>4, <1>11
    <3>2. N + 1 \in 1 .. Len(stack') /\ 1 <= k[2]
      BY <3>1, <1>1, <1>2, <1>10, LinkFacts, Bounds
    <3> QED BY <3>1, <3>2, <1>9, <1>14 DEF Ahead
  <2> QED BY <2>1, <2>2, <1>14
<1>15. \A k \in Links : run'[k[1]] = 1 /\ ~Ahead(k)'
                          <=> run[k[1]] = 1 /\ (~Ahead(k) \/ k = l)
  <2> TAKE k \in Links
  <2>1. k[1] \in Node
    BY <1>1, LinkFacts
  <2>2. CASE k[1] = o
    BY <2>2, <1>14
  <2>3. CASE k[1] # o
    BY <2>1, <2>3, <1>11, <1>13
  <2> QED BY <2>2, <2>3
<1>16. \A n : Followed(n)' = IF n = o THEN Followed(n) \cup {l} ELSE Followed(n)
  <2>1. \A n : l \in Into(n) <=> n = o
    BY <1>4 DEF Into
  <2>2. run[l[1]] = 1
    BY <1>2
  <2>3. \A n : Followed(n)' = {k \in Into(n) : run[k[1]] = 1 /\ (~Ahead(k) \/ k = l)}
    BY <1>12, <1>15 DEF Followed
  <2> QED BY <2>1, <2>2, <2>3 DEF Followed
\* The counts.
<1>17. \A n \in 0 .. last_node' : in_cnt'[n] = Cardinality(Followed(n))'
  <2>1. Cardinality(Followed(o) \cup {l}) = Cardinality(Followed(o)) + 1
    BY <1>5, LinksFinite, FS_AddElement
  <2>2. last_node \in Node
    BY <1>1 DEF TypeOK
  <2>3. \A n \in 0 .. last_node : n \in Node
    BY <2>2, Bounds DEF Node
  <2>4. \A n \in Node : in_cnt'[n] = IF n = o THEN in_cnt[o] + 1 ELSE in_cnt[n]
    BY <1>1, <1>4, <1>7 DEF TypeOK, count
  <2>5. \A n \in 0 .. last_node : in_cnt[n] = Cardinality(Followed(n))
    BY <1>1 DEF Executed
  <2> QED BY <1>4, <1>7, <1>16, <2>1, <2>3, <2>4, <2>5
<1>18. \A n : /\ Followed(n)' \subseteq Into(n)
              /\ Cardinality(Followed(n)') \in Nat
              /\ Cardinality(Followed(n)') <= Cardinality(Into(n))
              /\ Cardinality(Followed(n)') = Cardinality(Into(n)) => Followed(n)' = Into(n)
  <2>1. \A n : Followed(n)' \subseteq Into(n)
    BY <1>4, <1>16 DEF Followed
  <2> QED BY <2>1, LinksFinite, FS_Subset, FS_CardinalityType
<1>19. TypeOK'
  <2>1. count = in_cnt'[o] /\ in_cnt'[o] = Cardinality(Followed(o)') /\ nbr_in[o] \in 0 .. MaxDeps
          /\ nbr_in[o] = Cardinality(Into(o))
    BY <1>1, <1>4, <1>7, <1>17 DEF TypeOK, Counts
  <2>2. count \in 0 .. MaxDeps /\ count <= nbr_in[o]
    BY <2>1, <1>18, FlowAssumption
  <2>3. in_cnt' \in [Node -> 0 .. MaxDeps]
    BY <1>1, <1>7, <2>2 DEF TypeOK
  <2>4. run' \in [Node -> Nat]
    BY <1>11
  <2>5. \A n \in 0 .. last_node' : in_cnt'[n] <= nbr_in'[n]
    <3>1. last_node \in Node
      BY <1>1 DEF TypeOK
    <3>2. \A n \in 0 .. last_node : n \in Node
      BY <3>1, Bounds DEF Node
    <3> QED BY <3>2, <1>1, <1>7, <1>17, <1>18 DEF Counts
  <2> QED BY <1>1, <1>7, <1>9, <2>3, <2>4, <2>5 DEF TypeOK
<1>20. Counts'
  <2>1. \A k : Target(k)' = Target(k)
    BY <1>7 DEF Target
  <2> QED BY <1>1, <1>7, <1>12, <2>1 DEF Counts
<1>21. Calls'
  <2>1. stack' # << >> /\ pc' = "busy"
    BY <1>1, <1>2, <1>7, <1>10, EmptySeq
  <2>2. ASSUME NEW i \in 1 .. Len(stack')
        PROVE  \/ i = N /\ stack'[i].node = m /\ stack'[i].pos = p + 1
               \/ i = N + 1 /\ ready /\ stack'[i].node = o /\ stack'[i].pos = 1
               \/ /\ i \in 1 .. N - 1 /\ stack'[i] = stack[i]
                  /\ stack[i].node # m
                  /\ run[stack[i].node] = 1
                  /\ stack[i].pos <= Len(out_arr[stack[i].node]) + 1
                  /\ stack[i].node \in Node
    <3>1. i \in 1 .. N - 1 \/ i = N \/ (i = N + 1 /\ ready)
      BY <1>2, <1>10
    <3>2. ASSUME i \in 1 .. N - 1
          PROVE  /\ stack'[i] = stack[i] /\ stack[i].node # m
                 /\ run[stack[i].node] = 1
                 /\ stack[i].pos <= Len(out_arr[stack[i].node]) + 1
                 /\ stack[i].node \in Node
      <4>1. i \in 1 .. Len(stack)
        BY <3>2, <1>2
      <4>2. stack[i] \in frame
        BY <4>1, <1>2, ElementOfSeq
      <4> QED BY <3>2, <4>1, <4>2, <1>1, <1>2, <1>9 DEF Calls
    <3> QED BY <3>1, <3>2, <1>9
  <2>3. \A i, j \in 1 .. Len(stack') : stack'[i].node = stack'[j].node => i = j
    <3> TAKE i, j \in 1 .. Len(stack')
    <3>1. \A x, y \in 1 .. N - 1 : stack[x].node = stack[y].node => x = y
      <4>1. \A x \in 1 .. N - 1 : x \in 1 .. Len(stack)
        BY <1>2
      <4> QED BY <4>1, <1>1 DEF Calls
    <3> QED BY <2>2, <3>1, <1>6
  <2>4. \A i \in 1 .. Len(stack') :
          /\ run'[stack'[i].node] = 1
          /\ stack'[i].pos <= Len(out_arr'[stack'[i].node]) + 1
    <3> TAKE i \in 1 .. Len(stack')
    <3>1. p \in Nat /\ Len(out_arr[m]) \in Nat /\ p <= Len(out_arr[m])
      BY <1>2, <1>3, Bounds
    <3>2. Len(out_arr[o]) \in Nat
      BY <1>1, <1>4 DEF TypeOK
    <3>3. out_arr' = out_arr
      BY <1>7
    <3>4. CASE i = N
      <4>1. stack'[i].node = m /\ stack'[i].pos = p + 1
        BY <3>4, <1>9
      <4>2. run'[m] = 1
        BY <1>2, <1>6, <1>11
      <4> QED BY <3>1, <3>3, <4>1, <4>2
    <3>5. CASE i = N + 1
      <4>1. ready /\ stack'[i].node = o /\ stack'[i].pos = 1
        BY <3>5, <1>2, <1>9, <1>10
      <4>2. run'[o] = 1
        BY <4>1, <1>4, <1>11
      <4> QED BY <3>2, <3>3, <4>1, <4>2
    <3>6. CASE i # N /\ i # N + 1
      <4>1. /\ stack'[i] = stack[i]
            /\ run[stack[i].node] = 1
            /\ stack[i].pos <= Len(out_arr[stack[i].node]) + 1
            /\ stack[i].node \in Node
        BY <2>2, <3>6
      <4>2. run'[stack[i].node] = 1
        BY <4>1, <1>6, <1>11
      <4> QED BY <3>3, <4>1, <4>2
    <3> QED BY <3>4, <3>5, <3>6
  <2> QED BY <2>1, <2>3, <2>4 DEF Calls
<1>22. Executed'
  <2>1. \A n \in Node : run'[n] \in {0, 1}
    BY <1>1, <1>11 DEF Executed
  <2>2. ASSUME NEW n \in Node \ {0}, run'[n] = 1
        PROVE  Into(n)' = Followed(n)'
    <3>1. CASE run[n] = 1
      <4>1. Into(n) = Followed(n)
        BY <3>1, <1>1 DEF Executed
      <4>2. n # o
        BY <3>1, <1>6
      <4> QED BY <4>1, <4>2, <1>12, <1>16
    <3>2. CASE run[n] # 1
      <4>1. n = o /\ ready
        BY <2>2, <3>2, <1>11
      <4>2. count >= nbr_in[o]
        BY <4>1 DEF ready, IsReady
      <4>3. count = Cardinality(Followed(o)') /\ nbr_in[o] = Cardinality(Into(o))
        BY <1>1, <1>4, <1>7, <1>17 DEF TypeOK, Counts
      <4>4. Cardinality(Followed(o)') = Cardinality(Into(o))
        BY <4>2, <4>3, <1>18, LinksFinite
      <4> QED BY <4>1, <4>4, <1>12, <1>18
    <3> QED BY <3>1, <3>2
  <2> QED BY <1>1, <1>7, <1>17, <2>1, <2>2 DEF Executed
<1> QED BY <1>19, <1>20, <1>21, <1>22 DEF IInv

-----------------------------------------------------------------------------
LEMMA InvStep == IInv /\ [Next]_vars => IInv'
<1> SUFFICES ASSUME IInv, [Next]_vars PROVE IInv'
  OBVIOUS
<1>1. CASE UNCHANGED vars
  BY <1>1, Same DEF IInv, TypeOK, Counts, Calls, Executed, Target, vars, graph
<1>2. ASSUME NEW from \in Node, NEW to \in Node, AddDep(from, to)
      PROVE  IInv'
  BY <1>2, AddDepInv
<1>3. CASE Clear
  BY <1>3, ClearInv
<1>4. CASE CallStart
  BY <1>4, CallStartInv
<1>5. CASE CountDependency
  BY <1>5, CountDependencyInv
<1>6. CASE ReturnFromComplete
  BY <1>6, ReturnFromCompleteInv
<1>7. CASE CallWait
  BY <1>7, CallWaitInv
<1> QED BY <1>1, <1>2, <1>3, <1>4, <1>5, <1>6, <1>7 DEF Next, Step

\* A task is executed at most once in a run, after all the tasks that it
\* depends on, whatever the graph, the number of links between two tasks and
\* what the run before has left in the counts (MTFlowGraphSched.hpp:253-287).
THEOREM TasksInOrder == Spec => []OnceInOrder
<1>1. IInv => OnceInOrder
  <2> SUFFICES ASSUME IInv PROVE OnceInOrder
    OBVIOUS
  <2>1. TypeOK /\ Counts /\ Executed
    BY DEF IInv
  <2>2. \A n \in Node : run[n] <= 1
    BY <2>1 DEF Executed
  <2>3. ASSUME NEW n \in Node, NEW m \in Node, pc # "idle", run[n] = 1,
               <<m, n>> \in Edges
        PROVE  run[m] = 1
    <3>1. out_arr[m] \in Seq(Node \ {0})
      BY <2>1 DEF TypeOK
    <3>2. PICK i \in 1 .. Len(out_arr[m]) : out_arr[m][i] = n
      BY <2>3 DEF Edges, Contains
    <3>3. n # 0
      BY <3>1, <3>2, ElementOfSeq
    <3>4. <<m, i>> \in Into(n)
      BY <2>1, <3>2, LinkIs DEF Into
    <3>5. <<m, i>> \in Followed(n)
      BY <2>1, <2>3, <3>3, <3>4 DEF Executed
    <3> QED BY <3>5 DEF Followed
  <2> QED BY <2>1, <2>2, <2>3 DEF OnceInOrder
<1> QED BY InvInit, InvStep, <1>1, PTL DEF Spec
=============================================================================
