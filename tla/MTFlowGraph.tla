----------------------------- MODULE MTFlowGraph -----------------------------
(***************************************************************************)
(* MTFlowGraphSimple, a graph of dependencies between tasks, and           *)
(* MTFlowGraphSched, which executes it.  The constructor of the scheduler  *)
(* never sets _mt_flag (MTFlowGraphSched.hpp:72), so that start runs every *)
(* task in the calling thread, by a recursion that is the stack here.      *)
(***************************************************************************)
EXTENDS Integers, Sequences, FiniteSets, Graphs

CONSTANTS
  MAXT,       \* capacity of the graph, a template parameter
  MaxDeps,    \* bound on the dependencies of a graph
  MaxStarts   \* bound on the calls of start in a behaviour

ASSUME FlowAssumption == MAXT \in Nat \ {0} /\ MaxDeps \in Nat /\ MaxStarts \in Nat

Node == 0 .. MAXT - 1

VARIABLES
  nbr_in,     \* nbr_in[n]: _nbr_in of a node
  out_arr,    \* out_arr[n]: the _nbr_out first elements of its _out_arr
  last_node,  \* _last_node
  in_cnt,     \* _in_cnt_arr
  stack,      \* the calls of complete_task under way, the deepest last
  run,        \* run[n]: times the callback has had task n since start
  starts,     \* number of calls of start
  pc          \* what the thread that uses the scheduler does

vars == <<nbr_in, out_arr, last_node, in_cnt, stack, run, starts, pc>>
graph == <<nbr_in, out_arr, last_node>>

Init ==
  /\ nbr_in = [n \in Node |-> 0]
  /\ out_arr = [n \in Node |-> << >>]
  /\ last_node = 0
  /\ in_cnt = [n \in Node |-> 0]
  /\ stack = << >>
  /\ run = [n \in Node |-> 0]
  /\ starts = 0
  /\ pc = "idle"

-----------------------------------------------------------------------------
(* The graph.  It does not change while its tasks run.                     *)

Edges == {e \in Node \X Node : Contains(out_arr[e[1]], e[2])}
\* Task l[1] has the dependency l as its l[2]-th.
Links == {l \in Node \X (1 .. MAXT) : l[2] <= Len(out_arr[l[1]])}
NbrDeps == Cardinality(Links)

\* A link may be added twice; a circular dependency must be avoided.
AddDep(from, to) ==
  /\ pc = "idle"
  /\ NbrDeps < MaxDeps /\ Len(out_arr[from]) < MAXT
  /\ to > 0 /\ from # to
  /\ ~ConnectionsIn([node |-> Node, edge |-> Edges])[to, from]
  /\ out_arr' = [out_arr EXCEPT ![from] = Append(@, to)]
  /\ nbr_in' = [nbr_in EXCEPT ![to] = @ + 1]
  /\ last_node' = Max({last_node, from, to})
  /\ UNCHANGED <<in_cnt, stack, run, starts, pc>>

Clear ==
  /\ pc = "idle"
  /\ nbr_in' = [n \in Node |-> 0]
  /\ out_arr' = [n \in Node |-> << >>]
  /\ last_node' = 0
  /\ UNCHANGED <<in_cnt, stack, run, starts, pc>>

-----------------------------------------------------------------------------
(* The scheduler.                                                          *)

\* The counts are those of the last run up to the last node of this graph.
IsReset(n) == n <= last_node

\* The root is executed, then its call of complete_task begins.
CallStart ==
  /\ pc = "idle"
  /\ starts < MaxStarts
  /\ in_cnt' = [n \in Node |-> IF IsReset(n) THEN 0 ELSE in_cnt[n]]
  /\ run' = [n \in Node |-> IF n = 0 THEN 1 ELSE 0]
  /\ stack' = <<[node |-> 0, pos |-> 1]>>
  /\ starts' = starts + 1
  /\ pc' = "busy"
  /\ UNCHANGED graph

Top == Last(stack)
Cont == Top.pos <= Len(out_arr[Top.node])
out_index == out_arr[Top.node][Top.pos]

MutantReadyEarly(count, n) == count >= nbr_in[n] - 1
MutantReadyLate(count, n) == count > nbr_in[n]
IsReady(count, n) == count >= nbr_in[n]

\* An iteration of complete_task: the next dependent task is counted and, if
\* it is ready, executed, then completed before the iteration goes on.
CountDependency ==
  /\ pc = "busy"
  /\ Cont
  /\ LET count == in_cnt[out_index] + 1
         advanced == [stack EXCEPT ![Len(stack)].pos = @ + 1]
     IN  /\ in_cnt' = [in_cnt EXCEPT ![out_index] = count]
         /\ \/ /\ IsReady(count, out_index)
               /\ run' = [run EXCEPT ![out_index] = @ + 1]
               /\ stack' = Append(advanced, [node |-> out_index, pos |-> 1])
            \/ /\ ~IsReady(count, out_index)
               /\ stack' = advanced
               /\ UNCHANGED run
  /\ UNCHANGED <<graph, starts, pc>>

\* complete_task returns, and start too if the task is the root.
ReturnFromComplete ==
  /\ pc = "busy"
  /\ ~Cont
  /\ stack' = Front(stack)
  /\ pc' = IF Len(stack) = 1 THEN "done" ELSE "busy"
  /\ UNCHANGED <<graph, in_cnt, run, starts>>

CallWait ==
  /\ pc = "done"
  /\ pc' = "idle"
  /\ UNCHANGED <<graph, in_cnt, stack, run, starts>>

-----------------------------------------------------------------------------
Step == CountDependency \/ ReturnFromComplete

Next ==
  \/ \E from, to \in Node : AddDep(from, to)
  \/ Clear \/ CallStart \/ Step \/ CallWait

Spec == Init /\ [][Next]_vars
FairSpec == Spec /\ WF_vars(Step)

-----------------------------------------------------------------------------
(* Properties.                                                             *)

\* In a run, no task is counted more often than it has dependencies, even
\* when the run before has left counts of another graph.
TypeOK ==
  /\ nbr_in \in [Node -> 0 .. MaxDeps]
  /\ out_arr \in [Node -> Seq(Node \ {0})]
  /\ last_node \in Node
  /\ in_cnt \in [Node -> 0 .. MaxDeps]
  /\ stack \in Seq([node : Node, pos : 1 .. MAXT + 1])
  /\ run \in [Node -> Nat]
  /\ starts \in 0 .. MaxStarts
  /\ pc \in {"idle", "busy", "done"}
  /\ pc # "idle" => \A n \in 0 .. last_node : in_cnt[n] <= nbr_in[n]

\* Each task is executed at most once, after all the tasks it depends on,
\* also when a link has been added twice (MTFlowGraphSched.hpp:253-287).
OnceInOrder ==
  /\ TypeOK
  /\ \A n \in Node :
       /\ run[n] <= 1
       /\ pc # "idle" /\ run[n] = 1 => \A m \in Node : <<m, n>> \in Edges => run[m] = 1

\* A task is executed if it has dependencies and all of them are: in a graph
\* without cycles only one set of tasks that holds the root is such.
AllRun ==
  \A n \in Node \ {0} :
    run[n] = 1 <=> /\ \E m \in Node : <<m, n>> \in Edges
                   /\ \A m \in Node : <<m, n>> \in Edges => run[m] = 1

\* start returns, and has executed the tasks whose parents it has all executed.
\* Being connected to the root is not enough (MTFlowGraphSimple.hpp:60 calls it
\* necessary): a task with another parent that is not executed, one without
\* parents for instance, is not either (MTFlowGraphSched.hpp:147-180, 259-283).
StartRunsAll == pc = "busy" ~> pc = "done" /\ AllRun
=============================================================================
