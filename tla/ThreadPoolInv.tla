--------------------------- MODULE ThreadPoolInv ---------------------------
(***************************************************************************)
(* The inductive invariant of ThreadPool: the properties to prove, and     *)
(* what each thread's place in the code says of the cells in its hands, of *)
(* the call it is in, and of the pool.  TLC checks it on small instances,  *)
(* ThreadPool_proofs proves it.                                            *)
(***************************************************************************)
EXTENDS ThreadPool

\* A thread holds a cell exactly where the code has one in a local variable.
\* A worker enqueues only from the body of a task.
HandsMatch ==
  \A t \in Thread :
    /\ (new[t] # None) <=> (pc[t] = "link")
    /\ task[t] # None =>
         pc[t] \in {"body", "link", "signal", "return", "threw"}
    /\ pc[t] \in {"body", "return"} => task[t] # None
    /\ t \in Worker /\ pc[t] \in {"link", "signal"} => task[t] # None

SetLabel == {"set", "shrink", "shrunk", "grown"}

\* A thread has a dispatcher to wait for while it is in wait_completion.
CallMatches ==
  \A a \in App :
    /\ pc[a] \in {"idle"} \cup SetLabel => disp[a] = None
    /\ pc[a] \in {"check", "deq", "dummy", "body", "return", "notify", "wake",
                  "empty", "recheck", "sleep"} => disp[a] # None
    /\ pc[a] \in {"link", "signal"} => (task[a] = None <=> disp[a] = None)

\* One thread at a time changes the number of threads, and the number does
\* not change under it.
SetSerialized ==
  /\ \A a, b \in App : pc[a] \in SetLabel /\ pc[b] \in SetLabel => a = b
  /\ \A a \in App : pc[a] \in SetLabel => arg[a] >= 1
  /\ \A a \in App : pc[a] \in {"shrink", "shrunk"} => arg[a] < nbr_threads
  /\ \A a \in App : pc[a] = "grown" => arg[a] <= arr_size

\* The array is allocated at once, and no worker runs before.
ArrayMatches ==
  \/ nbr_threads = 1 /\ arr_size = 0 /\ \A w \in Worker : pc[w] = "none"
  \/ nbr_threads <= arr_size

\* The worker runs, and is not asked to exit.
Active(w) == pc[w] \notin {"none", "dead"} /\ ~exit_flag[w]
FirstActive(n) == \A w \in Worker : Active(w) <=> w < n - 1

\* From the requests to exit, or the start of new workers, to the end of the
\* call, the workers match its argument, and else the number of threads; no
\* more of them than the changes that an exception has ended have left.
ChangeLabel == {"shrink", "shrunk", "grown"}
ExitMatches ==
  /\ \A w \in Worker : pc[w] = "dead" => exit_flag[w]
  /\ arr_size = 0 => \A w \in Worker : ~exit_flag[w]
  /\ arr_size = 0 => cut = MaxThreads
  /\ \A a \in App :
       pc[a] \in ChangeLabel => FirstActive(Lesser(arg[a], cut))
  /\ (\A a \in App : pc[a] \notin ChangeLabel) =>
       FirstActive(Lesser(nbr_threads, cut))

IInv ==
  /\ TypeOK
  /\ HandsMatch
  /\ CallMatches
  /\ SetSerialized
  /\ ArrayMatches
  /\ ExitMatches
  /\ CellsInOnePlace
  /\ DummyKept
  /\ OwnedWhileOut
  /\ CounterCounts
=============================================================================
