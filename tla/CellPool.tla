------------------------------ MODULE CellPool ------------------------------
(***************************************************************************)
(* conc::CellPool as ThreadPool uses it: take_cell (true), return_cell and *)
(* the growth by zones, by any number of threads.  LockFreeStack is atomic *)
(* here (see its own module), and as no step tells one free cell from      *)
(* another, the stack is the number of its cells.                          *)
(***************************************************************************)
EXTENDS Integers, FiniteSets, FiniteSetsExt

CONSTANTS
  Thread,     \* threads of the process
  None,       \* no thread
  MaxZones,   \* MAX_NBR_ZONES
  BaseSize,   \* BASE_SIZE
  InitCells,  \* argument of expand_to in the constructor of ThreadPool
  MaxHeld,    \* bound on the cells a thread has taken and not returned
  Modulus     \* 2^w, for the width w of size_t

ASSUME PoolAssumption ==
  /\ MaxZones \in Nat \ {0} /\ BaseSize \in Nat \ {0, 1}
  /\ IsFiniteSet(Thread) /\ None \notin Thread
  /\ InitCells \in Nat /\ MaxHeld \in Nat /\ Modulus \in Nat

VARIABLES
  stack,      \* number of cells in _cell_stack
  nbr_avail,  \* _nbr_avail_cells
  nbr_zones,  \* _nbr_zones
  zone_list,  \* the indexes of _zone_list that have a zone
  lock,       \* owner of _alloc_mutex, or None
  pc,         \* what each thread does next
  zones_seen, \* zones_seen[t]: nbr_zones, as take_cell has read it
  zone_index, \* zone_index[t]: zone_index of expand_to
  pos,        \* pos[t]: pos of allocate_zone
  held        \* held[t]: the number of cells thread t has taken

vars == <<stack, nbr_avail, nbr_zones, zone_list, lock, pc, zones_seen,
          zone_index, pos, held>>
locals == <<zones_seen, zone_index, pos>>
zones == <<nbr_zones, zone_list>>

-----------------------------------------------------------------------------
(* The sizes of the zones.                                                 *)

compute_grown_size(n) == (n * 3) \div 2

ZoneSize[z \in 0 .. MaxZones] ==
  IF z = 0 THEN BaseSize ELSE compute_grown_size(ZoneSize[z - 1])

compute_total_size_for_zones[n \in 0 .. MaxZones] ==
  IF n = 0 THEN 0 ELSE compute_total_size_for_zones[n - 1] + ZoneSize[n - 1]

\* The zones expand_to allocates.
ZonesFor(cells) ==
  Min({n \in 0 .. MaxZones : n = MaxZones \/ compute_total_size_for_zones[n] >= cells})

\* A size_t can count the cells of the first zones.
ASSUME SizeAssumption == compute_total_size_for_zones[ZonesFor(InitCells)] < Modulus

Init ==
  /\ nbr_zones = ZonesFor(InitCells)
  /\ zone_list = 0 .. ZonesFor(InitCells) - 1
  /\ stack = compute_total_size_for_zones[ZonesFor(InitCells)]
  /\ nbr_avail = compute_total_size_for_zones[ZonesFor(InitCells)]
  /\ lock = None
  /\ pc = [t \in Thread |-> "idle"]
  /\ zones_seen = [t \in Thread |-> 0]
  /\ zone_index = [t \in Thread |-> 0]
  /\ pos = [t \in Thread |-> 0]
  /\ held = [t \in Thread |-> 0]

Goto(t, l) == pc' = [pc EXCEPT ![t] = l]

\* AtomicInt <size_t>: the counter wraps.
MutantSaturates(n) == nbr_avail' = Max({nbr_avail + n, 0})
add(n) == nbr_avail' = (nbr_avail + n) % Modulus

-----------------------------------------------------------------------------
(* take_cell (true).                                                       *)

\* The number of zones is read once, for all the attempts of the call.
CallTake(t) ==
  /\ pc[t] = "idle"
  /\ held[t] < MaxHeld
  /\ zones_seen' = [zones_seen EXCEPT ![t] = nbr_zones]
  /\ Goto(t, "pop")
  /\ UNCHANGED <<stack, nbr_avail, zones, lock, zone_index, pos, held>>

\* An empty stack makes the pool grow; take_cell fails when it cannot.
MayGrow(t) == zones_seen[t] < MaxZones

Pop(t) ==
  /\ pc[t] = "pop"
  /\ \/ /\ stack > 0
        /\ stack' = stack - 1
        /\ Goto(t, "taken")
        /\ UNCHANGED zone_index
     \/ /\ stack = 0
        /\ zone_index' = [zone_index EXCEPT ![t] = 0]
        /\ Goto(t, IF MayGrow(t) THEN "expand" ELSE "idle")
        /\ UNCHANGED stack
  /\ UNCHANGED <<nbr_avail, zones, lock, zones_seen, pos, held>>

Taken(t) ==
  /\ pc[t] = "taken"
  /\ add(-1)
  /\ held' = [held EXCEPT ![t] = @ + 1]
  /\ Goto(t, "idle")
  /\ UNCHANGED <<stack, zones, lock, locals>>

-----------------------------------------------------------------------------
(* expand_to and allocate_zone.                                            *)

\* One zone more than take_cell has seen.
MutantNoNewZone(t) == zone_index[t] >= zones_seen[t]
Reached(t) ==
  \/ compute_total_size_for_zones[zone_index[t]]
       >= compute_total_size_for_zones[zones_seen[t] + 1]
  \/ zone_index[t] >= MaxZones

\* The zones that are missing are allocated, from the first.
ReadZone(t) ==
  /\ pc[t] = "expand"
  /\ ~Reached(t)
  /\ \/ /\ zone_index[t] \in zone_list
        /\ zone_index' = [zone_index EXCEPT ![t] = @ + 1]
        /\ UNCHANGED pc
     \/ /\ zone_index[t] \notin zone_list
        /\ Goto(t, "alloc")
        /\ UNCHANGED zone_index
  /\ UNCHANGED <<stack, nbr_avail, zones, lock, zones_seen, pos, held>>

LockAlloc(t) ==
  /\ pc[t] = "alloc"
  /\ lock = None
  /\ lock' = t
  /\ Goto(t, "install")
  /\ UNCHANGED <<stack, nbr_avail, zones, locals, held>>

\* The compare-and-swap fails if another thread has installed the zone; the
\* new one is then discarded.
MutantInstalledTwice(t) == TRUE
ZoneIsMissing(t) == zone_index[t] \notin zone_list

InstallZone(t) ==
  /\ pc[t] = "install"
  /\ \/ /\ ZoneIsMissing(t)
        /\ zone_list' = zone_list \cup {zone_index[t]}
        /\ pos' = [pos EXCEPT ![t] = 0]
        /\ Goto(t, "fill")
        /\ UNCHANGED <<lock, zone_index>>
     \/ /\ ~ZoneIsMissing(t)
        /\ lock' = None
        /\ zone_index' = [zone_index EXCEPT ![t] = @ + 1]
        /\ Goto(t, "expand")
        /\ UNCHANGED <<zone_list, pos>>
  /\ UNCHANGED <<stack, nbr_avail, nbr_zones, zones_seen, held>>

\* The cells of the zone are pushed one at a time, and counted after.
PushNew(t) ==
  /\ pc[t] = "fill"
  /\ stack' = stack + 1
  /\ Goto(t, "pushed")
  /\ UNCHANGED <<nbr_avail, zones, lock, locals, held>>

ZoneIsFull(t) == pos[t] + 1 = ZoneSize[zone_index[t]]

CountNew(t) ==
  /\ pc[t] = "pushed"
  /\ add(1)
  /\ pos' = [pos EXCEPT ![t] = @ + 1]
  /\ \/ /\ ~ZoneIsFull(t)
        /\ Goto(t, "fill")
        /\ UNCHANGED <<lock, zone_index>>
     \/ /\ ZoneIsFull(t)
        /\ lock' = None
        /\ zone_index' = [zone_index EXCEPT ![t] = @ + 1]
        /\ Goto(t, "expand")
  /\ UNCHANGED <<stack, zones, zones_seen, held>>

\* AioMax: the number of zones never decreases.
MutantAssigned(n) == nbr_zones' = n
AioMax(n) == nbr_zones' = Max({nbr_zones, n})

RecordZones(t) ==
  /\ pc[t] = "expand"
  /\ Reached(t)
  /\ AioMax(zone_index[t])
  /\ Goto(t, "pop")
  /\ UNCHANGED <<stack, nbr_avail, zone_list, lock, locals, held>>

-----------------------------------------------------------------------------
(* return_cell, and clear_all, which the destructor calls.                 *)

\* A cell may be returned by another thread than the one that took it.
CallReturn(t, u) ==
  /\ pc[t] = "idle"
  /\ held[u] > 0
  /\ held' = [held EXCEPT ![u] = @ - 1]
  /\ stack' = stack + 1
  /\ Goto(t, "returned")
  /\ UNCHANGED <<nbr_avail, zones, lock, locals>>

Returned(t) ==
  /\ pc[t] = "returned"
  /\ add(1)
  /\ Goto(t, "idle")
  /\ UNCHANGED <<stack, zones, lock, locals, held>>

Quiescent == \A t \in Thread : pc[t] = "idle" /\ held[t] = 0

ClearAll ==
  /\ Quiescent
  /\ zone_list # {}
  /\ stack' = 0
  /\ nbr_avail' = 0
  /\ nbr_zones' = 0
  /\ zone_list' = zone_list \ (0 .. nbr_zones - 1)
  /\ UNCHANGED <<lock, pc, locals, held>>

-----------------------------------------------------------------------------
TakeStep(t) == Pop(t) \/ Taken(t)
ExpandStep(t) ==
  \/ ReadZone(t) \/ LockAlloc(t) \/ InstallZone(t) \/ PushNew(t)
  \/ CountNew(t) \/ RecordZones(t)
ThreadStep(t) == TakeStep(t) \/ ExpandStep(t) \/ Returned(t)

Next ==
  \/ \E t \in Thread :
       \/ CallTake(t) \/ ThreadStep(t)
       \/ \E u \in Thread : CallReturn(t, u)
  \/ ClearAll

Spec == Init /\ [][Next]_vars

\* Every thread is scheduled, and gets the mutex when nobody holds it any
\* more.  Nothing obliges a caller to give its cells back.
FairSpec == Spec /\ \A t \in Thread : WF_vars(ThreadStep(t))

-----------------------------------------------------------------------------
(* Properties.                                                             *)

TypeOK ==
  /\ stack \in Nat
  /\ nbr_avail \in 0 .. Modulus - 1
  /\ nbr_zones \in 0 .. MaxZones
  /\ zone_list \subseteq 0 .. MaxZones - 1
  /\ lock \in Thread \cup {None}
  /\ pc \in [Thread -> {"idle", "pop", "taken", "expand", "alloc", "install",
                        "fill", "pushed", "returned"}]
  /\ zones_seen \in [Thread -> 0 .. MaxZones]
  /\ zone_index \in [Thread -> 0 .. MaxZones]
  /\ pos \in [Thread -> Nat]
  /\ held \in [Thread -> 0 .. MaxHeld]

At(labels) == {t \in Thread : pc[t] \in labels}
\* The cells of a zone, from a position on.
CellsFrom(z, i) == {z} \X (i .. ZoneSize[z] - 1)
Allocated == UNION {CellsFrom(z, 0) : z \in zone_list}
\* Those of a zone under way that are not on the stack yet.
NotPushed ==
  UNION {CellsFrom(zone_index[t], IF pc[t] = "fill" THEN pos[t] ELSE pos[t] + 1) :
           t \in At({"fill", "pushed"})}
Held == UNION {{t} \X (1 .. held[t]) : t \in Thread}

\* Each cell of each zone is on the stack, with a caller, or about to be
\* pushed: threads that find the stack empty together allocate each zone once
\* (CellPool.hpp:106-129, 188-213).
CellsAccounted ==
  /\ TypeOK
  /\ Cardinality(Allocated) = stack + Cardinality(NotPushed)
                                 + Cardinality(At({"taken"})) + Cardinality(Held)

\* The counter differs from the number of free cells only by what the calls
\* under way have not counted yet; it wraps below zero when a cell is taken
\* before the push that brought it is counted (CellPool.hpp:160, 174, 210).
\* With every cell back, it is what clear_all asserts (CellPool.hpp:76-79).
AvailMatches ==
  nbr_avail =
    (stack + Cardinality(At({"taken"})) - Cardinality(At({"pushed", "returned"})))
      % Modulus

\* The zones are allocated from the first with no gap, and no zone the pool
\* counts is missing, or it would be leaked by clear_all (CellPool.hpp:87-97).
ZonesContiguous ==
  /\ \E n \in 0 .. MaxZones : zone_list = 0 .. n - 1
  /\ 0 .. nbr_zones - 1 \subseteq zone_list
  /\ (\A t \in Thread : pc[t] \in {"idle", "taken", "returned"}) =>
       zone_list = 0 .. nbr_zones - 1

\* The call has read the number of zones that there are, none being in the
\* making or waiting to be counted.
UpToDate(t) == zones_seen[t] = nbr_zones /\ zone_list = 0 .. nbr_zones - 1

\* A call of take_cell that knows of all the zones returns, with a cell of a
\* new zone if the pool is empty, or with none if there is no zone to add: it
\* does not wait for a cell to come back.  A call whose reading of _nbr_zones
\* is stale has no zone to add and spins, but returns when a cell is on the
\* stack.  Both go on only as long as the other calls take all the cells
\* (CellPool.hpp:135-164).
TakeReturns ==
  \A t \in Thread :
    pc[t] = "pop" /\ (UpToDate(t) \/ stack > 0)
      ~> pc[t] = "idle" \/ \E u \in Thread \ {t} : pc[u] = "taken"
=============================================================================
