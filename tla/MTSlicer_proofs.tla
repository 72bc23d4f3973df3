--------------------------- MODULE MTSlicer_proofs ---------------------------
(***************************************************************************)
(* Proofs about MTSlicer, for any number of slicers, of dispatchers, of    *)
(* threads and of slices, and for planes of any height: the arithmetic of  *)
(* the slices first, then the life of a slicer and of its tasks.           *)
(***************************************************************************)
EXTENDS MTSlicer, TLAPS

-----------------------------------------------------------------------------
(* The slices.                                                             *)

Positive == Nat \ {0}

\* The quotient of the division of an int by a positive one.
LEMMA Quotient ==
  ASSUME NEW a \in Nat, NEW k \in Positive
  PROVE  /\ a \div k \in Nat
         /\ k * (a \div k) <= a
         /\ a < k * (a \div k) + k
  BY SMTT(20) DEF Positive

LEMMA Cancel ==
  ASSUME NEW x \in Int, NEW y \in Int, NEW k \in Positive, k * x < k * y
  PROVE  x < y
<1>1. CASE x >= y
  <2>1. k * x >= k * y
    BY <1>1, SMTT(20) DEF Positive
  <2> QED
    BY <2>1 DEF Positive
<1> QED
  BY <1>1

LEMMA AtLeast ==
  ASSUME NEW a \in Nat, NEW q \in Nat, NEW k \in Positive, k * q <= a
  PROVE  q <= a \div k
<1> DEFINE d == a \div k
<1>1. d \in Nat /\ a < k * d + k
  BY Quotient
<1> HIDE DEF d
<1>2. k * (d + 1) = k * d + k /\ k * q \in Nat /\ k * d \in Nat
  BY <1>1 DEF Positive
<1>3. k * q < k * (d + 1)
  BY <1>1, <1>2 DEF Positive
<1>4. q < d + 1
  BY <1>1, <1>3, Cancel
<1> QED
  BY <1>1, <1>4 DEF d

LEMMA LessThan ==
  ASSUME NEW a \in Nat, NEW q \in Nat, NEW k \in Positive, a < k * q
  PROVE  a \div k < q
<1> DEFINE d == a \div k
<1>1. d \in Nat /\ k * d <= a
  BY Quotient
<1> HIDE DEF d
<1>2. k * q \in Nat /\ k * d \in Nat
  BY <1>1 DEF Positive
<1>3. k * d < k * q
  BY <1>1, <1>2
<1> QED
  BY <1>1, <1>3, Cancel DEF d

\* Where k slices of a plane of h lines meet: c lines after a, if there are as
\* many in the product.
LEMMA Apart ==
  ASSUME NEW a \in Nat, NEW b \in Nat, NEW c \in Nat, NEW k \in Positive,
         a + k * c <= b
  PROVE  a \div k + c <= b \div k
<1> DEFINE d == a \div k
<1>1. d \in Nat /\ k * d <= a
  BY Quotient
<1> HIDE DEF d
<1>2. k * (d + c) = k * d + k * c /\ d + c \in Nat /\ k * c \in Nat /\ k * d \in Nat
  BY <1>1 DEF Positive
<1>3. k * (d + c) <= b
  BY <1>1, <1>2
<1> QED
  BY <1>2, <1>3, AtLeast DEF d

LEMMA Ends ==
  ASSUME NEW h \in Nat, NEW k \in Positive, NEW i \in Nat, NEW j \in Nat, i <= j
  PROVE  /\ SliceEnd(i, h, k) \in Nat /\ SliceEnd(j, h, k) \in Nat
         /\ SliceEnd(i, h, k) <= SliceEnd(j, h, k)
<1>1. (i + 1) * h \in Nat /\ (j + 1) * h \in Nat /\ (i + 1) * h <= (j + 1) * h
  BY SMTT(20)
<1> DEFINE a == (i + 1) * h
           b == (j + 1) * h
<1>2. a \in Nat /\ b \in Nat /\ a + k * 0 <= b
  BY <1>1 DEF Positive
<1> HIDE DEF a, b
<1>3. a \div k + 0 <= b \div k
  BY <1>2, Apart
<1>4. a \div k \in Nat /\ b \div k \in Nat
  BY <1>2, Quotient
<1> QED
  BY <1>3, <1>4 DEF a, b, SliceEnd

LEMMA LastEnd ==
  ASSUME NEW h \in Nat, NEW k \in Positive
  PROVE  SliceEnd(k - 1, h, k) = h
<1>1. (k - 1 + 1) * h = k * h /\ k * h \in Nat
  BY DEF Positive
<1>2. h <= (k * h) \div k
  BY <1>1, AtLeast
<1>3. k * h < k * (h + 1)
  <2>1. k * (h + 1) = k * h + k
    BY DEF Positive
  <2> QED
    BY <2>1, <1>1 DEF Positive
<1>4. (k * h) \div k < h + 1
  BY <1>1, <1>3, LessThan
<1>5. (k * h) \div k \in Nat
  BY <1>1, Quotient
<1> QED
  BY <1>1, <1>2, <1>4, <1>5 DEF SliceEnd

\* The lines of the slice i.
SliceLines(i, h, k) == Slice(i, h, k).y_beg .. Slice(i, h, k).y_end - 1

LEMMA SliceBounds ==
  ASSUME NEW h \in Nat, NEW k \in Positive, NEW i \in 0 .. k - 1
  PROVE  /\ Slice(i, h, k) \in [y_beg : 0 .. h, y_end : 0 .. h]
         /\ i = 0 => Slice(i, h, k).y_beg = 0
         /\ i # 0 => Slice(i, h, k).y_beg = SliceEnd(i - 1, h, k)
         /\ Slice(i, h, k).y_end = SliceEnd(i, h, k)
         /\ SliceLines(i, h, k) \subseteq 0 .. h - 1
<1>1. SliceEnd(i, h, k) \in 0 .. h
  <2>1. i \in Nat /\ k - 1 \in Nat /\ i <= k - 1
    BY DEF Positive
  <2>2. /\ SliceEnd(i, h, k) \in Nat
        /\ SliceEnd(i, h, k) <= SliceEnd(k - 1, h, k)
    BY <2>1, Ends
  <2> QED
    BY <2>2, LastEnd
<1>2. i # 0 => SliceEnd(i - 1, h, k) \in 0 .. h
  <2>1. SUFFICES ASSUME i # 0 PROVE SliceEnd(i - 1, h, k) \in 0 .. h
    OBVIOUS
  <2>2. i - 1 \in Nat /\ k - 1 \in Nat /\ i - 1 <= k - 1
    BY <2>1 DEF Positive
  <2>3. /\ SliceEnd(i - 1, h, k) \in Nat
        /\ SliceEnd(i - 1, h, k) <= SliceEnd(k - 1, h, k)
    BY <2>2, Ends
  <2> QED
    BY <2>3, LastEnd
<1>3. /\ i = 0 => Slice(i, h, k).y_beg = 0
      /\ i # 0 => Slice(i, h, k).y_beg = SliceEnd(i - 1, h, k)
      /\ Slice(i, h, k).y_end = SliceEnd(i, h, k)
  BY DEF Slice
<1>4. Slice(i, h, k) \in [y_beg : 0 .. h, y_end : 0 .. h]
  BY <1>1, <1>2 DEF Slice
<1>5. Slice(i, h, k).y_beg \in 0 .. h /\ Slice(i, h, k).y_end \in 0 .. h
  BY <1>4
<1>6. SliceLines(i, h, k) \subseteq 0 .. h - 1
  BY <1>5 DEF SliceLines
<1> QED
  BY <1>3, <1>4, <1>6

\* No line is in two slices.
LEMMA SlicesApart ==
  ASSUME NEW h \in Nat, NEW k \in Positive,
         NEW i \in 0 .. k - 1, NEW j \in 0 .. k - 1, i < j
  PROVE  SliceLines(i, h, k) \cap SliceLines(j, h, k) = {}
<1>1. j # 0 /\ i \in Nat /\ j - 1 \in Nat /\ i <= j - 1
  OBVIOUS
<1>2. /\ SliceEnd(i, h, k) \in Nat /\ SliceEnd(j - 1, h, k) \in Nat
      /\ SliceEnd(i, h, k) <= SliceEnd(j - 1, h, k)
  BY <1>1, Ends
<1>3. /\ Slice(i, h, k).y_end = SliceEnd(i, h, k)
      /\ Slice(j, h, k).y_beg = SliceEnd(j - 1, h, k)
      /\ Slice(j, h, k) \in [y_beg : 0 .. h, y_end : 0 .. h]
      /\ Slice(i, h, k) \in [y_beg : 0 .. h, y_end : 0 .. h]
  BY <1>1, SliceBounds
<1>4. Slice(i, h, k).y_beg \in Int /\ Slice(j, h, k).y_end \in Int
  BY <1>3
<1> QED
  BY <1>2, <1>3, <1>4 DEF SliceLines

\* Every line of the plane is in a slice.
LEMMA SlicesCover ==
  ASSUME NEW h \in Nat, NEW k \in Positive, NEW y \in 0 .. h - 1
  PROVE  \E i \in 0 .. k - 1 : y \in SliceLines(i, h, k)
<1> DEFINE a == k * (y + 1) - 1
           i == a \div h
<1>1. h \in Positive /\ y + 1 \in Nat /\ y \in Nat
  BY DEF Positive
<1>2. k * (y + 1) \in Nat /\ k * (y + 1) >= 1
  BY <1>1, SMTT(20) DEF Positive
<1>3. a \in Nat
  BY <1>2
<1>4. k * (y + 1) <= k * h
  <2>1. y + 1 <= h
    OBVIOUS
  <2> QED
    BY <2>1, <1>1, SMTT(20) DEF Positive
<1>5. a < h * k
  <2>1. h * k = k * h /\ k * h \in Nat
    BY DEF Positive
  <2> QED
    BY <2>1, <1>2, <1>4
<1>6. i \in Nat /\ h * i <= a /\ a < h * i + h
  BY <1>1, <1>3, Quotient
<1>7. i < k
  BY <1>1, <1>3, <1>5, LessThan DEF Positive
<1>8. a + 1 = k * (y + 1)
  BY <1>2
<1> HIDE DEF a, i
<1>9. i \in 0 .. k - 1
  BY <1>6, <1>7 DEF Positive
<1>10. SliceEnd(i, h, k) \in Nat /\ y < SliceEnd(i, h, k)
  <2>1. (i + 1) * h = h * i + h /\ h * i \in Nat
    BY <1>1, <1>6 DEF Positive
  <2>2. k * (y + 1) <= (i + 1) * h /\ (i + 1) * h \in Nat
    BY <2>1, <1>3, <1>6, <1>8
  <2>3. y + 1 <= SliceEnd(i, h, k)
    BY <1>1, <2>2, AtLeast DEF SliceEnd
  <2>4. SliceEnd(i, h, k) \in Nat
    BY <2>2, Quotient DEF SliceEnd
  <2> QED
    BY <1>1, <2>3, <2>4
<1>11. i # 0 => SliceEnd(i - 1, h, k) \in Nat /\ SliceEnd(i - 1, h, k) <= y
  <2>1. SUFFICES ASSUME i # 0
                 PROVE  SliceEnd(i - 1, h, k) \in Nat /\ SliceEnd(i - 1, h, k) <= y
    OBVIOUS
  <2>2. (i - 1 + 1) * h = h * i /\ h * i \in Nat
    BY <1>1, <1>6 DEF Positive
  <2>3. h * i < k * (y + 1)
    BY <1>3, <1>6, <1>8, <2>2
  <2>4. (h * i) \div k < y + 1
    BY <1>1, <2>2, <2>3, LessThan
  <2>5. (h * i) \div k \in Nat
    BY <2>2, Quotient
  <2> QED
    BY <1>1, <2>2, <2>4, <2>5 DEF SliceEnd
<1>12. y \in SliceLines(i, h, k)
  <2>1. /\ i = 0 => Slice(i, h, k).y_beg = 0
        /\ i # 0 => Slice(i, h, k).y_beg = SliceEnd(i - 1, h, k)
        /\ Slice(i, h, k).y_end = SliceEnd(i, h, k)
    BY <1>9, SliceBounds
  <2>2. CASE i = 0
    BY <1>1, <1>10, <2>1, <2>2 DEF SliceLines
  <2>3. CASE i # 0
    BY <1>1, <1>10, <1>11, <2>1, <2>3 DEF SliceLines
  <2> QED
    BY <2>2, <2>3
<1> QED
  BY <1>9, <1>12

\* A slice has m lines at least if m lines for each are not too many.
LEMMA SliceMinimum ==
  ASSUME NEW h \in Nat, NEW m \in Nat, NEW k \in Positive, k * m <= h,
         NEW i \in 0 .. k - 1
  PROVE  Slice(i, h, k).y_end - Slice(i, h, k).y_beg >= m
<1>1. /\ i = 0 => Slice(i, h, k).y_beg = 0
      /\ i # 0 => Slice(i, h, k).y_beg = SliceEnd(i - 1, h, k)
      /\ Slice(i, h, k).y_end = SliceEnd(i, h, k)
  BY SliceBounds
<1>2. i * h \in Nat /\ (i + 1) * h = i * h + h
  OBVIOUS
<1>3. i * h + k * m <= (i + 1) * h /\ (i + 1) * h \in Nat /\ k * m \in Nat
  BY <1>2 DEF Positive
<1> DEFINE a == i * h
           b == (i + 1) * h
<1>4. a \in Nat /\ b \in Nat /\ a + k * m <= b
  BY <1>2, <1>3
<1>5. i = 0 => a = 0
  OBVIOUS
<1>6. i # 0 => SliceEnd(i - 1, h, k) = a \div k
  BY DEF SliceEnd
<1>7. SliceEnd(i, h, k) = b \div k
  BY DEF SliceEnd
<1> HIDE DEF a, b
<1>8. a \div k + m <= b \div k /\ a \div k \in Nat /\ b \div k \in Nat
  BY <1>4, Apart, Quotient
<1> QED
  BY <1>1, <1>5, <1>6, <1>7, <1>8

\* There is one slice at least, and one thread for each at most; they are not
\* smaller than the minimum.
LEMMA SliceCount ==
  ASSUME NEW n \in Nat, NEW h \in Nat, NEW m \in Positive, MAXT \in Positive
  PROVE  /\ NbrSlices(n, h, m) \in 1 .. MAXT
         /\ NbrSlices(n, h, m) = 1 \/ NbrSlices(n, h, m) * m <= h
<1> DEFINE k == NbrSlices(n, h, m)
           d == h \div m
<1>1. d \in Nat /\ m * d <= h
  BY Quotient
<1>2. /\ k = 1 \/ (k > 1 /\ k \in Nat /\ k <= MAXT /\ k <= d)
  BY <1>1 DEF NbrSlices, Positive
<1> HIDE DEF k, d
<1>3. k > 1 /\ k \in Nat /\ k <= d => k * m <= m * d
  BY <1>1, SMTT(20) DEF Positive
<1>4. m * d \in Nat
  BY <1>1 DEF Positive
<1>5. k > 1 /\ k \in Nat /\ k <= d => k * m <= h
  <2>1. k \in Nat => k * m \in Nat
    BY DEF Positive
  <2> QED
    BY <1>1, <1>3, <1>4, <2>1
<1> QED
  BY <1>2, <1>5 DEF k, Positive

-----------------------------------------------------------------------------
(* The invariant.                                                          *)

GroupTypeOK ==
  /\ group \in [Task -> Dispatcher \cup {Dummy, None}]
  /\ stage \in [Task -> {"free", "scheduled", "running"}]
  /\ waiting \in [Slicer -> Dispatcher \cup {Dummy, None}]
  /\ ended \in [Slicer -> {"returned", "threw"}]

\* The slices of a plane of h lines when there are k, of m lines at least.
Cut(data, k, h, m) ==
  /\ k = 1 \/ k * m <= h
  /\ \A i \in 0 .. k - 1 : data[i] = Slice(i, h, k)

InStart == {"create", "undefined", "enqueue"}
AfterStart == {"started", "waiting", "waited"}

\* Where the user of slicer s is, and the state of s there.
Life(s) ==
  /\ pc[s] \in InStart \cup {"waiting"} => mt_flag[s]
  /\ pc[s] \in InStart \cup AfterStart => proc_ptr[s]
  /\ pc[s] = "enqueue" \/ (mt_flag[s] /\ pc[s] \in AfterStart) =>
       dispatcher_ptr[s] # None
  /\ ~mt_flag[s] \/ pc[s] \in {"idle", "create"} => dispatcher_ptr[s] = None
  /\ pc[s] = "waiting" => ~fallback /\ waiting[s] = dispatcher_ptr[s]
  /\ aborted[s] => mt_flag[s] /\ pc[s] \in AfterStart \cup {"dead"}
  /\ aborted[s] /\ pc[s] \in {"waiting", "waited"} => dying[s]
  /\ dying[s] => pc[s] \in {"waiting", "waited", "dead"}

\* How far start has gone.
Started(s) ==
  mt_flag[s] =>
    /\ pc[s] \in {"create", "undefined"} => t_cnt[s] = 0
    /\ pc[s] = "enqueue" \/ aborted[s] => t_cnt[s] < nbr_threads[s]
    /\ pc[s] \in AfterStart /\ ~aborted[s] => t_cnt[s] = nbr_threads[s]
    /\ pc[s] \in InStart \cup AfterStart =>
         /\ height[s] \in 1 .. MaxHeight
         /\ Cut(task_data_arr[s], nbr_threads[s], height[s], min_slice_h[s])

\* A task that is not over belongs to what its slicer is doing.
Alive(s, i) ==
  stage[<<s, i>>] # "free" =>
    /\ mt_flag[s] /\ ~fallback
    /\ pc[s] \in {"enqueue", "started", "waiting"}
    /\ group[<<s, i>>] = dispatcher_ptr[s]
    /\ i < t_cnt[s] \/ (i = t_cnt[s] /\ aborted[s])

\* A line is processed by the task of its slice, in the end; it is not known
\* whether the last task has been enqueued when start has thrown.
Lined(s, i) ==
  mt_flag[s] /\ pc[s] \in InStart \cup AfterStart /\ i < nbr_threads[s] =>
    \A y \in SliceLines(i, height[s], nbr_threads[s]) :
      /\ stage[<<s, i>>] # "free" => lines[s][y] = 0
      /\ i > t_cnt[s] \/ (i = t_cnt[s] /\ ~aborted[s]) => lines[s][y] = 0
      /\ i < t_cnt[s] /\ stage[<<s, i>>] = "free" => lines[s][y] = 1

Lines(s) ==
  /\ \A y \in Line : lines[s][y] <= (IF y < height[s] THEN 1 ELSE 0)
  /\ ~mt_flag[s] /\ pc[s] \in AfterStart =>
       \A y \in Line : y < height[s] => lines[s][y] = 1

IInv ==
  /\ TypeOK /\ GroupTypeOK
  /\ \A s \in Slicer : Life(s) /\ Started(s) /\ Lines(s)
  /\ \A s \in Slicer, i \in Index : Alive(s, i) /\ Lined(s, i)

-----------------------------------------------------------------------------
(* A step of one slicer leaves the others alone.                           *)

Same(s) ==
  /\ mt_flag'[s] = mt_flag[s] /\ proc_ptr'[s] = proc_ptr[s]
  /\ dispatcher_ptr'[s] = dispatcher_ptr[s]
  /\ task_data_arr'[s] = task_data_arr[s]
  /\ nbr_threads'[s] = nbr_threads[s] /\ height'[s] = height[s]
  /\ min_slice_h'[s] = min_slice_h[s]
  /\ t_cnt'[s] = t_cnt[s] /\ aborted'[s] = aborted[s] /\ dying'[s] = dying[s]
  /\ lines'[s] = lines[s] /\ pc'[s] = pc[s] /\ waiting'[s] = waiting[s]
  /\ \A i \in Index : /\ stage'[<<s, i>>] = stage[<<s, i>>]
                      /\ group'[<<s, i>>] = group[<<s, i>>]

\* What the invariant says of slicer s.
Fine(s) ==
  /\ Life(s) /\ Started(s) /\ Lines(s)
  /\ \A i \in Index : Alive(s, i) /\ Lined(s, i)

\* SlicerAssumption, but for its last conjunct, which nothing here rests on.
LEMMA Sizes ==
  /\ None \notin Dispatcher \cup {Dummy} /\ Dummy \notin Dispatcher
  /\ MAXT \in Nat \ {0} /\ MaxHeight \in Nat
  /\ MaxMin \in Nat \ {0} /\ MaxStarts \in Nat
  /\ NbrThreads \subseteq Nat
  BY SlicerAssumption, SMT

LEMMA Parts == IInv <=> TypeOK /\ GroupTypeOK /\ \A s \in Slicer : Fine(s)
  BY DEF IInv, Fine

LEMMA Frame ==
  ASSUME NEW s \in Slicer, Fine(s), Same(s), fallback' = fallback
  PROVE  Fine(s)'
<1>1. Life(s)'
  BY DEF Fine, Life, Same
<1>2. Started(s)'
  BY DEF Fine, Started, Same
<1>3. Lines(s)'
  BY DEF Fine, Lines, Same
<1>4. ASSUME NEW i \in Index
      PROVE  Alive(s, i)' /\ Lined(s, i)'
  <2>1. Alive(s, i) /\ Lined(s, i)
    BY DEF Fine
  <2> QED
    BY <2>1 DEF Alive, Lined, Same
<1> QED
  BY <1>1, <1>2, <1>3, <1>4 DEF Fine

LEMMA OneSlicer ==
  ASSUME IInv, NEW s \in Slicer, fallback' = fallback,
         TypeOK', GroupTypeOK',
         \A u \in Slicer \ {s} : Same(u),
         Fine(s)'
  PROVE  IInv'
<1>1. ASSUME NEW u \in Slicer PROVE Fine(u)'
  <2>1. CASE u = s
    BY <2>1
  <2>2. CASE u # s
    BY <2>2, Parts, Frame
  <2> QED
    BY <2>1, <2>2
<1> QED
  BY <1>1 DEF IInv, Fine

LEMMA Initial == Init => IInv
<1> SUFFICES ASSUME Init PROVE IInv
  OBVIOUS
<1> USE Sizes
<1>1. TypeOK
  <2>1. /\ fallback \in BOOLEAN /\ mt_flag \in [Slicer -> BOOLEAN]
        /\ proc_ptr \in [Slicer -> BOOLEAN]
        /\ aborted \in [Slicer -> BOOLEAN] /\ dying \in [Slicer -> BOOLEAN]
    <3>1. /\ fallback \in BOOLEAN /\ mt_flag \in [Slicer -> BOOLEAN]
          /\ proc_ptr = [s \in Slicer |-> FALSE]
          /\ aborted = [s \in Slicer |-> FALSE]
          /\ dying = [s \in Slicer |-> FALSE]
      BY DEF Init
    <3> QED
      BY <3>1, Zenon
  <2>2. 0 \in Bounds /\ 1 \in 1 .. MAXT /\ 1 \in 1 .. MaxMin
    BY DEF Bounds
  <2>3. task_data_arr \in [Slicer -> [Index -> [y_beg : Bounds, y_end : Bounds]]]
    BY <2>2 DEF Init
  <2>4. lines \in [Slicer -> [Line -> Nat]]
    BY DEF Init, NoLine
  <2> QED
    BY <2>1, <2>2, <2>3, <2>4 DEF Init, TypeOK
<1>2. GroupTypeOK
  BY DEF Init, Library!Init, GroupTypeOK
<1>3. ASSUME NEW s \in Slicer PROVE Fine(s)
  <2>1. pc[s] = "idle" /\ ~aborted[s] /\ ~dying[s] /\ dispatcher_ptr[s] = None
    BY DEF Init
  <2>2. Life(s) /\ Started(s)
    BY <2>1 DEF Life, Started, InStart, AfterStart
  <2>3. Lines(s)
    BY <2>1 DEF Init, Lines, NoLine, AfterStart
  <2>4. ASSUME NEW i \in Index PROVE Alive(s, i) /\ Lined(s, i)
    <3>1. stage[<<s, i>>] = "free"
      BY DEF Init, Library!Init, Task
    <3> QED
      BY <2>1, <3>1 DEF Alive, Lined, InStart, AfterStart
  <2> QED
    BY <2>2, <2>3, <2>4 DEF Fine
<1> QED
  BY <1>1, <1>2, <1>3, Parts

-----------------------------------------------------------------------------
(* start.                                                                  *)

LEMMA CallStartStep ==
  ASSUME IInv, NEW s \in Slicer, NEW h \in 1 .. MaxHeight, NEW m \in 1 .. MaxMin,
         CallStart(s, h, m)
  PROVE  IInv'
<1> USE Sizes
<1>1. /\ mt_flag[s] /\ pc[s] = "idle" /\ starts[s] < MaxStarts
      /\ starts' = [starts EXCEPT ![s] = @ + 1]
      /\ proc_ptr' = [proc_ptr EXCEPT ![s] = TRUE]
      /\ height' = [height EXCEPT ![s] = h]
      /\ min_slice_h' = [min_slice_h EXCEPT ![s] = m]
      /\ t_cnt' = [t_cnt EXCEPT ![s] = 0]
      /\ lines' = [lines EXCEPT ![s] = NoLine]
      /\ pc' = [pc EXCEPT ![s] = "create"]
      /\ UNCHANGED <<fallback, mt_flag, dispatcher_ptr, aborted, dying, group_vars>>
  BY DEF CallStart, Called, Goto
<1>2. PICK n \in IF fallback THEN {1} ELSE NbrThreads :
        LET k == NbrSlices(n, h, m) IN
        /\ nbr_threads' = [nbr_threads EXCEPT ![s] = k]
        /\ task_data_arr' = [task_data_arr EXCEPT ![s] =
             [i \in Index |-> IF i < k THEN Slice(i, h, k)
                               ELSE task_data_arr[s][i]]]
  BY DEF CallStart
<1>3. n \in Nat
  BY <1>2
<1> DEFINE k == NbrSlices(n, h, m)
<1>4. /\ nbr_threads' = [nbr_threads EXCEPT ![s] = k]
      /\ task_data_arr' = [task_data_arr EXCEPT ![s] =
           [i \in Index |-> IF i < k THEN Slice(i, h, k) ELSE task_data_arr[s][i]]]
  BY <1>2
<1>5. k \in 1 .. MAXT /\ (k = 1 \/ k * m <= h)
  <2>1. MAXT \in Positive /\ m \in Positive /\ h \in Nat
    BY DEF Positive
  <2> QED
    BY <1>3, <2>1, SliceCount
<1> HIDE DEF k
<1>6. TypeOK /\ GroupTypeOK /\ Fine(s)
  BY Parts
<1>7. k \in Positive /\ h \in Nat /\ h \in Bounds /\ 0 \in 0 .. MAXT
  BY <1>5 DEF Positive, Bounds
<1>8. \A i \in Index : i < k => Slice(i, h, k) \in [y_beg : Bounds, y_end : Bounds]
  <2> TAKE i \in Index
  <2> HAVE i < k
  <2>1. i \in 0 .. k - 1
    BY <1>5 DEF Index
  <2>2. Slice(i, h, k) \in [y_beg : 0 .. h, y_end : 0 .. h]
    BY <1>7, <2>1, SliceBounds
  <2>3. 0 .. h \subseteq Bounds
    BY DEF Bounds
  <2> QED
    BY <2>2, <2>3
<1>9. TypeOK'
  <2>1. task_data_arr' \in [Slicer -> [Index -> [y_beg : Bounds, y_end : Bounds]]]
    <3> DEFINE d == [i \in Index |-> IF i < k THEN Slice(i, h, k) ELSE task_data_arr[s][i]]
    <3>1. \A i \in Index : task_data_arr[s][i] \in [y_beg : Bounds, y_end : Bounds]
      BY <1>6 DEF TypeOK
    <3>2. d \in [Index -> [y_beg : Bounds, y_end : Bounds]]
      BY <1>8, <3>1
    <3> HIDE DEF d
    <3> QED
      BY <1>4, <1>6, <3>2 DEF d, TypeOK
  <2>2. lines' \in [Slicer -> [Line -> Nat]]
    BY <1>1, <1>6 DEF TypeOK, NoLine
  <2>3. /\ proc_ptr' \in [Slicer -> BOOLEAN] /\ fallback' \in BOOLEAN
        /\ mt_flag' \in [Slicer -> BOOLEAN] /\ aborted' \in [Slicer -> BOOLEAN]
        /\ dying' \in [Slicer -> BOOLEAN]
    BY <1>1, <1>6 DEF TypeOK
  <2>4. starts' \in [Slicer -> 0 .. MaxStarts]
    BY <1>1, <1>6 DEF TypeOK
  <2>5. /\ nbr_threads' \in [Slicer -> 1 .. MAXT]
        /\ height' \in [Slicer -> Bounds]
        /\ min_slice_h' \in [Slicer -> 1 .. MaxMin]
        /\ t_cnt' \in [Slicer -> 0 .. MAXT]
    BY <1>1, <1>4, <1>5, <1>6, <1>7 DEF TypeOK
  <2> QED
    BY <1>1, <1>6, <2>1, <2>2, <2>3, <2>4, <2>5 DEF TypeOK
<1>10. GroupTypeOK'
  BY <1>1, <1>6 DEF GroupTypeOK, group_vars
<1>11. \A u \in Slicer \ {s} : Same(u)
  BY <1>1, <1>4, <1>6 DEF Same, TypeOK, group_vars
<1>12. /\ pc'[s] = "create" /\ mt_flag'[s] /\ proc_ptr'[s]
       /\ dispatcher_ptr'[s] = None /\ ~aborted'[s] /\ ~dying'[s]
       /\ t_cnt'[s] = 0 /\ nbr_threads'[s] = k /\ height'[s] = h /\ min_slice_h'[s] = m
       /\ lines'[s] = NoLine
       /\ \A i \in 0 .. k - 1 : task_data_arr'[s][i] = Slice(i, h, k)
  <2>1. dispatcher_ptr[s] = None /\ ~aborted[s] /\ ~dying[s]
    BY <1>1, <1>6 DEF Fine, Life, AfterStart
  <2>2. \A i \in 0 .. k - 1 : i \in Index /\ i < k
    BY <1>5 DEF Index
  <2> QED
    BY <1>1, <1>4, <1>6, <2>1, <2>2 DEF TypeOK
<1>13. Fine(s)'
  <2>1. Life(s)'
    BY <1>12 DEF Life, InStart, AfterStart
  <2>2. Cut(task_data_arr'[s], k, h, m)
    BY <1>5, <1>12 DEF Cut
  <2>3. Started(s)'
    BY <1>12, <2>2 DEF Started, AfterStart
  <2>4. \A y \in Line : lines'[s][y] = 0
    BY <1>12 DEF NoLine
  <2>5. Lines(s)'
    BY <1>12, <2>4 DEF Lines
  <2>6. ASSUME NEW i \in Index PROVE Alive(s, i)' /\ Lined(s, i)'
    <3>1. stage'[<<s, i>>] = "free"
      BY <1>1, <1>6 DEF Fine, Alive, group_vars
    <3>2. i < k => SliceLines(i, h, k) \subseteq Line
      <4>1. SUFFICES ASSUME i < k PROVE SliceLines(i, h, k) \subseteq Line
        OBVIOUS
      <4>2. i \in 0 .. k - 1
        BY <1>5, <4>1 DEF Index
      <4>3. SliceLines(i, h, k) \subseteq 0 .. h - 1
        BY <1>7, <4>2, SliceBounds
      <4> QED
        BY <4>3 DEF Line
    <3>3. ~ i < 0
      BY DEF Index
    <3> QED
      BY <1>12, <2>4, <3>1, <3>2, <3>3 DEF Alive, Lined
  <2> QED
    BY <2>1, <2>3, <2>5, <2>6 DEF Fine
<1> QED
  BY <1>1, <1>9, <1>10, <1>11, <1>13, OneSlicer

LEMMA CallStartAloneStep ==
  ASSUME IInv, NEW s \in Slicer, NEW h \in 1 .. MaxHeight, CallStartAlone(s, h)
  PROVE  IInv'
<1> USE Sizes
<1>1. /\ ~mt_flag[s] /\ pc[s] = "idle" /\ starts[s] < MaxStarts
      /\ starts' = [starts EXCEPT ![s] = @ + 1]
      /\ proc_ptr' = [proc_ptr EXCEPT ![s] = TRUE]
      /\ height' = [height EXCEPT ![s] = h]
      /\ lines' = [lines EXCEPT ![s] = [y \in Line |-> IF y < h THEN 1 ELSE 0]]
      /\ pc' = [pc EXCEPT ![s] = "started"]
      /\ UNCHANGED <<fallback, mt_flag, dispatcher_ptr, task_data_arr, nbr_threads,
                     min_slice_h, t_cnt, aborted, dying, group_vars>>
  BY DEF CallStartAlone, Called, Goto
<1>2. TypeOK /\ GroupTypeOK /\ Fine(s)
  BY Parts
<1>3. TypeOK'
  <2>1. lines' \in [Slicer -> [Line -> Nat]]
    BY <1>1, <1>2 DEF TypeOK
  <2>2. starts' \in [Slicer -> 0 .. MaxStarts]
    BY <1>1, <1>2 DEF TypeOK
  <2>3. height' \in [Slicer -> Bounds]
    BY <1>1, <1>2 DEF TypeOK, Bounds
  <2>4. /\ proc_ptr' \in [Slicer -> BOOLEAN] /\ fallback' \in BOOLEAN
        /\ mt_flag' \in [Slicer -> BOOLEAN] /\ aborted' \in [Slicer -> BOOLEAN]
        /\ dying' \in [Slicer -> BOOLEAN]
    BY <1>1, <1>2 DEF TypeOK
  <2> QED
    BY <1>1, <1>2, <2>1, <2>2, <2>3, <2>4 DEF TypeOK
<1>4. GroupTypeOK'
  BY <1>1, <1>2 DEF GroupTypeOK, group_vars
<1>5. \A u \in Slicer \ {s} : Same(u)
  BY <1>1, <1>2 DEF Same, TypeOK, group_vars
<1>6. /\ pc'[s] = "started" /\ ~mt_flag'[s] /\ proc_ptr'[s]
      /\ dispatcher_ptr'[s] = None /\ ~aborted'[s] /\ ~dying'[s]
      /\ height'[s] = h
      /\ lines'[s] = [y \in Line |-> IF y < h THEN 1 ELSE 0]
  <2>1. dispatcher_ptr[s] = None /\ ~aborted[s] /\ ~dying[s]
    BY <1>1, <1>2 DEF Fine, Life, AfterStart
  <2> QED
    BY <1>1, <1>2, <2>1 DEF TypeOK
<1>7. Fine(s)'
  <2>1. Life(s)' /\ Started(s)'
    BY <1>6 DEF Life, Started, InStart, AfterStart
  <2>2. Lines(s)'
    BY <1>6 DEF Lines
  <2>3. ASSUME NEW i \in Index PROVE Alive(s, i)' /\ Lined(s, i)'
    <3>1. stage'[<<s, i>>] = "free"
      BY <1>1, <1>2 DEF Fine, Alive, group_vars
    <3> QED
      BY <1>6, <3>1 DEF Alive, Lined
  <2> QED
    BY <2>1, <2>2, <2>3 DEF Fine
<1> QED
  BY <1>1, <1>3, <1>4, <1>5, <1>7, OneSlicer

LEMMA CreateDispatcherStep ==
  ASSUME IInv, NEW s \in Slicer, CreateDispatcher(s)
  PROVE  IInv'
<1> USE Sizes
<1>1. PICK d \in IF fallback THEN {Dummy} ELSE Dispatcher \cup {None} :
        /\ dispatcher_ptr' = [dispatcher_ptr EXCEPT ![s] = d]
        /\ pc' = [pc EXCEPT ![s] = IF d = None THEN "undefined" ELSE "enqueue"]
  BY DEF CreateDispatcher, Goto
<1>2. /\ pc[s] = "create"
      /\ UNCHANGED <<fallback, mt_flag, proc_ptr, start_vars, t_cnt, aborted,
                     dying, lines, starts, group_vars>>
  BY DEF CreateDispatcher
<1>3. TypeOK /\ GroupTypeOK /\ Fine(s)
  BY Parts
<1>4. d \in Dispatcher \cup {Dummy, None}
  OBVIOUS
<1>5. TypeOK'
  BY <1>1, <1>2, <1>3, <1>4 DEF TypeOK, start_vars
<1>6. GroupTypeOK'
  BY <1>2, <1>3 DEF GroupTypeOK, group_vars
<1>7. \A u \in Slicer \ {s} : Same(u)
  BY <1>1, <1>2, <1>3 DEF Same, TypeOK, start_vars, group_vars
<1>8. /\ dispatcher_ptr'[s] = d
      /\ pc'[s] = IF d = None THEN "undefined" ELSE "enqueue"
  BY <1>1, <1>3 DEF TypeOK
<1>9. Fine(s)'
  <2>1. mt_flag[s] /\ proc_ptr[s] /\ ~aborted[s] /\ ~dying[s]
    BY <1>2, <1>3 DEF Fine, Life, InStart, AfterStart
  <2>2. Life(s)'
    BY <1>2, <1>8, <2>1 DEF Life, InStart, AfterStart
  <2>3. Started(s)'
    <3>1. t_cnt[s] = 0 /\ nbr_threads[s] \in 1 .. MAXT
      BY <1>2, <1>3, <2>1 DEF Fine, Started, TypeOK
    <3> QED
      BY <1>2, <1>3, <1>8, <2>1, <3>1 DEF Fine, Started, InStart, AfterStart, start_vars
  <2>4. Lines(s)'
    BY <1>2, <1>3, <2>1 DEF Fine, Lines, start_vars
  <2>5. ASSUME NEW i \in Index PROVE Alive(s, i)' /\ Lined(s, i)'
    <3>1. Alive(s, i) /\ Lined(s, i)
      BY <1>3 DEF Fine
    <3> QED
      BY <1>2, <1>8, <3>1 DEF Alive, Lined, InStart, AfterStart, start_vars, group_vars
  <2> QED
    BY <2>2, <2>3, <2>4, <2>5 DEF Fine
<1> QED
  BY <1>2, <1>5, <1>6, <1>7, <1>9, OneSlicer

\* What the three ways to enqueue a task find.
LEMMA Enqueuing ==
  ASSUME IInv, NEW s \in Slicer, pc[s] = "enqueue"
  PROVE  /\ mt_flag[s] /\ proc_ptr[s] /\ ~aborted[s] /\ ~dying[s]
         /\ dispatcher_ptr[s] # None
         /\ t_cnt[s] \in Index /\ nbr_threads[s] \in 1 .. MAXT
         /\ t_cnt[s] < nbr_threads[s]
         /\ height[s] \in 1 .. MaxHeight
         /\ Cut(task_data_arr[s], nbr_threads[s], height[s], min_slice_h[s])
<1>1. TypeOK /\ Fine(s)
  BY Parts
<1>2. mt_flag[s] /\ proc_ptr[s] /\ ~aborted[s] /\ ~dying[s] /\ dispatcher_ptr[s] # None
  BY <1>1 DEF Fine, Life, InStart, AfterStart
<1>3. /\ t_cnt[s] < nbr_threads[s]
      /\ height[s] \in 1 .. MaxHeight
      /\ Cut(task_data_arr[s], nbr_threads[s], height[s], min_slice_h[s])
  BY <1>1, <1>2 DEF Fine, Started, InStart
<1>4. t_cnt[s] \in 0 .. MAXT /\ nbr_threads[s] \in 1 .. MAXT
  BY <1>1 DEF TypeOK
<1>5. t_cnt[s] \in Index
  BY <1>3, <1>4, Sizes DEF Index
<1> QED
  BY <1>2, <1>3, <1>4, <1>5

LEMMA EnqueueTaskStep ==
  ASSUME IInv, NEW s \in Slicer, EnqueueTask(s)
  PROVE  IInv'
<1> USE Sizes
<1> DEFINE t == t_cnt[s]
           k == nbr_threads[s]
<1>1. /\ ~fallback /\ pc[s] = "enqueue"
      /\ t_cnt' = [t_cnt EXCEPT ![s] = @ + 1]
      /\ pc' = [pc EXCEPT ![s] = IF t_cnt'[s] = k THEN "started" ELSE "enqueue"]
      /\ UNCHANGED <<fallback, mt_flag, proc_ptr, dispatcher_ptr, start_vars,
                     aborted, dying, starts, lines>>
  BY DEF EnqueueTask, NextTask, Goto
<1>2. /\ stage[<<s, t>>] = "free"
      /\ stage' = [stage EXCEPT ![<<s, t>>] = "scheduled"]
      /\ group' = [group EXCEPT ![<<s, t>>] = dispatcher_ptr[s]]
      /\ UNCHANGED <<waiting, ended>>
  BY DEF EnqueueTask, Library!Schedule
<1>3. TypeOK /\ GroupTypeOK /\ Fine(s)
  BY Parts
<1>4. /\ mt_flag[s] /\ proc_ptr[s] /\ ~aborted[s] /\ ~dying[s]
      /\ dispatcher_ptr[s] # None
      /\ t \in Index /\ k \in 1 .. MAXT /\ t < k
  BY <1>1, Enqueuing
<1>5. t_cnt'[s] = t + 1 /\ t + 1 \in 0 .. MAXT
  BY <1>1, <1>3, <1>4 DEF TypeOK, Index
<1>6. pc'[s] = IF t + 1 = k THEN "started" ELSE "enqueue"
  BY <1>1, <1>3, <1>5 DEF TypeOK
<1>7. TypeOK'
  BY <1>1, <1>3, <1>5, <1>6 DEF TypeOK, start_vars
<1>8. GroupTypeOK'
  BY <1>2, <1>3, <1>4 DEF GroupTypeOK, TypeOK
<1>9. \A u \in Slicer \ {s} : Same(u)
  BY <1>1, <1>2, <1>3 DEF Same, TypeOK, GroupTypeOK, Task, start_vars
<1>10. /\ stage'[<<s, t>>] = "scheduled" /\ group'[<<s, t>>] = dispatcher_ptr[s]
       /\ \A i \in Index \ {t} : /\ stage'[<<s, i>>] = stage[<<s, i>>]
                                 /\ group'[<<s, i>>] = group[<<s, i>>]
  BY <1>2, <1>3, <1>4 DEF GroupTypeOK, Task
<1> HIDE DEF t, k
<1>11. /\ t_cnt[s] = t /\ nbr_threads[s] = k /\ nbr_threads'[s] = k
       /\ height'[s] = height[s] /\ lines'[s] = lines[s]
       /\ task_data_arr'[s] = task_data_arr[s] /\ min_slice_h'[s] = min_slice_h[s]
  BY <1>1 DEF t, k, start_vars
<1>12. Fine(s)'
  <2>1. Life(s)'
    BY <1>1, <1>4, <1>6 DEF Life, InStart, AfterStart
  <2>2. Started(s)'
    BY <1>1, <1>3, <1>4, <1>5, <1>6, <1>11
       DEF Fine, Started, InStart, AfterStart, Index
  <2>3. Lines(s)'
    BY <1>1, <1>3, <1>4, <1>11 DEF Fine, Lines
  <2>4. ASSUME NEW i \in Index PROVE Alive(s, i)'
    <3>1. Alive(s, i)
      BY <1>3 DEF Fine
    <3>2. CASE i = t
      BY <1>1, <1>4, <1>5, <1>6, <1>10, <3>2 DEF Alive, Index
    <3>3. CASE i # t
      BY <1>1, <1>4, <1>5, <1>6, <1>10, <1>11, <3>1, <3>3 DEF Alive, Index
    <3> QED
      BY <3>2, <3>3
  <2>5. ASSUME NEW i \in Index PROVE Lined(s, i)'
    <3>1. Lined(s, i)
      BY <1>3 DEF Fine
    <3>2. SUFFICES ASSUME i < k, NEW y \in SliceLines(i, height[s], k)
                   PROVE  /\ stage'[<<s, i>>] # "free" => lines[s][y] = 0
                          /\ i > t + 1 \/ (i = t + 1 /\ ~aborted[s]) => lines[s][y] = 0
                          /\ i < t + 1 /\ stage'[<<s, i>>] = "free" => lines[s][y] = 1
      BY <1>1, <1>5, <1>11 DEF Lined
    <3>3. /\ stage[<<s, i>>] # "free" => lines[s][y] = 0
          /\ i > t \/ (i = t /\ ~aborted[s]) => lines[s][y] = 0
          /\ i < t /\ stage[<<s, i>>] = "free" => lines[s][y] = 1
      BY <1>1, <1>4, <1>11, <3>1, <3>2 DEF Lined, InStart
    <3>4. CASE i = t
      BY <1>4, <1>10, <3>3, <3>4 DEF Index
    <3>5. CASE i # t
      BY <1>4, <1>10, <3>3, <3>5 DEF Index
    <3> QED
      BY <3>4, <3>5
  <2> QED
    BY <2>1, <2>2, <2>3, <2>4, <2>5 DEF Fine
<1> QED
  BY <1>1, <1>7, <1>8, <1>9, <1>12, OneSlicer

\* What becomes of the lines when the task of slice i is executed: those of the
\* slice are processed once more, and no other task's.
LEMMA Processed ==
  ASSUME TypeOK, NEW s \in Slicer,
         Cut(task_data_arr[s], nbr_threads[s], height[s], min_slice_h[s]),
         NEW i \in Index, i < nbr_threads[s],
         Process(s, task_data_arr[s][i])
  PROVE  /\ lines' \in [Slicer -> [Line -> Nat]]
         /\ \A u \in Slicer \ {s} : lines'[u] = lines[u]
         /\ \A y \in Line \cap SliceLines(i, height[s], nbr_threads[s]) :
              lines'[s][y] = lines[s][y] + 1
         /\ \A y \in Line \ SliceLines(i, height[s], nbr_threads[s]) :
              lines'[s][y] = lines[s][y]
         /\ SliceLines(i, height[s], nbr_threads[s]) \subseteq 0 .. height[s] - 1
         /\ SliceLines(i, height[s], nbr_threads[s]) \subseteq Line
         /\ \A j \in 0 .. nbr_threads[s] - 1 : j # i =>
              SliceLines(i, height[s], nbr_threads[s])
                \cap SliceLines(j, height[s], nbr_threads[s]) = {}
<1> DEFINE k == nbr_threads[s]
           h == height[s]
           d == task_data_arr[s][i]
           L == SliceLines(i, h, k)
<1>1. /\ k \in Positive /\ h \in Nat /\ h <= MaxHeight /\ i \in 0 .. k - 1
      /\ lines \in [Slicer -> [Line -> Nat]]
  <2>1. /\ k \in 1 .. MAXT /\ h \in 0 .. MaxHeight
        /\ lines \in [Slicer -> [Line -> Nat]]
    BY DEF TypeOK, Bounds
  <2>2. MAXT \in Nat /\ MaxHeight \in Nat /\ i \in 0 .. MAXT - 1 /\ i < k
    BY Sizes DEF Index
  <2> HIDE DEF k, h
  <2> QED
    BY <2>1, <2>2 DEF Positive
<1>2. d = Slice(i, h, k)
  BY <1>1 DEF Cut
<1>3. d.y_beg .. d.y_end - 1 = L
  BY <1>2 DEF SliceLines
<1>4. lines' = [lines EXCEPT ![s] =
                  [y \in Line |-> IF y \in L THEN lines[s][y] + 1 ELSE lines[s][y]]]
  BY <1>3 DEF Process
<1>5. L \subseteq 0 .. h - 1
  BY <1>1, SliceBounds
<1>6. L \subseteq Line
  BY <1>1, <1>5, Sizes DEF Line
<1>7. ASSUME NEW j \in 0 .. k - 1, j # i
      PROVE  L \cap SliceLines(j, h, k) = {}
  <2>1. CASE i < j
    BY <1>1, <2>1, SlicesApart
  <2>2. CASE j < i
    <3>1. SliceLines(j, h, k) \cap L = {}
      BY <1>1, <2>2, SlicesApart
    <3> QED
      BY <3>1
  <2> QED
    BY <1>1, <1>7, <2>1, <2>2
<1> HIDE DEF L
<1> DEFINE f == [y \in Line |-> IF y \in L THEN lines[s][y] + 1 ELSE lines[s][y]]
<1>8. f \in [Line -> Nat]
  BY <1>1
<1>9. /\ lines' \in [Slicer -> [Line -> Nat]]
      /\ \A u \in Slicer \ {s} : lines'[u] = lines[u]
      /\ lines'[s] = f
  <2> HIDE DEF f
  <2>1. lines' = [lines EXCEPT ![s] = f]
    BY <1>4 DEF f
  <2> QED
    BY <2>1, <1>1, <1>8
<1>10. /\ \A y \in Line \cap L : lines'[s][y] = lines[s][y] + 1
       /\ \A y \in Line \ L : lines'[s][y] = lines[s][y]
  BY <1>9
<1> QED
  BY <1>5, <1>6, <1>7, <1>9, <1>10 DEF L

LEMMA EnqueueFallbackStep ==
  ASSUME IInv, NEW s \in Slicer, EnqueueFallback(s)
  PROVE  IInv'
<1> USE Sizes
<1> DEFINE t == t_cnt[s]
           k == nbr_threads[s]
           h == height[s]
<1>1. /\ fallback /\ pc[s] = "enqueue"
      /\ t_cnt' = [t_cnt EXCEPT ![s] = @ + 1]
      /\ pc' = [pc EXCEPT ![s] = IF t_cnt'[s] = k THEN "started" ELSE "enqueue"]
      /\ UNCHANGED <<fallback, mt_flag, proc_ptr, dispatcher_ptr, start_vars,
                     aborted, dying, starts, group_vars>>
  BY DEF EnqueueFallback, NextTask, Goto
<1>2. Process(s, task_data_arr[s][t])
  BY DEF EnqueueFallback
<1>3. TypeOK /\ GroupTypeOK /\ Fine(s)
  BY Parts
<1>4. /\ mt_flag[s] /\ proc_ptr[s] /\ ~aborted[s] /\ ~dying[s]
      /\ dispatcher_ptr[s] # None
      /\ t \in Index /\ k \in 1 .. MAXT /\ t < k
      /\ Cut(task_data_arr[s], k, h, min_slice_h[s])
  BY <1>1, Enqueuing
<1>5. t_cnt'[s] = t + 1 /\ t + 1 \in 0 .. MAXT
  BY <1>1, <1>3, <1>4 DEF TypeOK, Index
<1>6. pc'[s] = IF t + 1 = k THEN "started" ELSE "enqueue"
  BY <1>1, <1>3, <1>5 DEF TypeOK
<1>7. /\ lines' \in [Slicer -> [Line -> Nat]]
      /\ \A u \in Slicer \ {s} : lines'[u] = lines[u]
      /\ \A y \in Line \cap SliceLines(t, h, k) : lines'[s][y] = lines[s][y] + 1
      /\ \A y \in Line \ SliceLines(t, h, k) : lines'[s][y] = lines[s][y]
      /\ SliceLines(t, h, k) \subseteq 0 .. h - 1
      /\ SliceLines(t, h, k) \subseteq Line
      /\ \A j \in 0 .. k - 1 : j # t =>
           SliceLines(t, h, k) \cap SliceLines(j, h, k) = {}
  BY <1>2, <1>3, <1>4, Processed
<1>8. TypeOK'
  BY <1>1, <1>3, <1>5, <1>6, <1>7 DEF TypeOK, start_vars
<1>9. GroupTypeOK'
  BY <1>1, <1>3 DEF GroupTypeOK, group_vars
<1>10. \A u \in Slicer \ {s} : Same(u)
  BY <1>1, <1>3, <1>7 DEF Same, TypeOK, start_vars, group_vars
<1>11. \A j \in Index : j < k => SliceLines(j, h, k) \subseteq Line
  <2> TAKE j \in Index
  <2> HAVE j < k
  <2>1. k \in Positive /\ h \in Nat /\ h <= MaxHeight /\ j \in 0 .. k - 1
    <3>1. h \in 0 .. MaxHeight
      BY <1>3 DEF TypeOK, Bounds
    <3> HIDE DEF h, k
    <3> QED
      BY <3>1, <1>4 DEF Positive, Index
  <2>2. SliceLines(j, h, k) \subseteq 0 .. h - 1
    BY <2>1, SliceBounds
  <2> HIDE DEF h, k
  <2> QED
    BY <2>1, <2>2 DEF Line
<1>12. h \in Nat
  BY <1>3 DEF TypeOK, Bounds
<1> HIDE DEF t, k, h
<1>13. /\ t_cnt[s] = t /\ nbr_threads[s] = k /\ nbr_threads'[s] = k
       /\ height[s] = h /\ height'[s] = h
       /\ task_data_arr'[s] = task_data_arr[s] /\ min_slice_h'[s] = min_slice_h[s]
  BY <1>1 DEF t, k, h, start_vars
<1>14. \A i \in Index : stage[<<s, i>>] = "free" /\ stage'[<<s, i>>] = "free"
  BY <1>1, <1>3 DEF Fine, Alive, group_vars
<1>15. Fine(s)'
  <2>1. Life(s)'
    BY <1>1, <1>4, <1>6 DEF Life, InStart, AfterStart
  <2>2. Started(s)'
    BY <1>1, <1>3, <1>4, <1>5, <1>6, <1>13
       DEF Fine, Started, InStart, AfterStart, Index
  <2>3. \A y \in SliceLines(t, h, k) : lines[s][y] = 0 /\ lines'[s][y] = 1
    <3>1. Lined(s, t)
      BY <1>3, <1>4 DEF Fine
    <3>2. \A y \in SliceLines(t, h, k) : lines[s][y] = 0
      BY <1>1, <1>4, <1>13, <3>1 DEF Lined, InStart
    <3> QED
      BY <1>7, <3>2
  <2>4. Lines(s)'
    <3>1. ASSUME NEW y \in Line
          PROVE  lines'[s][y] <= IF y < h THEN 1 ELSE 0
      <4>1. lines[s][y] <= IF y < h THEN 1 ELSE 0
        BY <1>3, <1>13 DEF Fine, Lines
      <4>2. CASE y \in SliceLines(t, h, k)
        BY <1>7, <1>12, <2>3, <4>2
      <4>3. CASE y \notin SliceLines(t, h, k)
        BY <1>7, <4>1, <4>3
      <4> QED
        BY <4>2, <4>3
    <3> QED
      BY <1>1, <1>4, <1>13, <3>1 DEF Lines
  <2>5. ASSUME NEW i \in Index PROVE Alive(s, i)'
    BY <1>14 DEF Alive
  <2>6. ASSUME NEW i \in Index PROVE Lined(s, i)'
    <3>1. Lined(s, i)
      BY <1>3 DEF Fine
    <3>2. SUFFICES ASSUME i < k, NEW y \in SliceLines(i, h, k)
                   PROVE  /\ i > t + 1 \/ (i = t + 1 /\ ~aborted[s]) => lines'[s][y] = 0
                          /\ i < t + 1 => lines'[s][y] = 1
      BY <1>1, <1>5, <1>13, <1>14 DEF Lined
    <3>3. /\ i > t \/ (i = t /\ ~aborted[s]) => lines[s][y] = 0
          /\ i < t => lines[s][y] = 1
      BY <1>1, <1>4, <1>13, <1>14, <3>1, <3>2 DEF Lined, InStart
    <3>4. CASE i = t
      BY <1>4, <2>3, <3>2, <3>4 DEF Index
    <3>5. CASE i # t
      <4>1. i \in 0 .. k - 1
        BY <1>4, <3>2 DEF Index
      <4>2. y \in Line \ SliceLines(t, h, k)
        BY <1>7, <1>11, <3>2, <3>5, <4>1
      <4>3. lines'[s][y] = lines[s][y]
        BY <1>7, <4>2
      <4> QED
        BY <1>4, <3>3, <3>5, <4>3 DEF Index
    <3> QED
      BY <3>4, <3>5
  <2> QED
    BY <2>1, <2>2, <2>4, <2>5, <2>6 DEF Fine
<1> QED
  BY <1>1, <1>8, <1>9, <1>10, <1>15, OneSlicer

LEMMA EnqueueThrowsStep ==
  ASSUME IInv, NEW s \in Slicer, EnqueueThrows(s)
  PROVE  IInv'
<1> USE Sizes
<1> DEFINE t == t_cnt[s]
           k == nbr_threads[s]
<1>1. /\ ~fallback /\ pc[s] = "enqueue"
      /\ aborted' = [aborted EXCEPT ![s] = TRUE]
      /\ pc' = [pc EXCEPT ![s] = "started"]
      /\ UNCHANGED <<fallback, mt_flag, proc_ptr, dispatcher_ptr, start_vars, t_cnt,
                     dying, lines, starts>>
  BY DEF EnqueueThrows, Goto
<1>2. /\ waiting' = waiting /\ ended' = ended
      /\ \/ /\ stage[<<s, t>>] = "free"
            /\ stage' = [stage EXCEPT ![<<s, t>>] = "scheduled"]
            /\ group' = [group EXCEPT ![<<s, t>>] = dispatcher_ptr[s]]
         \/ stage' = stage /\ group' = group
  BY DEF EnqueueThrows, Library!Schedule, group_vars
<1>3. TypeOK /\ GroupTypeOK /\ Fine(s)
  BY Parts
<1>4. /\ mt_flag[s] /\ proc_ptr[s] /\ ~aborted[s] /\ ~dying[s]
      /\ dispatcher_ptr[s] # None
      /\ t \in Index /\ k \in 1 .. MAXT /\ t < k
  BY <1>1, Enqueuing
<1>5. aborted'[s] /\ pc'[s] = "started"
  BY <1>1, <1>3 DEF TypeOK
<1>6. TypeOK'
  <2>1. aborted' \in [Slicer -> BOOLEAN]
    BY <1>1, <1>3 DEF TypeOK
  <2> QED
    BY <1>1, <1>3, <2>1 DEF TypeOK, start_vars
<1>7. GroupTypeOK'
  BY <1>2, <1>3, <1>4 DEF GroupTypeOK, TypeOK
<1>8. \A i \in Index \ {t} : /\ stage'[<<s, i>>] = stage[<<s, i>>]
                             /\ group'[<<s, i>>] = group[<<s, i>>]
  BY <1>2, <1>3, <1>4 DEF GroupTypeOK, Task
<1>9. \/ stage'[<<s, t>>] = "scheduled" /\ group'[<<s, t>>] = dispatcher_ptr[s]
      \/ stage'[<<s, t>>] = stage[<<s, t>>] /\ group'[<<s, t>>] = group[<<s, t>>]
  BY <1>2, <1>3, <1>4 DEF GroupTypeOK, Task
<1>10. \A u \in Slicer \ {s} : Same(u)
  <2> TAKE u \in Slicer \ {s}
  <2>1. \A i \in Index : /\ stage'[<<u, i>>] = stage[<<u, i>>]
                         /\ group'[<<u, i>>] = group[<<u, i>>]
    BY <1>2, <1>3 DEF GroupTypeOK, Task
  <2>2. aborted'[u] = aborted[u] /\ pc'[u] = pc[u] /\ waiting'[u] = waiting[u]
    BY <1>1, <1>2, <1>3 DEF TypeOK
  <2> QED
    BY <1>1, <2>1, <2>2 DEF Same, start_vars
<1> HIDE DEF t, k
<1>11. /\ t_cnt[s] = t /\ t_cnt'[s] = t /\ nbr_threads[s] = k /\ nbr_threads'[s] = k
       /\ height'[s] = height[s] /\ lines'[s] = lines[s]
       /\ task_data_arr'[s] = task_data_arr[s] /\ min_slice_h'[s] = min_slice_h[s]
  BY <1>1 DEF t, k, start_vars
<1>12. Fine(s)'
  <2>1. Life(s)'
    BY <1>1, <1>4, <1>5 DEF Life, InStart, AfterStart
  <2>2. Started(s)'
    BY <1>1, <1>3, <1>4, <1>5, <1>11 DEF Fine, Started, InStart, AfterStart, Index
  <2>3. Lines(s)'
    BY <1>1, <1>3, <1>4, <1>11 DEF Fine, Lines
  <2>4. ASSUME NEW i \in Index PROVE Alive(s, i)'
    <3>1. Alive(s, i)
      BY <1>3 DEF Fine
    <3>2. CASE i = t
      BY <1>1, <1>4, <1>5, <1>9, <1>11, <3>1, <3>2 DEF Alive, Index
    <3>3. CASE i # t
      BY <1>1, <1>4, <1>5, <1>8, <1>11, <3>1, <3>3 DEF Alive, Index
    <3> QED
      BY <3>2, <3>3
  <2>5. ASSUME NEW i \in Index PROVE Lined(s, i)'
    <3>1. Lined(s, i)
      BY <1>3 DEF Fine
    <3>2. SUFFICES ASSUME i < k, NEW y \in SliceLines(i, height[s], k)
                   PROVE  /\ stage'[<<s, i>>] # "free" => lines[s][y] = 0
                          /\ i > t => lines[s][y] = 0
                          /\ i < t /\ stage'[<<s, i>>] = "free" => lines[s][y] = 1
      BY <1>1, <1>5, <1>11 DEF Lined
    <3>3. /\ stage[<<s, i>>] # "free" => lines[s][y] = 0
          /\ i > t \/ (i = t /\ ~aborted[s]) => lines[s][y] = 0
          /\ i < t /\ stage[<<s, i>>] = "free" => lines[s][y] = 1
      BY <1>1, <1>4, <1>11, <3>1, <3>2 DEF Lined, InStart
    <3>4. CASE i = t
      BY <1>4, <3>3, <3>4 DEF Index
    <3>5. CASE i # t
      BY <1>4, <1>8, <3>3, <3>5 DEF Index
    <3> QED
      BY <3>4, <3>5
  <2> QED
    BY <2>1, <2>2, <2>3, <2>4, <2>5 DEF Fine
<1> QED
  BY <1>1, <1>6, <1>7, <1>10, <1>12, OneSlicer

-----------------------------------------------------------------------------
(* The tasks.                                                              *)

LEMMA StartTaskStep ==
  ASSUME IInv, NEW s \in Slicer, NEW t \in Index, StartTask(<<s, t>>)
  PROVE  IInv'
<1>1. /\ stage[<<s, t>>] = "scheduled"
      /\ stage' = [stage EXCEPT ![<<s, t>>] = "running"]
      /\ UNCHANGED <<group, waiting, ended, fallback, mt_flag, proc_ptr,
                     dispatcher_ptr, start_vars, t_cnt, aborted, dying, lines, starts, pc>>
  BY DEF StartTask, Library!Start
<1>2. TypeOK /\ GroupTypeOK /\ Fine(s)
  BY Parts
<1>3. TypeOK' /\ GroupTypeOK'
  BY <1>1, <1>2 DEF TypeOK, GroupTypeOK, start_vars
<1>4. \A u \in Slicer, i \in Index :
        /\ stage'[<<u, i>>] = "free" <=> stage[<<u, i>>] = "free"
        /\ group'[<<u, i>>] = group[<<u, i>>]
        /\ u # s => stage'[<<u, i>>] = stage[<<u, i>>]
  BY <1>1, <1>2 DEF GroupTypeOK, Task
<1>5. \A u \in Slicer \ {s} : Same(u)
  BY <1>1, <1>4 DEF Same, start_vars
<1>6. Fine(s)'
  <2>1. Life(s)'
    BY <1>1, <1>2 DEF Fine, Life
  <2>2. Started(s)'
    BY <1>1, <1>2 DEF Fine, Started, start_vars
  <2>3. Lines(s)'
    BY <1>1, <1>2 DEF Fine, Lines, start_vars
  <2>4. ASSUME NEW i \in Index PROVE Alive(s, i)' /\ Lined(s, i)'
    <3>1. Alive(s, i) /\ Lined(s, i)
      BY <1>2 DEF Fine
    <3> QED
      BY <1>1, <1>4, <3>1 DEF Alive, Lined, start_vars
  <2> QED
    BY <2>1, <2>2, <2>3, <2>4 DEF Fine
<1> QED
  BY <1>1, <1>3, <1>5, <1>6, OneSlicer

LEMMA CompleteTaskStep ==
  ASSUME IInv, NEW s \in Slicer, NEW t \in Index, CompleteTask(<<s, t>>)
  PROVE  IInv'
<1> USE Sizes
<1> DEFINE k == nbr_threads[s]
           h == height[s]
<1>1. /\ stage[<<s, t>>] = "running"
      /\ stage' = [stage EXCEPT ![<<s, t>>] = "free"]
      /\ group' = [group EXCEPT ![<<s, t>>] = None]
      /\ UNCHANGED <<waiting, ended, fallback, mt_flag, proc_ptr, dispatcher_ptr,
                     start_vars, t_cnt, aborted, dying, starts, pc>>
  BY DEF CompleteTask, Library!Complete
<1>2. Process(s, task_data_arr[s][t])
  BY DEF CompleteTask
<1>3. TypeOK /\ GroupTypeOK /\ Fine(s)
  BY Parts
<1>4. /\ mt_flag[s] /\ ~fallback
      /\ pc[s] \in {"enqueue", "started", "waiting"}
      /\ t < t_cnt[s] \/ (t = t_cnt[s] /\ aborted[s])
  BY <1>1, <1>3 DEF Fine, Alive
<1>5. /\ t < k /\ k \in 1 .. MAXT /\ t \in Nat
      /\ Cut(task_data_arr[s], k, h, min_slice_h[s])
  <2>1. t_cnt[s] \in 0 .. MAXT /\ k \in 1 .. MAXT
    BY <1>3 DEF TypeOK
  <2>2. /\ pc[s] = "enqueue" \/ aborted[s] => t_cnt[s] < k
        /\ pc[s] # "enqueue" /\ ~aborted[s] => t_cnt[s] = k
        /\ Cut(task_data_arr[s], k, h, min_slice_h[s])
    BY <1>3, <1>4 DEF Fine, Started, InStart, AfterStart
  <2> QED
    BY <1>4, <2>1, <2>2 DEF Index
<1>6. /\ lines' \in [Slicer -> [Line -> Nat]]
      /\ \A u \in Slicer \ {s} : lines'[u] = lines[u]
      /\ \A y \in Line \cap SliceLines(t, h, k) : lines'[s][y] = lines[s][y] + 1
      /\ \A y \in Line \ SliceLines(t, h, k) : lines'[s][y] = lines[s][y]
      /\ SliceLines(t, h, k) \subseteq 0 .. h - 1
      /\ SliceLines(t, h, k) \subseteq Line
      /\ \A j \in 0 .. k - 1 : j # t =>
           SliceLines(t, h, k) \cap SliceLines(j, h, k) = {}
  BY <1>2, <1>3, <1>5, Processed
<1>7. TypeOK'
  BY <1>1, <1>3, <1>6 DEF TypeOK, start_vars
<1>8. GroupTypeOK'
  BY <1>1, <1>3 DEF GroupTypeOK
<1>9. /\ stage'[<<s, t>>] = "free"
      /\ \A i \in Index \ {t} : /\ stage'[<<s, i>>] = stage[<<s, i>>]
                                /\ group'[<<s, i>>] = group[<<s, i>>]
  BY <1>1, <1>3 DEF GroupTypeOK, Task
<1>10. \A u \in Slicer \ {s} : Same(u)
  <2> TAKE u \in Slicer \ {s}
  <2>1. \A i \in Index : /\ stage'[<<u, i>>] = stage[<<u, i>>]
                         /\ group'[<<u, i>>] = group[<<u, i>>]
    BY <1>1, <1>3 DEF GroupTypeOK, Task
  <2> QED
    BY <1>1, <1>6, <2>1 DEF Same, start_vars
<1>11. h \in 0 .. MaxHeight
  BY <1>3 DEF TypeOK, Bounds
<1>12. /\ nbr_threads[s] = k /\ nbr_threads'[s] = k
       /\ height[s] = h /\ height'[s] = h
       /\ task_data_arr'[s] = task_data_arr[s] /\ min_slice_h'[s] = min_slice_h[s]
  BY <1>1 DEF start_vars
<1> HIDE DEF k, h
<1>13. \A j \in Index : j < k => SliceLines(j, h, k) \subseteq Line
  <2> TAKE j \in Index
  <2> HAVE j < k
  <2>1. k \in Positive /\ h \in Nat /\ h <= MaxHeight /\ j \in 0 .. k - 1
    BY <1>5, <1>11 DEF Positive, Index
  <2>2. SliceLines(j, h, k) \subseteq 0 .. h - 1
    BY <2>1, SliceBounds
  <2> QED
    BY <2>1, <2>2 DEF Line
<1>14. \A y \in SliceLines(t, h, k) : lines[s][y] = 0 /\ lines'[s][y] = 1
  <2>1. Lined(s, t)
    BY <1>3 DEF Fine
  <2>2. \A y \in SliceLines(t, h, k) : lines[s][y] = 0
    BY <1>1, <1>4, <1>5, <1>12, <2>1 DEF Lined, InStart, AfterStart
  <2> QED
    BY <1>6, <2>2
<1>15. Fine(s)'
  <2>1. Life(s)'
    BY <1>1, <1>3 DEF Fine, Life
  <2>2. Started(s)'
    BY <1>1, <1>3 DEF Fine, Started, start_vars
  <2>3. Lines(s)'
    <3>1. ASSUME NEW y \in Line
          PROVE  lines'[s][y] <= IF y < h THEN 1 ELSE 0
      <4>1. lines[s][y] <= IF y < h THEN 1 ELSE 0
        BY <1>3, <1>12 DEF Fine, Lines
      <4>2. CASE y \in SliceLines(t, h, k)
        BY <1>6, <1>11, <1>14, <4>2
      <4>3. CASE y \notin SliceLines(t, h, k)
        BY <1>6, <4>1, <4>3
      <4> QED
        BY <4>2, <4>3
    <3> QED
      BY <1>1, <1>4, <1>12, <3>1 DEF Lines
  <2>4. ASSUME NEW i \in Index PROVE Alive(s, i)'
    <3>1. Alive(s, i)
      BY <1>3 DEF Fine
    <3> QED
      BY <1>1, <1>9, <3>1 DEF Alive
  <2>5. ASSUME NEW i \in Index PROVE Lined(s, i)'
    <3>1. Lined(s, i)
      BY <1>3 DEF Fine
    <3>2. CASE i = t
      <4>1. t_cnt[s] \in 0 .. MAXT /\ t_cnt'[s] = t_cnt[s] /\ aborted'[s] = aborted[s]
        BY <1>1, <1>3 DEF TypeOK
      <4>2. /\ ~ (t > t_cnt[s])
            /\ ~ (t = t_cnt[s] /\ ~aborted[s])
        BY <1>4, <1>5, <4>1
      <4> QED
        BY <1>9, <1>12, <1>14, <3>2, <4>1, <4>2 DEF Lined
    <3>3. CASE i # t
      <4>1. i < k => \A y \in SliceLines(i, h, k) : lines'[s][y] = lines[s][y]
        <5>1. SUFFICES ASSUME i < k, NEW y \in SliceLines(i, h, k)
                       PROVE  lines'[s][y] = lines[s][y]
          OBVIOUS
        <5>2. i \in 0 .. k - 1
          BY <1>5, <5>1 DEF Index
        <5>3. y \in Line \ SliceLines(t, h, k)
          BY <1>6, <1>13, <3>3, <5>1, <5>2
        <5> QED
          BY <1>6, <5>3
      <4> QED
        BY <1>1, <1>9, <1>12, <3>1, <3>3, <4>1 DEF Lined
    <3> QED
      BY <3>2, <3>3
  <2> QED
    BY <2>1, <2>2, <2>3, <2>4, <2>5 DEF Fine
<1> QED
  BY <1>1, <1>7, <1>8, <1>10, <1>15, OneSlicer

-----------------------------------------------------------------------------
(* wait, and the destructor.                                               *)

\* The user of a slicer goes on, from "started" to "waiting" for its tasks, or
\* to "waited" when there are none.
LEMMA Waits ==
  ASSUME IInv, NEW s \in Slicer, pc[s] = "started", WaitCompletion(s),
         dying'[s] \in BOOLEAN, aborted[s] => dying'[s],
         \A u \in Slicer \ {s} : dying'[u] = dying[u],
         dying' \in [Slicer -> BOOLEAN],
         UNCHANGED <<fallback, mt_flag, proc_ptr, dispatcher_ptr, start_vars, t_cnt,
                     aborted, lines, starts>>
  PROVE  IInv'
<1> USE Sizes
<1>1. TypeOK /\ GroupTypeOK /\ Fine(s)
  BY Parts
<1>2. /\ stage' = stage /\ group' = group /\ ended' = ended
      /\ \/ /\ mt_flag[s] /\ ~fallback
            /\ waiting' = [waiting EXCEPT ![s] = dispatcher_ptr[s]]
            /\ pc' = [pc EXCEPT ![s] = "waiting"]
         \/ /\ ~mt_flag[s] \/ fallback
            /\ waiting' = waiting
            /\ pc' = [pc EXCEPT ![s] = "waited"]
  BY DEF WaitCompletion, Library!CallWait, Goto, group_vars
<1>3. TypeOK'
  BY <1>1, <1>2 DEF TypeOK, start_vars
<1>4. GroupTypeOK'
  <2>1. dispatcher_ptr[s] \in Dispatcher \cup {Dummy, None}
    BY <1>1 DEF TypeOK
  <2> QED
    BY <1>1, <1>2, <2>1 DEF GroupTypeOK
<1>5. \A u \in Slicer \ {s} : Same(u)
  BY <1>1, <1>2 DEF Same, TypeOK, GroupTypeOK, start_vars
<1>6. /\ pc'[s] \in {"waiting", "waited"}
      /\ pc'[s] = "waiting" =>
           mt_flag[s] /\ ~fallback /\ waiting'[s] = dispatcher_ptr[s]
      /\ pc'[s] = "waited" => ~mt_flag[s] \/ fallback
  BY <1>1, <1>2 DEF TypeOK, GroupTypeOK
<1>7. Fine(s)'
  <2>1. Life(s)'
    BY <1>1, <1>6 DEF Fine, Life, InStart, AfterStart
  <2>2. Started(s)'
    BY <1>1, <1>6 DEF Fine, Started, InStart, AfterStart, start_vars
  <2>3. Lines(s)'
    BY <1>1, <1>6 DEF Fine, Lines, AfterStart, start_vars
  <2>4. ASSUME NEW i \in Index PROVE Alive(s, i)' /\ Lined(s, i)'
    <3>1. Alive(s, i) /\ Lined(s, i)
      BY <1>1 DEF Fine
    <3> QED
      BY <1>2, <1>6, <3>1 DEF Alive, Lined, InStart, AfterStart, start_vars
  <2> QED
    BY <2>1, <2>2, <2>3, <2>4 DEF Fine
<1> QED
  BY <1>3, <1>4, <1>5, <1>7, OneSlicer

LEMMA CallWaitStep ==
  ASSUME IInv, NEW s \in Slicer, CallWait(s)
  PROVE  IInv'
<1>1. TypeOK
  BY Parts
<1>2. dying' = dying /\ dying \in [Slicer -> BOOLEAN]
  BY <1>1 DEF CallWait, TypeOK
<1> QED
  BY <1>2, Waits DEF CallWait

LEMMA DestroyStep ==
  ASSUME IInv, NEW s \in Slicer, Destroy(s)
  PROVE  IInv'
<1> USE Sizes
<1>1. /\ pc[s] \in {"idle", "started"}
      /\ dying' = [dying EXCEPT ![s] = TRUE]
      /\ UNCHANGED <<fallback, mt_flag, proc_ptr, dispatcher_ptr, start_vars, t_cnt,
                     aborted, lines, starts>>
  BY DEF Destroy
<1>2. TypeOK /\ GroupTypeOK /\ Fine(s)
  BY Parts
<1>3. /\ dying' \in [Slicer -> BOOLEAN] /\ dying'[s]
      /\ \A u \in Slicer \ {s} : dying'[u] = dying[u]
  BY <1>1, <1>2 DEF TypeOK
<1>4. CASE DtorWaits(s) /\ WaitCompletion(s)
  <2>1. pc[s] = "started"
    BY <1>1, <1>2, <1>4 DEF DtorWaits, Fine, Life
  <2> QED
    BY <1>1, <1>3, <1>4, <2>1, Waits
<1>5. CASE ~DtorWaits(s) /\ Goto(s, "dead") /\ UNCHANGED group_vars
  <2>1. pc' = [pc EXCEPT ![s] = "dead"] /\ UNCHANGED group_vars
    BY <1>5 DEF Goto
  <2>2. dispatcher_ptr[s] = None
    BY <1>5 DEF DtorWaits
  <2>3. pc[s] = "started" => ~mt_flag[s]
    BY <1>2, <2>2 DEF Fine, Life, AfterStart
  <2>4. TypeOK'
    BY <1>1, <1>2, <1>3, <2>1 DEF TypeOK, start_vars
  <2>5. GroupTypeOK'
    BY <1>2, <2>1 DEF GroupTypeOK, group_vars
  <2>6. \A u \in Slicer \ {s} : Same(u)
    BY <1>1, <1>2, <1>3, <2>1 DEF Same, TypeOK, start_vars, group_vars
  <2>7. pc'[s] = "dead"
    BY <1>2, <2>1 DEF TypeOK
  <2>8. Fine(s)'
    <3>1. Life(s)'
      BY <1>1, <1>2, <2>2, <2>3, <2>7 DEF Fine, Life, InStart, AfterStart
    <3>2. ~aborted[s]
      BY <1>1, <1>2, <2>3 DEF Fine, Life, AfterStart
    <3>3. Started(s)'
      BY <1>1, <2>7, <3>2 DEF Started, InStart, AfterStart
    <3>4. Lines(s)'
      BY <1>1, <1>2, <2>7 DEF Fine, Lines, AfterStart, start_vars
    <3>5. ASSUME NEW i \in Index PROVE Alive(s, i)' /\ Lined(s, i)'
      <4>1. Alive(s, i)
        BY <1>2 DEF Fine
      <4>2. stage'[<<s, i>>] = "free"
        BY <1>1, <2>1, <2>3, <4>1 DEF Alive, group_vars
      <4> QED
        BY <2>7, <4>2 DEF Alive, Lined, InStart, AfterStart
    <3> QED
      BY <3>1, <3>3, <3>4, <3>5 DEF Fine
  <2> QED
    BY <1>1, <2>4, <2>5, <2>6, <2>8, OneSlicer
<1> QED
  BY <1>4, <1>5 DEF Destroy

LEMMA ReturnFromWaitStep ==
  ASSUME IInv, NEW s \in Slicer, ReturnFromWait(s)
  PROVE  IInv'
<1> USE Sizes
<1>1. /\ pc[s] = "waiting"
      /\ pc' = [pc EXCEPT ![s] = "waited"]
      /\ UNCHANGED <<fallback, mt_flag, proc_ptr, dispatcher_ptr, start_vars, t_cnt,
                     aborted, dying, lines, starts>>
  BY DEF ReturnFromWait, Goto
<1>2. /\ \A k \in Task : group[k] # waiting[s]
      /\ waiting' = [waiting EXCEPT ![s] = None]
      /\ ended' = [ended EXCEPT ![s] = "returned"]
      /\ stage' = stage /\ group' = group
  BY DEF ReturnFromWait, Library!ReturnFromWait
<1>3. TypeOK /\ GroupTypeOK /\ Fine(s)
  BY Parts
<1>4. mt_flag[s] /\ ~fallback /\ waiting[s] = dispatcher_ptr[s]
  BY <1>1, <1>3 DEF Fine, Life
\* The tasks are over: they would be attached to the dispatcher.
<1>5. \A i \in Index : stage[<<s, i>>] = "free"
  <2> TAKE i \in Index
  <2>1. <<s, i>> \in Task
    BY DEF Task
  <2>2. group[<<s, i>>] # dispatcher_ptr[s]
    BY <1>2, <1>4, <2>1
  <2> QED
    BY <1>3, <2>2 DEF Fine, Alive
<1>6. TypeOK'
  BY <1>1, <1>3 DEF TypeOK, start_vars
<1>7. GroupTypeOK'
  BY <1>2, <1>3 DEF GroupTypeOK
<1>8. \A u \in Slicer \ {s} : Same(u)
  BY <1>1, <1>2, <1>3 DEF Same, TypeOK, GroupTypeOK, start_vars
<1>9. pc'[s] = "waited"
  BY <1>1, <1>3 DEF TypeOK
<1>10. Fine(s)'
  <2>1. Life(s)'
    BY <1>1, <1>3, <1>4, <1>9 DEF Fine, Life, InStart, AfterStart
  <2>2. Started(s)'
    BY <1>1, <1>3, <1>9 DEF Fine, Started, InStart, AfterStart, start_vars
  <2>3. Lines(s)'
    BY <1>1, <1>3, <1>4 DEF Fine, Lines, start_vars
  <2>4. ASSUME NEW i \in Index PROVE Alive(s, i)' /\ Lined(s, i)'
    <3>1. Alive(s, i) /\ Lined(s, i)
      BY <1>3 DEF Fine
    <3> QED
      BY <1>1, <1>2, <1>5, <1>9, <3>1 DEF Alive, Lined, InStart, AfterStart, start_vars
  <2> QED
    BY <2>1, <2>2, <2>3, <2>4 DEF Fine
<1> QED
  BY <1>1, <1>6, <1>7, <1>8, <1>10, OneSlicer

LEMMA ThrowFromWaitStep ==
  ASSUME IInv, NEW s \in Slicer, ThrowFromWait(s)
  PROVE  IInv'
<1> USE Sizes
<1>1. /\ pc[s] = "waiting" /\ ~dying[s]
      /\ pc' = [pc EXCEPT ![s] = "started"]
      /\ UNCHANGED <<fallback, mt_flag, proc_ptr, dispatcher_ptr, start_vars, t_cnt,
                     aborted, dying, lines, starts>>
  BY DEF ThrowFromWait, Goto
<1>2. /\ waiting' = [waiting EXCEPT ![s] = None]
      /\ ended' = [ended EXCEPT ![s] = "threw"]
      /\ stage' = stage /\ group' = group
  BY DEF ThrowFromWait, Library!ThrowFromWait
<1>3. TypeOK /\ GroupTypeOK /\ Fine(s)
  BY Parts
<1>4. mt_flag[s] /\ ~fallback /\ ~aborted[s]
  BY <1>1, <1>3 DEF Fine, Life
<1>5. TypeOK'
  BY <1>1, <1>3 DEF TypeOK, start_vars
<1>6. GroupTypeOK'
  BY <1>2, <1>3 DEF GroupTypeOK
<1>7. \A u \in Slicer \ {s} : Same(u)
  BY <1>1, <1>2, <1>3 DEF Same, TypeOK, GroupTypeOK, start_vars
<1>8. pc'[s] = "started"
  BY <1>1, <1>3 DEF TypeOK
\* The slicer is again what it was before the wait.
<1>9. Fine(s)'
  <2>1. Life(s)'
    BY <1>1, <1>3, <1>4, <1>8 DEF Fine, Life, InStart, AfterStart
  <2>2. Started(s)'
    BY <1>1, <1>3, <1>8 DEF Fine, Started, InStart, AfterStart, start_vars
  <2>3. Lines(s)'
    BY <1>1, <1>3, <1>4 DEF Fine, Lines, start_vars
  <2>4. ASSUME NEW i \in Index PROVE Alive(s, i)' /\ Lined(s, i)'
    <3>1. Alive(s, i) /\ Lined(s, i)
      BY <1>3 DEF Fine
    <3> QED
      BY <1>1, <1>2, <1>8, <3>1 DEF Alive, Lined, InStart, AfterStart, start_vars
  <2> QED
    BY <2>1, <2>2, <2>3, <2>4 DEF Fine
<1> QED
  BY <1>1, <1>5, <1>6, <1>7, <1>9, OneSlicer

LEMMA DestroyDispatcherStep ==
  ASSUME IInv, NEW s \in Slicer, DestroyDispatcher(s)
  PROVE  IInv'
<1> USE Sizes
<1>1. /\ pc[s] = "waited"
      /\ proc_ptr' = [proc_ptr EXCEPT ![s] = FALSE]
      /\ dispatcher_ptr' = [dispatcher_ptr EXCEPT ![s] = None]
      /\ pc' = [pc EXCEPT ![s] = IF dying[s] THEN "dead" ELSE "idle"]
      /\ UNCHANGED <<fallback, mt_flag, start_vars, t_cnt, aborted, dying, lines,
                     starts, group_vars>>
  BY DEF DestroyDispatcher, Goto
<1>2. TypeOK /\ GroupTypeOK /\ Fine(s)
  BY Parts
<1>3. TypeOK'
  <2>1. proc_ptr' \in [Slicer -> BOOLEAN]
    BY <1>1, <1>2 DEF TypeOK
  <2> QED
    BY <1>1, <1>2, <2>1 DEF TypeOK, start_vars
<1>4. GroupTypeOK'
  BY <1>1, <1>2 DEF GroupTypeOK, group_vars
<1>5. \A u \in Slicer \ {s} : Same(u)
  BY <1>1, <1>2 DEF Same, TypeOK, start_vars, group_vars
<1>6. /\ dispatcher_ptr'[s] = None
      /\ pc'[s] = IF dying[s] THEN "dead" ELSE "idle"
  BY <1>1, <1>2 DEF TypeOK
<1>7. Fine(s)'
  <2>1. aborted[s] => mt_flag[s] /\ dying[s]
    BY <1>1, <1>2 DEF Fine, Life
  <2>2. Life(s)'
    BY <1>1, <1>6, <2>1 DEF Life, InStart, AfterStart
  <2>3. Started(s)'
    BY <1>1, <1>2, <1>6 DEF Fine, Started, InStart, AfterStart, start_vars
  <2>4. Lines(s)'
    BY <1>1, <1>2, <1>6 DEF Fine, Lines, AfterStart, start_vars
  <2>5. ASSUME NEW i \in Index PROVE Alive(s, i)' /\ Lined(s, i)'
    <3>1. Alive(s, i)
      BY <1>2 DEF Fine
    <3>2. stage'[<<s, i>>] = "free"
      BY <1>1, <3>1 DEF Alive, group_vars
    <3> QED
      BY <1>6, <3>2 DEF Alive, Lined, InStart, AfterStart
  <2> QED
    BY <2>2, <2>3, <2>4, <2>5 DEF Fine
<1> QED
  BY <1>1, <1>3, <1>4, <1>5, <1>7, OneSlicer

-----------------------------------------------------------------------------
(* The properties.                                                         *)

LEMMA Stutters == IInv /\ UNCHANGED vars => IInv'
<1> SUFFICES ASSUME IInv, UNCHANGED vars PROVE IInv'
  OBVIOUS
<1>1. TypeOK /\ GroupTypeOK /\ \A s \in Slicer : Fine(s)
  BY Parts
<1>2. TypeOK' /\ GroupTypeOK'
  BY <1>1 DEF TypeOK, GroupTypeOK, vars, start_vars, group_vars
<1>3. \A s \in Slicer : Same(s) /\ fallback' = fallback
  BY DEF Same, vars, start_vars, group_vars
<1>4. \A s \in Slicer : Fine(s)'
  BY <1>1, <1>3, Frame
<1> QED
  BY <1>2, <1>4 DEF IInv, Fine

LEMMA Invariance == Spec => []IInv
<1>1. IInv /\ [Next]_vars => IInv'
  <2> SUFFICES ASSUME IInv, Next PROVE IInv'
    BY Stutters
  <2>1. CASE \E s \in Slicer : UserStep(s)
    <3>1. PICK s \in Slicer : UserStep(s)
      BY <2>1
    <3>2. CASE \E h \in 1 .. MaxHeight : CallStartAlone(s, h)
      BY <3>2, CallStartAloneStep
    <3>3. CASE \E h \in 1 .. MaxHeight : \E m \in 1 .. MaxMin : CallStart(s, h, m)
      BY <3>3, CallStartStep
    <3> QED
      BY <3>1, <3>2, <3>3, CreateDispatcherStep, EnqueueTaskStep,
         EnqueueFallbackStep, EnqueueThrowsStep, CallWaitStep, DestroyStep,
         ReturnFromWaitStep, ThrowFromWaitStep, DestroyDispatcherStep DEF UserStep
  <2>2. CASE \E k \in Task : StartTask(k) \/ CompleteTask(k)
    <3>1. PICK s \in Slicer, i \in Index : StartTask(<<s, i>>) \/ CompleteTask(<<s, i>>)
      BY <2>2 DEF Task
    <3> QED
      BY <3>1, StartTaskStep, CompleteTaskStep
  <2> QED
    BY <2>1, <2>2 DEF Next
<1> QED
  BY Initial, <1>1, PTL DEF Spec

\* The slices cover the plane from the first line to the last, without a gap or
\* an overlap, and none is smaller than min_slice_h, but for a plane that is,
\* whatever the height, the minimum and the number of threads
\* (MTSlicer.hpp:153-171).
THEOREM PlaneIsTiled == Spec => []SlicesTile
<1>1. IInv => SlicesTile
  <2> SUFFICES ASSUME IInv, NEW s \in Slicer, pc[s] = "create"
               PROVE  Tile(task_data_arr[s], nbr_threads[s], height[s], min_slice_h[s])
    BY DEF SlicesTile
  <2> DEFINE k == nbr_threads[s]
             h == height[s]
             m == min_slice_h[s]
             d == task_data_arr[s]
  <2>1. TypeOK /\ Fine(s)
    BY Parts
  <2>2. Cut(d, k, h, m)
    BY <2>1 DEF Fine, Life, Started, InStart
  <2>3. k \in 1 .. MAXT /\ h \in 0 .. MaxHeight /\ m \in 1 .. MaxMin
    BY <2>1 DEF TypeOK, Bounds
  <2> HIDE DEF k, h, m, d
  <2>4. k \in Positive /\ h \in Nat /\ m \in Nat
    BY <2>3 DEF Positive
  <2>5. \A i \in 0 .. k - 1 : d[i] = Slice(i, h, k)
    BY <2>2 DEF Cut
  <2>6. d[0].y_beg = 0
    <3>1. 0 \in 0 .. k - 1
      BY <2>4 DEF Positive
    <3> QED
      BY <2>4, <2>5, <3>1, SliceBounds
  <2>7. d[k - 1].y_end = h
    <3>1. k - 1 \in 0 .. k - 1
      BY <2>4 DEF Positive
    <3> QED
      BY <2>4, <2>5, <3>1, SliceBounds, LastEnd
  <2>8. ASSUME NEW i \in 1 .. k - 1 PROVE d[i].y_beg = d[i - 1].y_end
    <3>1. i \in 0 .. k - 1 /\ i # 0 /\ i - 1 \in 0 .. k - 1
      BY <2>4 DEF Positive
    <3>2. /\ Slice(i, h, k).y_beg = SliceEnd(i - 1, h, k)
          /\ Slice(i - 1, h, k).y_end = SliceEnd(i - 1, h, k)
      BY <2>4, <3>1, SliceBounds
    <3> QED
      BY <2>5, <3>1, <3>2
  <2>9. k = 1 \/ \A i \in 0 .. k - 1 : d[i].y_end - d[i].y_beg >= m
    <3>1. k = 1 \/ k * m <= h
      BY <2>2 DEF Cut
    <3> QED
      BY <2>4, <2>5, <3>1, SliceMinimum
  <2> QED
    BY <2>6, <2>7, <2>8, <2>9 DEF Tile, k, h, m, d
<1> QED
  BY Invariance, <1>1, PTL

\* No line of a plane is processed twice, and when wait returns every line has
\* been, unless start has thrown, whatever the order in which the threads of the
\* library execute the tasks (MTSlicer.hpp:145-228).
THEOREM EachLineOnce == Spec => []LinesOnce
<1>1. IInv => LinesOnce
  <2> SUFFICES ASSUME IInv, NEW s \in Slicer
               PROVE  /\ \A y \in Line : lines[s][y] <= (IF y < height[s] THEN 1 ELSE 0)
                      /\ pc[s] = "waited" /\ ~aborted[s] =>
                           \A y \in Line : y < height[s] => lines[s][y] = 1
    BY DEF LinesOnce
  <2>1. TypeOK /\ Fine(s)
    BY Parts
  <2>2. \A y \in Line : lines[s][y] <= (IF y < height[s] THEN 1 ELSE 0)
    BY <2>1 DEF Fine, Lines
  <2>3. ASSUME pc[s] = "waited", ~aborted[s], NEW y \in Line, y < height[s]
        PROVE  lines[s][y] = 1
    <3>1. CASE ~mt_flag[s]
      BY <2>1, <2>3, <3>1 DEF Fine, Lines, AfterStart
    <3>2. CASE mt_flag[s]
      <4> DEFINE k == nbr_threads[s]
                 h == height[s]
      <4>1. t_cnt[s] = k
        BY <2>1, <2>3, <3>2 DEF Fine, Started, AfterStart
      <4>2. k \in 1 .. MAXT /\ h \in 0 .. MaxHeight
        BY <2>1 DEF TypeOK, Bounds
      <4>3. k \in Positive /\ h \in Nat /\ y \in 0 .. h - 1
        <5> HIDE DEF k, h
        <5>1. y < h
          BY <2>3 DEF h
        <5> QED
          BY <4>2, <5>1 DEF Positive, Line
      <4>4. PICK i \in 0 .. k - 1 : y \in SliceLines(i, h, k)
        BY <4>3, SlicesCover
      <4>5. i \in Index /\ i < k
        <5> HIDE DEF k, h
        <5> QED
          BY <4>2, Sizes DEF Index
      <4>6. stage[<<s, i>>] = "free"
        BY <2>1, <2>3, <4>5 DEF Fine, Alive
      <4>7. Lined(s, i)
        BY <2>1, <4>5 DEF Fine
      <4> QED
        BY <2>3, <3>2, <4>1, <4>4, <4>5, <4>6, <4>7 DEF Lined, AfterStart
    <3> QED
      BY <3>1, <3>2
  <2> QED
    BY <2>2, <2>3
<1> QED
  BY Invariance, <1>1, PTL

\* A task that is enqueued or running finds its slicer as start has left it,
\* never destroyed nor waited for, even if start has thrown
\* (MTSlicer.hpp:267-282).
THEOREM SlicerOutlivesTasks == Spec => []NoTaskLeft
<1>1. IInv => NoTaskLeft
  <2> SUFFICES ASSUME IInv, NEW s \in Slicer, NEW i \in Index,
                      stage[<<s, i>>] # "free"
               PROVE  /\ pc[s] \in {"enqueue", "started", "waiting"}
                      /\ proc_ptr[s]
                      /\ group[<<s, i>>] = dispatcher_ptr[s]
                      /\ i < t_cnt[s] + (IF aborted[s] THEN 1 ELSE 0)
    BY Parts DEF NoTaskLeft
  <2>1. TypeOK /\ Fine(s)
    BY Parts
  <2>2. /\ pc[s] \in {"enqueue", "started", "waiting"}
        /\ group[<<s, i>>] = dispatcher_ptr[s]
        /\ i < t_cnt[s] \/ (i = t_cnt[s] /\ aborted[s])
    BY <2>1 DEF Fine, Alive
  <2>3. proc_ptr[s]
    BY <2>1, <2>2 DEF Fine, Life, InStart, AfterStart
  <2>4. t_cnt[s] \in 0 .. MAXT /\ i \in 0 .. MAXT - 1
    BY <2>1 DEF TypeOK, Index
  <2>5. i < t_cnt[s] + (IF aborted[s] THEN 1 ELSE 0)
    BY <2>2, <2>4, Sizes
  <2> QED
    BY <2>2, <2>3, <2>5
<1> QED
  BY Invariance, <1>1, PTL
=============================================================================
