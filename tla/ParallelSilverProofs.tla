------------------------- MODULE ParallelSilverProofs -------------------------
(***************************************************************************)
(* Proofs about ParallelSilver, for any number of workers and any frame.   *)
(***************************************************************************)
EXTENDS ParallelSilver, LibraryFacts

USE NWorkersAssumption, MaxRowsAssumption

-------------------------------------------------------------------------------
(* Who does what: the part of the invariant that does not look at rows. *)

\* The types of what Control talks about.
Shape ==
    /\ rows \in Nat
    /\ thread \in [Partitions -> {"none", "serialising", "creating", "waiting",
                                  "exiting", "done", "raised"}]
    /\ worker \in [Partitions -> {"none", "running", "hung", "finished", "raised", "crashed"}]
    /\ answer \in [Partitions -> Errors \cup {"none", "frame"}]
    /\ arrived \in Seq(Partitions)
    /\ quarantined \in Seq(Partitions)
    /\ faulty \subseteq Partitions

Control == Shape /\ ThreadsStarted /\ WorkersOwned /\ FaultsBlamed /\ CollectedFinal /\ EndsComplete

\* Appending adds one element to the set of a sequence's elements.
LEMMA AppendToSet ==
    ASSUME NEW s \in Seq(Partitions), NEW e \in Partitions
    PROVE  Append(s, e) \in Seq(Partitions) /\ ToSet(Append(s, e)) = ToSet(s) \cup {e}
<1>1. /\ Append(s, e) \in Seq(Partitions)
      /\ DOMAIN Append(s, e) = DOMAIN s \cup {Len(s) + 1}
      /\ Append(s, e)[Len(s) + 1] = e
      /\ \A i \in DOMAIN s : Append(s, e)[i] = s[i]
    OBVIOUS
<1>2. QED  BY <1>1 DEF ToSet

\* What has been collected are partitions.
LEMMA CollectedPartitions ==
    ASSUME Shape
    PROVE  ToSet(arrived) \subseteq Partitions /\ ToSet(quarantined) \subseteq Partitions
BY DEF Shape, ToSet

\* Nothing is submitted and nothing collected at first.
LEMMA InitControl == Init => Control
<1> SUFFICES ASSUME Init PROVE Control
    OBVIOUS
<1>1. ToSet(<<>>) = {}
    BY DEF ToSet
<1>2. Shape
    BY MaxRowsAssumption DEF Init, Shape
<1>3. QED
    BY <1>1, <1>2 DEF Init, Control, ThreadsStarted, WorkersOwned, FaultsBlamed, CollectedFinal,
        EndsComplete, Errors

\* A step of the main thread moves no other thread after Start, and no worker.
LEMMA MainStep ==
    ASSUME Control, Main
    PROVE  Control'
<1> USE DEF Control
<1>1. CASE ReturnEmpty
    <2>1. NonEmpty = {} /\ Partitions \subseteq Nat
        BY <1>1, NWorkersAssumption DEF ReturnEmpty, NonEmpty, Partitions
    <2>2. Collected = {}
        BY <1>1, CollectedPartitions DEF ReturnEmpty, Collected, CollectedFinal, ThreadsStarted
    <2>3. QED
        BY <1>1, <2>1, <2>2 DEF ReturnEmpty, Shape, ThreadsStarted, WorkersOwned, FaultsBlamed,
            CollectedFinal, EndsComplete, Collected, NonEmpty
<1>2. CASE Start
    <2>1. \A p \in Partitions : thread[p] = "none"
        BY <1>2 DEF Start, ThreadsStarted
    <2>2. Shape'
        BY <1>2 DEF Start, Shape
    <2>3. ThreadsStarted'
        BY <1>2 DEF Start, ThreadsStarted, NonEmpty
    <2>4. WorkersOwned' /\ FaultsBlamed'
        BY <1>2, <2>1 DEF Start, WorkersOwned, FaultsBlamed
    <2>5. arrived = <<>> /\ quarantined = <<>> /\ ToSet(<<>>) = {}
        BY <2>1 DEF CollectedFinal, ToSet, Shape
    <2>6. QED
        BY <1>2, <2>2, <2>3, <2>4, <2>5 DEF Start, CollectedFinal, EndsComplete
<1>3. ASSUME NEW p \in Partitions, Collect(p)
      PROVE  Control'
    <2>1. /\ UNCHANGED <<rows, main, thread, worker, answer, faulty>>
          /\ main = "collecting" /\ thread[p] = "done"
        BY <1>3 DEF Collect
    <2>2. CASE answer[p] = "frame"
        <3>1. /\ arrived' \in Seq(Partitions) /\ ToSet(arrived') = ToSet(arrived) \cup {p}
              /\ quarantined' = quarantined
            <4>1. arrived' = Append(arrived, p) /\ quarantined' = quarantined
                BY <1>3, <2>2 DEF Collect
            <4>2. QED  BY <4>1, AppendToSet DEF Shape
        <3>2. QED
            BY <2>1, <2>2, <3>1 DEF Shape, ThreadsStarted, WorkersOwned, FaultsBlamed,
                CollectedFinal, EndsComplete, NonEmpty
    <2>3. CASE answer[p] # "frame"
        <3>1. /\ quarantined' \in Seq(Partitions) /\ ToSet(quarantined') = ToSet(quarantined) \cup {p}
              /\ arrived' = arrived
            <4>1. quarantined' = Append(quarantined, p) /\ arrived' = arrived
                BY <1>3, <2>3 DEF Collect
            <4>2. QED  BY <4>1, AppendToSet DEF Shape
        <3>2. QED
            BY <2>1, <2>3, <3>1 DEF Shape, ThreadsStarted, WorkersOwned, FaultsBlamed,
                CollectedFinal, EndsComplete, NonEmpty
    <2>4. QED  BY <2>2, <2>3
<1>4. ASSUME NEW p \in Partitions, CollectRaises(p)
      PROVE  Control'
    BY <1>4 DEF CollectRaises, Shape, ThreadsStarted, WorkersOwned, FaultsBlamed,
        CollectedFinal, EndsComplete, NonEmpty
<1>5. CASE Abort \/ Return \/ Fail
    <2>1. UNCHANGED <<rows, thread, worker, answer, arrived, quarantined, faulty>>
        BY <1>5 DEF Abort, Return, Fail
    <2>2. main # "called" /\ main' # "called"
        BY <1>5 DEF Abort, Return, Fail
    <2>3. EndsComplete'
        BY <1>5, <2>1 DEF Abort, Return, Fail, EndsComplete, Collected, NonEmpty
    <2>4. QED
        BY <2>1, <2>2, <2>3 DEF Shape, ThreadsStarted, WorkersOwned, FaultsBlamed,
            CollectedFinal, NonEmpty
<1>6. QED
    BY <1>1, <1>2, <1>3, <1>4, <1>5 DEF Main

\* A step of a thread, or of a worker, is taken by one that is not done yet;
\* what was collected is therefore out of its reach.
LEMMA ThreadStep ==
    ASSUME Control, NEW p \in Partitions, Thread(p)
    PROVE  Control'
<1> USE DEF Control
<1>1. /\ UNCHANGED <<rows, main, arrived, quarantined>>
      /\ thread[p] \in {"serialising", "creating", "waiting", "exiting"}
      /\ thread' = [thread EXCEPT ![p] = thread'[p]]
      /\ thread'[p] \in {"creating", "waiting", "exiting", "done", "raised"}
      /\ worker' = [worker EXCEPT ![p] = worker'[p]]
      /\ answer' = [answer EXCEPT ![p] = answer'[p]]
      /\ faulty \subseteq faulty' /\ faulty' \subseteq faulty \cup {p}
    BY DEF Thread, Serialise, SerialiseRaises, Submit, CreationFails, Deliver, Except, TimeOut,
        LeavePool, Advance, Answer, Blame, Shape
<1>2. /\ worker'[p] \in {worker[p], "running"}
      /\ worker'[p] \in {"running", "hung"} => thread'[p] \in {"waiting", "exiting"}
    BY DEF Thread, Serialise, SerialiseRaises, Submit, CreationFails, Deliver, Except, TimeOut,
        LeavePool, Advance, Answer, Blame, Shape, WorkersOwned
<1>3. answer'[p] \in {answer[p], "frame"} \cup Errors
    BY DEF Thread, Serialise, SerialiseRaises, Submit, CreationFails, Deliver, Except, TimeOut,
        LeavePool, Advance, Answer, Shape, Errors
<1>4. answer'[p] \in Errors => p \in faulty'
    BY DEF Thread, Serialise, SerialiseRaises, Submit, CreationFails, Deliver, Except, TimeOut,
        LeavePool, Advance, Answer, Blame, Shape, Errors, FaultsBlamed
<1>5. thread'[p] \in {"exiting", "done"} <=> answer'[p] # "none"
    BY DEF Thread, Serialise, SerialiseRaises, Submit, CreationFails, Deliver, Except, TimeOut,
        LeavePool, Advance, Answer, Shape, FaultsBlamed
<1>6. Shape'
    BY <1>1, <1>2, <1>3 DEF Shape
<1>7. \A q \in Partitions \ {p} :
        thread'[q] = thread[q] /\ worker'[q] = worker[q] /\ answer'[q] = answer[q]
    BY <1>1 DEF Shape
<1>8. ThreadsStarted'
    BY <1>1, <1>7 DEF ThreadsStarted, NonEmpty
<1>9. WorkersOwned'
    BY <1>2, <1>7 DEF WorkersOwned
<1>10. FaultsBlamed'
    BY <1>1, <1>2, <1>4, <1>5, <1>7 DEF FaultsBlamed
<1>11. CollectedFinal'
    BY <1>1, <1>7, CollectedPartitions DEF CollectedFinal
<1>12. EndsComplete'
    <2>1. main = "aborted" => p \notin NonEmpty
        BY <1>1 DEF EndsComplete
    <2>2. main # "aborted"
        BY <2>1, <1>1 DEF ThreadsStarted
    <2>3. QED  BY <2>2, <1>1 DEF EndsComplete, Collected, NonEmpty
<1>13. QED  BY <1>6, <1>8, <1>9, <1>10, <1>11, <1>12

\* A worker process finishes, raises, crashes or hangs.
LEMMA WorkerStep ==
    ASSUME Control, NEW p \in Partitions, Worker(p)
    PROVE  Control'
<1> USE DEF Control
<1>1. PICK how \in {"finished", "raised", "crashed", "hung"} : WorkerEnds(p, how)
    BY DEF Worker
<1>2. /\ UNCHANGED <<rows, main, thread, answer, arrived, quarantined>>
      /\ worker[p] = "running"
      /\ worker' = [worker EXCEPT ![p] = how]
      /\ faulty \subseteq faulty' /\ faulty' \subseteq faulty \cup {p}
      /\ how # "finished" => p \in faulty'
    BY <1>1 DEF WorkerEnds, Blame
<1>3. Shape'
    BY <1>2 DEF Shape
<1>4. WorkersOwned' /\ FaultsBlamed'
    BY <1>2 DEF WorkersOwned, FaultsBlamed, Shape
<1>5. ThreadsStarted' /\ CollectedFinal' /\ EndsComplete'
    BY <1>2 DEF ThreadsStarted, CollectedFinal, EndsComplete, Collected, NonEmpty
<1>6. QED  BY <1>3, <1>4, <1>5
\* A step of anyone.
LEMMA ControlStep ==
    ASSUME Control, [Next]_vars
    PROVE  Control'
<1>1. ASSUME NEW p \in Partitions, Thread(p) \/ Worker(p)
      PROVE  Control'
    BY <1>1, ThreadStep, WorkerStep
<1>2. CASE UNCHANGED vars
    BY <1>2 DEF vars, Control, Shape, ThreadsStarted, WorkersOwned, FaultsBlamed, CollectedFinal,
        EndsComplete, Collected, NonEmpty
<1>3. QED  BY <1>1, <1>2, MainStep DEF Next

-------------------------------------------------------------------------------
(* Which rows: partitions in order, and the rows of each in order. *)

\* The order of the output.
Before(a, b) ==
    \/ PartitionOf(a) < PartitionOf(b)
    \/ PartitionOf(a) = PartitionOf(b) /\ a < b

RowOrdered(s) == \A i, j \in DOMAIN s : i < j => Before(s[i], s[j])

\* Dealing gives every row a partition, and partition p has row p if there is one.
LEMMA Dealt ==
    /\ \A k \in Nat : PartitionOf(k) \in Partitions
    /\ \A p \in Partitions : p \in Nat /\ PartitionOf(p) = p
BY DEF PartitionOf, Partitions

\* InOrder enumerates any finite set of numbers.
LEMMA InOrderEnumerates ==
    ASSUME NEW S \in SUBSET Nat, IsFiniteSet(S)
    PROVE  /\ InOrder(S) \in Seq(S) /\ ToSet(InOrder(S)) = S
           /\ \A i, j \in DOMAIN InOrder(S) : i < j => InOrder(S)[i] < InOrder(S)[j]
<1> DEFINE s == InOrder(S)
<1>1. Ascending(s, S)
    <2>1. PICK t : Ascending(t, S)
        BY SortedExists
    <2>2. /\ t \in [1 .. Cardinality(S) -> S]
          /\ \A i, j \in DOMAIN t : i < j => t[i] < t[j]
        BY <2>1 DEF Ascending
    <2>3. /\ s \in [1 .. Cardinality(S) -> S]
          /\ \A i, j \in DOMAIN s : i < j => s[i] < s[j]
        BY <2>2 DEF InOrder
    <2>4. QED
        <3> HIDE DEF s
        <3>1. QED  BY <2>3 DEF Ascending
<1>2. DOMAIN s = 1 .. Cardinality(S)
    <2> HIDE DEF s
    <2>1. QED  BY <1>1 DEF Ascending
<1>3. s \in Seq(S) /\ ToSet(s) = S
    <2> HIDE DEF s
    <2>1. QED  BY <1>1, AscendingOnto
<1>4. QED
    <2> HIDE DEF s
    <2>1. \A i, j \in DOMAIN s : i < j => s[i] < s[j]
        BY <1>1, <1>2 DEF Ascending
    <2>2. QED  BY <1>3, <2>1 DEF s

\* The rows of a partition: all of them, in order.
LEMMA RowsInOrder ==
    ASSUME rows \in Nat, NEW p \in Partitions
    PROVE  /\ RowsOf(p) \in Seq(0 .. rows - 1)
           /\ ToSet(RowsOf(p)) = {k \in 0 .. rows - 1 : PartitionOf(k) = p}
           /\ RowOrdered(RowsOf(p))
<1> DEFINE S == {k \in 0 .. rows - 1 : PartitionOf(k) = p}
           s == RowsOf(p)
<1>1. S \in SUBSET Nat /\ S \subseteq 0 .. rows - 1
    OBVIOUS
<1>2. IsFiniteSet(S)
    <2>1. IsFiniteSet(0 .. rows - 1)
        BY FS_Interval
    <2> HIDE DEF S
    <2>2. QED  BY <1>1, <2>1, FS_Subset
<1>3. s = InOrder(S)
    BY DEF RowsOf
<1>4. /\ s \in Seq(S) /\ ToSet(s) = S
      /\ \A i, j \in DOMAIN s : i < j => s[i] < s[j]
    <2> HIDE DEF S, s
    <2>1. QED  BY <1>1, <1>2, <1>3, InOrderEnumerates
<1>5. \A i \in DOMAIN s : s[i] \in S
    <2> HIDE DEF S, s
    <2>1. QED  BY <1>4
<1>6. RowOrdered(s)
    <2>1. \A i \in DOMAIN s : PartitionOf(s[i]) = p
        BY <1>5
    <2> HIDE DEF S, s
    <2>2. QED  BY <1>4, <2>1 DEF RowOrdered, Before
<1>7. s \in Seq(0 .. rows - 1)
    <2> HIDE DEF S, s
    <2>1. QED  BY <1>1, <1>4, SeqOver
<1>8. QED  BY <1>4, <1>6, <1>7

\* Two ordered sequences, one before the other, are ordered together.
LEMMA ConcatOrdered ==
    ASSUME NEW A, NEW s \in Seq(A), NEW t \in Seq(A), RowOrdered(s), RowOrdered(t),
           \A a \in ToSet(s), b \in ToSet(t) : Before(a, b)
    PROVE  RowOrdered(s \o t)
<1> DEFINE c == s \o t
<1>1. /\ Len(s) \in Nat /\ Len(t) \in Nat
      /\ DOMAIN s = 1 .. Len(s) /\ DOMAIN t = 1 .. Len(t) /\ DOMAIN c = 1 .. Len(s) + Len(t)
      /\ \A i \in 1 .. Len(s) : c[i] = s[i]
      /\ \A i \in 1 .. Len(t) : c[Len(s) + i] = t[i]
    BY ConcatToSet
<1> HIDE DEF c
<1>2. ASSUME NEW i \in DOMAIN c, NEW j \in DOMAIN c, i < j
      PROVE  Before(c[i], c[j])
    <2>1. CASE j <= Len(s)
        <3>1. i \in 1 .. Len(s) /\ j \in 1 .. Len(s)
            BY <1>1, <1>2, <2>1
        <3>2. QED  BY <1>1, <1>2, <3>1 DEF RowOrdered
    <2>2. CASE i <= Len(s) /\ ~ (j <= Len(s))
        <3>1. i \in 1 .. Len(s) /\ j - Len(s) \in 1 .. Len(t) /\ j = Len(s) + (j - Len(s))
            BY <1>1, <1>2, <2>2
        <3>2. c[i] \in ToSet(s) /\ c[j] \in ToSet(t)
            BY <1>1, <3>1 DEF ToSet
        <3>3. QED  BY <3>2
    <2>3. CASE ~ (i <= Len(s))
        <3>1. /\ i - Len(s) \in 1 .. Len(t) /\ i = Len(s) + (i - Len(s))
              /\ j - Len(s) \in 1 .. Len(t) /\ j = Len(s) + (j - Len(s))
              /\ i - Len(s) < j - Len(s)
            <4>1. i \in 1 .. Len(s) + Len(t) /\ j \in 1 .. Len(s) + Len(t)
                BY <1>1
            <4>2. \A m, n \in Nat, x, y \in Int :
                    x \in 1 .. m + n /\ y \in 1 .. m + n /\ x < y /\ ~ (x <= m) =>
                        /\ x - m \in 1 .. n /\ x = m + (x - m)
                        /\ y - m \in 1 .. n /\ y = m + (y - m)
                        /\ x - m < y - m
                OBVIOUS
            <4>3. i \in Int /\ j \in Int
                BY <4>1
            <4>4. QED  BY <1>1, <1>2, <2>3, <4>1, <4>2, <4>3
        <3>2. c[i] = t[i - Len(s)] /\ c[j] = t[j - Len(s)]
            BY <1>1, <3>1
        <3>3. QED  BY <1>1, <3>1, <3>2 DEF RowOrdered
    <2>4. QED  BY <1>1, <1>2, <2>1, <2>2, <2>3
<1>3. QED  BY <1>2 DEF RowOrdered, c

\* The concatenation of some partitions in their order: their rows, in order.
LEMMA Concatenation ==
    ASSUME rows \in Nat, NEW R \in SUBSET Partitions, R # {}
    PROVE  LET ordered == InOrder(R)
               out == FlattenSeq([i \in DOMAIN ordered |-> RowsOf(ordered[i])])
           IN  /\ out \in Seq(0 .. rows - 1)
               /\ ToSet(out) = {k \in 0 .. rows - 1 : PartitionOf(k) \in R}
               /\ RowOrdered(out)
<1> DEFINE ordered == InOrder(R)
           n == Len(ordered)
           parts == [i \in DOMAIN ordered |-> RowsOf(ordered[i])]
           Rows == 0 .. rows - 1
           Upto(m) == {k \in Rows : \E i \in 1 .. m : PartitionOf(k) = ordered[i]}
<1>1. R \in SUBSET Nat /\ IsFiniteSet(R)
    <2>1. Partitions \in SUBSET Nat /\ IsFiniteSet(Partitions)
        BY FS_Interval DEF Partitions
    <2>2. QED  BY <2>1, FS_Subset
<1>2. /\ ordered \in Seq(R) /\ ToSet(ordered) = R
      /\ \A i, j \in DOMAIN ordered : i < j => ordered[i] < ordered[j]
    BY <1>1, InOrderEnumerates
<1> HIDE DEF ordered
<1>3. /\ n \in Nat \ {0} /\ DOMAIN ordered = 1 .. n
      /\ \A i \in 1 .. n : ordered[i] \in R /\ ordered[i] \in Partitions
    <2>1. n \in Nat /\ DOMAIN ordered = 1 .. n
        BY <1>2
    <2>2. n # 0
        BY <1>2, <2>1 DEF ToSet
    <2>3. \A i \in 1 .. n : ordered[i] \in R
        BY <1>2, <2>1
    <2>4. QED  BY <2>1, <2>2, <2>3
<1> HIDE DEF n
<1>4. /\ parts \in [1 .. n -> Seq(Rows)]
      /\ \A i \in 1 .. n : /\ ToSet(parts[i]) = {k \in Rows : PartitionOf(k) = ordered[i]}
                           /\ RowOrdered(parts[i])
    BY <1>3, RowsInOrder
<1> HIDE DEF parts, Rows
<1>5. parts \in Seq(Seq(Rows)) /\ parts # <<>> /\ Len(parts) = n
    BY <1>3, <1>4
<1>6. PICK f \in [1 .. n -> Seq(Rows)] :
        /\ f[1] = parts[1]
        /\ \A i \in 2 .. n : f[i] = f[i - 1] \o parts[i]
        /\ FlattenSeq(parts) = f[n]
    BY <1>5, FlattenSteps
<1> DEFINE Good(i) == ToSet(f[i]) = Upto(i) /\ RowOrdered(f[i])
           Bad == {i \in 1 .. n : ~ Good(i)}
<1>7. ASSUME Bad # {}
      PROVE  FALSE
    <2>1. PICK m \in Bad : \A k \in Bad : m <= k
        <3>1. Bad \in SUBSET Nat
            <4> HIDE DEF Good
            <4>1. QED  OBVIOUS
        <3> HIDE DEF Bad
        <3>2. QED  BY <1>7, <3>1, LeastNat
    <2>2. m \in 1 .. n /\ ~ Good(m)
        <3> HIDE DEF Good
        <3>1. QED  OBVIOUS
    <2>3. CASE m = 1
        <3>1. Upto(1) = {k \in Rows : PartitionOf(k) = ordered[1]}
            OBVIOUS
        <3>2. QED  BY <1>3, <1>4, <1>6, <2>2, <2>3, <3>1
    <2>4. CASE m # 1
        <3>1. m \in 2 .. n /\ m - 1 \in 1 .. n
            BY <1>3, <2>2, <2>4
        <3>2. Good(m - 1)
            <4>1. m - 1 \notin Bad
                <5> HIDE DEF Bad
                <5>1. QED  BY <2>1, <3>1
            <4> HIDE DEF Good
            <4>2. QED  BY <3>1, <4>1
        <3>3. /\ f[m - 1] \in Seq(Rows) /\ parts[m] \in Seq(Rows)
              /\ f[m] = f[m - 1] \o parts[m]
              /\ ToSet(parts[m]) = {k \in Rows : PartitionOf(k) = ordered[m]} /\ RowOrdered(parts[m])
            BY <1>4, <1>6, <3>1
        <3>4. ToSet(f[m]) = Upto(m)
            <4>1. ToSet(f[m]) = Upto(m - 1) \cup {k \in Rows : PartitionOf(k) = ordered[m]}
                BY <3>2, <3>3, ConcatToSet
            <4>2. \A i : i \in 1 .. m <=> i \in 1 .. m - 1 \/ i = m
                BY <1>3, <3>1
            <4>3. QED  BY <4>1, <4>2
        <3>5. \A a \in ToSet(f[m - 1]), b \in ToSet(parts[m]) : Before(a, b)
            <4> SUFFICES ASSUME NEW a \in Upto(m - 1), NEW b \in Rows, PartitionOf(b) = ordered[m]
                         PROVE  PartitionOf(a) < PartitionOf(b)
                BY <3>2, <3>3 DEF Before
            <4>1. PICK i \in 1 .. m - 1 : PartitionOf(a) = ordered[i]
                OBVIOUS
            <4>2. i \in DOMAIN ordered /\ m \in DOMAIN ordered /\ i < m
                BY <1>3, <3>1
            <4>3. QED  BY <1>2, <4>1, <4>2
        <3>6. RowOrdered(f[m])
            BY <3>2, <3>3, <3>5, ConcatOrdered
        <3>7. QED  BY <2>2, <3>4, <3>6
    <2>5. QED  BY <2>3, <2>4
<1>8. Good(n)
    <2> HIDE DEF Good
    <2>1. n \in 1 .. n
        BY <1>3
    <2>2. QED  BY <1>7, <2>1
<1>9. Upto(n) = {k \in Rows : PartitionOf(k) \in R}
    BY <1>2, <1>3 DEF ToSet
<1>10. f[n] \in Seq(Rows)
    BY <1>3, <1>6
<1>11. /\ FlattenSeq(parts) \in Seq(Rows)
       /\ ToSet(FlattenSeq(parts)) = {k \in Rows : PartitionOf(k) \in R}
       /\ RowOrdered(FlattenSeq(parts))
    BY <1>6, <1>8, <1>9, <1>10
<1>12. QED  BY <1>11 DEF parts, Rows, ordered


-------------------------------------------------------------------------------
(* The whole invariant. *)

\* What the invariant says of control.
LEMMA HasControl == IInv => Control
BY DEF IInv, TypeOK, Control, Shape

\* Nothing has been collected before the start, and nothing of an empty frame.
LEMMA NothingCollected ==
    ASSUME Control, main = "called"
    PROVE  arrived = <<>> /\ quarantined = <<>>
<1>1. ToSet(arrived) = {} /\ ToSet(quarantined) = {}
    BY CollectedPartitions DEF Control, CollectedFinal, ThreadsStarted
<1>2. QED  BY <1>1, ToSetFacts DEF Control, Shape

\* as_completed yields a future once: no partition is collected twice.
LEMMA CollectedOnceStep ==
    ASSUME IInv, [Next]_vars
    PROVE  CollectedOnce'
<1>1. CollectedOnce /\ arrived \in Seq(Partitions) /\ quarantined \in Seq(Partitions)
    BY DEF IInv, TypeOK
<1>2. ASSUME NEW s \in Seq(Partitions), IsInjective(s), NEW e \in Partitions, e \notin ToSet(s)
      PROVE  IsInjective(Append(s, e))
    <2> DEFINE t == Append(s, e)
    <2>1. /\ DOMAIN t = DOMAIN s \cup {Len(s) + 1}
          /\ t[Len(s) + 1] = e
          /\ \A i \in DOMAIN s : t[i] = s[i]
        OBVIOUS
    <2>2. \A i \in DOMAIN s : t[i] # e
        BY <1>2, <2>1 DEF ToSet
    <2> HIDE DEF t
    <2>3. IsInjective(t)
        BY <1>2, <2>1, <2>2 DEF IsInjective
    <2>4. QED  BY <2>3 DEF t
<1>3. ASSUME NEW p \in Partitions, Collect(p)
      PROVE  CollectedOnce'
    <2>1. p \notin ToSet(arrived) /\ p \notin ToSet(quarantined)
        BY <1>3 DEF Collect, Collected
    <2>2. \/ arrived' = Append(arrived, p) /\ quarantined' = quarantined
          \/ quarantined' = Append(quarantined, p) /\ arrived' = arrived
        BY <1>3 DEF Collect
    <2>3. QED  BY <1>1, <1>2, <2>1, <2>2 DEF CollectedOnce
<1>4. CASE UNCHANGED <<arrived, quarantined>>
    BY <1>1, <1>4 DEF CollectedOnce
<1>5. QED
    BY <1>3, <1>4 DEF Next, vars, Main, ReturnEmpty, Start, CollectRaises, Abort, Return, Fail, Thread, Worker,
        Serialise, SerialiseRaises, Submit, CreationFails, Deliver, Except, TimeOut, LeavePool, WorkerEnds

\* The output is made by Return, and nothing it is made of changes afterwards.
LEMMA OutputMadeStep ==
    ASSUME IInv, [Next]_vars
    PROVE  OutputMade'
<1>1. OutputMade /\ Control
    BY HasControl DEF IInv
<1>2. CASE UNCHANGED <<rows, main, arrived, output>>
    BY <1>1, <1>2 DEF OutputMade, RowsOf
<1>3. CASE ReturnEmpty
    BY <1>1, <1>3, NothingCollected DEF ReturnEmpty, OutputMade
<1>4. CASE Start
    BY <1>1, <1>4 DEF Start, OutputMade
<1>5. ASSUME NEW p \in Partitions, Collect(p) \/ CollectRaises(p)
      PROVE  OutputMade'
    BY <1>1, <1>5 DEF Collect, CollectRaises, OutputMade
<1>6. CASE Abort
    BY <1>1, <1>6 DEF Abort, OutputMade
<1>7. CASE Return
    BY <1>1, <1>7 DEF Return, OutputMade, RowsOf
<1>8. CASE Fail
    BY <1>1, <1>8 DEF Fail, OutputMade
<1>9. ASSUME NEW p \in Partitions, Thread(p) \/ Worker(p)
      PROVE  OutputMade'
    BY <1>2, <1>9 DEF Thread, Worker,
        Serialise, SerialiseRaises, Submit, CreationFails, Deliver, Except, TimeOut, LeavePool, WorkerEnds
<1>10. QED
    BY <1>2, <1>3, <1>4, <1>5, <1>6, <1>7, <1>8, <1>9 DEF Next, Main, vars

\* What is in the output when a run answers, and in which order.
LEMMA OutputRows ==
    ASSUME rows \in Nat, arrived \in Seq(Partitions), OutputMade
    PROVE  /\ output \in Seq(0 .. rows - 1) /\ RowOrdered(output)
           /\ main = "returned" => ToSet(output) = {k \in 0 .. rows - 1 : PartitionOf(k) \in ToSet(arrived)}
<1>1. ToSet(<<>>) = {} /\ RowOrdered(<<>>) /\ <<>> \in Seq(0 .. rows - 1)
    BY DEF ToSet, RowOrdered
<1>2. CASE output = <<>> /\ (main = "returned" => rows = 0)
    BY <1>1, <1>2
<1>3. CASE main = "returned" /\ arrived # <<>>
    <2>1. ToSet(arrived) \in SUBSET Partitions /\ ToSet(arrived) # {}
        BY <1>3, ToSetFacts
    <2>2. QED  BY <1>3, <2>1, Concatenation DEF OutputMade
<1>4. QED  BY <1>2, <1>3 DEF OutputMade

\* Every step keeps the types.
LEMMA TypeStep ==
    ASSUME TypeOK, [Next]_vars, Control', OutputMade'
    PROVE  TypeOK'
<1>1. rows' = rows /\ rows \in 0 .. MaxRows
    BY DEF TypeOK, Next, vars, Main, ReturnEmpty, Start, Collect, CollectRaises, Abort, Return, Fail, Thread,
        Worker, Serialise, SerialiseRaises, Submit, CreationFails, Deliver, Except, TimeOut, LeavePool, WorkerEnds
<1>2. main' \in {"called", "collecting", "aborting", "returned", "failed", "aborted"}
    BY DEF TypeOK, Next, vars, Main, ReturnEmpty, Start, Collect, CollectRaises, Abort, Return, Fail, Thread,
        Worker, Serialise, SerialiseRaises, Submit, CreationFails, Deliver, Except, TimeOut, LeavePool, WorkerEnds
<1>3. Shape'
    BY DEF Control
<1>4. CASE output' = output
    BY <1>1, <1>2, <1>3, <1>4 DEF TypeOK, Shape
<1>5. CASE Return
    <2>1. output' \in Seq(0 .. rows - 1)
        <3>1. arrived' = arrived /\ arrived \in Seq(Partitions) /\ arrived # <<>> /\ rows \in Nat
            BY <1>1, <1>3, <1>5 DEF Return, Shape
        <3>2. ToSet(arrived) \in SUBSET Partitions /\ ToSet(arrived) # {}
            BY <3>1, ToSetFacts
        <3>3. QED  BY <1>5, <3>1, <3>2, Concatenation DEF Return
    <2>2. 0 .. rows - 1 \subseteq 0 .. MaxRows - 1
        BY <1>1
    <2>3. ToSet(output') \subseteq 0 .. MaxRows - 1
        BY <2>1, <2>2, ToSetFacts
    <2>4. output' \in Seq(0 .. MaxRows - 1)
        BY <2>1, <2>3, SeqOver
    <2>5. QED  BY <1>1, <1>2, <1>3, <2>4 DEF TypeOK, Shape
<1>6. QED
    BY <1>4, <1>5 DEF Next, vars, Main, ReturnEmpty, Start, Collect, CollectRaises, Abort, Fail, Thread,
        Worker, Serialise, SerialiseRaises, Submit, CreationFails, Deliver, Except, TimeOut, LeavePool, WorkerEnds

-------------------------------------------------------------------------------
(* The theorems. *)

\* Every reachable state of a run satisfies the inductive invariant.
THEOREM IInvariant == Spec => []IInv
<1>1. Init => IInv
    <2> SUFFICES ASSUME Init PROVE IInv
        OBVIOUS
    <2>1. Control
        BY InitControl
    <2>2. TypeOK
        BY <2>1 DEF Init, TypeOK, Control, Shape
    <2>3. CollectedOnce /\ OutputMade
        BY DEF Init, CollectedOnce, OutputMade, IsInjective
    <2>4. QED  BY <2>1, <2>2, <2>3 DEF IInv, Control
<1>2. IInv /\ [Next]_vars => IInv'
    <2> SUFFICES ASSUME IInv, [Next]_vars PROVE IInv'
        OBVIOUS
    <2>1. Control' /\ CollectedOnce' /\ OutputMade'
        BY HasControl, ControlStep, CollectedOnceStep, OutputMadeStep
    <2>2. TypeOK'
        BY <2>1, TypeStep DEF IInv
    <2>3. QED  BY <2>1, <2>2 DEF IInv, Control
<1>3. QED  BY <1>1, <1>2, PTL DEF Spec

\* Every variable keeps its type: no row past the end of the frame is put out.
THEOREM TypeCorrect == Spec => []TypeOK
<1>1. IInv => TypeOK
    BY DEF IInv
<1>2. QED  BY <1>1, IInvariant, PTL

\* Conservation for any frame and any number of partitions: each row is in the
\* output once or its partition is under one quarantine entry, and an error
\* means that every row was lost.
THEOREM NoRowLost == Spec => []Conserved
<1>1. IInv => Conserved
    <2> SUFFICES ASSUME IInv, main \in {"returned", "failed"} PROVE Conserved
        BY DEF Conserved
    <2>1. /\ rows \in Nat /\ arrived \in Seq(Partitions) /\ quarantined \in Seq(Partitions)
          /\ CollectedFinal /\ CollectedOnce /\ OutputMade /\ Collected = NonEmpty
        BY DEF IInv, TypeOK, EndsComplete
    <2>2. /\ output \in Seq(0 .. rows - 1) /\ RowOrdered(output)
          /\ main = "returned" => ToSet(output) = {k \in 0 .. rows - 1 : PartitionOf(k) \in ToSet(arrived)}
        BY <2>1, OutputRows
    <2>3. ToSet(arrived) = {p \in Partitions : answer[p] = "frame"}
        <3>1. ASSUME NEW p \in Partitions, answer[p] = "frame"
              PROVE  p \in ToSet(arrived)
            <4>1. p \in NonEmpty
                BY <3>1 DEF IInv, FaultsBlamed, ThreadsStarted
            <4>2. QED  BY <2>1, <3>1, <4>1 DEF Collected, CollectedFinal
        <3>2. ToSet(arrived) \subseteq Partitions
            BY <2>1 DEF ToSet
        <3>3. QED  BY <2>1, <3>1, <3>2 DEF CollectedFinal
    <2>4. ToSet(output) = {k \in 0 .. rows - 1 : answer[PartitionOf(k)] = "frame"}
        <3>1. \A k \in 0 .. rows - 1 : PartitionOf(k) \in Partitions
            BY Dealt
        <3>2. CASE main = "returned"
            BY <2>2, <2>3, <3>1, <3>2
        <3>3. CASE main = "failed"
            <4>1. output = <<>> /\ arrived = <<>> /\ ToSet(<<>>) = {}
                BY <2>1, <3>3 DEF OutputMade, ToSet
            <4>2. QED  BY <2>3, <3>1, <4>1
        <3>4. QED  BY <3>2, <3>3
    <2>5. ToSet(quarantined) = {p \in NonEmpty : answer[p] # "frame"}
        BY <2>1, <2>3 DEF Collected, CollectedFinal, NonEmpty
    <2>6. Len(output) = Cardinality(ToSet(output))
        <3>1. \A i, j \in DOMAIN output : i < j => output[i] # output[j]
            <4>1. \A i \in DOMAIN output : output[i] \in Nat /\ PartitionOf(output[i]) \in Nat
                <5>1. \A k \in Nat : PartitionOf(k) \in Nat
                    BY Dealt
                <5>2. output \in Seq(0 .. rows - 1)
                    BY <2>2
                <5>3. \A i \in DOMAIN output : output[i] \in ToSet(output) /\ ToSet(output) \subseteq 0 .. rows - 1
                    BY <5>2, ToSetFacts
                <5>4. QED  BY <5>1, <5>3
            <4>2. ASSUME NEW a \in Nat, NEW b \in Nat, Before(a, b)
                  PROVE  a # b
                <5>1. PartitionOf(a) \in Nat
                    BY Dealt
                <5>2. QED  BY <4>2, <5>1 DEF Before
            <4>3. QED  BY <2>2, <4>1, <4>2 DEF RowOrdered
        <3>2. QED  BY <2>2, <3>1, InjectiveLength
    <2>7. Len(quarantined) = Cardinality(ToSet(quarantined))
        BY <2>1, InjectiveLength DEF CollectedOnce, IsInjective
    <2>8. main = "failed" <=> rows > 0 /\ output = <<>>
        <3>1. ASSUME main = "returned", rows > 0
              PROVE  output # <<>>
            <4>1. arrived # <<>>
                BY <2>1, <3>1 DEF OutputMade
            <4>2. PICK p \in ToSet(arrived) : p \in NonEmpty /\ p \in Partitions
                BY <2>1, <4>1 DEF ToSet, Collected, NonEmpty
            <4>3. p \in 0 .. rows - 1 /\ PartitionOf(p) = p
                BY <2>1, <4>2, Dealt DEF NonEmpty
            <4>4. p \in ToSet(output)
                BY <2>2, <3>1, <4>2, <4>3
            <4>5. QED  BY <4>4 DEF ToSet
        <3>2. main = "failed" => rows > 0 /\ output = <<>>
            BY <2>1 DEF OutputMade
        <3>3. QED  BY <3>1, <3>2
    <2>9. QED  BY <2>4, <2>5, <2>6, <2>7, <2>8 DEF Conserved
<1>2. QED  BY <1>1, IInvariant, PTL

\* The output's order does not depend on the order in which workers answer.
THEOREM OrderIsFixed == Spec => []OutputOrdered
<1>1. IInv => OutputOrdered
    <2> SUFFICES ASSUME IInv PROVE OutputOrdered
        OBVIOUS
    <2>1. RowOrdered(output)
        BY OutputRows DEF IInv, TypeOK
    <2>2. QED  BY <2>1 DEF RowOrdered, Before, OutputOrdered
<1>2. QED  BY <1>1, IInvariant, PTL

\* Fault isolation (ADR-007) for any number of partitions: whatever crashes,
\* hangs, times out or raises, a run that answers has the result of every
\* partition that met no fault of its own.
THEOREM Isolation == Spec => []FaultsIsolated
<1>1. IInv => FaultsIsolated
    <2> SUFFICES ASSUME IInv, main \in {"returned", "failed"}, NEW p \in NonEmpty, p \notin faulty
                 PROVE  p \in ToSet(arrived)
        BY DEF FaultsIsolated
    <2>1. p \in Collected /\ p \in Partitions
        BY DEF IInv, EndsComplete, NonEmpty
    <2>2. thread[p] = "done"
        BY <2>1 DEF IInv, CollectedFinal, Collected
    <2>3. answer[p] = "frame"
        BY <2>1, <2>2 DEF IInv, TypeOK, FaultsBlamed
    <2>4. QED  BY <2>1, <2>3 DEF IInv, CollectedFinal, Collected
<1>2. QED  BY <1>1, IInvariant, PTL

\* No worker process outlives the run, for any number of partitions and
\* whichever way the run ends.
THEOREM NoOrphans == Spec => []NoWorkerLeft
<1>1. IInv => NoWorkerLeft
    <2> SUFFICES ASSUME IInv, main \in Ended, NEW p \in Partitions, worker[p] \in {"running", "hung"}
                 PROVE  FALSE
        BY DEF NoWorkerLeft
    <2>1. thread[p] \in {"waiting", "exiting"}
        BY DEF IInv, WorkersOwned
    <2>2. p \in NonEmpty
        BY <2>1 DEF IInv, ThreadsStarted
    <2>3. CASE main \in {"returned", "failed"}
        BY <2>1, <2>2, <2>3 DEF IInv, EndsComplete, Collected, CollectedFinal
    <2>4. CASE main = "aborted"
        BY <2>1, <2>2, <2>4 DEF IInv, EndsComplete
    <2>5. QED  BY <2>3, <2>4 DEF Ended
<1>2. QED  BY <1>1, IInvariant, PTL
===============================================================================
