----------------------------- MODULE LibraryFacts -----------------------------
(***************************************************************************)
(* Facts about finite sets, sequences and sums that the proofs of the      *)
(* components need and the library's theorem modules do not state.  They   *)
(* need induction: LeastNat and SmallestBad give it in the form of a least *)
(* counterexample.                                                         *)
(***************************************************************************)
EXTENDS Integers, Sequences, SequencesExt, WellFoundedInduction, FiniteSetTheorems, TLAPS

\* The least-number principle, which stands in for induction.
LEMMA LeastNat ==
    ASSUME NEW T \in SUBSET Nat, T # {}
    PROVE  \E x \in T : \A y \in T : x <= y
<1> DEFINE R == {ss \in Nat \X Nat : ss[1] < ss[2]}
<1>1. IsWellFoundedOn(R, Nat)
    <2>1. OpToRel(<, Nat) = R
        BY DEF OpToRel
    <2>2. QED  BY <2>1, NatLessThanWellFounded
<1>2. PICK x \in T : \A y \in T : ~ (<<y, x>> \in R)
    <2> HIDE DEF R
    <2> QED  BY <1>1, WFMin, Zenon
<1>3. \A y \in T : y < x => <<y, x>> \in R
    BY DEF R
<1> HIDE DEF R
<1>4. \A y \in T : ~ (y < x)
    BY <1>2, <1>3
<1>5. \A y \in T : x <= y
    BY <1>4
<1>6. QED  BY <1>5


\* Induction over finite sets: among sets that lack a property one has none below it.
LEMMA SmallestBad ==
    ASSUME NEW S, IsFiniteSet(S), NEW Bad \in SUBSET (SUBSET S), Bad # {}
    PROVE  \E U \in Bad : \A x \in U : U \ {x} \notin Bad
<1>1. \A U \in SUBSET S : IsFiniteSet(U) /\ Cardinality(U) \in Nat
    BY FS_Subset, FS_CardinalityType
<1> DEFINE T == {Cardinality(V) : V \in Bad}
<1>2. PICK n \in T : \A m \in T : n <= m
    <2>1. T \in SUBSET Nat /\ T # {}
        BY <1>1
    <2>2. QED  
        <3> HIDE DEF T
        <3> QED  BY <2>1, LeastNat
<1>3. PICK U \in Bad : Cardinality(U) = n
    OBVIOUS
<1>4. ASSUME NEW x \in U, U \ {x} \in Bad PROVE FALSE
    <2>1. Cardinality(U \ {x}) = Cardinality(U) - 1
        BY <1>1, FS_RemoveElement
    <2>2. n <= Cardinality(U \ {x})
        BY <1>2, <1>4
    <2>3. QED  BY <1>1, <1>3, <2>1, <2>2
<1>5. QED  BY <1>4

\* s enumerates S in ascending order.
Ascending(s, S) ==
    /\ s \in [1 .. Cardinality(S) -> S]
    /\ \A i, j \in 1 .. Cardinality(S) : i < j => s[i] < s[j]

\* A finite set of numbers can be enumerated in ascending order.
LEMMA SortedExists ==
    ASSUME NEW S \in SUBSET Nat, IsFiniteSet(S)
    PROVE  \E s : Ascending(s, S)
<1> DEFINE Bad == {U \in SUBSET S : ~ \E s : Ascending(s, U)}
<1>1. SUFFICES ASSUME Bad # {} PROVE FALSE
    OBVIOUS
<1>2. PICK U \in Bad : \A x \in U : U \ {x} \notin Bad
    <2>1. Bad \in SUBSET (SUBSET S)
        OBVIOUS
    <2> HIDE DEF Bad
    <2> QED  BY <1>1, <2>1, SmallestBad
<1>3. IsFiniteSet(U) /\ Cardinality(U) \in Nat
    BY FS_Subset, FS_CardinalityType
<1>4. ASSUME U = {} PROVE FALSE
    <2>1. Cardinality(U) = 0
        BY <1>4, FS_EmptySet
    <2>2. <<>> \in [1 .. 0 -> U] /\ 1 .. 0 = {}
        OBVIOUS
    <2>3. Ascending(<<>>, U)
        BY <2>1, <2>2 DEF Ascending
    <2>4. QED  BY <2>3
<1>5. PICK m \in U : \A y \in U : m <= y
    BY <1>4, LeastNat
<1>6. PICK s : Ascending(s, U \ {m})
    BY <1>2, <1>5
<1> DEFINE n == Cardinality(U)
<1>7. Cardinality(U \ {m}) = n - 1 /\ n \in Nat \ {0}
    <2>1. Cardinality(U \ {m}) = n - 1 /\ Cardinality(U \ {m}) \in Nat
        BY <1>3, FS_RemoveElement, FS_CardinalityType
    <2>2. QED  BY <2>1, <1>3
<1> DEFINE t == [i \in 1 .. n |-> IF i = 1 THEN m ELSE s[i - 1]]
<1>8. /\ s \in [1 .. n - 1 -> U \ {m}]
      /\ \A i, j \in 1 .. n - 1 : i < j => s[i] < s[j]
    BY <1>6, <1>7 DEF Ascending
<1> HIDE DEF n
<1>9. t \in [1 .. n -> U]
    BY <1>7, <1>8
<1>10. ASSUME NEW i \in 1 .. n, NEW j \in 1 .. n, i < j PROVE t[i] < t[j]
    <2>1. j - 1 \in 1 .. n - 1 /\ s[j - 1] \in U \ {m} /\ t[j] = s[j - 1]
        BY <1>7, <1>8, <1>10
    <2>2. CASE i = 1
        <3>1. t[i] = m /\ m <= s[j - 1] /\ m # s[j - 1]
            BY <2>1, <2>2, <1>5
        <3>2. m \in Nat /\ s[j - 1] \in Nat
            BY <2>1
        <3>3. QED  BY <3>1, <3>2, <2>1
    <2>3. CASE i # 1
        <3>1. i - 1 \in 1 .. n - 1 /\ t[i] = s[i - 1] /\ i - 1 < j - 1
            BY <1>7, <1>10, <2>3
        <3>2. QED  BY <3>1, <2>1, <1>8
    <2>4. QED  BY <2>2, <2>3
<1>11. Ascending(t, U)
    <2> HIDE DEF t
    <2> QED  BY <1>9, <1>10 DEF Ascending, n
<1>12. QED  BY <1>11

\* An ascending enumeration has every element.
LEMMA AscendingOnto ==
    ASSUME NEW S \in SUBSET Nat, IsFiniteSet(S), NEW s, Ascending(s, S)
    PROVE  s \in Seq(S) /\ Len(s) = Cardinality(S) /\ ToSet(s) = S
<1> DEFINE n == Cardinality(S)
<1>1. n \in Nat 
    BY FS_CardinalityType
<1>2. s \in Injection(1 .. n, S)
    <2>1. s \in [1 .. n -> S]
        BY DEF Ascending
    <2>2. ASSUME NEW a \in 1 .. n, NEW b \in 1 .. n, s[a] = s[b] PROVE a = b
        <3>1. s[a] \in Nat /\ s[b] \in Nat /\ a \in Int /\ b \in Int
            <4>1. s[a] \in S /\ s[b] \in S
                BY <2>1
            <4>2. n \in Int
                BY <1>1
            <4>3. \A i \in 1 .. n : i \in Int
                BY <4>2
            <4> HIDE DEF n
            <4>4. \A x \in S : x \in Nat
                OBVIOUS
            <4>5. a \in Int /\ b \in Int
                BY <4>3
            <4>6. s[a] \in Nat /\ s[b] \in Nat
                BY <4>1, <4>4
            <4>7. QED  BY <4>5, <4>6
        <3>2. (a < b => s[a] < s[b]) /\ (b < a => s[b] < s[a])
            BY DEF Ascending
        <3>3. QED  BY <3>1, <3>2, <2>2
    <2>3. QED  BY <2>1, <2>2 DEF Injection, IsInjective
<1>3. IsFiniteSet(1 .. n) /\ Cardinality(1 .. n) = n
    BY <1>1, FS_Interval
<1>4. s \in Surjection(1 .. n, S)
    <2> HIDE DEF n
    <2>1. n = Cardinality(S) BY DEF n
    <2> QED  BY <1>2, <1>3, <2>1, FS_Injection
<1>5. \A x \in S : \E i \in 1 .. n : s[i] = x
    BY <1>4 DEF Surjection
<1>6. s \in Seq(S) /\ Len(s) = n
    BY <1>1 DEF Ascending
<1>7. DOMAIN s = 1 .. n /\ \A i \in 1 .. n : s[i] \in S
    BY DEF Ascending
<1>8. ToSet(s) = S
    <2> HIDE DEF n
    <2> QED  BY <1>5, <1>7 DEF ToSet
<1>9. QED  BY <1>6, <1>8

\* The concatenations of the first parts of seqs, up to the n-th.
Partial(f, seqs, n) ==
    f = [i \in 1 .. n |-> IF i = 1 THEN seqs[i] ELSE f[i - 1] \o seqs[i]]

\* The recursion of FlattenSeq has a solution.
LEMMA FlattenExists ==
    ASSUME NEW A, NEW seqs \in Seq(Seq(A)), NEW n \in Nat, n <= Len(seqs)
    PROVE  \E f \in [1 .. n -> Seq(A)] : Partial(f, seqs, n)
<1> USE DEF Partial
<1> DEFINE Solves(f, m) == f \in [1 .. m -> Seq(A)] /\ Partial(f, seqs, m)
           Bad == {m \in 0 .. n : ~ \E f : Solves(f, m)}
<1>1. SUFFICES ASSUME Bad # {} PROVE FALSE
    <2>1. ASSUME ~ \E f : Solves(f, n) PROVE n \in Bad
        <3> HIDE DEF Solves
        <3> QED  BY <2>1
    <2>2. QED  BY <2>1
<1>2. PICK m \in Bad : \A k \in Bad : m <= k
    <2>1. Bad \in SUBSET Nat
        <3> HIDE DEF Solves
        <3> QED OBVIOUS
    <2> HIDE DEF Bad
    <2> QED  BY <1>1, <2>1, LeastNat
<1>3. m \in 0 .. n /\ ~ \E f : Solves(f, m)
    OBVIOUS
<1>4. CASE m = 0
    <2>1. 1 .. m = {} /\ <<>> \in [1 .. m -> Seq(A)]
        BY <1>4
    <2>2. Solves(<<>>, m)
        BY <2>1
    <2>3. QED  BY <1>3, <2>2
<1>5. CASE m # 0
    <2>1. m - 1 \in 0 .. n /\ m - 1 \notin Bad
        <3>1. m - 1 \in 0 .. n
            BY <1>3, <1>5
        <3> HIDE DEF Bad
        <3>2. QED  BY <1>2, <1>3, <3>1
    <2>2. PICK f : Solves(f, m - 1)
        BY <2>1
    <2> DEFINE g == [i \in 1 .. m |-> IF i = 1 THEN seqs[1] ELSE f[i - 1] \o seqs[i]]
    <2>3. \A i \in 1 .. m : i # 1 => i - 1 \in 1 .. m - 1 /\ f[i - 1] \in Seq(A)
        BY <2>2, <1>3
    <2>4. \A i \in 1 .. m : seqs[i] \in Seq(A)
        BY <1>3
    <2>5. g \in [1 .. m -> Seq(A)]
        BY <2>3, <2>4
    <2>6. \A i \in 1 .. m - 1 : g[i] = f[i]
        <3> TAKE i \in 1 .. m - 1
        <3>1. f[i] = IF i = 1 THEN seqs[i] ELSE f[i - 1] \o seqs[i]
            BY <2>2
        <3>2. i \in 1 .. m
            BY <1>3
        <3>3. QED  BY <3>1, <3>2
    <2>7. g = [i \in 1 .. m |-> IF i = 1 THEN seqs[i] ELSE g[i - 1] \o seqs[i]]
        <3>1. \A i \in 1 .. m : i # 1 => g[i - 1] = f[i - 1]
            BY <2>3, <2>6
        <3>2. \A i \in 1 .. m : g[i] = IF i = 1 THEN seqs[i] ELSE g[i - 1] \o seqs[i]
            BY <3>1
        <3>3. DOMAIN g = 1 .. m /\ g = [i \in 1 .. m |-> g[i]]
            OBVIOUS
        <3> HIDE DEF g
        <3>4. QED  BY <3>2, <3>3
    <2>8. QED  
        <3> HIDE DEF g
        <3> QED  BY <2>5, <2>7, <1>3
<1>6. QED  BY <1>4, <1>5

\* What FlattenSeq returns is the last of the partial concatenations.
LEMMA FlattenSteps ==
    ASSUME NEW A, NEW seqs \in Seq(Seq(A)), seqs # <<>>
    PROVE  \E f \in [1 .. Len(seqs) -> Seq(A)] :
            /\ f[1] = seqs[1]
            /\ \A i \in 2 .. Len(seqs) : f[i] = f[i - 1] \o seqs[i]
            /\ FlattenSeq(seqs) = f[Len(seqs)]
<1> DEFINE n == Len(seqs)
           Solves(f) == Partial(f, seqs, n)
           g == CHOOSE f : Solves(f)
<1>1. n \in Nat \ {0} /\ n <= Len(seqs)
    OBVIOUS
<1>2. PICK f \in [1 .. n -> Seq(A)] : Solves(f)
    <2> HIDE DEF n
    <2> QED  BY <1>1, FlattenExists
<1>3. Solves(g)
    BY <1>2
<1> USE DEF Partial
<1>4. FlattenSeq(seqs) = g[n]
    BY <1>1 DEF FlattenSeq
<1>5. g \in [1 .. n -> Seq(A)]
    <2> HIDE DEF g
    <2> DEFINE Bad == {i \in 1 .. n : g[i] \notin Seq(A)}
    <2>1. ASSUME Bad # {} PROVE FALSE
        <3>1. PICK i \in Bad : \A k \in Bad : i <= k
            <4>1. Bad \in SUBSET Nat
                OBVIOUS
            <4> HIDE DEF Bad
            <4> QED  BY <2>1, <4>1, LeastNat
        <3>2. g[i] = IF i = 1 THEN seqs[i] ELSE g[i - 1] \o seqs[i]
            BY <1>3
        <3>3. i \in 1 .. n /\ seqs[i] \in Seq(A) /\ g[i] \notin Seq(A)
            OBVIOUS
        <3>4. i # 1 => i - 1 \in 1 .. n /\ i - 1 \notin Bad
            <4>1. i # 1 => i - 1 \in 1 .. n /\ ~ (i <= i - 1)
                BY <3>3
            <4> HIDE DEF Bad
            <4> QED  BY <4>1, <3>1
        <3>5. i # 1 => g[i - 1] \in Seq(A)
            BY <3>4
        <3>6. QED  BY <3>2, <3>3, <3>5
    <2>2. g = [i \in 1 .. n |-> g[i]]
        BY <1>3
    <2>3. \A i \in 1 .. n : g[i] \in Seq(A)
        BY <2>1
    <2>4. QED  BY <2>2, <2>3
<1>6. g[1] = seqs[1] /\ \A i \in 2 .. n : g[i] = g[i - 1] \o seqs[i]
    <2> HIDE DEF g
    <2>1. \A i \in 1 .. n : g[i] = IF i = 1 THEN seqs[i] ELSE g[i - 1] \o seqs[i]
        BY <1>3
    <2> HIDE DEF n, Solves
    <2>2. 1 \in 1 .. n /\ \A i \in 2 .. n : i \in 1 .. n /\ i # 1
        BY <1>1
    <2>3. QED  BY <2>1, <2>2
<1>7. QED
    <2> HIDE DEF g
    <2> QED  BY <1>4, <1>5, <1>6

-------------------------------------------------------------------------------
\* The set of a sequence's elements is of their type, and empty with it.
LEMMA ToSetFacts ==
    ASSUME NEW A, NEW s \in Seq(A)
    PROVE  /\ ToSet(s) \subseteq A
           /\ ToSet(s) = {} <=> s = <<>>
           /\ \A i \in DOMAIN s : s[i] \in ToSet(s)
<1>1. DOMAIN s = 1 .. Len(s) /\ Len(s) \in Nat /\ \A i \in 1 .. Len(s) : s[i] \in A
    OBVIOUS
<1>2. s # <<>> => 1 \in DOMAIN s
    OBVIOUS
<1>3. ToSet(<<>>) = {}
    BY DEF ToSet
<1>4. QED  BY <1>1, <1>2, <1>3 DEF ToSet

\* A sequence whose elements are all in B is a sequence over B.
LEMMA SeqOver ==
    ASSUME NEW A, NEW B, NEW s \in Seq(A), ToSet(s) \subseteq B
    PROVE  s \in Seq(B)
<1>1. Len(s) \in Nat /\ DOMAIN s = 1 .. Len(s) /\ s = [i \in 1 .. Len(s) |-> s[i]]
    OBVIOUS
<1>2. \A i \in 1 .. Len(s) : s[i] \in B
    BY <1>1, ToSetFacts
<1> DEFINE n == Len(s)
<1>3. n \in Nat /\ s \in [1 .. n -> B]
    BY <1>1, <1>2
<1> HIDE DEF n
<1>4. QED  BY <1>3

\* The elements of a concatenation are those of its parts.
LEMMA ConcatToSet ==
    ASSUME NEW A, NEW s \in Seq(A), NEW t \in Seq(A)
    PROVE  /\ s \o t \in Seq(A)
           /\ ToSet(s \o t) = ToSet(s) \cup ToSet(t)
           /\ DOMAIN (s \o t) = 1 .. Len(s) + Len(t)
           /\ \A i \in 1 .. Len(s) : (s \o t)[i] = s[i]
           /\ \A i \in 1 .. Len(t) : (s \o t)[Len(s) + i] = t[i]
<1>1. /\ s \o t \in Seq(A) /\ Len(s \o t) = Len(s) + Len(t)
      /\ Len(s) \in Nat /\ Len(t) \in Nat
      /\ \A i \in 1 .. Len(s) + Len(t) :
            (s \o t)[i] = IF i <= Len(s) THEN s[i] ELSE t[i - Len(s)]
      /\ DOMAIN (s \o t) = 1 .. Len(s) + Len(t) /\ DOMAIN s = 1 .. Len(s) /\ DOMAIN t = 1 .. Len(t)
    OBVIOUS
<1>2. \A i \in 1 .. Len(s) : i \in 1 .. Len(s) + Len(t) /\ (s \o t)[i] = s[i]
    BY <1>1
<1>3. \A i \in 1 .. Len(t) : Len(s) + i \in 1 .. Len(s) + Len(t) /\ (s \o t)[Len(s) + i] = t[i]
    BY <1>1
<1>4. \A i \in 1 .. Len(s) + Len(t) :
        \/ i \in 1 .. Len(s)
        \/ i - Len(s) \in 1 .. Len(t) /\ i = Len(s) + (i - Len(s))
    BY <1>1
<1>5. ToSet(s \o t) \subseteq ToSet(s) \cup ToSet(t)
    BY <1>1, <1>2, <1>3, <1>4 DEF ToSet
<1>6. ToSet(s) \cup ToSet(t) \subseteq ToSet(s \o t)
    <2>1. ToSet(s) \subseteq ToSet(s \o t)
        BY <1>1, <1>2 DEF ToSet
    <2>2. ToSet(t) \subseteq ToSet(s \o t)
        <3>1. ASSUME NEW i \in 1 .. Len(t)
              PROVE  t[i] \in ToSet(s \o t)
            <4>1. Len(s) + i \in DOMAIN (s \o t) /\ (s \o t)[Len(s) + i] = t[i]
                BY <1>1, <1>3
            <4>2. QED  BY <4>1 DEF ToSet
        <3>2. QED  BY <1>1, <3>1 DEF ToSet
    <2>3. QED  BY <2>1, <2>2
<1>7. QED  BY <1>1, <1>2, <1>3, <1>5, <1>6

\* A sequence without repetitions is as long as its set is large.
LEMMA InjectiveLength ==
    ASSUME NEW A, NEW s \in Seq(A), \A i, j \in DOMAIN s : i < j => s[i] # s[j]
    PROVE  Len(s) = Cardinality(ToSet(s))
<1> DEFINE n == Len(s)
<1>1. n \in Nat /\ DOMAIN s = 1 .. n
    OBVIOUS
<1>2. IsFiniteSet(1 .. n) /\ Cardinality(1 .. n) = n
    BY <1>1, FS_Interval
<1>3. s \in [1 .. n -> ToSet(s)]
    BY DEF ToSet
<1>4. s \in Injection(1 .. n, ToSet(s))
    <2>1. ASSUME NEW a \in 1 .. n, NEW b \in 1 .. n, s[a] = s[b] PROVE a = b
        <3>1. ~ (a < b) /\ ~ (b < a)
            BY <2>1, <1>1
        <3>2. QED  BY <3>1
    <2>2. QED  BY <1>3, <2>1 DEF Injection, IsInjective
<1>5. s \in Surjection(1 .. n, ToSet(s))
    BY <1>1, <1>3 DEF Surjection, ToSet
<1>6. ExistsBijection(1 .. n, ToSet(s))
    BY <1>4, <1>5 DEF ExistsBijection, Bijection
<1>7. QED
    <2> HIDE DEF n
    <2>1. n = Len(s)
        BY DEF n
    <2>2. QED  BY <1>2, <1>6, <2>1, FS_Bijection

-------------------------------------------------------------------------------
\* h is the sum of g over each subset of S.
SumsOf(h, g, S) ==
    /\ h \in [SUBSET S -> Int]
    /\ h[{}] = 0
    /\ \A s \in SUBSET S : \A x \in s : h[s] = g[x] + h[s \ {x}]

\* Sums over the subsets of a finite set exist.
LEMMA SumsExist ==
    ASSUME NEW S, IsFiniteSet(S), NEW g \in [S -> Int]
    PROVE  \E h : SumsOf(h, g, S)
<1> DEFINE Bad == {U \in SUBSET S : ~ \E h : SumsOf(h, g, U)}
<1>1. SUFFICES ASSUME Bad # {} PROVE FALSE
    OBVIOUS
<1>2. PICK U \in Bad : \A x \in U : U \ {x} \notin Bad
    <2>1. Bad \in SUBSET (SUBSET S)
        OBVIOUS
    <2> HIDE DEF Bad
    <2>2. QED  BY <1>1, <2>1, SmallestBad
<1>3. U \in SUBSET S /\ ~ \E h : SumsOf(h, g, U)
    OBVIOUS
<1>4. CASE U = {}
    <2>1. SumsOf([s \in SUBSET U |-> 0], g, U)
        BY <1>4 DEF SumsOf
    <2>2. QED  BY <1>3, <2>1
<1>5. CASE U # {}
    <2>1. PICK m \in U : TRUE
        BY <1>5
    <2>2. PICK h : SumsOf(h, g, U \ {m})
        BY <1>2, <1>3
    <2> DEFINE k == [s \in SUBSET U |-> IF m \in s THEN g[m] + h[s \ {m}] ELSE h[s]]
    <2>3. h \in [SUBSET (U \ {m}) -> Int] /\ h[{}] = 0
        BY <2>2 DEF SumsOf
    <2>4. \A s \in SUBSET U : s \ {m} \in SUBSET (U \ {m}) /\ h[s \ {m}] \in Int
        BY <2>3
    <2>5. \A x \in U : g[x] \in Int
        BY <1>3
    <2>6. \A s \in SUBSET U : /\ m \in s => k[s] = g[m] + h[s \ {m}]
                              /\ m \notin s => k[s] = h[s] /\ s = s \ {m}
        OBVIOUS
    <2>7. k \in [SUBSET U -> Int]
        <3>1. \A s \in SUBSET U : k[s] \in Int
            <4> SUFFICES ASSUME NEW s \in SUBSET U PROVE k[s] \in Int
                OBVIOUS
            <4>1. h[s \ {m}] \in Int /\ g[m] \in Int
                BY <2>4, <2>5
            <4>2. /\ m \in s => k[s] = g[m] + h[s \ {m}]
                  /\ m \notin s => k[s] = h[s \ {m}]
                BY <2>6
            <4> HIDE DEF k
            <4>3. QED  BY <4>1, <4>2
        <3>2. QED  BY <3>1
    <2> HIDE DEF k
    <2>8. k[{}] = 0
        BY <2>3, <2>6
    <2>9. ASSUME NEW s \in SUBSET U, NEW x \in s
          PROVE  k[s] = g[x] + k[s \ {x}]
        <3>1. CASE x = m
            BY <2>6, <3>1
        <3>2. CASE x # m /\ m \in s
            <4>1. /\ k[s] = g[m] + h[s \ {m}]
                  /\ k[s \ {x}] = g[m] + h[(s \ {x}) \ {m}]
                BY <2>6, <3>2
            <4>2. h[s \ {m}] = g[x] + h[(s \ {m}) \ {x}]
                BY <2>2, <2>4, <3>2 DEF SumsOf
            <4>3. (s \ {m}) \ {x} = (s \ {x}) \ {m}
                OBVIOUS
            <4>4. g[m] \in Int /\ g[x] \in Int /\ h[(s \ {x}) \ {m}] \in Int
                BY <2>4, <2>5
            <4>5. /\ k[s] = g[m] + (g[x] + h[(s \ {x}) \ {m}])
                  /\ k[s \ {x}] = g[m] + h[(s \ {x}) \ {m}]
                BY <4>1, <4>2, <4>3
            <4>6. \A a, b, c \in Int : a + (b + c) = b + (a + c)
                OBVIOUS
            <4>7. k[s] = g[x] + (g[m] + h[(s \ {x}) \ {m}])
                BY <4>4, <4>5, <4>6
            <4>8. QED  BY <4>5, <4>7
        <3>3. CASE m \notin s
            <4>1. k[s] = h[s] /\ k[s \ {x}] = h[s \ {x}] /\ s \in SUBSET (U \ {m})
                BY <2>6, <3>3
            <4>2. QED  BY <2>2, <4>1 DEF SumsOf
        <3>4. QED  BY <3>1, <3>2, <3>3
    <2>10. SumsOf(k, g, U)
        BY <2>7, <2>8, <2>9 DEF SumsOf
    <2>11. QED  BY <1>3, <2>10
<1>6. QED  BY <1>4, <1>5

\* The recursion of MapThenSumSet, for a function in the place of its operator.
SumRecursion(it, g, S) ==
    it = [s \in SUBSET S |-> IF s = {} THEN 0
                             ELSE g[CHOOSE x \in s : TRUE] + it[s \ {CHOOSE x \in s : TRUE}]]

\* It is solved by the sums, and by nothing else.
LEMMA SumsSolve ==
    ASSUME NEW S, NEW g, NEW h, SumsOf(h, g, S)
    PROVE  SumRecursion(h, g, S)
<1>1. \A s \in SUBSET S : s # {} => (CHOOSE x \in s : TRUE) \in s
    OBVIOUS
<1>2. \A s \in SUBSET S :
        h[s] = IF s = {} THEN 0 ELSE g[CHOOSE x \in s : TRUE] + h[s \ {CHOOSE x \in s : TRUE}]
    BY <1>1 DEF SumsOf
<1>3. h = [s \in SUBSET S |-> h[s]]
    BY DEF SumsOf
<1>4. QED  BY <1>2, <1>3 DEF SumRecursion

\* (what solves the recursion has the sum of the whole set for its value)
LEMMA SumsUnique ==
    ASSUME NEW S, IsFiniteSet(S), NEW g, NEW h, SumsOf(h, g, S), NEW it, SumRecursion(it, g, S)
    PROVE  it[S] = h[S]
<1> DEFINE Bad == {U \in SUBSET S : it[U] # h[U]}
<1>1. SUFFICES ASSUME Bad # {} PROVE FALSE
    OBVIOUS
<1>2. PICK U \in Bad : \A x \in U : U \ {x} \notin Bad
    <2>1. Bad \in SUBSET (SUBSET S)
        OBVIOUS
    <2> HIDE DEF Bad
    <2>2. QED  BY <1>1, <2>1, SmallestBad
<1> DEFINE m == CHOOSE x \in U : TRUE
<1>3. U \in SUBSET S /\ it[U] # h[U]
    OBVIOUS
<1>4. it[U] = IF U = {} THEN 0 ELSE g[m] + it[U \ {m}]
    BY <1>3 DEF SumRecursion
<1>5. U # {} => m \in U
    OBVIOUS
<1> HIDE DEF m
<1>6. U # {} => it[U \ {m}] = h[U \ {m}] /\ h[U] = g[m] + h[U \ {m}]
    BY <1>2, <1>3, <1>5 DEF SumsOf
<1>7. CASE U = {}
    <2>1. it[U] = 0
        BY <1>4, <1>7
    <2>2. h[U] = 0
        BY <1>7 DEF SumsOf
    <2>3. QED  BY <1>3, <2>1, <2>2
<1>8. CASE U # {}
    BY <1>3, <1>4, <1>6, <1>8
<1>9. QED  BY <1>7, <1>8

\* The sums over a set are the sums over each part of it.
LEMMA SumsWithin ==
    ASSUME NEW S, NEW g, NEW h, SumsOf(h, g, S), NEW T \in SUBSET S
    PROVE  SumsOf([U \in SUBSET T |-> h[U]], [x \in T |-> g[x]], T)
BY DEF SumsOf

\* The sum over two sets that have nothing in common.
LEMMA SumsDisjoint ==
    ASSUME NEW S, IsFiniteSet(S), NEW g \in [S -> Int], NEW h, SumsOf(h, g, S),
           NEW A \in SUBSET S, NEW B \in SUBSET S, A \cap B = {}
    PROVE  h[A \cup B] = h[A] + h[B]
<1> DEFINE Bad == {U \in SUBSET S : A \cap U = {} /\ h[A \cup U] # h[A] + h[U]}
<1>1. SUFFICES ASSUME Bad # {} PROVE FALSE
    OBVIOUS
<1>2. PICK U \in Bad : \A x \in U : U \ {x} \notin Bad
    <2>1. Bad \in SUBSET (SUBSET S)
        OBVIOUS
    <2> HIDE DEF Bad
    <2>2. QED  BY <1>1, <2>1, SmallestBad
<1>3. U \in SUBSET S /\ A \cap U = {} /\ h[A \cup U] # h[A] + h[U]
    OBVIOUS
<1>4. \A s \in SUBSET S : h[s] \in Int
    BY DEF SumsOf
<1>5. U # {}
    <2>1. ASSUME U = {} PROVE FALSE
        <3>1. A \cup U = A /\ h[U] = 0
            BY <2>1 DEF SumsOf
        <3>2. h[A] \in Int
            BY <1>4
        <3>3. h[A] = h[A] + 0
            BY <3>2
        <3>4. h[A \cup U] = h[A] + h[U]
            BY <3>1, <3>3
        <3>5. QED  BY <1>3, <3>4
    <2>2. QED  BY <2>1
<1>6. PICK m \in U : TRUE
    BY <1>5
<1>7. h[A \cup (U \ {m})] = h[A] + h[U \ {m}]
    BY <1>2, <1>3
<1>8. h[U] = g[m] + h[U \ {m}]
    BY <1>3 DEF SumsOf
<1>9. h[A \cup U] = g[m] + h[A \cup (U \ {m})]
    <2>1. m \in A \cup U /\ A \cup U \in SUBSET S /\ (A \cup U) \ {m} = A \cup (U \ {m})
        BY <1>3
    <2>2. h[A \cup U] = g[m] + h[(A \cup U) \ {m}]
        BY <2>1 DEF SumsOf
    <2>3. QED  BY <2>1, <2>2
<1>10. g[m] \in Int /\ h[A] \in Int /\ h[U \ {m}] \in Int
    BY <1>3, <1>4
<1>11. QED  BY <1>3, <1>7, <1>8, <1>9, <1>10

\* Summing by groups: the sums of all groups add up to the sum of all.
LEMMA SumByGroups ==
    ASSUME NEW S, IsFiniteSet(S), NEW g \in [S -> Int], NEW h, SumsOf(h, g, S),
           NEW K, IsFiniteSet(K), NEW key \in [S -> K],
           NEW part \in [K -> SUBSET S], \A c \in K : \A i \in S : i \in part[c] <=> key[i] = c,
           NEW G \in [K -> Int], \A c \in K : G[c] = h[part[c]],
           NEW H, SumsOf(H, G, K)
    PROVE  H[K] = h[S]
<1> DEFINE Of(T) == {i \in S : key[i] \in T}
           Bad == {T \in SUBSET K : H[T] # h[Of(T)]}
<1>1. SUFFICES ASSUME Bad # {} PROVE FALSE
    <2>1. Of(K) = S
        OBVIOUS
    <2>2. QED  BY <2>1
<1>2. PICK T \in Bad : \A x \in T : T \ {x} \notin Bad
    <2>1. Bad \in SUBSET (SUBSET K)
        OBVIOUS
    <2> HIDE DEF Bad
    <2>2. QED  BY <1>1, <2>1, SmallestBad
<1>3. T \in SUBSET K /\ H[T] # h[Of(T)]
    OBVIOUS
<1>4. T # {}
    <2>1. ASSUME T = {} PROVE FALSE
        <3>1. Of(T) = {} /\ H[T] = 0
            BY <2>1 DEF SumsOf
        <3>2. QED  BY <1>3, <3>1 DEF SumsOf
    <2>2. QED  BY <2>1
<1>5. PICK c \in T : TRUE
    BY <1>4
<1> DEFINE One == {i \in S : key[i] = c}
           Rest == Of(T \ {c})
<1>6. H[T \ {c}] = h[Rest]
    <2>1. T \ {c} \in SUBSET K /\ T \ {c} \notin Bad
        <3> HIDE DEF Bad
        <3>1. QED  BY <1>2, <1>3
    <2>2. QED  BY <2>1
<1>7. H[T] = G[c] + H[T \ {c}] /\ G[c] = h[One]
    <2>1. part[c] \in SUBSET S /\ One \in SUBSET S /\ \A i \in S : i \in part[c] <=> i \in One
        BY <1>3
    <2>2. part[c] = One
        <3> HIDE DEF One
        <3>1. QED  BY <2>1
    <2> HIDE DEF One
    <2>3. QED  BY <1>3, <2>2 DEF SumsOf
<1>8. h[One \cup Rest] = h[One] + h[Rest]
    <2>1. One \in SUBSET S /\ Rest \in SUBSET S /\ One \cap Rest = {}
        OBVIOUS
    <2>2. \A A, B \in SUBSET S : A \cap B = {} => h[A \cup B] = h[A] + h[B]
        <3> HIDE DEF One, Rest, Bad, Of
        <3>1. QED  BY SumsDisjoint
    <2> HIDE DEF One, Rest
    <2>3. QED  BY <2>1, <2>2
<1>9. Of(T) = One \cup Rest
    OBVIOUS
<1>10. QED
    <2> HIDE DEF One, Rest, Of, Bad
    <2>1. QED  BY <1>3, <1>6, <1>7, <1>8, <1>9

\* Counting is summing ones.
LEMMA CountIsSum ==
    ASSUME NEW S, IsFiniteSet(S)
    PROVE  SumsOf([s \in SUBSET S |-> Cardinality(s)], [i \in S |-> 1], S)
<1> DEFINE h == [s \in SUBSET S |-> Cardinality(s)]
<1>1. \A s \in SUBSET S : IsFiniteSet(s) /\ Cardinality(s) \in Nat
    BY FS_Subset, FS_CardinalityType
<1>2. h[{}] = 0
    BY FS_EmptySet
<1>3. ASSUME NEW s \in SUBSET S, NEW x \in s
      PROVE  Cardinality(s) = 1 + Cardinality(s \ {x})
    <2>1. Cardinality(s \ {x}) = Cardinality(s) - 1
        BY <1>1, FS_RemoveElement
    <2>2. QED  BY <1>1, <2>1
<1>4. QED  BY <1>1, <1>2, <1>3 DEF SumsOf
===============================================================================
