--------------------------- MODULE Day2RunnerProofs ---------------------------
(***************************************************************************)
(* Proofs about GoldH3's choice of a resolution and about Day2Runner, for  *)
(* any frames, candidate resolutions, threshold and number of runs.        *)
(***************************************************************************)
EXTENDS Day2Runner, LibraryFacts

\* Finitely many features are in finitely many hexagons.
LEMMA HexesFinite ==
    ASSUME NEW frame, IsFiniteSet(DOMAIN frame), NEW resolution
    PROVE  IsFiniteSet(Hexes(frame, resolution))
<1> DEFINE f == [i \in Located(frame) |-> geo_to_h3(frame[i].place, resolution)]
<1>1. IsFiniteSet(Located(frame))
    BY FS_Subset DEF Located
<1>2. f \in Surjection(Located(frame), Hexes(frame, resolution))
    BY DEF Surjection, Hexes
<1> HIDE DEF f
<1>3. QED  BY <1>1, <1>2, FS_Surjection

\* The occupancy gate compares the hexagons some centroid falls in with
\* themselves: it passes whatever the threshold, unless there is none.
LEMMA PassesUnlessEmpty ==
    ASSUME NEW frame, IsFiniteSet(DOMAIN frame), NEW resolution
    PROVE  Passes(frame, resolution) <=> Located(frame) # {}
<1> DEFINE hexes == Hexes(frame, resolution)
           n == Cardinality(hexes)
<1>1. IsFiniteSet(hexes)
    BY HexesFinite
<1>2. n \in Nat /\ (n = 0 <=> hexes = {})
    BY <1>1, FS_CardinalityType, FS_EmptySet
<1>3. hexes = {} <=> Located(frame) = {}
    BY DEF Hexes
<1>4. DOMAIN feature_counts(frame, resolution) = hexes
    BY DEF feature_counts
<1>5. Passes(frame, resolution) <=> n > 0 /\ 100 * n >= MIN_OCCUPANCY_PERCENT * n
    BY <1>4 DEF Passes
<1> HIDE DEF n
<1>6. 100 * n >= MIN_OCCUPANCY_PERCENT * n
    BY <1>2, GoldH3Assumption
<1>7. QED  BY <1>2, <1>3, <1>5, <1>6

\* So the finest candidate is chosen for every frame that has a place in it.
LEMMA FinestChosen ==
    ASSUME NEW frame, IsFiniteSet(DOMAIN frame)
    PROVE  select_resolution(frame) = IF Located(frame) = {} THEN 0 ELSE CANDIDATE_RESOLUTIONS[1]
<1> DEFINE passing == {i \in DOMAIN CANDIDATE_RESOLUTIONS : Passes(frame, CANDIDATE_RESOLUTIONS[i])}
<1>1. CASE Located(frame) = {}
    BY <1>1, PassesUnlessEmpty DEF select_resolution
<1>2. CASE Located(frame) # {}
    <2>1. passing = DOMAIN CANDIDATE_RESOLUTIONS
        BY <1>2, PassesUnlessEmpty
    <2>2. 1 \in passing /\ \A i \in passing : i \in Nat /\ 1 <= i
        BY <2>1, GoldH3Assumption
    <2> HIDE DEF passing
    <2>3. Min(passing) = 1
        BY <2>2 DEF Min
    <2>4. QED  BY <1>2, <2>2, <2>3 DEF select_resolution, passing
<1>3. QED  BY <1>1, <1>2

-------------------------------------------------------------------------------
\* The model's sums, which the library folds over a set, are the sums LibraryFacts
\* speaks of.  The sum of the values of some features,
LEMMA ValuesAreSummed ==
    ASSUME NEW frame, NEW S, IsFiniteSet(S),
           NEW h, SumsOf(h, [i \in S |-> frame[i].value], S)
    PROVE  ValueSum(frame, S) = h[S]
<1> DEFINE g == [i \in S |-> frame[i].value]
           first(s) == CHOOSE x \in s : TRUE
           R(it) == it = [s \in SUBSET S |->
                              IF s = {} THEN 0 ELSE frame[first(s)].value + it[s \ {first(s)}]]
<1>1. ValueSum(frame, S) = (CHOOSE it : R(it))[S]
    BY DEF ValueSum, MapThenSumSet, MapThenFoldSet
<1>2. ASSUME NEW it PROVE R(it) <=> SumRecursion(it, g, S)
    <2>1. \A s \in SUBSET S : s # {} => g[first(s)] = frame[first(s)].value
        OBVIOUS
    <2> HIDE DEF g
    <2>2. [s \in SUBSET S |-> IF s = {} THEN 0 ELSE g[first(s)] + it[s \ {first(s)}]]
            = [s \in SUBSET S |->
                  IF s = {} THEN 0 ELSE frame[first(s)].value + it[s \ {first(s)}]]
        BY <2>1
    <2>3. QED  BY <2>2 DEF SumRecursion
<1> HIDE DEF g, R
<1>3. R(h)
    BY <1>2, SumsSolve DEF g
<1>4. SumRecursion(CHOOSE it : R(it), g, S)
    BY <1>2, <1>3
<1>5. QED  BY <1>1, <1>4, SumsUnique DEF g

\* that of the feature counts of all hexagons,
LEMMA CountsAreSummed ==
    ASSUME NEW hexes, IsFiniteSet(DOMAIN hexes),
           NEW h, SumsOf(h, [c \in DOMAIN hexes |-> hexes[c].feature_count], DOMAIN hexes)
    PROVE  FeatureTotal(hexes) = h[DOMAIN hexes]
<1> DEFINE g == [c \in DOMAIN hexes |-> hexes[c].feature_count]
           first(s) == CHOOSE x \in s : TRUE
           R(it) == it = [s \in SUBSET (DOMAIN hexes) |->
                              IF s = {} THEN 0 ELSE hexes[first(s)].feature_count + it[s \ {first(s)}]]
<1>1. FeatureTotal(hexes) = (CHOOSE it : R(it))[DOMAIN hexes]
    BY DEF FeatureTotal, MapThenSumSet, MapThenFoldSet
<1>2. ASSUME NEW it PROVE R(it) <=> SumRecursion(it, g, DOMAIN hexes)
    <2>1. \A s \in SUBSET (DOMAIN hexes) : s # {} => g[first(s)] = hexes[first(s)].feature_count
        OBVIOUS
    <2> HIDE DEF g
    <2>2. [s \in SUBSET (DOMAIN hexes) |-> IF s = {} THEN 0 ELSE g[first(s)] + it[s \ {first(s)}]]
            = [s \in SUBSET (DOMAIN hexes) |->
                  IF s = {} THEN 0 ELSE hexes[first(s)].feature_count + it[s \ {first(s)}]]
        BY <2>1
    <2>3. QED  BY <2>2 DEF SumRecursion
<1> HIDE DEF g, R
<1>3. R(h)
    BY <1>2, SumsSolve DEF g
<1>4. SumRecursion(CHOOSE it : R(it), g, DOMAIN hexes)
    BY <1>2, <1>3
<1>5. QED  BY <1>1, <1>4, SumsUnique DEF g

\* and that of their sums.
LEMMA SumsAreSummed ==
    ASSUME NEW hexes, IsFiniteSet(DOMAIN hexes),
           NEW h, SumsOf(h, [c \in DOMAIN hexes |-> hexes[c].sum], DOMAIN hexes)
    PROVE  SumTotal(hexes) = h[DOMAIN hexes]
<1> DEFINE g == [c \in DOMAIN hexes |-> hexes[c].sum]
           first(s) == CHOOSE x \in s : TRUE
           R(it) == it = [s \in SUBSET (DOMAIN hexes) |->
                              IF s = {} THEN 0 ELSE hexes[first(s)].sum + it[s \ {first(s)}]]
<1>1. SumTotal(hexes) = (CHOOSE it : R(it))[DOMAIN hexes]
    BY DEF SumTotal, MapThenSumSet, MapThenFoldSet
<1>2. ASSUME NEW it PROVE R(it) <=> SumRecursion(it, g, DOMAIN hexes)
    <2>1. \A s \in SUBSET (DOMAIN hexes) : s # {} => g[first(s)] = hexes[first(s)].sum
        OBVIOUS
    <2> HIDE DEF g
    <2>2. [s \in SUBSET (DOMAIN hexes) |-> IF s = {} THEN 0 ELSE g[first(s)] + it[s \ {first(s)}]]
            = [s \in SUBSET (DOMAIN hexes) |->
                  IF s = {} THEN 0 ELSE hexes[first(s)].sum + it[s \ {first(s)}]]
        BY <2>1
    <2>3. QED  BY <2>2 DEF SumRecursion
<1> HIDE DEF g, R
<1>3. R(h)
    BY <1>2, SumsSolve DEF g
<1>4. SumRecursion(CHOOSE it : R(it), g, DOMAIN hexes)
    BY <1>2, <1>3
<1>5. QED  BY <1>1, <1>4, SumsUnique DEF g

-------------------------------------------------------------------------------
\* The features with a value, and those of them in one hexagon.
Valued(frame) == {i \in DOMAIN frame : frame[i].value # NaN}
Cell(frame, resolution, hex) == {i \in Valued(frame) : geo_to_h3(frame[i].place, resolution) = hex}

\* A frame that raises nothing has numbers for values and a place for every feature.
LEMMA GoodFrame ==
    ASSUME NEW frame \in Frames, Raised(frame) = "nothing", NEW resolution
    PROVE  /\ IsFiniteSet(Valued(frame)) /\ \A i \in Valued(frame) : frame[i].value \in Int
           /\ IsFiniteSet(Hexes(frame, resolution))
           /\ \A i \in Valued(frame) : geo_to_h3(frame[i].place, resolution) \in Hexes(frame, resolution)
           /\ \A hex : {i \in FeaturesIn(frame, resolution, hex) : frame[i].value # NaN}
                          = Cell(frame, resolution, hex)
<1>1. Located(frame) = DOMAIN frame /\ \A i \in DOMAIN frame : frame[i].value # Text
    BY DEF Raised
<1>2. IsFiniteSet(Valued(frame)) /\ \A i \in Valued(frame) : frame[i].value \in Int
    BY <1>1, FramesAssumption, FS_Subset DEF Valued
<1>3. IsFiniteSet(Hexes(frame, resolution))
    BY HexesFinite, FramesAssumption
<1>4. \A i \in Valued(frame) : geo_to_h3(frame[i].place, resolution) \in Hexes(frame, resolution)
    BY <1>1 DEF Valued, Hexes
<1>5. ASSUME NEW hex
      PROVE  {i \in FeaturesIn(frame, resolution, hex) : frame[i].value # NaN}
                = Cell(frame, resolution, hex)
    BY <1>1 DEF FeaturesIn, Cell, Valued
<1>6. QED  BY <1>2, <1>3, <1>4, <1>5

\* What every aggregate of a frame has in its rows.
LEMMA AggregatedRows ==
    ASSUME NEW frame \in Frames, Raised(frame) = "nothing", NEW resolution,
           NEW hexes \in Aggregated(frame, resolution)
    PROVE  /\ DOMAIN hexes = Hexes(frame, resolution)
           /\ \A c \in DOMAIN hexes :
                /\ hexes[c].feature_count = Cardinality(Cell(frame, resolution, c))
                /\ hexes[c].sum = ValueSum(frame, Cell(frame, resolution, c))
<1> DEFINE K == Hexes(frame, resolution)
           rows == [hex \in K |-> Row(frame, FeaturesIn(frame, resolution, hex))]
<1>1. PICK yb : hexes = WithClasses(rows, yb)
    BY DEF Aggregated
<1>2. ASSUME NEW c \in K
      PROVE  /\ rows[c].feature_count = Cardinality(Cell(frame, resolution, c))
             /\ rows[c].sum = ValueSum(frame, Cell(frame, resolution, c))
    BY GoodFrame DEF Row
<1>3. DOMAIN rows = K
    OBVIOUS
<1> HIDE DEF rows
<1>4. DOMAIN hexes = K /\ \A c \in K : hexes[c].feature_count = rows[c].feature_count /\ hexes[c].sum = rows[c].sum
    BY <1>1, <1>3 DEF WithClasses
<1>5. QED  BY <1>2, <1>4

\* An aggregate's rows are integers.
LEMMA RowsAreInt ==
    ASSUME NEW frame \in Frames, Raised(frame) = "nothing", NEW resolution,
           NEW hexes \in Aggregated(frame, resolution)
    PROVE  \A c \in DOMAIN hexes : hexes[c].feature_count \in Nat /\ hexes[c].sum \in Int
<1> TAKE c \in DOMAIN hexes
<1> DEFINE S == Cell(frame, resolution, c)
<1>1. IsFiniteSet(S) /\ \A i \in S : frame[i].value \in Int
    BY GoodFrame, FS_Subset DEF Cell
<1>2. hexes[c].feature_count = Cardinality(S) /\ hexes[c].sum = ValueSum(frame, S)
    BY AggregatedRows
<1> HIDE DEF S
<1>3. PICK h : SumsOf(h, [i \in S |-> frame[i].value], S)
    BY <1>1, SumsExist
<1>4. ValueSum(frame, S) = h[S]
    BY <1>1, <1>3, ValuesAreSummed
<1>5. h[S] \in Int
    BY <1>3 DEF SumsOf
<1>6. QED  BY <1>1, <1>2, <1>4, <1>5, FS_CardinalityType

\* The sum of a hexagon is one of the sums over parts of the features.
LEMMA CellSum ==
    ASSUME NEW frame \in Frames, Raised(frame) = "nothing", NEW resolution,
           NEW hexes \in Aggregated(frame, resolution), NEW c \in DOMAIN hexes,
           NEW total, SumsOf(total, [i \in Valued(frame) |-> frame[i].value], Valued(frame))
    PROVE  hexes[c].sum = total[Cell(frame, resolution, c)]
<1> DEFINE V == Valued(frame)
           S == Cell(frame, resolution, c)
           values == [i \in V |-> frame[i].value]
           h == [T \in SUBSET S |-> total[T]]
<1>1. S \in SUBSET V /\ IsFiniteSet(S)
    BY GoodFrame, FS_Subset DEF Cell
<1>2. hexes[c].sum = ValueSum(frame, S)
    BY AggregatedRows
<1>3. SumsOf(h, [i \in S |-> values[i]], S)
    <2> HIDE DEF S, V, values
    <2>1. QED  BY <1>1, SumsWithin DEF V, values
<1>4. [i \in S |-> values[i]] = [i \in S |-> frame[i].value]
    BY <1>1
<1>5. h[S] = total[S]
    OBVIOUS
<1> HIDE DEF V, S, values, h
<1>6. SumsOf(h, [i \in S |-> frame[i].value], S)
    BY <1>3, <1>4
<1>7. ValueSum(frame, S) = h[S]
    BY <1>1, <1>6, ValuesAreSummed
<1>8. QED  BY <1>2, <1>5, <1>7 DEF S

\* Every feature with a value is in the count and in the sum of one hexagon.
LEMMA AggregatedConserves ==
    ASSUME NEW frame \in Frames, Raised(frame) = "nothing", NEW resolution,
           NEW hexes \in Aggregated(frame, resolution)
    PROVE  /\ FeatureTotal(hexes) = Cardinality(Valued(frame))
           /\ SumTotal(hexes) = ValueSum(frame, Valued(frame))
<1> DEFINE V == Valued(frame)
           K == DOMAIN hexes
           key == [i \in V |-> geo_to_h3(frame[i].place, resolution)]
           part == [c \in K |-> Cell(frame, resolution, c)]
           values == [i \in V |-> frame[i].value]
           ones == [i \in V |-> 1]
           number == [T \in SUBSET V |-> Cardinality(T)]
           counts == [c \in K |-> hexes[c].feature_count]
           sums == [c \in K |-> hexes[c].sum]
<1>1. IsFiniteSet(V) /\ IsFiniteSet(K) /\ key \in [V -> K] /\ values \in [V -> Int] /\ ones \in [V -> Int]
    <2>1. K = Hexes(frame, resolution)
        BY AggregatedRows
    <2>2. IsFiniteSet(V) /\ IsFiniteSet(K) /\ values \in [V -> Int] /\ ones \in [V -> Int]
        BY <2>1, GoodFrame
    <2>3. \A i \in V : geo_to_h3(frame[i].place, resolution) \in K
        BY <2>1, GoodFrame
    <2> HIDE DEF V, K
    <2>4. QED  BY <2>2, <2>3
<1>2. counts \in [K -> Int] /\ sums \in [K -> Int]
    BY RowsAreInt
<1>3. /\ part \in [K -> SUBSET V]
      /\ \A c \in K : part[c] = Cell(frame, resolution, c)
      /\ \A c \in K : \A i \in V : i \in part[c] <=> key[i] = c
    BY DEF Cell
<1>4. SumsOf(number, ones, V)
    BY <1>1, CountIsSum
<1>5. PICK total : SumsOf(total, values, V)
    BY <1>1, SumsExist
<1>6. PICK H : SumsOf(H, counts, K)
    BY <1>1, <1>2, SumsExist
<1>7. PICK G : SumsOf(G, sums, K)
    BY <1>1, <1>2, SumsExist
<1>8. ASSUME NEW c \in K PROVE counts[c] = number[part[c]]
    <2>1. hexes[c].feature_count = Cardinality(Cell(frame, resolution, c))
        BY AggregatedRows
    <2>2. part[c] = Cell(frame, resolution, c) /\ part[c] \in SUBSET V
        BY <1>3
    <2> HIDE DEF part, V, K
    <2>3. QED  BY <2>1, <2>2
<1>9. ASSUME NEW c \in K PROVE sums[c] = total[part[c]]
    <2>1. hexes[c].sum = total[Cell(frame, resolution, c)]
        BY <1>5, CellSum
    <2>2. part[c] = Cell(frame, resolution, c)
        BY <1>3
    <2> HIDE DEF part, K
    <2>3. QED  BY <2>1, <2>2
<1>10. FeatureTotal(hexes) = H[K]
    BY <1>1, <1>6, CountsAreSummed
<1>11. SumTotal(hexes) = G[K]
    BY <1>1, <1>7, SumsAreSummed
<1>12. ValueSum(frame, V) = total[V]
    BY <1>1, <1>5, ValuesAreSummed
<1>13. number[V] = Cardinality(V)
    OBVIOUS
<1>14. H[K] = number[V] /\ G[K] = total[V]
    <2> HIDE DEF V, K, key, part, values, ones, number, counts, sums
    <2>1. H[K] = number[V]
        BY <1>1, <1>2, <1>3, <1>4, <1>6, <1>8, SumByGroups
    <2>2. G[K] = total[V]
        BY <1>1, <1>2, <1>3, <1>5, <1>7, <1>9, SumByGroups
    <2>3. QED  BY <2>1, <2>2
<1>15. QED  BY <1>10, <1>11, <1>12, <1>13, <1>14

\* The classes follow the means.
LEMMA AggregatedClasses ==
    ASSUME NEW frame \in Frames, Raised(frame) = "nothing", NEW resolution,
           NEW hexes \in Aggregated(frame, resolution),
           NEW c \in DOMAIN hexes, NEW d \in DOMAIN hexes,
           hexes[c].feature_count > 0, hexes[d].feature_count > 0, Lower(hexes[c], hexes[d])
    PROVE  hexes[c].jenks_class <= hexes[d].jenks_class
<1> DEFINE K == Hexes(frame, resolution)
           rows == [hex \in K |-> Row(frame, FeaturesIn(frame, resolution, hex))]
           valid == {hex \in DOMAIN rows : rows[hex].feature_count > 0}
           valid_rows == [hex \in valid |-> rows[hex]]
<1>1. PICK k : \E yb \in NaturalBreaks(valid_rows, k) : hexes = WithClasses(rows, yb)
    BY DEF Aggregated
<1>2. PICK yb \in NaturalBreaks(valid_rows, k) : hexes = WithClasses(rows, yb)
    BY <1>1
<1>3. DOMAIN rows = K
    OBVIOUS
<1> HIDE DEF rows
<1>4. /\ c \in K /\ d \in K
      /\ \A e \in K : /\ hexes[e].feature_count = rows[e].feature_count /\ hexes[e].sum = rows[e].sum
                      /\ e \in DOMAIN yb => hexes[e].jenks_class = yb[e]
    BY <1>2, <1>3 DEF WithClasses
<1>5. DOMAIN valid_rows = valid /\ c \in valid /\ d \in valid /\ valid_rows[c] = rows[c] /\ valid_rows[d] = rows[d]
    BY <1>3, <1>4
<1> HIDE DEF valid_rows, valid
<1>6. DOMAIN yb = valid /\ (~Lower(rows[d], rows[c]) => yb[c] <= yb[d])
    BY <1>2, <1>5 DEF NaturalBreaks
<1>7. ~Lower(rows[d], rows[c])
    <2>1. ~Lower(hexes[d], hexes[c])
        <3>1. \A a, b \in Int : a * b \in Int
            OBVIOUS
        <3>2. /\ hexes[c].sum * hexes[d].feature_count \in Int
              /\ hexes[d].sum * hexes[c].feature_count \in Int
            BY <3>1, RowsAreInt
        <3>3. \A a, b \in Int : a < b => ~(b < a)
            OBVIOUS
        <3>4. QED  BY <3>2, <3>3 DEF Lower
    <2>2. QED  BY <1>4, <2>1 DEF Lower
<1>8. QED  BY <1>4, <1>5, <1>6, <1>7

\* The smaller and the larger of two integers are integers.
LEMMA OfTwo ==
    ASSUME NEW a \in Int, NEW b \in Int
    PROVE  Min({a, b}) \in {a, b} /\ Max({a, b}) \in {a, b}
<1>1. (\E x \in {a, b} : \A y \in {a, b} : x <= y) /\ (\E x \in {a, b} : \A y \in {a, b} : x >= y)
    OBVIOUS
<1>2. QED  BY <1>1 DEF Min, Max

\* Class 0 goes to a hexagon that has data, if any has: the classes are numbered
\* from 0.
LEMMA AggregatedClassZero ==
    ASSUME NEW frame \in Frames, Raised(frame) = "nothing", Valued(frame) # {}, NEW resolution,
           NEW hexes \in Aggregated(frame, resolution)
    PROVE  \E c \in DOMAIN hexes : hexes[c].feature_count > 0 /\ hexes[c].jenks_class = 0
<1> DEFINE K == Hexes(frame, resolution)
           rows == [hex \in K |-> Row(frame, FeaturesIn(frame, resolution, hex))]
           valid == {hex \in DOMAIN rows : rows[hex].feature_count > 0}
           valid_rows == [hex \in valid |-> rows[hex]]
           k == Min({JENKS_CLASSES, Max({2, Cardinality(valid)})})
           alike(c) == {d \in DOMAIN valid_rows : ~Lower(valid_rows[c], valid_rows[d])
                                                  /\ ~Lower(valid_rows[d], valid_rows[c])}
           distinct == Cardinality({alike(c) : c \in DOMAIN valid_rows})
           classes == 0 .. Min({k, distinct}) - 1
<1>1. PICK yb \in NaturalBreaks(valid_rows, k) : hexes = WithClasses(rows, yb)
    BY DEF Aggregated
<1>2. DOMAIN rows = K /\ valid \subseteq K /\ DOMAIN valid_rows = valid
    OBVIOUS
<1>3. /\ yb \in [valid -> classes]
      /\ \A class \in classes : \E c \in valid : yb[c] = class
    BY <1>1 DEF NaturalBreaks
<1>4. DOMAIN hexes = K
    BY <1>1, <1>2 DEF WithClasses
<1>5. \A hex \in K : /\ hexes[hex].feature_count = rows[hex].feature_count
                     /\ hex \in valid => hexes[hex].jenks_class = yb[hex]
    <2> HIDE DEF rows, classes, valid
    <2>1. QED  BY <1>1, <1>2, <1>3 DEF WithClasses
<1> HIDE DEF rows
<1>6. valid # {}
    <2>1. PICK i \in Valued(frame) : TRUE
        OBVIOUS
    <2> DEFINE c == geo_to_h3(frame[i].place, resolution)
    <2>2. c \in K /\ i \in Cell(frame, resolution, c) /\ IsFiniteSet(Valued(frame))
        BY GoodFrame DEF Cell
    <2>3. Cell(frame, resolution, c) \subseteq Valued(frame)
        BY DEF Cell
    <2> HIDE DEF c, K
    <2>4. Cardinality(Cell(frame, resolution, c)) > 0
        BY <2>2, <2>3, FS_Subset, FS_CardinalityType, FS_EmptySet
    <2>5. hexes[c].feature_count > 0
        <3>1. c \in DOMAIN hexes
            BY <1>4, <2>2
        <3>2. hexes[c].feature_count = Cardinality(Cell(frame, resolution, c))
            BY <3>1, AggregatedRows
        <3>3. QED  BY <2>4, <3>2
    <2>6. c \in valid
        <3>1. rows[c].feature_count > 0 /\ c \in DOMAIN rows
            <4>1. QED  BY <1>2, <1>5, <2>2, <2>5
        <3>2. QED  BY <3>1
    <2>7. QED  BY <2>6
<1>7. Min({k, distinct}) \in Int
    <2>1. IsFiniteSet(valid)
        BY <1>2, GoodFrame, FS_Subset
    <2>2. IsFiniteSet({alike(c) : c \in valid})
        <3> DEFINE f == [c \in valid |-> alike(c)]
        <3>1. f \in Surjection(valid, {alike(c) : c \in valid})
            BY DEF Surjection
        <3> HIDE DEF f, alike, valid
        <3>2. QED  BY <2>1, <3>1, FS_Surjection
    <2>3. distinct \in Nat /\ Cardinality(valid) \in Nat
        <3> HIDE DEF alike, valid
        <3>1. QED  BY <1>2, <2>1, <2>2, FS_CardinalityType
    <2> DEFINE n == Cardinality(valid)
               m == Max({2, n})
    <2> HIDE DEF distinct, n
    <2>4. m \in Int
        <3>1. n \in Int /\ 2 \in Int
            BY <2>3 DEF n
        <3>2. m \in {2, n}
            BY <3>1, OfTwo
        <3> HIDE DEF m
        <3>3. QED  BY <3>1, <3>2
    <2> HIDE DEF m
    <2>5. JENKS_CLASSES \in Int /\ Min({JENKS_CLASSES, m}) \in {JENKS_CLASSES, m}
        BY <2>4, GoldH3Assumption, OfTwo
    <2>6. k \in Int
        BY <2>4, <2>5 DEF m, n
    <2> HIDE DEF k
    <2>7. QED  BY <2>3, <2>6, OfTwo
<1>8. 0 \in classes
    <2>1. PICK class \in classes : TRUE
        <3> HIDE DEF classes, valid
        <3>1. QED  BY <1>3, <1>6
    <2> HIDE DEF k, distinct
    <2>2. QED  BY <1>7, <2>1
<1>9. PICK c \in valid : yb[c] = 0
    <2> HIDE DEF classes, valid
    <2>1. QED  BY <1>3, <1>8
<1>10. c \in K /\ rows[c].feature_count > 0
    BY <1>2
<1>11. QED
    <2>1. hexes[c].feature_count > 0 /\ hexes[c].jenks_class = 0
        <3>1. c \in K /\ c \in valid /\ yb[c] = 0
            BY <1>9, <1>10
        <3>2. hexes[c].feature_count = rows[c].feature_count /\ hexes[c].jenks_class = yb[c]
            <4> HIDE DEF valid, K
            <4>1. QED  BY <1>5, <3>1
        <3> HIDE DEF valid, K
        <3>3. QED  BY <1>10, <3>1, <3>2
    <2> HIDE DEF valid, K
    <2>2. QED  BY <1>4, <1>10, <2>1

\* The hexagon of a feature without a value counts fewer features than it has.
LEMMA AggregatedMiscounts ==
    ASSUME NEW frame \in Frames, Raised(frame) = "nothing", Valued(frame) # DOMAIN frame,
           NEW resolution, NEW hexes \in Aggregated(frame, resolution)
    PROVE  ~CountIsMapped(frame, resolution, hexes)
<1>1. PICK i \in DOMAIN frame : i \notin Valued(frame)
    BY DEF Valued
<1> DEFINE c == geo_to_h3(frame[i].place, resolution)
           of == FeaturesIn(frame, resolution, c)
           counted == Cell(frame, resolution, c)
<1>2. Located(frame) = DOMAIN frame
    BY DEF Raised
<1>3. c \in DOMAIN hexes
    <2>1. c \in Hexes(frame, resolution)
        BY <1>2 DEF Hexes
    <2>2. QED  BY <2>1, AggregatedRows
<1>4. i \in of /\ i \notin counted /\ counted \subseteq of /\ IsFiniteSet(of)
    <2>1. of \subseteq DOMAIN frame /\ IsFiniteSet(DOMAIN frame)
        BY FramesAssumption DEF FeaturesIn, Located
    <2>2. i \in of /\ counted \subseteq of
        BY <1>2 DEF FeaturesIn, Cell, Valued
    <2>3. i \notin counted
        BY <1>1 DEF Cell
    <2>4. QED  BY <2>1, <2>2, <2>3, FS_Subset
<1> HIDE DEF c, of, counted
<1>5. Cardinality(counted) < Cardinality(of)
    <2>1. counted # of
        BY <1>4
    <2>2. Cardinality(counted) \in Nat /\ Cardinality(of) \in Nat /\ IsFiniteSet(counted)
        BY <1>4, FS_Subset, FS_CardinalityType
    <2>3. Cardinality(counted) <= Cardinality(of)
        BY <1>4, FS_Subset
    <2>4. Cardinality(counted) = Cardinality(of) => counted = of
        BY <1>4, FS_Subset
    <2>5. QED  BY <2>1, <2>2, <2>3, <2>4
<1>6. hexes[c].feature_count = Cardinality(counted)
    BY <1>3, AggregatedRows DEF counted
<1>7. QED
    <2>1. Cardinality(counted) \in Nat /\ Cardinality(of) \in Nat
        BY <1>4, FS_Subset, FS_CardinalityType
    <2>2. hexes[c].feature_count # Cardinality(of)
        BY <1>5, <1>6, <2>1
    <2>3. QED  BY <1>3, <2>2 DEF CountIsMapped, of

-------------------------------------------------------------------------------
\* What Task A keeps of a frame is what was chosen for it.
LEMMA TaskAStep ==
    ASSUME IInv, Next
    PROVE  /\ FinestUnlessEmpty' /\ ResultOfTaskA'
           /\ h3' = None \/ h3'.frame \in Frames
<1>1. CASE TaskA
    <2>1. PICK frame \in Frames : \E hexes :
              h3' = [frame |-> frame, hexes |-> hexes, resolution |->
                        IF run_gold_h3(frame).raised = "H3ResolutionError" THEN 0
                        ELSE run_gold_h3(frame).resolution]
        BY <1>1 DEF TaskA, run_gold_h3
    <2>2. h3'.frame = frame /\ h3'.resolution = select_resolution(frame)
        BY <2>1 DEF run_gold_h3, Raised
    <2>3. h3'.resolution = IF Located(frame) = {} THEN 0 ELSE CANDIDATE_RESOLUTIONS[1]
        BY <2>2, FinestChosen, FramesAssumption
    <2>4. FinestUnlessEmpty'
        BY <2>2, <2>3 DEF FinestUnlessEmpty, Located
    <2>5. \/ h3'.resolution = 0 /\ h3'.hexes = <<>>
          \/ Raised(h3'.frame) = "nothing" /\ h3'.hexes \in Aggregated(h3'.frame, h3'.resolution)
        <3>1. PICK f \in Frames :
                \/ h3' = [frame |-> f, resolution |-> 0, hexes |-> <<>>]
                \/ \E hexes \in run_gold_h3(f).frames :
                      h3' = [frame |-> f, resolution |-> run_gold_h3(f).resolution, hexes |-> hexes]
            BY <1>1 DEF TaskA
        <3>2. CASE h3' = [frame |-> f, resolution |-> 0, hexes |-> <<>>]
            BY <3>2
        <3>3. ASSUME NEW hexes \in run_gold_h3(f).frames,
                     h3' = [frame |-> f, resolution |-> run_gold_h3(f).resolution, hexes |-> hexes]
              PROVE  Raised(h3'.frame) = "nothing" /\ h3'.hexes \in Aggregated(h3'.frame, h3'.resolution)
            <4>1. run_gold_h3(f).resolution = select_resolution(f)
                BY DEF run_gold_h3
            <4>2. Raised(f) = "nothing" /\ hexes \in Aggregated(f, select_resolution(f))
                BY DEF run_gold_h3
            <4>3. QED  BY <3>3, <4>1, <4>2
        <3>4. QED  BY <3>1, <3>2, <3>3
    <2>6. ResultOfTaskA'
        BY <2>5 DEF ResultOfTaskA
    <2>7. QED  BY <2>2, <2>4, <2>6
<1>2. CASE h3' \in {None, h3}
    BY <1>2 DEF IInv, TypeOK, FinestUnlessEmpty, ResultOfTaskA
<1>3. QED
    BY <1>1, <1>2 DEF Next, Start, Die, Load, SaveH3, Export, ExportDone, BinaryIntegrityError, GenerateRaises,
        Generate, TippecanoeFails, TippecanoeDone, SizeError, SizeOk, VerifyError, VerifyOk, Clean, TaskC, SaveReport

USE MaxRunsAssumption

\* The tiles of a tippecanoe that has finished, or not.
LEMMA TilesType ==
    ASSUME TypeOK, run \in 1 .. MaxRuns
    PROVE  /\ Unfinished \in Tiles
           /\ \A a, b, c \in BOOLEAN :
                [Unfinished EXCEPT !.finished = TRUE, !.sound = a, !.small = b, !.whole = c] \in Tiles
    BY DEF Unfinished, Tiles

\* A gate table stays one when gates are closed.
LEMMA GateTableType ==
    ASSUME NEW table \in GateTable, NEW a \in BOOLEAN, NEW b \in BOOLEAN, NEW c \in BOOLEAN
    PROVE  /\ \A g \in Gates : [table EXCEPT ![g] = a] \in GateTable
           /\ [table EXCEPT !["file"] = a, !["verify"] = b] \in GateTable
           /\ [table EXCEPT !["file"] = a, !["verify"] = b, !["size"] = c] \in GateTable
    BY DEF GateTable, Gates

\* The gates of Task B by name.
LEMMA Gate ==
    ASSUME TypeOK, NEW a \in BOOLEAN, NEW b \in BOOLEAN, NEW c \in BOOLEAN
    PROVE  /\ gates' = [gates EXCEPT !["file"] = a, !["verify"] = b] =>
                /\ gates'["file"] = a /\ gates'["verify"] = b
                /\ \A g \in {"h3_jenks", "size", "visible"} : gates'[g] = gates[g]
           /\ gates' = [gates EXCEPT !["file"] = a, !["verify"] = b, !["size"] = c] =>
                /\ gates'["file"] = a /\ gates'["verify"] = b /\ gates'["size"] = c
                /\ \A g \in {"h3_jenks", "visible"} : gates'[g] = gates[g]
           /\ \A g \in Gates : gates' = Set(g, a) =>
                gates'[g] = a /\ \A h \in Gates \ {g} : gates'[h] = gates[h]
    BY DEF TypeOK, GateTable, Gates, Set

\* Types.
LEMMA TypeStep ==
    ASSUME IInv, Next
    PROVE  TypeOK'
<1>0. TypeOK /\ run \in 0 .. MaxRuns /\ (pc # "idle" => run \in 1 .. MaxRuns) /\ args \in Args /\ gates \in GateTable
    BY DEF IInv, TypeOK, ReportIsEarlier
<1>1. h3' = None \/ h3'.frame \in Frames
    BY TaskAStep
<1>2. CASE Start
    BY <1>0, <1>1, <1>2 DEF Start, TypeOK, disk, AllNone, GateTable
<1>3. CASE Die \/ Load \/ SaveH3 \/ BinaryIntegrityError \/ SizeOk \/ VerifyOk
    BY <1>0, <1>1, <1>3 DEF Die, Load, SaveH3, BinaryIntegrityError, SizeOk, VerifyOk, TypeOK, disk,
        Halt, GoTo, TaskB
<1>4. CASE Export \/ ExportDone
    BY <1>0, <1>1, <1>4 DEF Export, ExportDone, TypeOK, GoTo
<1>5. CASE Generate
    BY <1>0, <1>1, <1>5, TilesType DEF Generate, TypeOK, GoTo
<1>6. CASE TippecanoeDone
    <2>1. PICK a, b \in BOOLEAN :
              pmtiles' = [Unfinished EXCEPT !.finished = TRUE, !.sound = a, !.small = b,
                              !.whole = args.geojson = "other" \/ geojson = "whole"]
        BY <1>6 DEF TippecanoeDone
    <2>2. pmtiles' \in Tiles
        BY <1>0, <1>6, <2>1, TilesType DEF TippecanoeDone
    <2>3. QED  BY <1>0, <1>1, <1>6, <2>2 DEF TippecanoeDone, TypeOK, GoTo
<1>7. CASE TaskA \/ GenerateRaises \/ TippecanoeFails \/ SizeError \/ VerifyError \/ Clean \/ TaskC
    <2>1. gates' \in GateTable
        BY <1>0, <1>7, GateTableType DEF TaskA, GenerateRaises, TippecanoeFails, SizeError, VerifyError, Clean,
            TaskC, TileGenerationError, Set, Gates
    <2>2. QED
        BY <1>0, <1>1, <1>7, <2>1 DEF TaskA, GenerateRaises, TippecanoeFails, SizeError, VerifyError, Clean,
            TaskC, TileGenerationError, Halt, GoTo, TypeOK, disk
<1>8. CASE SaveReport
    <2>1. report' \in Report
        BY <1>0, <1>8 DEF SaveReport, Report
    <2>2. QED  BY <1>0, <1>1, <1>8, <2>1 DEF SaveReport, TypeOK
<1>9. QED
    BY <1>2, <1>3, <1>4, <1>5, <1>6, <1>7, <1>8 DEF Next

\* Tiles: of this run once tippecanoe has started, and as good as the steps since say.
LEMMA TilesByStepStep ==
    ASSUME IInv, Next
    PROVE  TilesByStep'
<1>0. /\ TypeOK /\ TilesByStep /\ InputByStep /\ GatesByStep /\ run \in Nat
      /\ pc # "idle" => run \in 1 .. MaxRuns
    BY DEF IInv, TypeOK, ReportIsEarlier
<1> USE DEF TilesByStep, TilesDone, BeforeTiles, DuringTiles, GoTo, Halt
<1>1. CASE Start
    <2>1. pmtiles # None => pmtiles.run \in Nat
        BY <1>0 DEF TypeOK, Tiles
    <2>2. QED  BY <1>0, <1>1, <2>1 DEF Start, disk
<1>2. CASE Die \/ BinaryIntegrityError \/ GenerateRaises \/ TippecanoeFails \/ SizeError \/ VerifyError
    BY <1>0, <1>2 DEF Die, BinaryIntegrityError, GenerateRaises, TippecanoeFails, SizeError, VerifyError,
        TileGenerationError, disk
<1>3. CASE Load \/ SaveH3 \/ Export \/ ExportDone
    BY <1>0, <1>3 DEF Load, SaveH3, Export, ExportDone, TaskB, disk, GatesByStep
<1>4. CASE TaskA
    BY <1>0, <1>4 DEF TaskA, disk
<1>5. CASE Generate
    BY <1>0, <1>5 DEF Generate, Unfinished
<1>6. CASE TippecanoeDone
    <2>1. PICK a, b \in BOOLEAN :
              pmtiles' = [Unfinished EXCEPT !.finished = TRUE, !.sound = a, !.small = b,
                              !.whole = args.geojson = "other" \/ geojson = "whole"]
        BY <1>6 DEF TippecanoeDone
    <2>2. args.geojson = "none" => geojson = "whole"
        BY <1>0, <1>6 DEF InputByStep, TippecanoeDone
    <2>3. /\ pmtiles'.run = run /\ pmtiles'.finished = TRUE
          /\ pmtiles'.whole = (args.geojson = "other" \/ geojson = "whole")
        BY <2>1 DEF Unfinished
    <2>4. pmtiles' # None
        BY <1>0, <1>6, <2>1, TilesType, NoneAssumption DEF TippecanoeDone
    <2>5. args.geojson = "none" => pmtiles'.whole
        BY <2>2, <2>3
    <2>6. pc' = "size" /\ run' = run /\ args' = args
        BY <1>6 DEF TippecanoeDone
    <2>7. QED  BY <1>0, <2>3, <2>4, <2>5, <2>6
<1>7. CASE SizeOk \/ VerifyOk
    BY <1>0, <1>7 DEF SizeOk, VerifyOk, disk
<1>8. CASE Clean \/ TaskC \/ SaveReport
    BY <1>0, <1>8 DEF Clean, TaskC, SaveReport, disk
<1>9. QED
    BY <1>1, <1>2, <1>3, <1>4, <1>5, <1>6, <1>7, <1>8 DEF Next

\* Task B's own GeoJSON: written before it is used, removed after.
LEMMA InputByStepStep ==
    ASSUME IInv, Next
    PROVE  InputByStep'
<1>0. InputByStep
    BY DEF IInv
<1> USE DEF InputByStep, TilesDone, GoTo, Halt
<1>1. CASE Start \/ Die \/ BinaryIntegrityError \/ GenerateRaises \/ TippecanoeFails \/ SizeError \/ VerifyError
    BY <1>1 DEF Start, Die, BinaryIntegrityError, GenerateRaises, TippecanoeFails, SizeError, VerifyError,
        TileGenerationError
<1>2. CASE Load \/ SaveH3 \/ Export \/ ExportDone
    BY <1>0, <1>2 DEF Load, SaveH3, Export, ExportDone, TaskB
<1>3. CASE TaskA \/ SizeOk \/ VerifyOk
    BY <1>0, <1>3 DEF TaskA, SizeOk, VerifyOk
<1>4. CASE Generate \/ TippecanoeDone
    BY <1>0, <1>4 DEF Generate, TippecanoeDone
<1>5. CASE Clean \/ TaskC \/ SaveReport
    BY <1>0, <1>5 DEF Clean, TaskC, SaveReport, disk
<1>6. QED
    BY <1>1, <1>2, <1>3, <1>4, <1>5 DEF Next

\* Gates: opened and closed by their own task, at its end.
LEMMA GatesByStepStep ==
    ASSUME IInv, Next
    PROVE  GatesByStep'
<1>0. GatesByStep /\ TypeOK /\ args.task \in {"h3", "pmtiles", "all"}
    BY DEF IInv, TypeOK, Args
<1> USE NoneAssumption DEF GatesByStep, TilesDone, DuringTiles, GoTo, Halt
<1>1. CASE Start
    BY <1>1 DEF Start, AllNone, Gates
<1>2. CASE Die \/ BinaryIntegrityError
    BY <1>0, <1>2 DEF Die, BinaryIntegrityError
<1>3. CASE GenerateRaises \/ TippecanoeFails \/ SizeError \/ VerifyError
    <2>1. gates'["h3_jenks"] = gates["h3_jenks"] /\ args' = args /\ pc' = "idle" /\ args.task # "h3"
        BY <1>0, <1>3, Gate DEF GenerateRaises, TippecanoeFails, SizeError, VerifyError, TileGenerationError
    <2>2. QED  BY <1>0, <2>1 DEF Gates
<1>4. CASE Load \/ SaveH3 \/ Export \/ ExportDone
    BY <1>0, <1>4 DEF Load, SaveH3, Export, ExportDone, TaskB, AllNone, Gates
<1>5. CASE TaskA
    <2>1. PICK ok \in BOOLEAN : /\ gates' = Set("h3_jenks", ok)
                              /\ IF ok THEN pc' = "save_h3" /\ code' = code ELSE pc' = "idle"
        BY <1>5 DEF TaskA
    <2>2. gates'["h3_jenks"] = ok /\ \A g \in Gates \ {"h3_jenks"} : gates'[g] = gates[g]
        BY <1>0, <2>1, Gate DEF Gates
    <2>3. gates = AllNone /\ args' = args /\ args.task # "pmtiles" /\ code = None
        BY <1>0, <1>5 DEF TaskA
    <2>4. QED  BY <2>1, <2>2, <2>3 DEF AllNone, Gates
<1>6. CASE Generate \/ TippecanoeDone \/ SizeOk \/ VerifyOk
    BY <1>0, <1>6 DEF Generate, TippecanoeDone, SizeOk, VerifyOk
<1>7. CASE Clean
    <2>1. /\ \A g \in {"file", "verify", "size"} : gates'[g] = TRUE
          /\ gates'["h3_jenks"] = gates["h3_jenks"]
        BY <1>0, <1>7, Gate DEF Clean
    <2>2. args' = args /\ pc' \in {"task_c", "save_report"} /\ args.task # "h3" /\ code' = code /\ pc = "clean"
        BY <1>0, <1>7 DEF Clean
    <2>3. QED  BY <1>0, <2>1, <2>2
<1>8. CASE TaskC
    <2>1. \A g \in Gates \ {"visible"} : gates'[g] = gates[g]
        BY <1>0, <1>8, Gate DEF TaskC, Gates
    <2>2. args' = args /\ pc' = "save_report" /\ args.task # "h3" /\ code' = code /\ pc = "task_c"
        BY <1>0, <1>8 DEF TaskC
    <2>3. QED  BY <1>0, <2>1, <2>2 DEF Gates
<1>9. CASE SaveReport
    BY <1>0, <1>9 DEF SaveReport
<1>10. QED
    BY <1>1, <1>2, <1>3, <1>4, <1>5, <1>6, <1>7, <1>8, <1>9 DEF Next

\* A report is saved at the end of a run.
LEMMA ReportIsEarlierStep ==
    ASSUME IInv, Next
    PROVE  ReportIsEarlier'
<1>0. ReportIsEarlier /\ run \in Nat /\ (report # None => report.run \in Nat)
    BY DEF IInv, TypeOK, Report
<1>1. CASE Start
    BY <1>0, <1>1 DEF Start, disk, ReportIsEarlier
<1>2. CASE SaveReport
    BY <1>0, <1>2 DEF SaveReport, ReportIsEarlier
<1>3. CASE UNCHANGED <<run, report>> /\ pc # "idle"
    BY <1>0, <1>3 DEF ReportIsEarlier
<1>4. QED
    BY <1>1, <1>2, <1>3 DEF Next, Die, Load, TaskA, SaveH3, Export, ExportDone, BinaryIntegrityError,
        GenerateRaises, Generate, TippecanoeFails, TippecanoeDone, SizeError, SizeOk, VerifyError, VerifyOk,
        Clean, TaskC, TileGenerationError, disk

-------------------------------------------------------------------------------
\* The gate table against the tiles.
LEMMA GatesTruthfulStep ==
    ASSUME IInv, Next
    PROVE  GatesTruthful'
<1>0. /\ GatesTruthful /\ TypeOK /\ TilesByStep /\ GatesByStep
    BY DEF IInv
<1> USE NoneAssumption DEF GatesTruthful
<1>1. CASE Start
    BY <1>1 DEF Start, AllNone, Gates
<1>2. CASE UNCHANGED <<run, args, gates, pmtiles>>
    BY <1>0, <1>2
<1>3. CASE TaskA
    <2>1. \A g \in Gates \ {"h3_jenks"} : gates'[g] = gates[g]
        BY <1>0, <1>3, Gate DEF TaskA, Gates
    <2>2. UNCHANGED <<run, args, pmtiles>>
        BY <1>3 DEF TaskA, disk
    <2>3. QED  BY <1>0, <2>1, <2>2 DEF Gates
<1>4. CASE Generate \/ TippecanoeDone
    <2>1. \A g \in {"file", "verify", "size"} : gates'[g] = None
        BY <1>0, <1>4 DEF Generate, TippecanoeDone, GatesByStep, TilesDone
    <2>2. QED  BY <2>1
<1>5. CASE GenerateRaises
    <2>1. pmtiles # None => pmtiles.run < run /\ run \in Nat
        BY <1>0, <1>5 DEF GenerateRaises, TilesByStep, BeforeTiles, TypeOK
    <2>2. pmtiles # None => pmtiles.run # run
        BY <1>0, <2>1 DEF TypeOK, Tiles
    <2>3. /\ UNCHANGED <<run, args, pmtiles>>
          /\ \A g \in {"file", "verify", "size"} : gates'[g] = FALSE
        BY <1>0, <1>5, Gate DEF GenerateRaises, TileGenerationError, disk
    <2>4. QED  BY <2>2, <2>3
<1>6. CASE TippecanoeFails
    <2>1. ~pmtiles.finished /\ ~pmtiles.sound
        BY <1>0, <1>6 DEF TippecanoeFails, TilesByStep, Unfinished
    <2>2. /\ UNCHANGED <<run, args, pmtiles>>
          /\ \A g \in {"file", "verify", "size"} : gates'[g] = FALSE
        BY <1>0, <1>6, Gate DEF TippecanoeFails, TileGenerationError, disk
    <2>3. QED  BY <2>1, <2>2
<1>7. CASE SizeError
    <2>1. pmtiles # None /\ pmtiles.run = run /\ pmtiles.finished /\ ~pmtiles.small
        BY <1>0, <1>7 DEF SizeError, TilesByStep
    <2>2. /\ UNCHANGED <<run, args, pmtiles>>
          /\ gates'["file"] = TRUE /\ gates'["verify"] = TRUE /\ gates'["size"] = FALSE
        BY <1>0, <1>7, Gate DEF SizeError, disk
    <2>3. QED  BY <2>1, <2>2
<1>8. CASE VerifyError
    <2>1. pmtiles # None /\ pmtiles.run = run /\ pmtiles.finished /\ ~pmtiles.sound /\ gates["size"] = None
        BY <1>0, <1>8 DEF VerifyError, TilesByStep, GatesByStep, TilesDone
    <2>2. /\ UNCHANGED <<run, args, pmtiles>>
          /\ gates'["file"] = TRUE /\ gates'["verify"] = FALSE /\ gates'["size"] = None
        BY <1>0, <1>8, <2>1, Gate DEF VerifyError, disk
    <2>3. QED  BY <2>1, <2>2
<1>9. CASE Clean
    <2>1. /\ pmtiles # None /\ pmtiles.run = run /\ pmtiles.finished /\ pmtiles.small
          /\ args.cli => pmtiles.sound
        BY <1>0, <1>9 DEF Clean, TilesByStep
    <2>2. /\ UNCHANGED <<run, args, pmtiles>>
          /\ gates'["file"] = TRUE /\ gates'["verify"] = TRUE /\ gates'["size"] = TRUE
        BY <1>0, <1>9, Gate DEF Clean
    <2>3. QED  BY <2>1, <2>2
<1>10. CASE TaskC
    <2>1. \A g \in Gates \ {"visible"} : gates'[g] = gates[g]
        BY <1>0, <1>10, Gate DEF TaskC, Gates
    <2>2. UNCHANGED <<run, args, pmtiles>>
        BY <1>10 DEF TaskC, disk
    <2>3. QED  BY <1>0, <2>1, <2>2 DEF Gates
<1>11. QED
    BY <1>1, <1>2, <1>3, <1>4, <1>5, <1>6, <1>7, <1>8, <1>9, <1>10 DEF Next, Die, Load, SaveH3, Export,
        ExportDone, BinaryIntegrityError, SizeOk, VerifyOk, SaveReport, disk

\* A saved report against the tiles on disk.
LEMMA ReportHoldsStep ==
    ASSUME IInv, Next
    PROVE  ReportHoldsUntilNextTiles'
<1>0. /\ ReportHoldsUntilNextTiles /\ TypeOK /\ TilesByStep /\ GatesByStep /\ ReportIsEarlier
      /\ run \in Nat /\ (report # None => report.run \in Nat)
    BY DEF IInv, TypeOK, Report
<1>1. CASE UNCHANGED <<pmtiles, report>>
    BY <1>0, <1>1 DEF ReportHoldsUntilNextTiles
<1>2. CASE Generate \/ TippecanoeDone
    <2>1. /\ pc # "idle" /\ pmtiles'.run = run /\ report' = report
          /\ pmtiles' # None
        <3>1. CASE Generate
            <4>1. pc # "idle" /\ pmtiles' = Unfinished /\ report' = report
                BY <3>1 DEF Generate
            <4>2. run \in 1 .. MaxRuns
                BY <1>0, <4>1 DEF ReportIsEarlier, TypeOK
            <4>3. Unfinished.run = run /\ Unfinished \in Tiles
                BY <4>2 DEF Unfinished, Tiles
            <4>4. QED  BY <4>1, <4>3, NoneAssumption
        <3>2. CASE TippecanoeDone
            <4>1. PICK sound, small, whole \in BOOLEAN :
                    pmtiles' = [Unfinished EXCEPT !.finished = TRUE, !.sound = sound, !.small = small,
                                                  !.whole = whole]
                BY <3>2 DEF TippecanoeDone
            <4>2. pc # "idle" /\ report' = report /\ run \in 1 .. MaxRuns
                BY <1>0, <3>2 DEF TippecanoeDone, ReportIsEarlier, TypeOK
            <4>3. pmtiles' = [run |-> run, finished |-> TRUE, whole |-> whole, sound |-> sound, small |-> small]
                BY <4>1 DEF Unfinished
            <4>4. pmtiles' \in Tiles
                BY <4>2, <4>3 DEF Tiles
            <4>5. QED  BY <4>2, <4>3, <4>4, NoneAssumption
        <3>3. QED  BY <1>2, <3>1, <3>2
    <2>2. report # None => report.run < run
        BY <1>0, <2>1 DEF ReportIsEarlier
    <2>3. QED  BY <1>0, <2>1, <2>2 DEF ReportHoldsUntilNextTiles
<1>3. CASE SaveReport
    <2>1. report'.run = run /\ report'.gates = gates /\ pmtiles' = pmtiles
        BY <1>3 DEF SaveReport
    <2>2. gates["file"] = TRUE => TilesDone
        BY <1>0, <1>3 DEF SaveReport, GatesByStep, TilesDone
    <2>3. TilesDone => pmtiles # None /\ pmtiles.run = run /\ pmtiles.finished /\ pmtiles.small
        BY <1>0 DEF TilesByStep
    <2>4. QED  BY <1>0, <2>1, <2>2, <2>3 DEF ReportHoldsUntilNextTiles
<1>4. QED
    BY <1>1, <1>2, <1>3 DEF Next, Start, Die, Load, TaskA, SaveH3, Export, ExportDone, BinaryIntegrityError,
        GenerateRaises, TippecanoeFails, SizeError, SizeOk, VerifyError, VerifyOk, Clean, TaskC,
        TileGenerationError, disk

\* A report is saved by a run in which no mandatory gate failed.
LEMMA SavedReportStep ==
    ASSUME IInv, Next
    PROVE  SavedReportNeverFails'
<1>1. CASE SaveReport
    <2>1. report'.gates = gates /\ \A g \in Mandatory : gates[g] # FALSE
        BY <1>1, NoneAssumption DEF SaveReport, IInv, GatesByStep, TilesDone, Mandatory, Gates
    <2>2. QED  BY <2>1 DEF SavedReportNeverFails
<1>2. CASE UNCHANGED report
    BY <1>2 DEF IInv, SavedReportNeverFails
<1>3. QED
    BY <1>1, <1>2 DEF Next, Start, Die, Load, TaskA, SaveH3, Export, ExportDone, BinaryIntegrityError,
        GenerateRaises, Generate, TippecanoeFails, TippecanoeDone, SizeError, SizeOk, VerifyError, VerifyOk,
        Clean, TaskC, TileGenerationError, disk

\* Exit code 0.
LEMMA ZeroMeansDoneStep ==
    ASSUME IInv, Next
    PROVE  ZeroMeansDone'
<1>1. CASE SaveReport /\ code' = 0
    <2>1. gates["file"] = TRUE /\ gates["h3_jenks"] = TRUE
        BY <1>1 DEF SaveReport, Mandatory, Gates
    <2>2. args.task = "all" /\ TilesDone
        BY <1>1, <2>1 DEF SaveReport, IInv, TypeOK, Args, GatesByStep, TilesDone
    <2>3. /\ report' = [run |-> run, gates |-> gates] /\ report' # None
          /\ UNCHANGED <<run, args, gates, geojson, pmtiles>>
        <3>1. report' = [run |-> run, gates |-> gates] /\ UNCHANGED <<run, args, gates, geojson, pmtiles>>
            BY <1>1 DEF SaveReport
        <3>2. run \in 1 .. MaxRuns /\ gates \in GateTable
            BY <1>1 DEF SaveReport, IInv, TypeOK, ReportIsEarlier
        <3>3. QED  BY <3>1, <3>2, NoneAssumption DEF Report
    <2>4. /\ pmtiles.run = run /\ pmtiles.small /\ (args.cli => pmtiles.sound)
          /\ args.geojson = "none" => pmtiles.whole /\ geojson = None
        BY <2>2 DEF IInv, TilesByStep, InputByStep
    <2>5. QED  BY <2>2, <2>3, <2>4 DEF ZeroMeansDone
<1>2. CASE code' # 0
    BY <1>2 DEF ZeroMeansDone
<1>3. pc # "idle" => code # 0
    BY NoneAssumption DEF IInv, GatesByStep
<1>4. CASE pc # "idle" /\ code' \in {1, code}
    BY <1>2, <1>3, <1>4
<1>5. CASE Start
    BY <1>2, <1>5, NoneAssumption DEF Start
<1>6. CASE GenerateRaises \/ TippecanoeFails \/ SizeError \/ VerifyError \/ BinaryIntegrityError \/ Die
    BY <1>4, <1>6 DEF GenerateRaises, TippecanoeFails, SizeError, VerifyError, BinaryIntegrityError, Die,
        TileGenerationError, Halt
<1>7. CASE Load \/ TaskA \/ SaveH3 \/ Export \/ ExportDone \/ Generate \/ TippecanoeDone
    BY <1>4, <1>7 DEF Load, TaskA, SaveH3, Export, ExportDone, Generate, TippecanoeDone, Halt, GoTo
<1>8. CASE SizeOk \/ VerifyOk \/ Clean \/ TaskC
    BY <1>4, <1>8 DEF SizeOk, VerifyOk, Clean, TaskC, GoTo
<1>9. CASE SaveReport
    BY <1>1, <1>2, <1>9
<1>10. QED
    BY <1>5, <1>6, <1>7, <1>8, <1>9 DEF Next

-------------------------------------------------------------------------------
\* An empty directory, and no run.
LEMMA InitIInv == Init => IInv
<1> SUFFICES ASSUME Init PROVE IInv
    OBVIOUS
<1>1. TypeOK
    BY DEF Init, TypeOK, Args, AllNone, GateTable
<1>2. TilesByStep /\ InputByStep /\ GatesByStep /\ ReportIsEarlier
    BY NoneAssumption DEF Init, TilesByStep, InputByStep, GatesByStep, ReportIsEarlier, TilesDone, BeforeTiles,
        DuringTiles, AllNone, Gates
<1>3. FinestUnlessEmpty /\ ReportHoldsUntilNextTiles /\ SavedReportNeverFails /\ ZeroMeansDone
    BY NoneAssumption DEF Init, FinestUnlessEmpty, ReportHoldsUntilNextTiles, SavedReportNeverFails, ZeroMeansDone
<1>4. GatesTruthful
    BY NoneAssumption DEF Init, GatesTruthful, AllNone, Gates
<1>5. ResultOfTaskA
    BY DEF Init, ResultOfTaskA
<1>6. QED  BY <1>1, <1>2, <1>3, <1>4, <1>5 DEF IInv

\* Every step keeps the invariant.
LEMMA NextIInv == IInv /\ [Next]_vars => IInv'
<1>1. ASSUME IInv, Next
      PROVE  IInv'
    BY <1>1, TypeStep, TilesByStepStep, InputByStepStep, GatesByStepStep, ReportIsEarlierStep,
        TaskAStep, GatesTruthfulStep, ReportHoldsStep, SavedReportStep, ZeroMeansDoneStep DEF IInv
<1>2. ASSUME IInv, UNCHANGED vars
      PROVE  IInv'
    <2>1. UNCHANGED <<run, pc, args, gates, h3, code, geojson, pmtiles, report>>
        BY <1>2 DEF vars, disk
    <2>2. (TypeOK /\ ReportIsEarlier /\ InputByStep)'
        BY <1>2, <2>1 DEF IInv, TypeOK, InputByStep, ReportIsEarlier, TilesDone
    <2>3. TilesByStep'
        BY <1>2, <2>1 DEF IInv, TilesByStep, TilesDone, Unfinished
    <2>4. GatesByStep'
        BY <1>2, <2>1 DEF IInv, GatesByStep, TilesDone
    <2>5. (FinestUnlessEmpty /\ GatesTruthful)'
        BY <1>2, <2>1 DEF IInv, FinestUnlessEmpty, GatesTruthful
    <2>6. (ReportHoldsUntilNextTiles /\ SavedReportNeverFails /\ ZeroMeansDone)'
        BY <1>2, <2>1 DEF IInv, ReportHoldsUntilNextTiles, SavedReportNeverFails, ZeroMeansDone
    <2>7. ResultOfTaskA'
        BY <1>2, <2>1 DEF IInv, ResultOfTaskA
    <2>8. QED  BY <2>2, <2>3, <2>4, <2>5, <2>6, <2>7 DEF IInv
<1>3. QED  BY <1>1, <1>2

\* The invariant holds in every behaviour, for any number of runs and any frames.
THEOREM IInvariant == Spec => []IInv
<1>1. QED  BY InitIInv, NextIInv, PTL DEF Spec

\* Every variable keeps its type.
THEOREM TypeCorrect == Spec => []TypeOK
<1>1. IInv => TypeOK
    BY DEF IInv
<1>2. QED  BY <1>1, IInvariant, PTL

\* Finding 7 is no accident of an instance: the occupancy gate decides nothing.
\* Whatever the threshold, Task A works at the finest candidate resolution, and
\* halts only if no feature has a place.
THEOREM FinestIsChosen == Spec => []FinestUnlessEmpty
<1>1. IInv => FinestUnlessEmpty
    BY DEF IInv
<1>2. QED  BY <1>1, IInvariant, PTL

\* Task A loses no value and counts none twice, whatever the frame and the
\* resolution: the counts and the sums of the hexagons add up to those of the
\* frame's features that have a value.
THEOREM NothingLost == Spec => []FeaturesConserved
<1>1. IInv => FeaturesConserved
    BY AggregatedConserves DEF IInv, TypeOK, ResultOfTaskA, FeaturesConserved, Valued
<1>2. QED  BY <1>1, IInvariant, PTL

\* The classes follow the means, for any frame and number of classes.
THEOREM ClassesOrdered == Spec => []ClassesFollowMeans
<1>1. IInv => ClassesFollowMeans
    <2> SUFFICES ASSUME IInv, h3 # None PROVE ClassesFollowMeans
        BY DEF ClassesFollowMeans
    <2>1. CASE h3.hexes = <<>>
        BY <2>1 DEF ClassesFollowMeans
    <2>2. CASE Raised(h3.frame) = "nothing" /\ h3.hexes \in Aggregated(h3.frame, h3.resolution)
        BY <2>2, AggregatedClasses DEF IInv, TypeOK, ClassesFollowMeans
    <2>3. QED  BY <2>1, <2>2 DEF IInv, ResultOfTaskA
<1>2. QED  BY <1>1, IInvariant, PTL

\* Nor is finding 5: what Task A returns for a frame with a value has class 0, "no
\* data", on a hexagon that has data.
THEOREM ClassZeroHasData ==
    Spec => [](h3 # None /\ h3.resolution # 0 /\ Valued(h3.frame) # {} => ~ZeroMeansNoData(h3.hexes))
<1>1. IInv /\ h3 # None /\ h3.resolution # 0 /\ Valued(h3.frame) # {} => ~ZeroMeansNoData(h3.hexes)
    <2> SUFFICES ASSUME IInv, h3 # None, h3.resolution # 0, Valued(h3.frame) # {}
                 PROVE  ~ZeroMeansNoData(h3.hexes)
        OBVIOUS
    <2>1. \E c \in DOMAIN h3.hexes : h3.hexes[c].feature_count > 0 /\ h3.hexes[c].jenks_class = 0
        BY AggregatedClassZero DEF IInv, TypeOK, ResultOfTaskA
    <2>2. QED  BY <2>1 DEF ZeroMeansNoData
<1>2. QED  BY <1>1, IInvariant, PTL

\* Nor is finding 6: for a frame with a null value, some hexagon's feature_count
\* is not the number of features mapped to it.
THEOREM NullsAreNotCounted ==
    Spec => [](h3 # None /\ h3.resolution # 0 /\ Valued(h3.frame) # DOMAIN h3.frame
                 => ~CountIsMapped(h3.frame, h3.resolution, h3.hexes))
<1>1. IInv => (h3 # None /\ h3.resolution # 0 /\ Valued(h3.frame) # DOMAIN h3.frame
                 => ~CountIsMapped(h3.frame, h3.resolution, h3.hexes))
    BY AggregatedMiscounts DEF IInv, TypeOK, ResultOfTaskA
<1>2. QED  BY <1>1, IInvariant, PTL

\* The gate table says of the tiles on disk what is so, in every state of a run.
THEOREM GatesAreTruthful == Spec => []GatesTruthful
<1>1. IInv => GatesTruthful
    BY DEF IInv
<1>2. QED  BY <1>1, IInvariant, PTL

\* A saved report that passes the tiles holds until a later run starts tippecanoe,
\* however many runs fail or die before.
THEOREM ReportHolds == Spec => []ReportHoldsUntilNextTiles
<1>1. IInv => ReportHoldsUntilNextTiles
    BY DEF IInv
<1>2. QED  BY <1>1, IInvariant, PTL

\* No saved report shows a failed mandatory gate.
THEOREM SavedReportPasses == Spec => []SavedReportNeverFails
<1>1. IInv => SavedReportNeverFails
    BY DEF IInv
<1>2. QED  BY <1>1, IInvariant, PTL

\* Exit code 0 means that both tasks ran, and what they made is on disk.
THEOREM ZeroIsDone == Spec => []ZeroMeansDone
<1>1. IInv => ZeroMeansDone
    BY DEF IInv
<1>2. QED  BY <1>1, IInvariant, PTL
===============================================================================
