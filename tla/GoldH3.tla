-------------------------------- MODULE GoldH3 --------------------------------
(***************************************************************************)
(* Gold H3 aggregation (geo_service/pipeline/gold/h3_aggregate.py), as     *)
(* operators: the resolution chosen for a frame of features, and the       *)
(* hexagons with their mean, feature count and Jenks class.                *)
(*                                                                         *)
(* A frame is a sequence of features [place, value].  A place is Empty     *)
(* when the centroid is; a value is NaN when it is null, and Text when the *)
(* column is missing or not numeric.                                       *)
(***************************************************************************)
EXTENDS Integers, Sequences, FiniteSets, FiniteSetsExt

CONSTANTS
    CANDIDATE_RESOLUTIONS,  \* finest first
    MIN_OCCUPANCY_PERCENT,
    MIN_FEATURES_PER_HEX,   \* read from the settings, and decides nothing
    JENKS_CLASSES,
    Empty, NaN, Text

ASSUME GoldH3Assumption ==
    /\ CANDIDATE_RESOLUTIONS \in Seq(Nat) \ {<<>>}
    /\ MIN_OCCUPANCY_PERCENT \in 0 .. 100 /\ MIN_FEATURES_PER_HEX \in Nat
    /\ JENKS_CLASSES \in Nat \ {0}

-------------------------------------------------------------------------------
\* Places are numbered so that neighbours share a coarser cell.
geo_to_h3(place, resolution) == <<resolution, place \div 2 ^ (7 - resolution)>>

Located(frame) == {i \in DOMAIN frame : frame[i].place # Empty}
Hexes(frame, resolution) == {geo_to_h3(frame[i].place, resolution) : i \in Located(frame)}
FeaturesIn(frame, resolution, hex) ==
    {i \in Located(frame) : geo_to_h3(frame[i].place, resolution) = hex}

feature_counts(frame, resolution) ==
    [hex \in Hexes(frame, resolution) |-> Cardinality(FeaturesIn(frame, resolution, hex))]

\* Both counts are of the hexagons some centroid falls in.
Passes(frame, resolution) ==
    LET occupied_hexes == Cardinality(DOMAIN feature_counts(frame, resolution))
        total_hexes == Cardinality(Hexes(frame, resolution))
    IN total_hexes > 0 /\ 100 * occupied_hexes >= MIN_OCCUPANCY_PERCENT * total_hexes

\* The first candidate that passes, 0 for H3ResolutionError.
select_resolution(frame) ==
    LET passing == {i \in DOMAIN CANDIDATE_RESOLUTIONS :
                        Passes(frame, CANDIDATE_RESOLUTIONS[i])}
    IN IF passing = {} THEN 0 ELSE CANDIDATE_RESOLUTIONS[Min(passing)]

-------------------------------------------------------------------------------
\* A dictionary keyed by hexagon: the last feature of it is the one that stays.
RowOfLast(frame, features) ==
    LET last == Max(features)
    IN IF frame[last].value = NaN THEN [feature_count |-> 0, sum |-> 0]
       ELSE [feature_count |-> 1, sum |-> frame[last].value]

ValueSum(frame, features) == MapThenSumSet(LAMBDA i : frame[i].value, features)

\* groupby.agg: null values are in no mean and in no count, but their hexagon
\* has its row.
Row(frame, features) ==
    LET valued == {i \in features : frame[i].value # NaN}
    IN [feature_count |-> Cardinality(valued), sum |-> ValueSum(frame, valued)]

\* The mean of one row is lower than the other's.
Lower(a, b) == a.sum * b.feature_count < b.sum * a.feature_count

\* mapclassify.NaturalBreaks(y, k): every way to cut the distinct values into k
\* classes, or one class per value when there are not that many.
NaturalBreaks(rows, k) ==
    LET alike(c) == {d \in DOMAIN rows : ~Lower(rows[c], rows[d]) /\ ~Lower(rows[d], rows[c])}
        distinct == Cardinality({alike(c) : c \in DOMAIN rows})
        classes == 0 .. Min({k, distinct}) - 1
    IN {yb \in [DOMAIN rows -> classes] :
            /\ \A class \in classes : \E c \in DOMAIN rows : yb[c] = class
            /\ \A c, d \in DOMAIN rows : ~Lower(rows[d], rows[c]) => yb[c] <= yb[d]}

\* Assigned by position instead of by index: the first rows get the classes.
WithClassesByPosition(rows, yb) ==
    [hex \in DOMAIN rows |->
        LET before == Cardinality({c \in DOMAIN rows : c[2] < hex[2]})
            of == {c \in DOMAIN yb : Cardinality({d \in DOMAIN yb : d[2] < c[2]}) = before}
        IN [feature_count |-> rows[hex].feature_count, sum |-> rows[hex].sum,
            jenks_class |-> IF of = {} THEN 0 ELSE yb[CHOOSE c \in of : TRUE]]]

\* The rows without a value are filled with 0.
WithClasses(rows, yb) ==
    [hex \in DOMAIN rows |->
        [feature_count |-> rows[hex].feature_count, sum |-> rows[hex].sum,
         jenks_class |-> IF hex \in DOMAIN yb THEN yb[hex] ELSE 0]]

\* Every result aggregate_to_h3 may return at one resolution.
Aggregated(frame, resolution) ==
    LET rows == [hex \in Hexes(frame, resolution) |->
                    Row(frame, FeaturesIn(frame, resolution, hex))]
        valid_values == {hex \in DOMAIN rows : rows[hex].feature_count > 0}
        k_actual == Min({JENKS_CLASSES, Max({2, Cardinality(valid_values)})})
    IN {WithClasses(rows, yb) :
            yb \in NaturalBreaks([hex \in valid_values |-> rows[hex]], k_actual)}

\* The column is checked first; one empty centroid among others makes h3_index
\* shorter than the frame.  Without a single value every hexagon is in class 0;
\* versions of mapclassify that raise there end the run (Day2Runner's Die).
Raised(frame) ==
    IF \E i \in DOMAIN frame : frame[i].value = Text THEN "ValueError"
    ELSE IF select_resolution(frame) = 0 THEN "H3ResolutionError"
    ELSE IF Located(frame) # DOMAIN frame THEN "ValueError"
    ELSE "nothing"

\* What it may return, or why it raises.
run_gold_h3(frame) ==
    LET resolution == select_resolution(frame)
    IN [raised |-> Raised(frame),
        resolution |-> resolution,
        frames |-> IF Raised(frame) = "nothing" THEN Aggregated(frame, resolution) ELSE {}]
===============================================================================
