----------------------------- MODULE MCDay2Runner -----------------------------
(* A small instance of Day2Runner for TLC. *)
EXTENDS Day2Runner

Resolutions == <<7, 6, 5>>

\* Cells 0 and 1 have the same parent; cell 4 shares none with them.
Features == [place : {0, 1, 4, Empty}, value : {1, 2, 3, NaN}]

\* Up to three features; their order in the file is no matter.
Number(f) == (IF f.place = Empty THEN 5 ELSE f.place) * 5 + (IF f.value = NaN THEN 0 ELSE f.value)
UpToThree ==
    {frame \in UNION {[1 .. n -> Features] : n \in 0 .. 3} :
        \A i \in 1 .. Len(frame) - 1 : Number(frame[i]) <= Number(frame[i + 1])}
    \cup {<<[place |-> 0, value |-> Text]>>}

\* Two hexagons, and one of them without a value.
OneNull == {<<[place |-> 0, value |-> NaN], [place |-> 4, value |-> 1]>>}
===============================================================================
