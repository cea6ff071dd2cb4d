------------------------------- MODULE OneWriter -------------------------------
(***************************************************************************)
(* What the connection manager promises: threads that keep a connection    *)
(* for reading, until they or their process end; and, while there are      *)
(* none, one thread at a time that writes.                                 *)
(***************************************************************************)
CONSTANTS Threads, Processes, ProcessOf

VARIABLES
    keeping,        \* the threads with a read connection of their own
    writing         \* the threads with the database open for writing

Init == keeping = {} /\ writing = {}

Keep(t) ==
    /\ writing = {}
    /\ keeping' = keeping \cup {t}
    /\ UNCHANGED writing

Leave(t) ==
    /\ t \in keeping
    /\ keeping' = keeping \ {t}
    /\ UNCHANGED writing

Start(t) ==
    /\ keeping = {} /\ writing = {}
    /\ writing' = {t}
    /\ UNCHANGED keeping

Finish(t) ==
    /\ writing = {t}
    /\ writing' = {}
    /\ UNCHANGED keeping

End(p) ==
    /\ keeping' = {t \in keeping : ProcessOf[t] # p}
    /\ writing' = {t \in writing : ProcessOf[t] # p}

Next ==
    \/ \E t \in Threads : Keep(t) \/ Leave(t) \/ Start(t) \/ Finish(t)
    \/ \E p \in Processes : End(p)

Spec == Init /\ [][Next]_<<keeping, writing>>
===============================================================================
