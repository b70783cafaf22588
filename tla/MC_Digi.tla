------------------------------- MODULE MC_Digi -------------------------------
(* Instances of Digi for TLC.                                                *)
EXTENDS Digi

Unused(c, n) == [call |-> c, ssid |-> n, repeated |-> FALSE]
Used(c) == [call |-> c, ssid |-> 0, repeated |-> TRUE]

\* The usual path, one that is full after a hop, and one against the code's
\* assumption that the alias with hops left is the last element.
MC_Paths == {<<Unused("WIDE1", 1), Unused("WIDE2", 2)>>,
             <<Used("other"), Used("other"), Unused("WIDE3", 2)>>,
             <<Unused("WIDE2", 2), Unused("WIDE1", 1)>>}

\* One message with any of these paths, heard by any digipeaters.
MC_Single == {<<[id |-> "m1", path |-> p, hearers |-> h]>> :
                p \in MC_Paths, h \in (SUBSET Digis) \ {{}}}

\* Messages in any order, heard by one digipeater: enough to fill its cache and
\* to drive an entry out.
MC_Series == {[i \in 1 .. 4 |-> [id |-> ids[i], path |-> <<Unused("WIDE1", 1)>>,
                                 hearers |-> {"d1"}]] : ids \in [1 .. 4 -> Messages]}

\* A message that cannot be repeated comes again by a shorter way.
MC_Again == {<<[id |-> "m1", path |-> <<Used("other"), Used("other"), Unused("WIDE3", 2)>>,
                hearers |-> {"d1"}],
               [id |-> "m1", path |-> <<Unused("WIDE1", 1)>>, hearers |-> {"d1"}]>>}

MC_Traffic == MC_Single \union MC_Series \union MC_Again

\* Two messages of one hash, and one whose hash is that of a slot never used.
MC_Hash == [m \in Messages |-> IF m = "m2" THEN 0 ELSE 1]
=============================================================================
