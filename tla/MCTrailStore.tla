---------------------------- MODULE MCTrailStore ----------------------------
(* TrailStore with one chain long enough to lose its middle and a second   *)
(* one whose line comes in between.                                        *)
EXTENDS TrailStore

CONSTANTS a, b

TwoChains == {a, b}

EventsOf == [i \in TwoChains |-> IF i = a THEN 3 ELSE 1]

=============================================================================
