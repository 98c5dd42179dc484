--------------------------- MODULE MCSegmentMerge ---------------------------
(* Small instances of SegmentMerge for TLC. *)
EXTENDS SegmentMerge

One == {1}
Two == {2}
OneOrThree == {1, 3}
OneOrTwo == {1, 2}
NoDrift == {0}
SomeDrift == {0, 1}

=============================================================================
