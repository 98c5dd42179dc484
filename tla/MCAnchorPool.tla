---------------------------- MODULE MCAnchorPool ----------------------------
(* Small instances of AnchorPool for TLC. *)
EXTENDS AnchorPool

CONSTANTS m1, m2, m3, n1, n2

BothKinds == {"input", "response"}
ThreeMsgs == {m1, m2, m3}
TwoNodes == {n1, n2}
TwoSizes == {1, 2}

=============================================================================
