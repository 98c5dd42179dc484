-------------------------- MODULE MCRequestCommit --------------------------
(* Small instances of RequestCommit for TLC. *)
EXTENDS RequestCommit

CONSTANTS r1, r2, r3, anchors, lengths, ph, m1

ThreeUids == {r1, r2, r3}
TwoDicts == {anchors, lengths}
OneKey == {ph}
OneMsg == {m1}
LastUid == {r3}

=============================================================================
