----------------------------- MODULE MCSession -----------------------------
(***************************************************************************)
(* Instances of Session for TLC.                                           *)
(***************************************************************************)
EXTENDS Session

CONSTANTS c1, c2, m1, m2

MCDirect == {c1, c2}
MCNone == {}
MCOne == {c1}
MCTwo == {c2}
MCRelay == {c2}
MCIDs == {m1, m2}
MCTotals == {0, 1, 2}
MCOneID == {m1}
=============================================================================
