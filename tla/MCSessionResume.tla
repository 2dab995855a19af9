-------------------------- MODULE MCSessionResume --------------------------
(***************************************************************************)
(* Instances of SessionResume for TLC.  Tabs are interchangeable.          *)
(***************************************************************************)
EXTENDS SessionResume, TLC

CONSTANTS a, b

OneTab == {a}
TwoTabs == {a, b}

TabSymmetry == Permutations(Tab)

=============================================================================
