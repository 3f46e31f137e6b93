---------------------------- MODULE MCTransactions ----------------------------
(* One test, at first unknown, then disabled or with one of two definitions,  *)
(* the second with a capture; its scheduled and its on-demand runs overlap.   *)
EXTENDS Transactions, TLC

CONSTANTS web, plain, traced, off

OneTest    == {web}
ThreeDefs  == {plain, traced, off}
NotOff     == {plain, traced}
Traced     == {traced}
AnyOrder   == [OneTest -> ThreeDefs]
=============================================================================
