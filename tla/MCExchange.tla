----------------------------- MODULE MCExchange -----------------------------
(***************************************************************************)
(* Exchange between all five wires, answers of at most three blocks.         *)
(***************************************************************************)
EXTENDS Exchange

AllWires == Wires
\* Limits below, at and above the default budget, zero, u32::MAX and one above it.
MCLimits == {0, 1, 5, 6, 40, 46}
=============================================================================
