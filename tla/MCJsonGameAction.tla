--------------------------- MODULE MCJsonGameAction ---------------------------
(* A bounded instance of JsonGameAction: one plan, of two stakes that empty a  *)
(* wallet and a payment to another.                                           *)
EXTENDS JsonGameAction, TLC

CONSTANTS w1, w2

M(w, a) == [wallet |-> w, amount |-> a]

MCPlans == { <<M(w1, -1), M(w1, -1), M(w2, 1)>> }
MCAmounts == {-1}
MCExactCents == -9..9

Interchangeable == Permutations(Keys) \cup Permutations(Variants)
===============================================================================
