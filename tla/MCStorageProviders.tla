-------------------------- MODULE MCStorageProviders --------------------------
(* A bounded instance of both providers: a plan that moves two wallets and   *)
(* that one other movement makes unaffordable. The JSON provider's plan also *)
(* returns part of what it takes.                                            *)
EXTENDS StorageProviders

CONSTANTS w1, w2

M(w, a) == [wallet |-> w, amount |-> a]

MCPlans == { <<M(w1, -2), M(w2, 1)>> }
MCJsonPlans == { <<M(w1, -2), M(w1, 1), M(w2, 1)>> }
MCAmounts == {-1}
MCExactCents == -9..9
==============================================================================
