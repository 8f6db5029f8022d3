----------------------------- MODULE MCJsonLedger -----------------------------
(* A bounded instance of JsonLedger: one cent in, one cent out.               *)
EXTENDS JsonLedger

MCAmounts == {-1, 1}
===============================================================================
