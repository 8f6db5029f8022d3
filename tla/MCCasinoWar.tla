------------------------------ MODULE MCCasinoWar ------------------------------
(* A bounded instance of CasinoWar.                                           *)
EXTENDS CasinoWar, TLC
===============================================================================
