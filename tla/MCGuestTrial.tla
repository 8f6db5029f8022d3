-------------------------------- MODULE MCGuestTrial --------------------------------
(* Two requests of one guest while the trial ends or becomes an account. *)
EXTENDS GuestTrial
ModelMultiples == {0, 2}
===============================================================================
