-------------------------- MODULE MCConnectionPool --------------------------
(* Three threads on two slots; every open and leaked socket has an identity. *)
EXTENDS ConnectionPool

MCConn == 1..4
=============================================================================
