-------------------------- MODULE MCJsonJournalCache --------------------------
(* Two processes, and records in the proportions of the real ones: a commit   *)
(* record carries its whole event, the others only name it.                   *)
EXTENDS JsonJournalCache

MCBytes == [commit |-> 4, project |-> 1, settled |-> 1]
===============================================================================
