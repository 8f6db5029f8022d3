-------------------------- MODULE ExactlyOnceLedger --------------------------
(***************************************************************************)
(* What every storage provider promises about money, whatever its storage  *)
(* (casino/core/storage/base.py, transact_ledger, transact_ledger_once and  *)
(* find_ledger_action): a keyed action moves its wallet in one step and at  *)
(* most once, every caller who is answered under an identity is given the   *)
(* one event committed under it, and no wallet goes below zero.             *)
(*                                                                          *)
(* JsonLedger implements this specification with a journal, two projected   *)
(* files and process crashes between the writes.                            *)
(***************************************************************************)
EXTENDS LedgerEvents

VARIABLES
    wallet,     \* the balance of each player
    action,     \* the event committed under each identity, or None
    answered    \* the keyed events callers have been given

vars == <<wallet, action, answered>>

Init ==
    /\ wallet = [p \in Players |-> Opening]
    /\ action = [i \in Identity |-> None]
    /\ answered = {}

(* A keyed movement takes effect, under an identity that had none. *)
Commit(i) ==
    LET e == action'[i] IN
    /\ action[i] = None
    /\ e \in Event
    /\ <<e.player, e.key>> = i
    /\ e.before = wallet[e.player]
    /\ e.after = e.before + e.amount
    /\ e.after >= 0
    /\ action' = [action EXCEPT ![i] = e]
    /\ wallet' = [wallet EXCEPT ![e.player] = e.after]
    /\ UNCHANGED answered

(* An unkeyed movement takes effect. *)
Move(p, amount) ==
    /\ wallet[p] + amount >= 0
    /\ wallet' = [wallet EXCEPT ![p] = @ + amount]
    /\ UNCHANGED <<action, answered>>

(* A caller, the first one or one who retries, is given the committed event. *)
Answer(i) ==
    /\ action[i] # None
    /\ answered' = answered \cup {action[i]}
    /\ UNCHANGED <<wallet, action>>

Next ==
    \/ \E i \in Identity : Commit(i) \/ Answer(i)
    \/ \E p \in Players, amount \in Amounts : Move(p, amount)

Spec == Init /\ [][Next]_vars

==============================================================================
