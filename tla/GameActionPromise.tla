--------------------------- MODULE GameActionPromise ---------------------------
(***************************************************************************)
(* What every storage provider promises about game actions (GameActionStore *)
(* of casino/core/game_action.py, execute_game_action_once and              *)
(* resolve_game_action): within a reset epoch each key gets one outcome for *)
(* good. Committed, it moved its wallets and published its state in one     *)
(* step; uncommitted, it never will. A reset starts a fresh epoch in one    *)
(* step and forgets no outcome.                                             *)
(***************************************************************************)
EXTENDS GameActions

VARIABLES
    balance,    \* the balance of each wallet
    version,    \* the version of the game state
    epoch,      \* the reset epoch
    outcome,    \* outcome[e][k]: what became of key k in epoch e, or None
    told        \* the outcomes callers have been given, with epoch and key

vars == <<balance, version, epoch, outcome, told>>

Init ==
    /\ balance = [w \in Wallets |-> Opening]
    /\ version = 0
    /\ epoch = 1
    /\ outcome = [e \in Epochs |-> [k \in Keys |-> None]]
    /\ told = {}

Decide(k, o) ==
    /\ outcome[epoch][k] = None
    /\ outcome' = [outcome EXCEPT ![epoch][k] = o]

(* An action takes effect, all of it at once. *)
Commit(k, v, moves) ==
    LET r == NewReceipt(k, v, moves, balance, version) IN
    /\ Affordable(balance, moves)
    /\ Decide(k, [variant |-> v, receipt |-> r])
    /\ balance' = r.after
    /\ version' = version + 1
    /\ UNCHANGED <<epoch, told>>

(* A resolver gets there first: the action will not take effect. *)
Cancel(k, v) ==
    /\ Decide(k, [variant |-> v, receipt |-> None])
    /\ UNCHANGED <<balance, version, epoch, told>>

(* A caller is given an outcome, perhaps of an epoch that has ended since. *)
Tell(e, k) ==
    /\ outcome[e][k] # None
    /\ told' = told \cup {[epoch |-> e, key |-> k, outcome |-> outcome[e][k]]}
    /\ UNCHANGED <<balance, version, epoch, outcome>>

(* A wallet moves outside any game action. *)
Move(w, amount) ==
    /\ balance[w] + amount >= 0
    /\ balance' = [balance EXCEPT ![w] = @ + amount]
    /\ UNCHANGED <<version, epoch, outcome, told>>

Reset ==
    /\ epoch < MaxEpoch
    /\ epoch' = epoch + 1
    /\ balance' = [w \in Wallets |-> Opening]
    /\ version' = 0
    /\ UNCHANGED <<outcome, told>>

Next ==
    \/ \E k \in Keys, v \in Variants :
          Cancel(k, v) \/ \E moves \in Plans : Commit(k, v, moves)
    \/ \E e \in Epochs, k \in Keys : Tell(e, k)
    \/ \E w \in Wallets, amount \in Amounts : Move(w, amount)
    \/ Reset

Spec == Init /\ [][Next]_vars
===============================================================================
