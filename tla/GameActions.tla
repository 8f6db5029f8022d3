----------------------------- MODULE GameActions -----------------------------
(***************************************************************************)
(* The vocabulary of game actions (casino/core/game_action.py): a keyed     *)
(* request that moves several wallets and publishes game state as one, and  *)
(* the receipt that says what it did. Shared by the abstract promise and    *)
(* the providers.                                                           *)
(*                                                                          *)
(* A scope key (player, game, action key) is a member of Keys; a variant is *)
(* the request fingerprint and the declared resources, which a reuse of the *)
(* key must repeat. Every action declares all of Wallets and the one state  *)
(* document, whose value is its version: a plan publishes the next one.     *)
(***************************************************************************)
EXTENDS Integers, Sequences, SequencesExt

CONSTANTS
    Wallets,    \* wallets that actions move
    Keys,       \* scope keys
    Variants,   \* request fingerprints, with the declared resources
    Plans,      \* what planners may return: sequences of movements
    Amounts,    \* amounts of other wallet movements, in cents
    Opening,    \* the balance of a bootstrapped wallet
    MaxEpoch,   \* the last reset epoch
    None        \* "no receipt", "no key"

Movement == [wallet: Wallets, amount: Int \ {0}]

ASSUME PlansAssumption == Plans \subseteq Seq(Movement)
ASSUME FundsAssumption == Amounts \subseteq Int \ {0} /\ Opening \in Nat
ASSUME EpochAssumption == MaxEpoch \in Nat \ {0}

Epochs == 1..MaxEpoch

(* What the first n movements of a plan do to a wallet. *)
Moved(moves, n, w) ==
    LET moved[i \in 0..Len(moves)] ==
          IF i = 0 THEN 0
          ELSE moved[i - 1] + IF moves[i].wallet = w THEN moves[i].amount ELSE 0
    IN moved[n]

(* Balances after the first n movements of a plan. *)
After(before, moves, n) == [w \in Wallets |-> before[w] + Moved(moves, n, w)]

(* A receipt: version is the state version the action started from. *)
Receipt == [key: Keys, variant: Variants, moves: Plans,
            before: [Wallets -> Int], after: [Wallets -> Int], version: Nat]

NewReceipt(key, variant, moves, before, version) ==
    [key |-> key, variant |-> variant, moves |-> moves, before |-> before,
     after |-> After(before, moves, Len(moves)), version |-> version]

(* validate_plan: no wallet ends below zero. *)
Affordable(before, moves) ==
    \A w \in Wallets : After(before, moves, Len(moves))[w] >= 0

(* What became of an action: committed with its receipt, or durably          *)
(* uncommitted.                                                              *)
Outcome == [variant: Variants, receipt: Receipt \cup {None}]

ASSUME GameNoneAssumption ==
    None \notin Keys /\ None \notin Receipt /\ None \notin Outcome /\ None \notin Nat
===============================================================================
