----------------------------- MODULE LedgerEvents -----------------------------
(***************************************************************************)
(* The vocabulary of the wallet ledger shared by the abstract promise and   *)
(* the storage providers: action identities and ledger events.             *)
(***************************************************************************)
EXTENDS Integers

CONSTANTS
    Players,    \* wallet owners
    Keys,       \* canonical action keys, each with its game scope
    Amounts,    \* the signed amounts callers may ask for, in cents
    Opening,    \* the balance every wallet is provisioned with
    None        \* "no event", "no key"

(* base.py _quantized_money: money is a whole number of cents; both ledger   *)
(* entry points refuse a zero amount; a wallet is provisioned non-negative.  *)
ASSUME AmountsAssumption == Amounts \subseteq Int \ {0}
ASSUME OpeningAssumption == Opening \in Nat

(* An exactly-once action is identified by its player and its scoped key.    *)
Identity == Players \X Keys

(* A ledger event: key is None for an unkeyed movement. The fingerprint of   *)
(* a keyed action is abstracted to its amount.                               *)
Event == [id: Nat, player: Players, key: Keys \cup {None},
          amount: Int, before: Int, after: Int]

ASSUME NoneAssumption == None \notin Event /\ None \notin Keys

===============================================================================
