---------------------------- MODULE SqlGameAction ----------------------------
(***************************************************************************)
(* Game actions, their resolution and the reset on a SQL database          *)
(* (casino/core/storage/game_actions_mysql.py and mysql_provider.py; the   *)
(* PostgreSQL provider is its twin).  Every operation is a transaction of  *)
(* one session; the rows it locks stay locked until it ends.               *)
(*                                                                         *)
(* The database is modelled from how the code uses it: a locking read or   *)
(* a write waits for the row and sees what was last committed; a commit is *)
(* one step; an error, a lock wait that is given up and the death of a     *)
(* session roll back.  A client may lose its session at any time: a commit *)
(* it had sent may still happen, and the locks stay until the server sees  *)
(* that the client is gone.                                                *)
(*                                                                         *)
(* Left out: the process-local refusal while this process resets (refused  *)
(* without effect, like the phase), the schema check, and the ledger rows, *)
(* written and cleared in the transactions of the balances they belong to. *)
(***************************************************************************)
EXTENDS GameActions, FiniteSets

CONSTANTS
    Sessions,   \* database sessions
    MaxMoves    \* bound: committed movements outside game actions

ASSUME MaxMovesAssumption == MaxMoves \in Nat
ASSUME WalletsAssumption == Wallets # {} /\ None \notin Wallets

VARIABLES
    wallet,     \* committed balances; None where the player has no row
    version,    \* the committed state document; 0 where it has no row
    epoch,      \* casino_game_action_epoch_state: current_epoch
    phase,      \* and phase
    claims,     \* claims[e][k]: the claim with its receipt, or None
    told,       \* the outcomes callers have been given
    sess,       \* what each session is doing
    moves       \* committed movements, for the bound

vars == <<wallet, version, epoch, phase, claims, told, sess, moves>>

\* at: the statement that comes next; the places are listed in Places.
\* seen: the balances and version the planner saw.  gone: the client is.
NoTx == [op |-> "none", at |-> "idle", key |-> None, variant |-> None, epoch |-> 0,
         seen |-> None, plan |-> <<>>, move |-> [wallet |-> None, amount |-> 0], gone |-> FALSE]

Places == {"idle", "epoch", "claim", "capture", "commit", "answer", "wallet",
           "clear", "commitReset", "bootstrap", "finalize", "commitReady"}

Init ==
    /\ wallet = [w \in Wallets |-> Opening]
    /\ version = 0
    /\ epoch = 1 /\ phase = "ready"
    /\ claims = [e \in Epochs |-> [k \in Keys |-> None]]
    /\ told = {}
    /\ sess = [s \in Sessions |-> NoTx]
    /\ moves = 0

dataUnchanged == UNCHANGED <<wallet, version, epoch, phase, claims, moves>>

-----------------------------------------------------------------------------
(* Locks, by what a session has done so far.                               *)

SharesEpoch(s) == sess[s].op \in {"execute", "resolve"}
                    /\ sess[s].at \in {"claim", "capture", "commit"}
OwnsEpoch(s) == sess[s].at \in {"clear", "commitReset", "commitReady"}
OwnsClaim(s, e, k) ==
    sess[s].at \in {"capture", "commit"} /\ sess[s].epoch = e /\ sess[s].key = k
OwnsWallet(s, w) ==
    \/ sess[s].at = "commitReset"
    \/ sess[s].at = "commit" /\ (sess[s].op = "execute" \/ sess[s].move.wallet = w)

EpochReadable(s) == \A t \in Sessions \ {s} : ~OwnsEpoch(t)
EpochWritable(s) == \A t \in Sessions \ {s} : ~OwnsEpoch(t) /\ ~SharesEpoch(t)
ClaimFree(s) ==
    \A t \in Sessions \ {s} : ~OwnsClaim(t, sess[s].epoch, sess[s].key)
WalletFree(s, w) == \A t \in Sessions \ {s} : ~OwnsWallet(t, w)

\* GET_LOCK: held by the session, across its transactions.
HoldsResetLock(s) == sess[s].op = "reset"

-----------------------------------------------------------------------------
(* Sessions                                                                *)

At(s, place) == sess[s].at = place /\ ~sess[s].gone
Goto(s, place) == sess' = [sess EXCEPT ![s].at = place]
End(s) == sess' = [sess EXCEPT ![s] = NoTx]

\* A commit also happens when its client is gone since it sent it.
Committing(s, place) == sess[s].at = place

Blocked(s) ==
    \/ sess[s].at = "epoch" /\ sess[s].op # "reset" /\ ~EpochReadable(s)
    \/ sess[s].at \in {"epoch", "finalize"} /\ sess[s].op = "reset" /\ ~EpochWritable(s)
    \/ sess[s].at = "claim" /\ ~ClaimFree(s)
    \/ sess[s].at \in {"capture", "clear"} /\ \E w \in Wallets : ~WalletFree(s, w)
    \/ sess[s].at = "wallet" /\ ~WalletFree(s, sess[s].move.wallet)

\* An error, a lock wait given up (resolve answers "pending" for it), the
\* server noticing that the client is gone, or an answer that is lost.
RollBack(s) ==
    /\ sess[s].at # "idle"
    /\ End(s)
    /\ dataUnchanged /\ UNCHANGED told

\* A session that has locked nothing yet is rolled back instead.
LoseConnection(s) ==
    /\ sess[s].at \notin {"idle", "answer", "wallet"} /\ ~sess[s].gone
    /\ SharesEpoch(s) \/ HoldsResetLock(s) \/ sess[s].op = "transact"
    /\ sess' = [sess EXCEPT ![s].gone = TRUE]
    /\ dataUnchanged /\ UNCHANGED told

\* The caller is given the outcome of its key.
Tell(s, e, k) == told' = told \union {[epoch |-> e, key |-> k, outcome |-> claims[e][k]]}

-----------------------------------------------------------------------------
(* execute_game_action_once, resolve_game_action                           *)

Ask(s, op, k, v) ==
    /\ sess[s].at = "idle"
    /\ sess' = [sess EXCEPT ![s] = [NoTx EXCEPT !.op = op, !.at = "epoch",
                                                !.key = k, !.variant = v]]
    /\ dataUnchanged /\ UNCHANGED told

\* The epoch, shared: an unfinished reset refuses the action ("pending").
ReadEpoch(s) ==
    /\ At(s, "epoch") /\ sess[s].op \in {"execute", "resolve"}
    /\ EpochReadable(s)
    /\ IF phase # "ready" THEN End(s)
       ELSE sess' = [sess EXCEPT ![s].at = "claim", ![s].epoch = epoch]
    /\ dataUnchanged /\ UNCHANGED told

\* Mutant of Insert: resolve answers that it found no claim, and leaves none.
InsertToExecuteOnly(s) ==
    IF sess[s].op = "execute"
    THEN Goto(s, "capture") /\ UNCHANGED told
    ELSE /\ told' = told \union {[epoch |-> sess[s].epoch, key |-> sess[s].key,
                                outcome |-> [variant |-> sess[s].variant, receipt |-> None]]}
         /\ End(s)

\* resolve claims the key so that it will not be executed.
Insert(s) ==
    /\ Goto(s, IF sess[s].op = "execute" THEN "capture" ELSE "commit")
    /\ UNCHANGED told

\* INSERT IGNORE waits for whoever inserted the same claim; then a claim that
\* is there decides, and refuses another request under its key.
Claim(s) ==
    /\ At(s, "claim") /\ ClaimFree(s)
    /\ LET t == sess[s]
           c == claims[t.epoch][t.key]
       IN  \/ c = None /\ Insert(s)
           \/ c # None /\ c.variant = t.variant /\ Tell(s, t.epoch, t.key) /\ End(s)
           \/ c # None /\ c.variant # t.variant /\ End(s) /\ UNCHANGED told
    /\ dataUnchanged

\* Mutant of Locks: the wallets are read without FOR UPDATE.
LocksNothing(s) == TRUE
Locks(s) == \A w \in Wallets : WalletFree(s, w)

\* Mutant of Refuse: the exception leaves the transaction open.
RefuseWithoutRollback(s) == UNCHANGED sess

\* A missing player or a plan that is not affordable raises and rolls back.
Refuse(s) == End(s)

\* The wallets and the state document FOR UPDATE, then the planner.
Capture(s) ==
    /\ At(s, "capture") /\ Locks(s)
    /\ IF \E w \in Wallets : wallet[w] = None THEN Refuse(s)
       ELSE \E plan \in Plans :
                IF Affordable(wallet, plan)
                THEN sess' = [sess EXCEPT ![s].at = "commit", ![s].plan = plan,
                                ![s].seen = [balance |-> wallet, version |-> version]]
                ELSE Refuse(s)
    /\ dataUnchanged /\ UNCHANGED told

\* Balances, ledger rows, state, receipt and claim at once.
CommitAction(s) ==
    /\ Committing(s, "commit") /\ sess[s].op = "execute"
    /\ LET t == sess[s]
           r == NewReceipt(t.key, t.variant, t.plan, t.seen.balance, t.seen.version)
       IN  /\ wallet' = r.after
           /\ version' = t.seen.version + 1
           /\ claims' = [claims EXCEPT ![t.epoch][t.key] = [variant |-> t.variant, receipt |-> r]]
    /\ IF sess[s].gone THEN End(s) ELSE Goto(s, "answer")
    /\ UNCHANGED <<epoch, phase, told, moves>>

CommitUncommitted(s) ==
    /\ Committing(s, "commit") /\ sess[s].op = "resolve"
    /\ LET t == sess[s] IN
       claims' = [claims EXCEPT ![t.epoch][t.key] = [variant |-> t.variant, receipt |-> None]]
    /\ IF sess[s].gone THEN End(s) ELSE Goto(s, "answer")
    /\ UNCHANGED <<wallet, version, epoch, phase, told, moves>>

Answer(s) ==
    /\ At(s, "answer")
    /\ Tell(s, sess[s].epoch, sess[s].key)
    /\ End(s)
    /\ dataUnchanged

-----------------------------------------------------------------------------
(* transact_ledger, for movements outside game actions                     *)

Transact(s, w, amount) ==
    /\ sess[s].at = "idle" /\ moves < MaxMoves
    /\ sess' = [sess EXCEPT ![s] = [NoTx EXCEPT !.op = "transact", !.at = "wallet",
                                        !.move = [wallet |-> w, amount |-> amount]]]
    /\ dataUnchanged /\ UNCHANGED told

Covered(balance, amount) == balance + amount >= 0

ReadWallet(s) ==
    /\ At(s, "wallet")
    /\ LET w == sess[s].move.wallet IN
       /\ WalletFree(s, w)
       /\ IF wallet[w] # None /\ Covered(wallet[w], sess[s].move.amount)
          THEN sess' = [sess EXCEPT ![s].at = "commit", ![s].seen = wallet[w]]
          ELSE End(s)
    /\ dataUnchanged /\ UNCHANGED told

CommitMove(s) ==
    /\ Committing(s, "commit") /\ sess[s].op = "transact" /\ moves < MaxMoves
    /\ wallet' = [wallet EXCEPT ![sess[s].move.wallet] = sess[s].seen + sess[s].move.amount]
    /\ moves' = moves + 1
    /\ End(s)
    /\ UNCHANGED <<version, epoch, phase, claims, told>>

-----------------------------------------------------------------------------
(* reset_transaction, with the bootstrap of the route that resets          *)

Reset(s) ==
    /\ sess[s].at = "idle" /\ epoch < MaxEpoch
    /\ \A t \in Sessions : ~HoldsResetLock(t)
    /\ sess' = [sess EXCEPT ![s] = [NoTx EXCEPT !.op = "reset", !.at = "epoch"]]
    /\ dataUnchanged /\ UNCHANGED told

\* The epoch row FOR UPDATE, and the deletes; both wait.
LockEpoch(s) ==
    /\ At(s, "epoch") /\ sess[s].op = "reset" /\ EpochWritable(s)
    /\ sess' = [sess EXCEPT ![s].at = "clear", ![s].epoch = epoch + 1]
    /\ dataUnchanged /\ UNCHANGED told

Clear(s) ==
    /\ At(s, "clear") /\ \A w \in Wallets : WalletFree(s, w)
    /\ Goto(s, "commitReset")
    /\ dataUnchanged /\ UNCHANGED told

CommitReset(s) ==
    /\ Committing(s, "commitReset")
    /\ epoch' = sess[s].epoch /\ phase' = "resetting"
    /\ wallet' = [w \in Wallets |-> None] /\ version' = 0
    /\ IF sess[s].gone THEN End(s) ELSE Goto(s, "bootstrap")
    /\ UNCHANGED <<claims, told, moves>>

\* Mutant of Bootstrap: its failure does not keep the reset from being published.
BootstrapOrNot(s) ==
    /\ At(s, "bootstrap")
    /\ wallet' \in {wallet, [w \in Wallets |-> IF wallet[w] = None THEN Opening ELSE wallet[w]]}
    /\ Goto(s, "finalize")
    /\ UNCHANGED <<version, epoch, phase, claims, told, moves>>

\* bootstrap_players on the session of the reset: INSERT IGNORE.
Bootstrap(s) ==
    /\ At(s, "bootstrap")
    /\ wallet' = [w \in Wallets |-> IF wallet[w] = None THEN Opening ELSE wallet[w]]
    /\ Goto(s, "finalize")
    /\ UNCHANGED <<version, epoch, phase, claims, told, moves>>

\* The epoch row FOR UPDATE must be as this reset left it.
Finalize(s) ==
    /\ At(s, "finalize") /\ EpochWritable(s)
    /\ IF epoch = sess[s].epoch /\ phase = "resetting" THEN Goto(s, "commitReady") ELSE End(s)
    /\ dataUnchanged /\ UNCHANGED told

CommitReady(s) ==
    /\ Committing(s, "commitReady")
    /\ phase' = "ready"
    /\ End(s)
    /\ UNCHANGED <<wallet, version, epoch, claims, told, moves>>

-----------------------------------------------------------------------------
Statement(s) ==
    \/ ReadEpoch(s) \/ Claim(s) \/ Capture(s) \/ CommitAction(s) \/ CommitUncommitted(s)
    \/ Answer(s) \/ ReadWallet(s) \/ CommitMove(s)
    \/ LockEpoch(s) \/ Clear(s) \/ CommitReset(s) \/ Bootstrap(s) \/ Finalize(s) \/ CommitReady(s)

Request(s) ==
    \/ \E op \in {"execute", "resolve"}, k \in Keys, v \in Variants : Ask(s, op, k, v)
    \/ \E w \in Wallets, a \in Amounts : Transact(s, w, a)
    \/ Reset(s)

Next == \E s \in Sessions : Statement(s) \/ Request(s) \/ RollBack(s) \/ LoseConnection(s)

Spec == Init /\ [][Next]_vars

\* One day sessions are neither lost nor fail unless they are blocked, and
\* nobody executes, moves money or resets any more.
Calm ==
    [][\A s \in Sessions :
        /\ ~LoseConnection(s)
        /\ RollBack(s) => sess[s].gone \/ Blocked(s)
        /\ Request(s) => sess'[s].op = "resolve"]_vars

\* The server finds out about the lost, statements that can run do, and
\* somebody asks again how a key ended.
FairSpec ==
    /\ Spec
    /\ \A s \in Sessions : WF_vars(Statement(s)) /\ WF_vars(RollBack(s) /\ (sess[s].gone \/ Blocked(s)))
    /\ \A k \in Keys, v \in Variants : SF_vars(\E s \in Sessions : Ask(s, "resolve", k, v))
    /\ <>Calm

-----------------------------------------------------------------------------
Seen == [balance : [Wallets -> Nat], version : Nat]

TypeOK ==
    /\ wallet \in [Wallets -> Nat \union {None}]
    /\ version \in Nat /\ epoch \in Epochs /\ phase \in {"ready", "resetting"}
    /\ \A e \in Epochs, k \in Keys : claims[e][k] # None => claims[e][k] \in Outcome
    /\ \A s \in Sessions :
            /\ sess[s].at \in Places
            /\ sess[s].at = "commit" /\ sess[s].op = "execute" => sess[s].plan \in Plans
            /\ sess[s].at = "commit" /\ sess[s].op = "transact" => sess[s].seen \in Nat
    /\ moves \in 0..MaxMoves

\* Whoever may play finds every wallet: a reset is published only when what it
\* cleared is bootstrapped, whatever was lost or failed on the way.
ReadyIsWhole == phase = "ready" => \A w \in Wallets : wallet[w] # None

\* The SQL provider keeps the promise of all providers.  A wallet that a reset
\* cleared counts as opened.
Promise == INSTANCE GameActionPromise WITH
    balance <- [w \in Wallets |-> IF wallet[w] = None THEN Opening ELSE wallet[w]],
    outcome <- claims

ImplementsPromise == Promise!Spec

\* Whoever keeps asking for a key learns, unless a reset stays unfinished,
\* how it ended: no lost or refused execution keeps it pending.
ResolverIsAnswered ==
    \A e \in Epochs, k \in Keys :
        epoch = e /\ phase = "ready" ~> claims[e][k] # None \/ epoch # e \/ phase # "ready"
=============================================================================
