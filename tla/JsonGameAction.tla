---------------------------- MODULE JsonGameAction ----------------------------
(***************************************************************************)
(* Game actions and resets over the JSON storage provider                   *)
(* (casino/core/storage/game_actions_json.py and reset.py).                 *)
(*                                                                          *)
(* An action is executed in stages kept in a private journal: prepared (the *)
(* snapshot is taken, the planner has not answered), planned (committed: it *)
(* will be carried out), then its claim, wallets, ledger rows, state and    *)
(* receipt are written, each in a file of its own. Every operation first    *)
(* carries out what the journal holds. A resolver that finds no outcome     *)
(* claims the key as uncommitted, which keeps every later execution out. A  *)
(* reset erases the data root, keeps claims and receipts of earlier epochs, *)
(* and keeps a backup until it is done.                                     *)
(*                                                                          *)
(* One operation at a time holds the cross-process gate; it may die between *)
(* any two writes. A resolver that does not get the gate answers "pending"  *)
(* and changes nothing. Movements of the wallet ledger are one step here:   *)
(* JsonLedger shows that they may be thought of so.                         *)
(*                                                                          *)
(* Where the code meets data it cannot explain it raises "requires operator *)
(* recovery" and writes nothing: the model has no step there, so whatever   *)
(* depends on getting further (PlannedIsCommitted) fails in such a state.   *)
(***************************************************************************)
EXTENDS GameActions, FiniteSets

CONSTANTS
    ExactCents,     \* balances that a JSON number holds to the cent
    MaxMoves,       \* bound on the other movements in the ledger
    MaxFailures     \* bound on crashes and failed writes

ASSUME GameBoundsAssumption ==
    ExactCents \subseteq Int /\ MaxMoves \in Nat /\ MaxFailures \in Nat
ASSUME KeysAssumption == IsFiniteSet(Keys)

VARIABLES
    wallet,     \* players.json: the balance of each wallet, None once erased
    rows,       \* ledger.jsonl
    state,      \* states.json: the version of the state document
    claims,     \* claims.json: claims[e][k], or None
    receipts,   \* receipts.json: receipts[e][k], or None
    epoch,      \* epoch.json
    journal,    \* journal.json, or None
    backup,     \* the reset backup, or None
    pc,         \* the next step of the operation that holds the gate
    req,        \* the request it serves
    failures,   \* crashes and failed writes so far
    told        \* history: the outcomes callers were given

data == <<wallet, rows, state, claims, receipts, epoch>>
durable == <<data, journal, backup>>
vars == <<wallet, rows, state, claims, receipts, epoch, journal, backup, pc,
          req, failures, told>>

Claim == [variant: Variants, disposition: {"execute", "uncommitted"}]

Row == [key: Keys \cup {None}, index: Nat, wallet: Wallets, amount: Int, after: Int]

Balances == [Wallets -> Nat]

Stages == {"prepared", "planned", "wallet_applied", "ledger_applied",
           "state_applied", "receipt_committed"}

(* journal.json: receipt is the plan, None while prepared. *)
Journal == [stage: Stages, epoch: Epochs, key: Keys, variant: Variants,
            receipt: Receipt \cup {None}]

(* The reset backup: all of the data root. *)
Saved == [wallet: Balances, rows: Seq(Row), state: Nat,
          claims: [Epochs -> [Keys -> Claim \cup {None}]],
          receipts: [Epochs -> [Keys -> Receipt \cup {None}]],
          epoch: [current: Epochs, phase: {"ready"}]]

ASSUME JsonNoneAssumption == None \notin Claim /\ None \notin Journal /\ None \notin Saved

(* The step that follows each stage once it is recorded. *)
StepAfter ==
    [wallet_applied |-> "rows", ledger_applied |-> "states",
     state_applied |-> "receipt", receipt_committed |-> "cleanup"]

ResetSteps == {"erase", "keepReceipts", "keepClaims", "advance", "bootstrap",
               "ready", "unlink"}

Steps == {"idle", "recover", "claim", "wallets", "rows", "states", "receipt",
          "cleanup", "serve", "plan", "cancel", "backup", "restore", "discard"}
         \cup DOMAIN StepAfter \cup ResetSteps

Request ==
         [kind: {"execute", "resolve"}, key: Keys, variant: Variants]
    \cup [kind: {"move"}, wallet: Wallets, amount: Amounts]
    \cup [kind: {"read", "reset"}]

NoRequest == [kind |-> "none"]

Game == req.kind \in {"execute", "resolve"}

Moves == Cardinality({n \in 1..Len(rows) : rows[n].key = None})

Nothing == [e \in Epochs |-> [k \in Keys |-> None]]

------------------------------------------------------------------------------
Init ==
    /\ wallet = [w \in Wallets |-> Opening]
    /\ rows = <<>>
    /\ state = 0
    /\ claims = Nothing
    /\ receipts = Nothing
    /\ epoch = [current |-> 1, phase |-> "ready"]
    /\ journal = None
    /\ backup = None
    /\ pc = "idle"
    /\ req = NoRequest
    /\ failures = 0
    /\ told = {}

Goto(step) == pc' = step /\ UNCHANGED req
Return == pc' = "idle" /\ req' = NoRequest

(* Mutant: operations start although a reset left its backup. *)
ResidueIgnored == TRUE

(* _require_no_reset_recovery_locked *)
NoResidue == backup = None

(* An operation gets the gate. *)
Start(r) ==
    /\ pc = "idle"
    /\ NoResidue
    /\ r.kind \in {"execute", "resolve", "reset"} => epoch.phase = "ready"
    /\ r.kind = "move" => Moves < MaxMoves
    /\ r.kind = "reset" => epoch.current < MaxEpoch
    /\ pc' = "recover"
    /\ req' = r
    /\ UNCHANGED <<durable, failures, told>>

------------------------------------------------------------------------------
(* _recover_game_action_journal_locked *)

(* Mutants: a planned action is taken for an abandoned one; the journal is   *)
(* not looked at.                                                            *)
DiscardsPlanned(j) == j.stage \in {"prepared", "planned"}
JournalIgnored == TRUE

Discardable(j) == j.stage = "prepared"
NothingToRecover == journal = None

(* The journal holds this very key, under other semantics. *)
JournalConflicts ==
    Game /\ journal.key = req.key /\ journal.variant # req.variant

RefuseConflict ==
    /\ pc = "recover"
    /\ journal # None
    /\ JournalConflicts
    /\ Return
    /\ UNCHANGED <<durable, failures, told>>

(* No plan was recorded: nothing was done. A resolver of this key cancels it.*)
DropPrepared ==
    /\ pc = "recover"
    /\ journal # None
    /\ ~JournalConflicts
    /\ Discardable(journal)
    /\ journal' = None
    /\ Goto(IF req.kind = "resolve" /\ req.key = journal.key THEN "cancel" ELSE "serve")
    /\ UNCHANGED <<data, backup, failures, told>>

CarryOut ==
    /\ pc = "recover"
    /\ journal # None
    /\ ~JournalConflicts
    /\ ~Discardable(journal)
    /\ journal.epoch = epoch.current
    /\ Goto("claim")
    /\ UNCHANGED <<durable, failures, told>>

Recovered ==
    /\ pc = "recover"
    /\ NothingToRecover
    /\ Goto("serve")
    /\ UNCHANGED <<durable, failures, told>>

(* _commit_game_action_claim: the first claim on a key wins. *)
ClaimAs(key, variant, disposition) ==
    LET mine == [variant |-> variant, disposition |-> disposition] IN
    /\ claims[epoch.current][key] \in {None, mine}
    /\ claims' = [claims EXCEPT ![epoch.current][key] = mine]

CommitClaim ==
    /\ pc = "claim"
    /\ ClaimAs(journal.key, journal.variant, "execute")
    /\ Goto("wallets")
    /\ UNCHANGED <<wallet, rows, state, receipts, epoch, journal, backup,
                   failures, told>>

(* Mutants: a wallet that has moved is not recognised; wallets stay put. *)
OnlyBefore(r) == wallet = r.before
WalletsUnmoved(r) == r.before

(* _apply_game_action_wallets: one replacement of players.json. *)
WalletsExplained(r) == wallet \in {r.before, r.after}
MovedWallets(r) == r.after

ApplyWallets ==
    LET r == journal.receipt IN
    /\ pc = "wallets"
    /\ WalletsExplained(r)
    /\ wallet = r.before /\ r.before # r.after => \A w \in Wallets : r.after[w] \in ExactCents
    /\ wallet' = MovedWallets(r)
    /\ Goto("wallet_applied")
    /\ UNCHANGED <<rows, state, claims, receipts, epoch, journal, backup,
                   failures, told>>

(* _game_action_ledger_events: one row per movement, its id made of the      *)
(* scope key and the movement's index.                                       *)
RowOf(r, n) ==
    LET m == r.moves[n] IN
    [key |-> r.key, index |-> n, wallet |-> m.wallet, amount |-> m.amount,
     after |-> After(r.before, r.moves, n)[m.wallet]]

(* Mutant: one row of the action proves them all. *)
MissingAll(r) ==
    IF \E n \in 1..Len(rows) : rows[n].key = r.key THEN {} ELSE 1..Len(r.moves)

(* The movements whose row is not in the ledger. *)
Missing(r) ==
    {n \in 1..Len(r.moves) :
        \A i \in 1..Len(rows) : rows[i].key # r.key \/ rows[i].index # n}

ApplyRow ==
    LET r == journal.receipt IN
    /\ pc = "rows"
    /\ \E n \in Missing(r) :
          /\ \A m \in Missing(r) : n <= m
          /\ rows' = Append(rows, RowOf(r, n))
    /\ Goto("rows")
    /\ UNCHANGED <<wallet, state, claims, receipts, epoch, journal, backup,
                   failures, told>>

RowsApplied ==
    /\ pc = "rows"
    /\ Missing(journal.receipt) = {}
    /\ Goto("ledger_applied")
    /\ UNCHANGED <<durable, failures, told>>

(* _apply_game_action_states *)
ApplyState ==
    LET r == journal.receipt IN
    /\ pc = "states"
    /\ state \in {r.version, r.version + 1}
    /\ state' = r.version + 1
    /\ Goto("state_applied")
    /\ UNCHANGED <<wallet, rows, claims, receipts, epoch, journal, backup,
                   failures, told>>

(* _commit_game_action_receipt *)
CommitReceipt ==
    LET r == journal.receipt IN
    /\ pc = "receipt"
    /\ receipts[epoch.current][r.key] \in {None, r}
    /\ receipts' = [receipts EXCEPT ![epoch.current][r.key] = r]
    /\ Goto("receipt_committed")
    /\ UNCHANGED <<wallet, rows, state, claims, epoch, journal, backup,
                   failures, told>>

(* _write_game_action_journal_stage *)
RecordStage ==
    /\ pc \in DOMAIN StepAfter
    /\ journal' = [journal EXCEPT !.stage = pc]
    /\ Goto(StepAfter[pc])
    /\ UNCHANGED <<data, backup, failures, told>>

(* The journal goes. An executor finds the receipt of its own action next.   *)
Cleanup ==
    /\ pc = "cleanup"
    /\ journal' = None
    /\ Goto("serve")
    /\ UNCHANGED <<data, backup, failures, told>>

------------------------------------------------------------------------------
(* The operation itself, with an empty journal.                              *)

MyReceipt == receipts[epoch.current][req.key]
MyClaim == claims[epoch.current][req.key]

Tell(receipt) ==
    told' = told \cup
        {[epoch |-> epoch.current, key |-> req.key,
          outcome |-> [variant |-> req.variant, receipt |-> receipt]]}

Committed == Game /\ MyReceipt # None
Unclaimed == Game /\ MyReceipt = None /\ MyClaim = None
Cancelled == Game /\ MyReceipt = None /\ MyClaim # None

AnswerCommitted ==
    /\ pc = "serve"
    /\ Committed
    /\ MyReceipt.variant = req.variant
    /\ Tell(MyReceipt)
    /\ Return
    /\ UNCHANGED <<durable, failures>>

(* "uncommitted" to a resolver, a conflict that says so to an executor. *)
AnswerUncommitted ==
    /\ pc = "serve"
    /\ Cancelled
    /\ MyClaim = [variant |-> req.variant, disposition |-> "uncommitted"]
    /\ Tell(None)
    /\ Return
    /\ UNCHANGED <<durable, failures>>

(* The key has other semantics, or funds are short. *)
Refuse ==
    /\ pc = "serve"
    /\ \/ Committed /\ MyReceipt.variant # req.variant
       \/ Cancelled /\ MyClaim.variant # req.variant
       \/ req.kind = "move" /\ wallet[req.wallet] + req.amount < 0
    /\ Return
    /\ UNCHANGED <<durable, failures, told>>

(* execute_game_action_once: the snapshot is recorded, and the planner asked.*)
Prepare ==
    /\ pc = "serve"
    /\ req.kind = "execute"
    /\ Unclaimed
    /\ journal' = [stage |-> "prepared", epoch |-> epoch.current, key |-> req.key,
                   variant |-> req.variant, receipt |-> None]
    /\ Goto("plan")
    /\ UNCHANGED <<data, backup, failures, told>>

(* Mutant: overdrafts pass. *)
AnyPlan(before, moves) == TRUE

PlanAccepted(before, moves) == Affordable(before, moves)

Plan ==
    /\ pc = "plan"
    /\ \E moves \in Plans :
          /\ PlanAccepted(wallet, moves)
          /\ journal' = [journal EXCEPT
                !.stage = "planned",
                !.receipt = NewReceipt(req.key, req.variant, moves, wallet, state)]
    /\ Goto("claim")
    /\ UNCHANGED <<data, backup, failures, told>>

(* The planner raises, or its plan is refused. *)
PlannerFails ==
    /\ pc = "plan"
    /\ journal' = None
    /\ Return
    /\ UNCHANGED <<data, backup, failures, told>>

(* resolve_game_action: no outcome, so the key is claimed as uncommitted.    *)
Resolve ==
    /\ pc = "serve"
    /\ req.kind = "resolve"
    /\ Unclaimed
    /\ Goto("cancel")
    /\ UNCHANGED <<durable, failures, told>>

Cancel ==
    /\ pc = "cancel"
    /\ ClaimAs(req.key, req.variant, "uncommitted")
    /\ Goto("serve")
    /\ UNCHANGED <<wallet, rows, state, receipts, epoch, journal, backup,
                   failures, told>>

(* find_ledger_action, read_ledger_recent, state_visibility_transaction ...  *)
(* only recover.                                                             *)
Read ==
    /\ pc = "serve"
    /\ req.kind = "read"
    /\ Return
    /\ UNCHANGED <<durable, failures, told>>

(* A wallet movement with its ledger row. *)
Move ==
    LET after == wallet[req.wallet] + req.amount IN
    /\ pc = "serve"
    /\ req.kind = "move"
    /\ after >= 0
    /\ wallet' = [wallet EXCEPT ![req.wallet] = after]
    /\ rows' = Append(rows, [key |-> None, index |-> 0, wallet |-> req.wallet,
                             amount |-> req.amount, after |-> after])
    /\ Return
    /\ UNCHANGED <<state, claims, receipts, epoch, journal, backup, failures, told>>

------------------------------------------------------------------------------
(* reset_transaction *)
Backup ==
    /\ pc = "serve"
    /\ req.kind = "reset"
    /\ backup' = [wallet |-> wallet, rows |-> rows, state |-> state,
                  claims |-> claims, receipts |-> receipts, epoch |-> epoch]
    /\ Goto("erase")
    /\ UNCHANGED <<data, journal, failures, told>>

(* _reset_locked: everything under the data root. An absent epoch file reads *)
(* as the first epoch, ready.                                                *)
Erase ==
    /\ pc = "erase"
    /\ wallet' = [w \in Wallets |-> None]
    /\ rows' = <<>>
    /\ state' = 0
    /\ claims' = Nothing
    /\ receipts' = Nothing
    /\ epoch' = [current |-> 1, phase |-> "ready"]
    /\ Goto("keepReceipts")
    /\ UNCHANGED <<journal, backup, failures, told>>

KeptReceipts == backup.receipts

KeepReceipts ==
    /\ pc = "keepReceipts"
    /\ receipts' = KeptReceipts
    /\ Goto("keepClaims")
    /\ UNCHANGED <<wallet, rows, state, claims, epoch, journal, backup, failures, told>>

KeepClaims ==
    /\ pc = "keepClaims"
    /\ claims' = backup.claims
    /\ Goto("advance")
    /\ UNCHANGED <<wallet, rows, state, receipts, epoch, journal, backup, failures, told>>

Advance ==
    /\ pc = "advance"
    /\ epoch' = [current |-> backup.epoch.current + 1, phase |-> "resetting"]
    /\ Goto("bootstrap")
    /\ UNCHANGED <<wallet, rows, state, claims, receipts, journal, backup, failures, told>>

(* What the caller does inside the transaction: bootstrap_players.           *)
Bootstrap ==
    /\ pc = "bootstrap"
    /\ wallet' = [w \in Wallets |-> Opening]
    /\ Goto("ready")
    /\ UNCHANGED <<rows, state, claims, receipts, epoch, journal, backup, failures, told>>

Ready ==
    /\ pc = "ready"
    /\ epoch' = [epoch EXCEPT !.phase = "ready"]
    /\ Goto("unlink")
    /\ UNCHANGED <<wallet, rows, state, claims, receipts, journal, backup, failures, told>>

(* The backup goes: the reset, or its rollback, is done. *)
Unlink ==
    /\ pc \in {"unlink", "discard"}
    /\ backup' = None
    /\ Return
    /\ UNCHANGED <<data, journal, failures, told>>

(* A step of the reset raises: the backup is restored, then removed.         *)
ResetFails ==
    /\ pc \in ResetSteps
    /\ failures < MaxFailures
    /\ failures' = failures + 1
    /\ Goto("restore")
    /\ UNCHANGED <<durable, told>>

Restore ==
    /\ pc = "restore"
    /\ wallet' = backup.wallet
    /\ rows' = backup.rows
    /\ state' = backup.state
    /\ claims' = backup.claims
    /\ receipts' = backup.receipts
    /\ epoch' = backup.epoch
    /\ Goto("discard")
    /\ UNCHANGED <<journal, backup, failures, told>>

------------------------------------------------------------------------------
(* The process is killed, or a write raises outside a reset: what was durable *)
(* stays, the caller is told nothing.                                         *)
Die ==
    /\ pc # "idle"
    /\ failures < MaxFailures
    /\ failures' = failures + 1
    /\ Return
    /\ UNCHANGED <<durable, told>>

Recovery ==
    \/ RefuseConflict \/ DropPrepared \/ CarryOut \/ Recovered
    \/ CommitClaim \/ ApplyWallets \/ ApplyRow \/ RowsApplied \/ ApplyState
    \/ CommitReceipt \/ RecordStage \/ Cleanup

Serve ==
    \/ AnswerCommitted \/ AnswerUncommitted \/ Refuse
    \/ Prepare \/ Plan \/ PlannerFails \/ Resolve \/ Cancel
    \/ Read \/ Move

ResetSeries ==
    \/ Backup \/ Erase \/ KeepReceipts \/ KeepClaims \/ Advance \/ Bootstrap
    \/ Ready \/ Unlink \/ Restore

Next ==
    \/ \E r \in Request : Start(r)
    \/ Recovery \/ Serve \/ ResetSeries
    \/ ResetFails \/ Die

Spec == Init /\ [][Next]_vars

(* Whoever holds the gate runs on, and reads get the gate again and again:   *)
(* the shell polls its wallet. Requests that are refused before recovery     *)
(* (RefuseConflict) would not do.                                            *)
FairSpec ==
    /\ Spec
    /\ WF_vars(Recovery \/ Serve \/ ResetSeries)
    /\ SF_vars(Start([kind |-> "read"]))

------------------------------------------------------------------------------
(* Types of the state. *)
TypeOK ==
    /\ wallet \in Balances \cup [Wallets -> {None}]
    /\ rows \in Seq(Row)
    /\ state \in Nat
    /\ claims \in [Epochs -> [Keys -> Claim \cup {None}]]
    /\ receipts \in [Epochs -> [Keys -> Receipt \cup {None}]]
    /\ epoch \in [current: Epochs, phase: {"ready", "resetting"}]
    /\ journal \in Journal \cup {None}
    /\ backup \in Saved \cup {None}
    /\ pc \in Steps
    /\ req \in Request \cup {NoRequest}
    /\ failures \in Nat
    /\ told \subseteq [epoch: Epochs, key: Keys, outcome: Outcome]

Planned == journal # None /\ journal.stage # "prepared"

(* All of an action or nothing: with no plan in the journal, a key of this   *)
(* epoch has a receipt exactly when each movement of it has one ledger row   *)
(* and an execute claim, other keys have no row, and the state document      *)
(* counts every committed action once.                                       *)
AllOrNothing ==
    NoResidue /\ ~Planned =>
        LET mine == receipts[epoch.current]
            done == {k \in Keys : mine[k] # None}
        IN /\ state = Cardinality(done)
           /\ \A k \in Keys : (k \in done) <=>
                 (claims[epoch.current][k] # None
                  /\ claims[epoch.current][k].disposition = "execute")
           /\ \A k \in done : \A n \in 1..Len(mine[k].moves) :
                 \E i \in 1..Len(rows) : rows[i] = RowOf(mine[k], n)
           /\ \A i, j \in 1..Len(rows) :
                 rows[i].key # None =>
                    /\ rows[i].key \in done
                    /\ i # j => <<rows[i].key, rows[i].index>> # <<rows[j].key, rows[j].index>>

(* Recovery never meets a data root it cannot explain: while a plan is in    *)
(* the journal, it is of the current epoch, its wallets are those before or  *)
(* after it, its state likewise, its key is not claimed as uncommitted, and  *)
(* no other receipt stands under its key. The "requires operator recovery"   *)
(* conflicts of the recovery are out of reach.                               *)
RecoveryNeverDiverges ==
    Planned =>
        LET r == journal.receipt IN
        /\ NoResidue
        /\ journal.epoch = epoch.current
        /\ wallet \in {r.before, r.after}
        /\ state \in {r.version, r.version + 1}
        /\ claims[epoch.current][r.key]
              \in {None, [variant |-> r.variant, disposition |-> "execute"]}
        /\ receipts[epoch.current][r.key] \in {None, r}

(* The last word of a ledger on wallet w is balance b. *)
Books(ledger, w, b) ==
    \/ \E n \in 1..Len(ledger) :
          /\ ledger[n].wallet = w
          /\ ledger[n].after = b
          /\ \A i \in (n + 1)..Len(ledger) : ledger[i].wallet # w
    \/ /\ \A n \in 1..Len(ledger) : ledger[n].wallet # w
       /\ b = Opening

(* The ledger accounts for every wallet whenever no plan is under way, with  *)
(* other movements of the same wallets between game actions, and after a     *)
(* reset or its rollback.                                                    *)
LedgerAccountsForWallets ==
    NoResidue /\ ~Planned => \A w \in Wallets : Books(rows, w, wallet[w])

(* A reset is all or nothing to everyone else: no operation but the reset    *)
(* itself works on a data root that is erased, half restored, or still       *)
(* resetting, whenever the reset dies or fails.                              *)
OnlyWholeDataIsServed ==
    pc \in Steps \ (ResetSteps \cup {"idle", "restore", "discard"}) =>
        /\ NoResidue
        /\ epoch.phase = "ready"
        /\ \A w \in Wallets : wallet[w] # None

(* A plan that reached the journal takes effect, as long as reads come.      *)
PlannedIsCommitted ==
    \A k \in Keys, e \in Epochs :
        (Planned /\ journal.key = k /\ journal.epoch = e) ~> (receipts[e][k] # None)

------------------------------------------------------------------------------
(* The data callers can count on: the backup's until a reset is done, and    *)
(* with the plan in the journal carried out.                                 *)
View ==
    IF backup # None THEN backup
    ELSE [wallet |-> wallet, rows |-> rows, state |-> state, claims |-> claims,
          receipts |-> receipts, epoch |-> epoch]

OutcomeOf(e, k) ==
    LET receipt == View.receipts[e][k]
        claim   == View.claims[e][k]
    IN IF receipt # None THEN [variant |-> receipt.variant, receipt |-> receipt]
       ELSE IF Planned /\ journal.epoch = e /\ journal.key = k
            THEN [variant |-> journal.variant, receipt |-> journal.receipt]
       ELSE IF claim # None /\ claim.disposition = "uncommitted"
            THEN [variant |-> claim.variant, receipt |-> None]
       ELSE None

Balance == IF Planned THEN journal.receipt.after ELSE View.wallet
Version == IF Planned THEN journal.receipt.version + 1 ELSE View.state
Outcomes == [e \in Epochs |-> [k \in Keys |-> OutcomeOf(e, k)]]

Promise == INSTANCE GameActionPromise WITH
    balance <- Balance, version <- Version, epoch <- View.epoch.current,
    outcome <- Outcomes

(* Stages, recoveries, crashes, resets and rollbacks are invisible to        *)
(* callers: an action, and a reset, happens in one step or not at all.       *)
ImplementsPromise == Promise!Spec
===============================================================================
