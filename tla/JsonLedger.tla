------------------------------ MODULE JsonLedger ------------------------------
(***************************************************************************)
(* Money in the JSON storage provider (casino/core/storage/json_provider.py)*)
(*                                                                          *)
(* Every operation takes the provider lock, then the cross-process gate,    *)
(* and first recovers what an earlier operation left unfinished. So at most *)
(* one operation is under way over a data root; what is hard is that it may *)
(* die between any two of its durable writes. A keyed movement is written   *)
(*     1. to the action journal (fsync): from here on it is committed,      *)
(*     2. to players.json (atomic replacement),                             *)
(*     3. to ledger.jsonl (append),                                         *)
(*     4. to the action journal again: projected.                           *)
(* Whoever comes next finishes 2 to 4 for an action that has only 1. An     *)
(* unkeyed movement has 2 and 3 and no journal record. After enough journal *)
(* growth a checkpoint replaces the records of projected actions by         *)
(* references to their ledger rows.                                         *)
(*                                                                          *)
(* The journal is modelled by what replaying it yields: event and form.     *)
(* JsonLedger takes the replayed index to be current: how a process keeps   *)
(* it so from file offsets is a matter of its own.                          *)
(***************************************************************************)
EXTENDS LedgerEvents, Sequences, FiniteSets

CONSTANTS
    CompactAfter,   \* journal growth, in records, that triggers a checkpoint
    MaxEvents,      \* bound on the ledger events created
    MaxFailures     \* bound on crashes and failed writes

ASSUME BoundsAssumption ==
    CompactAfter \in Nat /\ MaxEvents \in Nat /\ MaxFailures \in Nat

VARIABLES
    balance,    \* players.json: the stored balance of each player
    ledger,     \* ledger.jsonl: the sequence of event rows
    event,      \* journal: the event committed under each identity, or None
    form,       \* journal: how far the records of each identity got
    blocked,    \* residue that makes every operation refuse
    pc,         \* the next step of the operation under way
    req,        \* the request it serves
    cur,        \* the event it created, or None
    grown,      \* journal growth since the checkpoint floor of this process
    lastId,     \* ids given to events so far
    failures,   \* crashes and failed writes so far
    acked,      \* history: the keyed events callers were answered with
    cut         \* history: players with an unkeyed movement left halfway

durable == <<balance, ledger, event, form, blocked>>
history == <<acked, cut>>
vars == <<balance, ledger, event, form, blocked, pc, req, cur, grown, lastId,
          failures, acked, cut>>

Forms == {"absent", "commit", "project", "settled"}

Steps == {"idle", "recover", "row", "mark", "compact", "publish", "answer",
          "plainRow"}

(* find_ledger_action and every other read or wallet operation that changes  *)
(* no balance recovers first, like the two movements.                        *)
Request ==
         [kind: {"once"}, player: Players, key: Keys, amount: Amounts]
    \cup [kind: {"plain"}, player: Players, key: {None}, amount: Amounts]
    \cup [kind: {"find"}, player: Players, key: Keys, amount: {0}]

NoRequest == [kind |-> "none"]

Pending == {i \in Identity : form[i] = "commit"}

(* The pending action recovery takes next: the lowest sequence. Sequences    *)
(* order keyed actions as their event ids do.                                *)
Oldest(i) ==
    /\ i \in Pending
    /\ \A j \in Pending : event[i].id <= event[j].id

Recorded(e) == \E n \in 1..Len(ledger) : ledger[n].id = e.id

------------------------------------------------------------------------------
Init ==
    /\ balance = [p \in Players |-> Opening]
    /\ ledger = <<>>
    /\ event = [i \in Identity |-> None]
    /\ form = [i \in Identity |-> "absent"]
    /\ blocked = "no"
    /\ pc = "idle"
    /\ req = NoRequest
    /\ cur = None
    /\ grown = 0
    /\ lastId = 0
    /\ failures = 0
    /\ acked = {}
    /\ cut = {}

(* A caller gets the lock and the gate, and the journal reads cleanly. *)
Start(r) ==
    /\ pc = "idle"
    /\ blocked = "no"
    /\ r.kind # "find" => lastId < MaxEvents
    /\ pc' = "recover"
    /\ req' = r
    /\ cur' = None
    /\ UNCHANGED <<durable, grown, lastId, failures, history>>

(* Mutants of the projection: the ledger is not consulted, a moved wallet is *)
(* taken for a divergent one, the movement is applied to whatever is there,  *)
(* the wallet is taken for moved.                                            *)
NeverProven(e) == FALSE
WalletUnmoved(e) == balance[e.player] = e.before
MovedAgain(e) == balance[e.player] + e.amount
NotMoved(e) == balance[e.player]

(* What projection asks of a committed event: is it already in the ledger,   *)
(* does its wallet hold the balance before or after it, and which balance    *)
(* does its wallet then get.                                                 *)
ProvenProjected(e) == Recorded(e)
WalletExplained(e) == balance[e.player] \in {e.before, e.after}
ProjectedBalance(e) == e.after

(* _project_committed_action for the oldest pending action: a row already   *)
(* in the ledger proves it projected; else its wallet moves unless it has   *)
(* already. A balance that is neither before nor after stops recovery.      *)
ProjectWallet ==
    /\ pc = "recover"
    /\ \E i \in Identity :
          LET e == event[i] IN
          /\ Oldest(i)
          /\ \/ /\ ProvenProjected(e)
                /\ pc' = "mark"
                /\ UNCHANGED balance
             \/ /\ ~ProvenProjected(e)
                /\ WalletExplained(e)
                /\ balance' = [balance EXCEPT ![e.player] = ProjectedBalance(e)]
                /\ pc' = "row"
    /\ UNCHANGED <<ledger, event, form, blocked, req, cur, grown, lastId,
                   failures, history>>

(* ... and its row is appended to the ledger. *)
ProjectRow ==
    /\ pc = "row"
    /\ \E i \in Identity :
          /\ Oldest(i)
          /\ ledger' = Append(ledger, event[i])
    /\ pc' = "mark"
    /\ UNCHANGED <<balance, event, form, blocked, req, cur, grown, lastId,
                   failures, history>>

(* The journal records that the action is projected. *)
MarkProjected ==
    /\ pc = "mark"
    /\ \E i \in Identity :
          /\ Oldest(i)
          /\ form' = [form EXCEPT ![i] = "project"]
    /\ grown' = grown + 1
    /\ pc' = "recover"
    /\ UNCHANGED <<balance, ledger, event, blocked, req, cur, lastId, failures,
                   history>>

(* Mutant: operations go ahead of recovery. *)
PendingIgnored == TRUE

(* Nothing is pending: checkpoint the journal if it grew enough. *)
NothingPending == Pending = {}

Drained ==
    /\ pc = "recover"
    /\ NothingPending
    /\ pc' = IF grown >= CompactAfter THEN "compact" ELSE "answer"
    /\ UNCHANGED <<durable, req, cur, grown, lastId, failures, history>>

(* The checkpoint is written beside the journal ... *)
CompactWrite ==
    /\ pc = "compact"
    /\ blocked' = "temporary"
    /\ pc' = "publish"
    /\ UNCHANGED <<balance, ledger, event, form, req, cur, grown, lastId,
                   failures, history>>

(* ... and replaces it. Projected actions are now ledger references. *)
CompactPublish ==
    /\ pc = "publish"
    /\ blocked' = "no"
    /\ form' = [i \in Identity |->
                  IF form[i] = "project" THEN "settled" ELSE form[i]]
    /\ grown' = 0
    /\ pc' = "answer"
    /\ UNCHANGED <<balance, ledger, event, req, cur, lastId, failures, history>>

------------------------------------------------------------------------------
(* The operation ends. *)
Return ==
    /\ pc' = "idle"
    /\ req' = NoRequest
    /\ cur' = None

Committed(i) == event[i] # None

NewEvent(key) ==
    [id     |-> lastId + 1,
     player |-> req.player,
     key    |-> key,
     amount |-> req.amount,
     before |-> balance[req.player],
     after  |-> balance[req.player] + req.amount]

(* Mutant: the identity is not looked up. *)
AnyAction == req.kind = "once"

(* transact_ledger_once: a new identity with enough funds is committed. Its  *)
(* projection is the recovery loop's: nothing else is pending.               *)
NewAction == req.kind = "once" /\ ~Committed(<<req.player, req.key>>)
EnoughFunds == balance[req.player] + req.amount >= 0

MayCommit == pc = "answer" /\ NewAction /\ EnoughFunds

CommitAction ==
    LET i == <<req.player, req.key>> IN
    /\ MayCommit
    /\ event' = [event EXCEPT ![i] = NewEvent(req.key)]
    /\ form' = [form EXCEPT ![i] = "commit"]
    /\ cur' = NewEvent(req.key)
    /\ lastId' = lastId + 1
    /\ grown' = grown + 1
    /\ pc' = "recover"
    /\ UNCHANGED <<balance, ledger, blocked, req, failures, history>>

(* The event is answered: the new one, the one a retry replays when its     *)
(* fingerprint is the committed one, or the one find_ledger_action finds.   *)
AnswerEvent ==
    LET i == <<req.player, req.key>> IN
    /\ pc = "answer"
    /\ req.kind \in {"once", "find"}
    /\ Committed(i)
    /\ req.kind = "once" => event[i].amount = req.amount
    /\ acked' = acked \cup {event[i]}
    /\ Return
    /\ UNCHANGED <<durable, grown, lastId, failures, cut>>

(* Changed reuse of a key, insufficient funds, or nothing found. *)
Refuse ==
    LET i == <<req.player, req.key>> IN
    /\ pc = "answer"
    /\ \/ req.kind = "once" /\ Committed(i) /\ event[i].amount # req.amount
       \/ NewAction /\ ~EnoughFunds
       \/ req.kind = "plain" /\ ~EnoughFunds
       \/ req.kind = "find" /\ ~Committed(i)
    /\ Return
    /\ UNCHANGED <<durable, grown, lastId, failures, history>>

(* transact_ledger: the wallet is saved with no journal record ... *)
PlainSave ==
    /\ pc = "answer"
    /\ req.kind = "plain"
    /\ EnoughFunds
    /\ cur' = NewEvent(None)
    /\ balance' = [balance EXCEPT ![req.player] = @ + req.amount]
    /\ lastId' = lastId + 1
    /\ pc' = "plainRow"
    /\ UNCHANGED <<ledger, event, form, blocked, req, grown, failures, history>>

(* ... and then the row is appended. *)
PlainRow ==
    /\ pc = "plainRow"
    /\ ledger' = Append(ledger, cur)
    /\ Return
    /\ UNCHANGED <<balance, event, form, blocked, grown, lastId, failures,
                   history>>

------------------------------------------------------------------------------
(* The operation dies. What was durable stays; an unkeyed movement that had  *)
(* saved its wallet loses its row.                                           *)
Die ==
    /\ pc # "idle"
    /\ failures < MaxFailures
    /\ failures' = failures + 1
    /\ cut' = IF pc = "plainRow" THEN cut \cup {cur.player} ELSE cut
    /\ Return
    /\ UNCHANGED <<balance, ledger, event, form, lastId, acked>>

(* The process is killed; the next one takes the journal it finds as its     *)
(* checkpoint floor.                                                         *)
Crash == Die /\ grown' = 0 /\ UNCHANGED blocked

(* A write fails and the exception reaches the caller. *)
WriteFails == Die /\ UNCHANGED <<grown, blocked>>

(* A journal append stops partway: the record counts for nothing, and its    *)
(* unterminated bytes are there for every later reader to stop at.           *)
TearJournal ==
    /\ pc = "mark" \/ MayCommit
    /\ Die
    /\ blocked' = "torn"
    /\ UNCHANGED grown

Step ==
    \/ ProjectWallet \/ ProjectRow \/ MarkProjected \/ Drained
    \/ CompactWrite \/ CompactPublish
    \/ CommitAction \/ AnswerEvent \/ Refuse \/ PlainSave \/ PlainRow

Next ==
    \/ \E r \in Request : Start(r)
    \/ Step
    \/ Crash \/ WriteFails \/ TearJournal

Spec == Init /\ [][Next]_vars

(* A thread that holds the gate runs, and requests keep arriving: the shell  *)
(* polls its wallet, and bootstrap_players runs at every start.              *)
FairSpec ==
    /\ Spec
    /\ WF_vars(Step)
    /\ WF_vars(\E r \in Request : Start(r))

------------------------------------------------------------------------------
(* Types of the state. *)
TypeOK ==
    /\ balance \in [Players -> Nat]
    /\ ledger \in Seq(Event)
    /\ event \in [Identity -> Event \cup {None}]
    /\ form \in [Identity -> Forms]
    /\ blocked \in {"no", "temporary", "torn"}
    /\ pc \in Steps
    /\ req \in Request \cup {NoRequest}
    /\ cur \in Event \cup {None}
    /\ grown \in Nat
    /\ lastId \in Nat
    /\ failures \in Nat
    /\ acked \subseteq Event
    /\ cut \subseteq Players

(* A committed action reaches the ledger exactly once, whoever projects it   *)
(* and however often its projection is cut short: no two rows record the     *)
(* same event, every keyed row is the event its identity is committed to,    *)
(* and what the journal calls projected is in the ledger, where a checkpoint *)
(* reference will look for it (_project_committed_action and the settled     *)
(* branch of _apply_action_journal_record).                                  *)
ExactlyOneRow ==
    /\ \A m, n \in 1..Len(ledger) : ledger[m].id = ledger[n].id => m = n
    /\ \A n \in 1..Len(ledger) :
          ledger[n].key # None =>
              event[<<ledger[n].player, ledger[n].key>>] = ledger[n]
    /\ \A i \in Identity : form[i] \in {"project", "settled"} => Recorded(event[i])

(* Recovery never meets a wallet it cannot explain: at most one action is    *)
(* pending, and its wallet holds the balance before it or after it, even     *)
(* when unkeyed movements and other keys came between the crash and the      *)
(* recovery (the divergent-wallet ConflictError of _project_committed_action *)
(* is out of reach).                                                         *)
RecoveryNeverDiverges ==
    /\ \A i, j \in Pending : i = j
    /\ \A i \in Pending : balance[event[i].player] \in {event[i].before, event[i].after}

(* The last word of a ledger on player p is balance b: the balance after its *)
(* last row, or the opening balance when it has none.                        *)
Books(rows, p, b) ==
    \/ \E n \in 1..Len(rows) :
          /\ rows[n].player = p
          /\ rows[n].after = b
          /\ \A k \in (n + 1)..Len(rows) : rows[k].player # p
    \/ /\ \A n \in 1..Len(rows) : rows[n].player # p
       /\ b = Opening

(* The ledger accounts for every cent of a wallet whenever no operation is   *)
(* under way and nothing is pending. It is promised for wallets whose        *)
(* unkeyed movements (transact_ledger) were never cut between the wallet and *)
(* the row, whatever was cut of their keyed ones: an unkeyed movement has no *)
(* journal record, and is not "recovered rather than lost" (ARCHITECTURE.md).*)
LedgerAccountsForWallets ==
    pc = "idle" /\ Pending = {} => \A p \in Players \ cut : Books(ledger, p, balance[p])

(* An answer survives: once a caller is given a keyed event, that event is   *)
(* the committed one for good and its row is in the ledger, through every    *)
(* later crash and checkpoint.                                               *)
AnswersAreDurable ==
    \A e \in acked : event[<<e.player, e.key>>] = e /\ Recorded(e)

(* An action committed before a crash is projected as long as requests keep  *)
(* coming, unless residue of a torn write stops the provider for an operator.*)
PendingIsProjected ==
    \A i \in Identity :
        form[i] = "commit" ~> (form[i] \in {"project", "settled"} \/ blocked # "no")

------------------------------------------------------------------------------
(* The wallets callers can count on: a committed action has moved its wallet *)
(* from the moment its journal record is durable.                            *)
Wallet ==
    [p \in Players |->
        IF \E i \in Pending : i[1] = p
        THEN event[CHOOSE i \in Pending : i[1] = p].after
        ELSE balance[p]]

Promise == INSTANCE ExactlyOnceLedger
           WITH wallet <- Wallet, action <- event, answered <- acked

(* The provider's journal, projections, recoveries, checkpoints and crashes  *)
(* are invisible to callers: it implements the abstract ledger, in which a   *)
(* keyed movement happens in one step and at most once.                      *)
ImplementsPromise == Promise!Spec
==============================================================================
