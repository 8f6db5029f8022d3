# Virtual casino: TLA+ models and proofs

A virtual casino serves play-money games to accounts and guests. Its server
(`casino/`) keeps wallets, an audit ledger, game state, sessions and identities
behind one storage interface, by default in plain JSON files that several
processes may share. What is hard in this code is not the games but what ties
their steps together: a request makes several durable writes in different files,
the process can die between any two, the client or another process sends the
same request again, and other requests run in between. With MySQL or PostgreSQL
behind the interface the steps are transactions, and the hard part moves to their
locks, their lost commits and the pool of connections. The modules here model
those steps, TLC checks them on small instances, and TLAPS proves the most
important invariants for every instance.

Paths below are relative to the repository's root.

## 1. The system

| Part | State it keeps | Operations | Talks to |
|---|---|---|---|
| JSON wallet ledger (`casino/core/storage/json_provider.py`, `json_infrastructure.py`) | `players.json`, `ledger.jsonl`, the action journal and its checkpoint | `transact_ledger`, `transact_ledger_once`, `find_ledger_action`, recovery and compaction inside each | everything that moves money; one thread lock and one cross-process file gate per data root |
| Its journal cache (`_read_actions_registry`) | per process: index, byte offset, file stat | tail read, reread, drop after compaction | other processes, only through the files |
| Game action boundary (`casino/core/game_action.py`, `game_actions_json.py`) | epoch, claims, receipts, staged journal, game states | `execute_game_action_once`, `resolve_game_action`, recovery | wallets and ledger rows directly; the planner is a callback of the game |
| Reset (`storage/reset.py`) | a backup directory | `reset_transaction`: backup, erase, keep past receipts and claims, advance epoch, bootstrap, roll back | all files of the data root |
| JSON sessions (`sessions_json.py`, `sessions.py`) | one file per bearer token | create with eviction, rotate, touch, revoke, delete | authentication (`auth.py`) |
| Simple wager games (`simple_game.py`, `settlement.py`) | recent rounds of each player's game | `play` | keyed ledger movements; game state updates; process-local player lock |
| Guest trials (`auth.py`, `guest_conversion.py`, `guest_analytics.py`) | the guest's status in the users document | teardown, expiry sweep, conversion to an account | sessions, autoplay, ledger, players, analytics, each another transaction |
| Casino War (`games/casino_war/`) | rounds, requests and recorded movements in the player's game document | deal, surrender, go to war, look at the table; each prepares, reconciles with the ledger, and may roll back | keyed ledger movements; game document updates; process-local player lock |
| Blackjack (`games/blackjack/`) | rules, rounds and one prepared action in the player's game document | deal, hit, stand, double, split, insurance, surrender, even money, settings; each first finishes what it finds unfinished | the same |
| Staged tables (`games/hi_lo/`, `pai_gow_poker/`, `double_bonus_video_poker/`, `joker_poker/`, `four_card_poker/`, `casino_holdem/`, `teen_patti/`, `mississippi_stud/`, `acey_deucey/`, `plinko/`, `andar_bahar/`, `caribbean_stud/`, `jacks_or_better_video_poker/`, `deuces_wild_video_poker/`) | active and recent rounds, receipts of actions, in the player's game document | start, decide, hold cards, look at the table; each first repairs, then publishes and moves money in turns, and may undo | the same |
| Autoplay registry (`autoplay.py`) | at most 200 autoplay sessions | start, tick, stop | process-local lock only |
| Connection pool (`mysql_pool.py`, its twin `postgres_pool.py`) | idle connections, slots in use, the process it was made in | acquire, health check, open, lease and return, `close_all`, reset after a fork | request threads, through one condition variable; the database's sockets |
| SQL provider (`mysql_provider.py`, `game_actions_mysql.py`, and the PostgreSQL twins) | the same data as tables: epoch, wallets, claims, receipts | the same, one transaction each; a reset is two, with a bootstrap between them | the database: row locks, lost commit answers, refused waits |
| One-time tokens (`one_time_tokens.py`) | one document of hashed bearers | issue, reissue, candidate, promote, discard, authorize, consume, revoke | enrollment, invitations, mail links |
| Mailbox identity (`auth.py`, `players.py`) | reservation of a mailbox, account and player | reserve, release, provision, activate | enrollment, invitations, ledger |
| Verified-email enrollment (`pending_enrollment.py`) | one row per signup | initiate, resend, cancel, verify, delivery and its repair | tokens, mailbox identity, mail |
| Invitations (`invitations.py`) | one row per invitation | create, resend, revoke, redeem, delivery | tokens, mailbox identity, mail |
| Policies and settings, password reset, challenges, feedback, replay, OAuth, bots, the other games, clients, deployment | documents read and updated one at a time, or no state | | |

Hard behaviours, and where they are:

* **Crash between two durable writes**: ledger journal, wallet, row; game action
  stages; reset; session rotation and eviction; a round between stake and
  return; a prepared hand of Casino War; a debit of Blackjack and its marker; every step of teardown, conversion,
  enrollment and invitation; a lost commit answer, and the two halves of a SQL reset.
* **Retries**: by the client after a lost answer (keyed movements, game actions,
  rounds, verifications, redemptions), by sweeps (teardown), by the provider
  (recovery), by another worker after a timeout (takeover of a claim).
* **Interleaving**: operations of the JSON provider exclude each other, but a
  request is several operations, and processes share nothing but the files.
* **Staleness**: a journal offset, a balance, a session row, a round, a token row
  or a list of overdue guests used after it was read; a pool after a fork.
* **Waiting**: threads asleep for a connection; transactions behind row locks.
* **Limits**: session caps, connections, recent rounds, balances that JSON numbers cannot hold
  to the cent.

What makes each part correct:

* Ledger: a keyed movement happens exactly once and its answer is final; recovery
  always succeeds; the rows explain the wallet; reads see every committed action.
* Game actions: all or nothing; one final outcome per key and epoch, also across a
  reset; a decided plan takes effect; half-erased data is never served.
* Sessions: revoked is final; one winner per rotation; caps hold and evict only
  what they must.
* Rounds: retries tell the same round; what is shown was paid.
* Casino War: the ledger holds the movements of the rounds, stakes before payouts;
  an answered round stays; what was prepared is finished or undone.
* Blackjack: the ledger holds the bets and the returns of the hands, each once; a
  prepared debit or a decided round is finished.
* Staged tables: every movement is made once and belongs to a round; what is marked as
  paid is paid; a round that is over stays as it was decided; the table is freed.
* Trials: ended or adopted, never both; a claimed teardown ends.
* Pool: capacity; one user per database session, forks included; no lost wake-up.
* SQL provider: the same promise as the JSON one; a ready epoch is whole; a
  pending key is resolved in the end.
* Enrollment and invitations: one account per mailbox, made only by who held a
  mailed bearer; one bearer at a time; a cancelled signup is dead; a consumed
  bearer leads to an active, funded account.

The hazards, each with the line where it bites and the properties aimed at it,
are listed in `PROJECT.json`.

## 2. The modules

```
ExactlyOnceLedger   the promise of a keyed ledger            (abstract)
  ^ implemented by
JsonLedger          journal, wallet, row, checkpoint, crash  <- LedgerEvents
  ^ proofs: LedgerProofs
JsonJournalCache    two processes' cached view of the journal of JsonLedger

GameActionPromise   one-step game actions and resets         (abstract)
  ^ implemented by
JsonGameAction      stages, recovery, resolve, reset         <- GameActions
  ^ proofs: JsonGameActionProofs
SqlGameAction       transactions, row locks, lost commits    <- GameActions
  ^ proofs: SqlGameActionProofs
StorageProviders    the one of the two that serves

ConnectionPool      threads, connections, forks
  ^ proofs: ConnectionPoolProofs

JsonSessions        session files, rotation, eviction, requests in flight
  ^ proofs: JsonSessionsProofs

SimpleWager         rounds of one player over the keyed ledger
  ^ extended by
GuestTrial          teardown and conversion around those rounds
  ^ proofs: GuestTrialProofs

CasinoWar           hands in stages over the keyed ledger
  ^ proofs: TableProofs

Blackjack           rounds with prepared debits over the keyed ledger
  ^ proofs: LedgerProofs

StagedTables        fourteen tables of one protocol over the keyed ledger
  ^ proofs: TableProofs

OneTimeTokens       the bearers of one mailbox
  ^ extended by
MailboxIdentity     its reservation, account and player
  ^ extended by
EmailEnrollment, Invitations
  ^ composed by
Onboarding          workers, clients, mail, time, deaths
  ^ proofs: OnboardingProofs
```

`LedgerEvents` and `GameActions` hold the shared data: events, plans, receipts.
`MC*` modules only define bounded constants and symmetry.

**Levels.** `SimpleWager`, `GuestTrial`, `CasinoWar`, `Blackjack` and `StagedTables` take a keyed movement as
one step, as `ExactlyOnceLedger` does; that the JSON files justify this is what
`ImplementsPromise` of `JsonLedger` says. `JsonGameAction` takes other wallet
movements as one step for the same reason. One promise, `GameActionPromise`, is
implemented by both providers, so what is built on game actions need not know
which one it runs on.

### JsonLedger

An operation holds the provider lock and the gate for its whole duration, so the
state has one `pc` and one request; `Crash`, `WriteFails` and `TearJournal` can
end it between any two durable writes. `event` and `form` are what replaying
the journal yields (`absent`, `commit`, `project`, `settled` = replaced by a
checkpoint reference). `blocked` is residue that stops every later operation until
an operator removes it: a torn journal line, or the temporary file of a checkpoint
that was cut (the code fails closed on both, and
`tests/storage_ledger_cache_tests.py` says so of the second), which is why
`PendingIsProjected` excepts it.
`Start`..`Drained` is the recovery that every operation runs first;
`CommitAction` is the journal append; `ProjectWallet`, `ProjectRow`,
`MarkProjected` the projection; `CompactWrite`, `CompactPublish` the checkpoint;
`PlainSave`, `PlainRow` the unkeyed movement. `acked` and `cut` are history.

### JsonJournalCache

Files as sequences of records with a size in bytes, so that an offset can land in
the middle of a record. Each operation is one step: its inner crashes belong to
`JsonLedger`. It has a violation run only (see Findings), which reaches it within
two processes and four keys.

### JsonGameAction

One operation holds the gate. The journal has the six stages of the code; each
stage's effect and each record of the next stage is a step of its own. `rows`,
`state`, `claims`, `receipts`, `epoch` are files; `wallet` becomes `None` while a
reset has erased it. `told` is the history of outcomes given to callers. Where
the code raises "requires operator recovery" the model has no step, so getting
stuck there shows as a violated liveness property or invariant, not as silence.

### JsonSessions

An operation knows which files it still changes, `now` and, once these are done, `after`.
It changes one file at a time (`ChangeFile`), then answers (`Reply`), or is cut (`Cut`). A request
authenticates in one operation and acts in a later one (`pending`), so what it
read may be stale. `given` is every credential a client ever received, `revoked`
every session whose revocation was acknowledged.

### SimpleWager and GuestTrial

A worker is a process, playing at most one round of the player at a time (the
player lock is local to a process). `play` walks `load`, `wager`, `settle`,
`publish`; `task` walks the steps of `end_guest_trial` or `convert`. The guest's
`status` is the only thing that ties teardown and adoption together.
`StartTeardown` may happen at any time: the guest may leave, and a sweep's list of
overdue guests may be old. Without an account, a request is accepted only with
the guest's session and an active trial, and asks no more after that, which is
what lets a round outlive its trial.

### CasinoWar

A worker is a process that serves one request of the player. `Prepared` publishes
a round with all the movements its result asks for (`Intents`); `FindAction`,
`Transact` and `MarkCommitted` are one turn of the loop in `_reconcile_round`,
`Settle` its end. `recorded` is what the worker last read of the recorded
movements, `round` the object it goes on using however the document changes. An
error sends the worker that prepared the round to `Classify` and
`RollbackPrepared`; other errors and deaths just end the request. `LoadState` is
the look at the table that recovers. Cards are reduced to results. `archive`,
`told`, `contested` and `found` are history. The lifecycle of a prepared hand in
Red Dog, Let It Ride and others is a variation of this one.

### Blackjack

A request walks from `LoadMutationState` through what it finds unfinished to its own
move: `CommitRoundTransition` for one without cost, `PrepareMoneyTransition` for one
with a debit, which publishes the new round with a marker (`doc.pending`).
`SettlePreparedAction`, `Complete`, `Classify` and `RollbackPreparedAction` are
`settle_prepared_action`; `PayHand` and `Finalize` are `finish_if_needed`, run for the
round that the worker holds while the document may have moved on. `FinishIfNeeded`
chooses the next of these, whoever calls it. A hand is reduced to what a rule asks of it:
a natural, two aces, a pair, any two cards, or more. The cards drawn and the
dealer's total are chosen freely, also when a rollback puts the shoe back, so the model
allows more outcomes than one shoe does. `claims`, `contested` and `reopened` are
history.

### StagedTables

Fourteen services written after one pattern, each with its own deviations, which are
where they go wrong; so one module, with the protocol once and the rest per `table`:
the ledger keys of its movements, what its `_recover` repairs, what its start and its
decision ask before they accept. A request holds the document as it changed it (`state`)
and as it last saw it (`base`), and a `plan` of the publications and movements left.
`Save` replaces the document if it is still `base` (the comparison of the store),
`Move` makes a movement under its key, which the settlement gateway answers with what was
committed when it comes again (`Outstanding`), also for Jacks or Better and Deuces Wild, whose
services look for the movement before they call it. `Raised` is the `except` clause that publishes
`undo.state`. Cards are reduced to whether the hand pays. A look into the ledger is taken together
with the read or write before it, which loses no outcome, as rows are only added. A document
refused because its time stamps differ is a choice of `Refuse`. Caribbean Stud marks an attempt
before it makes it and, as `docs/games/caribbean_stud.md:34` says, leaves an uncertain one to an
operator. `contested` and `overwritten` are history.

### StorageProviders

`BuildProvider` is the choice that the configuration makes at the first request; from
then on that provider alone takes steps. The module extends `SqlGameAction` and
instantiates `JsonGameAction` beside it. `OutcomesAreReached` is the liveness that both
owe the games above them, each under its own fairness.

### ConnectionPool

One action per critical section of the pool's condition, and one for each thing a
thread does outside it: the health check, opening, closing, using a lease. `total`
counts slots, including those reserved for an open under way; `left` and
`inherited` follow what a fork or a `close_all` makes of leases that are still
out. `os` is the running process, `pid` the one the pool thinks it is in. A
wake-up is a step of its own, so that it can be taken by another thread or by the
deadline.

### SqlGameAction

A session is a database connection with at most one transaction: `at` is its next
statement, and the locks it holds are defined from it (`SharesEpoch` and its like),
as `SELECT ... FOR UPDATE` and `FOR SHARE` make them. A commit may be in flight when the
session is gone (`gone`): its transaction then ends as the database decides, while
the caller already resolves. A lock wait may be refused. `resolve` asks again; its
wait for the orphan's locks is where liveness lies. Two variants of a request under
one key stand for conflicting reuse.

### OneTimeTokens, MailboxIdentity, EmailEnrollment, Invitations, Onboarding

One mailbox, for everything that can go wrong is about one. The first two hold the
documents and what an update does to them; the next two the flows, one action per
document update, with workers that may die between updates (`job`: where each is); `Onboarding`
puts two workers, two clients with their own idempotency keys, mail that may be
lost and time together. Histories record who was mailed which bearer, and what
was answered.

## 3. What is checked

| Run | Instance | Distinct states | Shows |
|---|---|---|---|
| `JsonLedger` | 2 wallets, 2 keys, amounts ±1, 3 events, 2 failures, checkpoint after 3 records | 718 000 | all ledger properties and refinement of `ExactlyOnceLedger` |
| `JsonGameAction` | 2 wallets, 2 keys in 2 variants, a three-movement plan, 2 epochs, 1 other movement, 2 failures | 674 000 | all safety of game actions and resets, refinement of `GameActionPromise` |
| `JsonSessions` | 2 accounts, 3 sessions, 4 tokens, 2 requests, limits of 2, 1 cut | 643 000 | revocation, rotation, limits, eviction |
| `GuestTrial` | 2 rounds, 2 workers, stakes 1 and 2, returns of 0 and twice the stake, 1 recent round, 2 crashes | 652 000 | rounds, teardown and conversion, with liveness |
| `CasinoWar` | 2 processes, 2 action ids, 2 rounds, a history of 1, opening balance of one stake, 1 other movement, 1 failing call or death | 690 000 | money against rounds, recovery and rollback, with liveness |
| `ConnectionPool` | 3 threads on 2 connections, 4 sockets, 1 fork, `close_all` | 238 000 | capacity, exclusive use, wake-ups, and that every checkout ends |
| `Blackjack` | 2 workers, 4 opening deals, 2 table rules (up to 2 hands, with doubles after a split and surrender; up to 3 hands without), 1 round, a balance of 3 stakes, an insurance, 1 failing call or death | 742 000 | bets and returns against hands, with liveness |
| `StagedTables` | each of 14 tables: 2 processes, 2 or 3 action ids, 1 or 2 rounds, 2 streets, balances short of a stake and not, 1 failing call or death | 766 000 | money against rounds, final results, repair, with liveness |
| `StorageProviders` | SQL: 2 sessions, 1 key in 2 variants, 2 wallets, 2 epochs, 1 other movement; JSON: 1 key in 2 variants, a three-movement plan, 2 failures, 1 reset under way | 175 000 | refinement of `GameActionPromise` by SQL, whole resets, and the liveness of both |
| `Onboarding` | 2 workers, 2 clients, 1 mailbox, five histories from signup to reclaimed invitation | 526 000 | accounts, bearers and cancellations, with liveness |
| `JsonJournalCache`, `JsonSessionsCutRotation` | smaller or equal | | one documented claim each that the code does not keep (Findings) |

Properties, by what they say of the code:

* `ExactlyOneRow`, `AnswersAreDurable`, `RecoveryNeverDiverges`,
  `LedgerAccountsForWallets`, `PendingIsProjected`, `ImplementsPromise`
  (JsonLedger): the journal keeps a keyed movement exactly once through crashes
  at any write, and the balance after the last row is the wallet.
* `AllOrNothing`, `RecoveryNeverDiverges`,
  `LedgerAccountsForWallets`, `OnlyWholeDataIsServed`, `ImplementsPromise`
  (JsonGameAction): no outcome told to a caller is ever contradicted, across
  retries, resolvers and a reset.
* `RevokedStaysOut`, `OneWinner`, `LimitsHold`, `LoginsCoexist` (JsonSessions).
* `OneOutcome`, `PublishedIsPaid`, `WalletMatchesRounds` (SimpleWager, inside
  GuestTrial): retries after a crash, in two processes and after the round fell
  out of the recent rounds.
* `AdoptedIsSpared`, `TeardownEndsOrIsLate` (GuestTrial).
* `MoneyMatchesRounds` (CasinoWar): every row is a movement some round asks for, a
  settled round has all of its own, payouts follow their stakes, and a round that
  was answered stays. Exempt are rounds whose preparation is rolled back while
  another worker settles it (Divergences). `PreparedIsFinished`: unless the wallet
  stays too short for a stake, the looks at the table finish what was prepared.
* `CapacityIsKept`, `OneUserPerSession`, `NoLostWakeup`, `EveryCheckoutEnds`
  (ConnectionPool): through failing opens, unhealthy connections, deadlines,
  `close_all` and a fork.
* `MoneyMatchesHands` (Blackjack): the stakes debited for a round are its bets, except
  for a hand that was split twice (Findings); a return is in the ledger only as it was
  decided, and a settled round has all of its own; no row is left of a round that is
  gone; a hand's history is claimed once. `TableIsFreed`: nothing prepared or decided
  stays so.
* `MoneyMatchesTables` (StagedTables): every row was made once and belongs to a round the
  document knows, what is marked complete is in the ledger, and a payout comes after all
  stakes of its round; except for `contested` and `overwritten` stakes (Findings,
  Divergences). `TerminalIsFinal`: no replay, repair or undoing changes a round that is
  over. `TablesAreFreed`: what a request left pending is confirmed, undone or paid later,
  at the tables whose repair does not wait for somebody.
* `ReadyIsWhole`, `ImplementsPromise` (SqlGameAction, run by StorageProviders): the
  promise of the JSON provider, kept with locks and transactions instead.
* `OutcomesAreReached` (StorageProviders): a SQL resolver that keeps asking is answered
  (`ResolverIsAnswered`), and JSON recovery carries a plan in the journal to its
  receipt (`PlannedIsCommitted`).
* `AccountsAreProved`, `BearerHandover`, `CancelledIsDead`, `ConsumedIsFinished`
  (Onboarding).

The types of `JsonLedger`, `SqlGameAction`, `GuestTrial`, `ConnectionPool`, `JsonSessions`,
`JsonGameAction` and `CasinoWar` are proved, and not repeated in their runs; that answers are final is part of `GameActionPromise`.

**Bounds.** Two of everything is the least that makes the cases meet: two
failures let a recovery itself be interrupted; two keys let a pending action be
recovered by an operation on another key; two wallets let a plan be half applied;
a checkpoint after three records happens in the middle of a run; two epochs are
one reset; three sessions over a limit of two evict, with a fourth token for a
rotation; one recent round makes the second round push the first out; two
workers are two processes on one request, or a round against a teardown. In
`CasinoWar` a history of one makes the second round prune the first, and its
rollback restore it; an opening balance of one stake makes the war wager, or the
second round, unaffordable unless the other movement (a win elsewhere) comes first.
In `Blackjack` a pair that is split, and split again, makes three hands, and three
stakes do not pay for a fourth bet, so that a double or a split is refused by the wallet
and rolled back; a natural under an Ace meets insurance and even money, a dealer's
blackjack and a natural end the deal. One round is enough, as a second can be dealt only
when the first is settled.
In `StagedTables` two action ids are a start and a decision, and the third one more street,
or a start after the first round was taken back; a balance of one stake pays the start and
not the raise, or the first of two starts. Where a second round adds a collision of
keys or of recent rounds (Hi-Lo, Plinko, Andar Bahar) two are dealt.
Three threads on two connections are the least that makes one wait while another
is woken; the fourth socket replaces one that was unhealthy or inherited. Two
database sessions are a first caller and whoever retries or resolves; one key is
enough because its variants conflict and its wallets are shared. `Onboarding` runs
five histories rather than one large one: `deliveries`, `signups`, `invites` and
`claims` bound the mails sent and the requests begun, and each history lets one pair
of flows meet (a signup with a resend, a second signup after the first, an
invitation with a resend, one claimed again, a signup with an invitation).

`MaxEvents`, `MaxMoves`, `MaxActions`, `MaxDeals`, `MaxFailures`, `MaxTime`, `MaxCrashes`, `MaxRounds`, `MaxIds`
and `MaxEpoch`, the finite set `Conn` of sockets and the counts in `Histories` are the
only bounds in guards (`MaxEpoch` stands for the code's own largest epoch). Runs
that stop at such a bound turn the deadlock check off; `GuestTrial` and
`ConnectionPool` keep it on, since somebody can always start a task or return a
connection.

**Fairness.** `JsonLedger` and `JsonGameAction`: weak fairness of the step of the
operation that holds the gate (a thread runs on, or dies, which is a step of the
model) and of some request arriving, since the shell polls the wallet and
start-up bootstraps players. `GuestTrial`: weak fairness of each worker's rounds
and tasks, and of a teardown being started while the trial is `ending`, which
`expire_overdue_guests` does: every new trial and every assisted conversion calls
it first. `CasinoWar`: weak fairness of the workers' steps together (some worker that is alive
goes on; another may hang for ever), and strong fairness of a look at the table, which the
client takes whenever it shows the game and before it plays. `StagedTables`: the same.
`Blackjack`: the same, the look being any request, for a request the table
refuses loads and finishes first as well. `ConnectionPool`: threads inside `acquire` run on, their deadlines pass and an
open ends, one way or the other; nothing is assumed of who holds a connection.
`SqlGameAction`: a session's next statement runs unless it is blocked; the database
ends the transaction of a lost session, and refuses a wait that lasts too long; the
caller asks to resolve again and again. It also supposes `Calm`: in the end sessions are
neither lost nor fail unasked, and no request but `resolve` comes, so what is shown is
that a resolver outlasts what a lost execution left behind, not a busy server. `Onboarding`: a request whose worker lives goes on, the
holder of a consumed bearer asks again under its key, and workers stop dying.
Crashes are never required, and no other fairness is assumed of players or clients.
`JsonSessions` states safety only.

## 4. What is proved

TLAPS proves these for every value of the constants under their named
assumptions (bounds are naturals, stakes positive, `None` is no number and no
record); TLC evaluates those assumptions on the instances above.

| Theorem | States |
|---|---|
| `LedgerProofs!TypeCorrect` | `Spec => []TypeOK` |
| `LedgerProofs!ProjectsExactlyOnce` | `Spec => []ExactlyOneRow` |
| `LedgerProofs!RecoveryAlwaysPossible` | `Spec => []RecoveryNeverDiverges` |
| `LedgerProofs!AnswersSurvive` | `Spec => []AnswersAreDurable` |
| `LedgerProofs!LedgerAccounts` | `Spec => []LedgerAccountsForWallets` |
| `LedgerProofs!Refinement` | `Spec => ImplementsPromise` |
| `LedgerProofs!BlackjackTypes` | `B!Spec => []B!TypeOK`, for `B` the module `Blackjack` |
| `LedgerProofs!BlackjackMoney` | `B!Spec => []B!MoneyMatchesHands` |
| `GuestTrialProofs!TrialTypes` | `Spec => []TypeOK` |
| `GuestTrialProofs!RoundsArePaid` | `Spec => []PublishedIsPaid` |
| `GuestTrialProofs!RetriesAgree` | `Spec => []OneOutcome` |
| `GuestTrialProofs!AdoptionIsSafe` | `Spec => []AdoptedIsSpared` |
| `GuestTrialProofs!WalletIsAccounted` | `Spec => []WalletMatchesRounds` |
| `TableProofs!PayoutsFollowStakes` | `Spec => []StakesComeFirst`, a part of `MoneyMatchesRounds` |
| `TableProofs!CasinoWarTypes` | `Spec => []TypeOK` |
| `TableProofs!MoneyMatches` | `Spec => []MoneyMatchesRounds` |
| `TableProofs!DecidedRoundsStay` | `T!Spec => T!TerminalIsFinal`, for `T` the module `StagedTables` |
| `TableProofs!MarksMatchLedger` | `T!Spec => []T!MarksAreBacked`, a part of `MoneyMatchesTables` |
| `JsonSessionsProofs!SessionTypes` | `Spec => []TypeOK` |
| `JsonSessionsProofs!RevocationIsFinal` | `Spec => []RevokedStaysOut` |
| `JsonSessionsProofs!RotationHasOneWinner` | `Spec => []OneWinner` |
| `JsonSessionsProofs!LimitsKept` | `Spec => []LimitsHold` |
| `JsonSessionsProofs!LoginsSpare` | `Spec => LoginsCoexist` |
| `ConnectionPoolProofs!PoolTypes` | `Spec => []TypeOK` |
| `ConnectionPoolProofs!CapacityKept` | `Spec => []CapacityIsKept` |
| `ConnectionPoolProofs!LeasesAreExclusive` | `Spec => []OneUserPerSession` |
| `ConnectionPoolProofs!WakeupsKept` | `Spec => []NoLostWakeup` |
| `SqlGameActionProofs!SqlTypeCorrect` | `Spec => []TypeOK` |
| `SqlGameActionProofs!ResetsPublishWhole` | `Spec => []ReadyIsWhole` |
| `SqlGameActionProofs!SqlRefinement` | `Spec => ImplementsPromise` |
| `JsonGameActionProofs!JsonTypes` | `Spec => []TypeOK` |
| `JsonGameActionProofs!JsonRecoveryNeverDiverges` | `Spec => []RecoveryNeverDiverges` |
| `JsonGameActionProofs!JsonServesWholeData` | `Spec => []OnlyWholeDataIsServed` |
| `JsonGameActionProofs!JsonAllOrNothing` | `Spec => []AllOrNothing` |
| `JsonGameActionProofs!JsonLedgerAccounts` | `Spec => []LedgerAccountsForWallets` |
| `JsonGameActionProofs!JsonImplementsPromise` | `Spec => ImplementsPromise` |
| `OnboardingProofs!OnboardingTypes` | `Spec => []TypeOK` |
| `OnboardingProofs!EveryAccountIsProved` | `Spec => []AccountsAreProved` |
| `OnboardingProofs!BearersAreHandedOver` | `Spec => BearerHandover` |
| `OnboardingProofs!CancelledBearersAreDead` | `Spec => CancelledIsDead` |

**The ledger's inductive invariant** (`IInv`). `ExactlyOneRow` alone is not
inductive: appending a row keeps it only if the row's id was never recorded, and
that depends on where the operation stands. `IInv` adds that a committed event
sits under its identity and does its own arithmetic (`EventsSound`), that ids in
rows were given out (`RowsSound`), what each `pc` implies about the pending action
(`StepSound`: at `row` it has moved its wallet and has no row, at `mark` it has its row,
and nothing is pending once recovery has drained), and that an action with a row
moved its wallet (`MovedWhenRecorded`). The key point is that a new action is
committed only after recovery has drained the old one, so at most one is pending
and its wallet cannot have been touched since. `BooksInv` adds the relation of
rows and wallets while an action is half projected. The refinement proof maps the
wallet of a pending action to its balance after: the abstract step happens at
the journal append, and projection, recovery, compaction and crashes stutter.

**The trial's inductive invariants** (`RoundInv`, `TrialInv`). A worker past its
wager carries the committed proof (`PlaySound`) and a settlement row pays what
its wager row says (`SettledByWager`); rows are never removed, so what was
published stays paid, and two answers of one round agree because both agree with
its one wager row. For adoption: a teardown past its claim implies a status of
`ending` or `ended`, and no account (`TaskSound`, `StatusSound`), because the
claim and the adoption are decided in transactions of the same document. For the
wallet (`WalletIsAccounted`) each movement changes one round's stake or return, and
the row it adds is the only one of its key, so the sums follow the wallet.

**Casino War** (`Inv`, `WarInv`). That a payout follows its stakes depends on what a worker
believes: it makes the movements of a round in order and skips those it takes for
recorded. `Sound` says that what a worker takes for recorded, or has found, is in
the ledger, and that all movements before the one it is at are; so does the
document. Rows are never removed, so a rollback, even a raced one, cannot break it.

The rest of `MoneyMatchesRounds` needs to know what a worker's stale copy is worth.
`Copy` says so: a round is only ever settled or, at a tie, decided, so a copy is the round
as it is, or one it `Follows`, and both ask for the same movements from the
front. A round that was undone under its workers is `contested`, and nothing is claimed of it.
`Owned` gives each action one round, so that no two rounds ask for one key;
`Books` keeps the document and the history apart, with at most one round
unsettled; and `Restores` says that what a preparation pruned is still there to bring
back when it is rolled back. `Money` then relates the ledger to the rounds as they are now.

**Blackjack** (`TableTypes`, `TableMoney`, `TableStakes`). That a hand is paid as it was decided, and every hand
of a settled round is, depends on what the worker that pays still knows. It pays the round it
holds (`Pays`), hand by hand, while the document may have gone on: what it holds is the
round as it is in everything a payment asks, until even money changes a decided round, and that
one is `reopened`. `OneOpen` says that at most one round is not settled, apart from one that
even money left `Stuck`; that is why a request that finds a round to finish finds the only one. A
marker under way (`PendingIs`, `OnlyDealt`) is about a round that nothing but its debit has been booked
for, so rolling it back takes no return along. `Apart` keeps the hands of two rounds apart, hence no two rounds
ask for one key; `Claimed` says that only a hand that is marked credited has a history row. `Returned`
then relates the ledger to the rounds as they are.

For the bets, `TableStakes` compares what the ledger holds for a round (`Paid`) with what
the round shows (`Bill`). A round with nothing prepared has paid its bill (`Covered`). One that is
prepared had paid what it showed before, and has paid its bill once the prepared debit is in the
ledger (`Pledged`). A request makes no other debit: the marker
it holds is the prepared one, or its debit is in the ledger already (`Asks`); a stale one would
charge a hand for a double that was rolled back. A used key shows in the round, as a hand's
double, a hand that was split or the insurance (`Marked`). So a decision prepares a new debit of what it adds to
the bill (`Costs`), or, when it splits the same hand again, one under a used key, which adds
nothing. A sum, over the rows of a round or over its hands, does not depend on the order:
`Total` is defined by a function on the finite subsets, and a term more adds its value (`TotalAdds`).

The theorems take the assumptions of
`Blackjack` as hypotheses, because it is instantiated beside `JsonLedger`, and
`BlackjackMoney` takes `Wager # 1`: the model counts whole units and returns `1 \div 2 = 0` for
a surrendered hand of one unit, where the code returns a cent of a cent
(`round(bet / 2, 2)`), so for that wager the model does not speak for the code.

**The other tables** (`TableInv`). A publication replaces the document only if it is the one
the request last saw, so what a step does to the document is what the request did to its
copy since (`Keeps(base, state)`). Three things could still change a round that is over.
The id of a new round could be in use: a start looks for it first, and where ids are
numbered `DocSound` bounds them by the rounds dealt. A repair or a step of the `plan` could be about a
round that went on meanwhile: `PlanFits` says that a step is about a round of the request's
own document, and that only the active one is played out. And an exception could bring back a document from
before the round was over: `UndoSound` says that the earlier document has every other
round, and that this one is over only if its stake is in the ledger, in which
case nothing is undone. Each table is one lemma for its repair, one for its start and
one for its decision, on top of what the document operations do to the rounds. The
two assumptions of `StagedTables` are hypotheses of the theorem, because the module
is instantiated beside `CasinoWar`.

**The marks** (`MarksInv`, on top of `TableInv`). The key of a movement depends on its round: a
raise is keyed by the action that decided it, a payout by the action that settled it. So that
what is marked is in the ledger is not kept by a decision as such: a mark made before it
would point to another key after it. `Early` says, table by table, which marks a round that is not
over cannot have yet, and `Late` that no step of a plan makes one of these: it is about a round that is
over, or stops short of it. `NotPlaying` says that where a raise is played out, a
command finds none half played, because the repair before it has done so. With these the
documents a request carries (its copy, the one it last saw, the one an exception would bring
back) are each `Clear` against the ledger, which loses no row.

**Sessions** (`CredInv`, `LimitInv`). Of the bearers of a session that were delivered,
only the youngest generation has a file (`Lineage`), and what the operation under way still
changes touches no other (`DeliverySound`, `RevocationSound`): so a second rotation finds no
file to rotate, and a stale touch none to revive. A revoked session stays inactive because
every operation that writes a file first reads an active one. `LimitInv` adds that the
limits hold in the middle of operations too, which is why a login never has to end more than
one usable session for its account and one for the server. The limits count sessions,
so the set of bearers is assumed finite (`TokensAssumption`).

**The pool** (`LeaseInv`, `CountInv`). `LeaseInv` says that every connection of this
process is in exactly one place: idle, with one thread, or given up. `CountInv` says
that `total` is the number of idle and leased connections and of threads that hold a
slot for an open, wherever a failure, a `close_all` or a fork catches them; the
wake-up invariant adds that a sleeper is only overtaken by threads already awake.

**The SQL provider** (`SqlInv`). Its transactions take the epoch row before anything
else, so a reset excludes every action (`Excludes`), and what a session read under
its locks is still so when it commits (`SessionSound`). `ReadyIsWhole` follows from
the order of the two transactions of a reset. In the refinement a transaction takes
effect at its commit, also at one whose answer is lost; all else stutters.

**The JSON provider** (`JsonInv`, `WholeActions`, `BooksSound`). An operation is cut
anywhere by a crash or a failed write, and the next one starts from what is on disk. So
`JsonInv` ties the four things that outlive a process to each other: without a backup
the data root is whole and its epoch ready (`WholeSound`); a journal that was planned
finds each resource at the value its receipt has before or after it, and no claim or
receipt but its own (`JournalSound`); how far an operation or a reset has come says which of
those are done (`ProgressSound`, `ResetSound`). A crash only forgets `pc`, and every part
also speaks of the idle state, so the same facts carry the retry. This gives the
types, recovery and whole data. `WholeActions` speaks of `View`, the data root a
restart would end with (the backup, while there is one): the state document counts the
receipts of the epoch, claims to execute are theirs, and each movement has one row.
`BooksSound` adds that the rows already written of the plan under way are the first
`m` of its movements, and that the ledger agrees with the balances after those. In the
refinement an action happens when its plan is recorded in the journal, and a reset when
its backup is unlinked; the promise reads balances from the plan, or else from `View`, so
that the stages after the plan, recovery, erasing, bootstrapping and rolling back are stutters.

**Signup and invitations** (`Inv` of `OnboardingProofs`). A request reads a row, then acts
on it in later updates, while others take it over, cancel it or give it a new bearer.
The invariant says, for each place a request may stand at, what it may still count on:
one that is to record a consumption finds its row under the token it claimed, one that
provisions finds a row that saw its token consumed, one that finalizes finds its account
active and funded. Each of those facts is also kept by every step of everyone else,
because the documents only `Evolve`: a consumed or revoked token stays so, and consumed by
the same browser; a row's token is replaced only when it has none or it was revoked; a row that saw
a consumption never loses it; an account only makes progress. So a step is proved once
against its own request and once, by `Evolve`, for all others. Invitations check a
delivery by its bearer's id alone, hence `SendersSound`: each delivery is the only one
of its token, and until it is recorded nobody can redeem with it. That there is one account
follows from `MayProvision`, which makes one only when there is none.

`BearerHandover` and `CancelledIsDead` are about steps, and need to know which bearers there
are (`Bearers`, on top of `Inv`). A token is named by one row, at most one signup
bearer works, and the predecessor of an active bearer is revoked (`LinkSound`). Until a bearer is
recorded as sent only its minter has it, or a repair that will drop it (`MinterAlone`); a candidate
about to be promoted is the one its row is delivering, or the row was cancelled
(`InTime`); and of the bearer that a row or a cancellation names, only the candidate they name
may be the successor (`OnlySuccessor`). A step that neither mints a token nor promotes one
only lets tokens fade (`Fades`), which most of this survives, so that the two
kinds that remain are treated by themselves. That a cancelled bearer is dead then follows at its last
place, unless the row has got back a bearer that was revoked meanwhile (Findings, 7).

**About sums and counts.** `Moved` (the sum of a plan's movements) and the sums of stakes and
returns are defined by recursion on data, and the library's induction theorems cannot be
used, as they take the claim as a parameter. The lemmas about these are proved by
the least counterexample instead: among the naturals, or sizes of sets, at which the
concrete claim fails there is a least (`WFMin`, `NatLessThanWellFounded`), and the step before
refutes it. So nothing is assumed about them. Counting receipts needs finitely many
keys (`KeysAssumption`).

**Only model-checked.** Liveness (`PendingIsProjected`, `PlannedIsCommitted`,
`TeardownEndsOrIsLate`, `PreparedIsFinished`, `EveryCheckoutEnds`,
`TableIsFreed`, `TablesAreFreed`, `OutcomesAreReached`, `ConsumedIsFinished`) rests on fairness, which the prover does
not handle. Of `MoneyMatchesTables` (`StagedTables`) the part on marks is proved; that every row
was made once and belongs to a round the document knows, and that a round is paid only when its
stakes were taken, is model-checked.

## 5. Findings

1. **A cached journal offset survives a checkpoint** (`JsonJournalCache`). The
   cache takes a file at least as long as its offset for one that only grew; a
   checkpoint by another process makes it shorter, and it can grow past the offset
   again. The reader then parses from the middle or skips committed actions
   (LEDGER-034, `docs/requirements/requirements_generated.md:635`).
2. **A cut rotation leaves two bearers** (`JsonSessionsCutRotation`), both usable,
   and a store that no login can list any more
   (`docs/mobile_security_threat_model.md:21`, SESSION-013).
3. **A return paid after the terminal debit** (`GuestTrial`, where `TeardownEndsOrIsLate`
   has to except it) leaves the
   trial in `ending` for ever: each retry proposes the new balance under the
   committed key and is refused, and the sweep that meets it raises out of every
   later trial's creation (LEDGER-037, `requirements_generated.md:689`).
4. **A hand split twice is debited once** (`Blackjack`). The first half of a split keeps
   the hand's id (`games/blackjack/engine.py:233`), and the debit's key is made of that
   id (`api.py:513`), so splitting this half again replays the first debit. The
   third hand plays, and is paid, for nothing (BJ-014, `requirements_generated.md:962`).
   Without the term `FreeHands` TLC refutes `MoneyMatchesHands`; with it the stakes are
   exact.

5. **A street bet that was paid can be replaced** (`StagedTables`, Mississippi Stud). The repair
   leaves a bet marked complete alone (`games/mississippi_stud/service.py:263`), so
   when the process dies between marking it and advancing the street, the next bet takes its
   place: the first was debited and counts for nothing. `MoneyMatchesTables` excepts
   `overwritten` bets.
6. **Jacks or Better draws without its wager** (`games/jacks_or_better_video_poker/api.py:308`).
   Its draw does not ask whether the wager was taken, and nothing repairs it: a start cut
   before its debit can be drawn and paid. `MoneyMatchesTables` excepts its payouts.
7. **A repair can orphan the bearer that was mailed** (`core/pending_enrollment.py:305`,
   met while `CancelledIsDead` was being proved). The repair of an overdue delivery discards the
   candidate in one update and gives the row its predecessor back in the next. When the
   late worker promotes the candidate after the repair has read the row, the row ends with the
   predecessor, which is revoked, and the mailed bearer fits no row. A cancellation
   asked with the predecessor is then acknowledged while its successor is active, where the
   code means that `cancellation cannot leave an active bearer` (line 757).
   `CancelledIsDead` excepts this case (`Orphaned`). It takes three workers and a resend, one more than
   the run has; with them TLC refutes the property without the exception.

`RevokedStaysOut`, `OneWinner`, `TeardownEndsOrIsLate`, `MoneyMatchesHands`,
`MoneyMatchesTables` and `CancelledIsDead` say what does hold next to findings 2 to 7.

### Divergences

Met while modelling. The properties state what holds around them, and except no
more than the case described.

* **Unkeyed movements are not journalled** (`json_provider.py:739`).
  `transact_ledger` saves the wallet and then appends its row; a crash between
  leaves a balance that no row and no recovery explains, where
  `ARCHITECTURE.md:127-129` promises recovery of an interrupted wallet mutation.
  `app.py:203`, `admin.py:493` and `bots/controller.py:66` use it.
  `LedgerAccountsForWallets` excepts wallets whose movement was cut.
* **A plan no JSON number holds to the cent** (`game_actions_json.py:526`) is
  journalled before it is refused, and then refused by every recovery, so the data
  root stops (STORAGE-011, `requirements_generated.md:559`). It needs balances of
  about ten trillion; with such a cent missing from `ExactCents`, TLC refutes
  `PlannedIsCommitted`.
* **A raced rollback in Casino War** (`games/casino_war/api.py:347`). A worker that
  finds no movement of its prepared round removes it; the comparison (lines
  196-238) does not see what was recorded of movements meanwhile, so a second
  process that read the round may pay into a round that is gone. A retry under the
  same action id adopts the orphaned stake (CW-003, CW-006 and CW-007,
  `requirements_generated.md:1020-1024`). `MoneyMatchesRounds` exempts `contested`
  rounds.
* **A prepared hand the wallet cannot pay for** makes each look at the table fail
  until funds arrive, when its worker died before the stake and other games took the
  balance. `PreparedIsFinished` supposes enough funds.
* **A raced rollback in Blackjack** (`games/blackjack/api.py:203-219`) is the same: the
  debit is looked for in one step and the round removed in a later one, while another
  worker makes it. `MoneyMatchesHands` exempts `contested` rounds.
* **Even money looks at the cards only** (`games/blackjack/api.py:613-631`), not at
  whether the round is still in play. Taken when another request has just settled the
  round, it opens it again with another return, which the ledger refuses under the
  hand's key: each later request of the table then fails. `TableIsFreed` and the returns
  in `MoneyMatchesHands` exempt `reopened` rounds. Taken on the first half of a split,
  it ends the round with the other hands undecided and unpaid.
* **Insurance** may reach half of the first hand's bet as it is by now, so after a double
  half of the doubled one (`api.py:569`; BJ-022 says half the original wager).
* **History rows of Blackjack** are appended after the claim (`api.py:321`), and lost if
  the worker dies between the two.
* **A raced preparation at the staged tables**: `_recover` looks for a stake in one step and
  takes the round back in another, while a second process makes it. The
  repository activates no second process in production, as wallet and game state are
  separate boundaries (`requirements.json:16328`); `MoneyMatchesTables` exempts `contested` stakes.
* **Claims of invitations** (`invitations.py:739`). `token_consumed` compares the key
  but not the ids of the claim, so a slow claimant, whose redemption was taken over,
  given up and claimed again under its own key, makes the account under ids the row
  no longer has. A loser's `release_invited_identity` (line 713) may drop
  the winner's reservation.
* **Deliveries of invitations** (`invitations.py:367-385`) check only the bearer's id,
  so a revoked invitation can turn pending again; a redemption takes the first
  pending row, even an expired one (607-631).
* **Repair of an overdue first delivery** (`pending_enrollment.py:303`) may revoke the
  bearer that became the only one since it read. A pending signup whose bearer
  has expired cannot be resent, cancelled or begun again, and a cancellation looks at
  the mailbox's first row only.
* **The pool after a fork** (`mysql_pool.py:244`): the process id is set before the
  condition and the idle list are replaced (246-248), so a second thread of the child
  may use the parent's. The model takes the child's first use to run alone.

## 6. Plan

Done: the ledger, game actions and reset, sessions, rounds, and guest trials, in
that order, because all money rests on the first two and all requests on the third;
then the connection pool, tokens with enrollment and invitations, game actions on
SQL, Casino War, Blackjack, whose rounds the player may change in many ways, and the tables
that share one protocol.

Next, in this order:

1. Proofs: the rest of the money of `StagedTables`, from `TableInv` and `MarksInv`.
2. Red Dog, Let It Ride and Three Card Poker as variations of `CasinoWar`: one saves
   against a baseline, and looks for any of its movements before it rolls back.
3. The lifecycle variant of `SimpleWager` (the prepare and finalize hooks of Slots).
4. Autoplay: load and save under a process-local lock, in two processes.
5. The PostgreSQL pool's reset on return, and password resets and magic links on
   `OneTimeTokens`.

## 7. Not modelled

* The rules of the games, pay tables and bots' strategies: pure functions that
  the repository's tests enumerate. Of their requests, the simple wagers, Casino
  War, Blackjack and fourteen staged tables are modelled. These rules, administration pages and the auditing and recovery
  tooling are most of the code by size, so that what is modelled is a small share
  of its lines.
* Backup encryption, mail, deployment, clients: I/O or other programs.
* Settings, policies, wellness, challenges and feedback: each update is one
  document transaction, with nothing between its steps.
* Migrations: `apply_migrations` refuses every migration in this tree.
* OAuth: off by default.
* In modelled parts: CSRF values, fingerprints, names and wording; files
  corrupted from outside; a torn ledger row and writes lost by a host crash despite having returned
  (`_append_jsonl` and `_write_json` do not fsync), so a crash here is the
  death of a process; the one-time import of legacy sessions; guest creation and
  its capacity limit.

## 8. Running

```
tlc -workers 2 -config JsonLedger.cfg MCJsonLedger
tlc -workers 2 -config GuestTrial.cfg MCGuestTrial
tlc -workers 2 -config CasinoWar.cfg MCCasinoWar
tlc -workers 2 -config ConnectionPool.cfg MCConnectionPool
tlc -workers 2 -config StorageProviders.cfg MCStorageProviders
tlc -workers 2 -config Blackjack.cfg MCBlackjack
tlc -workers 2 -config StagedTables.cfg MCStagedTables
tlc -workers 2 -config Onboarding.cfg MCOnboarding
tlapm LedgerProofs.tla
tlapm GuestTrialProofs.tla
tlapm TableProofs.tla
tlapm JsonSessionsProofs.tla
tlapm ConnectionPoolProofs.tla
tlapm SqlGameActionProofs.tla
tlapm JsonGameActionProofs.tla
tlapm OnboardingProofs.tla
```

Each run's module and configuration are listed in `PROJECT.json`, with the map
from definitions to source lines.
