------------------------------ MODULE CasinoWar ------------------------------
(* A table game played in stages (games/casino_war): a round and the money    *)
(* movements it needs are first published in the player's game document, the  *)
(* movements are then made one by one in the shared ledger, and the round is  *)
(* settled when all are recorded. A preparation none of whose own movements   *)
(* reached the ledger is rolled back. The document and the ledger are two     *)
(* stores, each atomic on its own (update_player_game_state, debit_once).     *)
(* Workers are the processes that serve one player: the player's action lock  *)
(* admits one request at a time in a process, and is no help between them.    *)
(* The cards are abstracted to the result they give; the shoe a rollback also *)
(* compares and restores changes only together with the round.               *)
EXTENDS Integers, Sequences, FiniteSets, SequencesExt

CONSTANTS
    Workers, Actions,
    Wager,          \* the stake of a round
    Opening,        \* the player's balance at first
    HistoryLimit,   \* rounds the document retains
    MaxRounds,      \* rounds dealt
    Amounts,        \* what other games move,
    MaxMoves,       \* and how often
    MaxFailures,    \* calls that fail and workers that die
    None

ASSUME BoundsAssumption ==
    /\ Wager \in Nat \ {0} /\ Opening \in Nat /\ Amounts \subseteq Int
    /\ HistoryLimit \in Nat \ {0}
    /\ MaxRounds \in Nat /\ MaxMoves \in Nat /\ MaxFailures \in Nat

VARIABLES
    doc,        \* the game document: rounds, requests, recorded movements
    rows,       \* the game's rows in the ledger, by movement key
    wallet,     \* the player's balance
    work,       \* each worker's request
    dealt,      \* rounds dealt so far
    moves, failures,
    archive,    \* the rounds the history limit has dropped
    told,       \* the answers commands were given
    contested   \* rounds rolled back while another worker was settling them

vars == <<doc, rows, wallet, work, dealt, moves, failures, archive, told, contested>>

RoundIds == Actions \X (1..MaxRounds)
Empty == [r \in {} |-> None]

Init ==
    /\ doc = [rounds |-> Empty, requests |-> Empty, ledger_actions |-> {}]
    /\ rows = Empty
    /\ wallet = Opening
    /\ work = [w \in Workers |-> None]
    /\ dealt = 0 /\ moves = 0 /\ failures = 0
    /\ archive = Empty /\ told = {} /\ contested = {}

-----------------------------------------------------------------------------
(* Rounds and the movements they need, in the order they are made.           *)

Intent(action, stage, amount) == [key |-> <<action, stage>>, amount |-> amount]

Intents(round) ==
    LET start == round.id[1]
        d     == round.decision
        ante  == Intent(start, "ante", -Wager)
        war   == Intent(d, "war-wager", -Wager)
    IN CASE round.outcome = "player_win" -> <<ante, Intent(start, "settlement", 2 * Wager)>>
         [] round.outcome = "surrender"  -> <<ante, Intent(d, "surrender", Wager \div 2)>>
         [] round.outcome = "war_win"    -> <<ante, war, Intent(d, "settlement", 3 * Wager)>>
         [] round.outcome = "war_loss"   -> <<ante, war>>
         [] OTHER -> <<ante>>

(* The movements of a round that are not recorded, by their place.           *)
Unapplied(round, recorded) ==
    {i \in DOMAIN Intents(round) : Intents(round)[i].key \notin recorded}

\* Mutant of NeedsRecovery: only rounds with a result are recovered.
PendingOnly(round, recorded) == round.phase = "ledger_pending"
NeedsRecovery(round, recorded) ==
    round.phase = "ledger_pending" \/ Unapplied(round, recorded) # {}

Without(f, keys) == [x \in DOMAIN f \ keys |-> f[x]]
With(f, x, v) == [y \in DOMAIN f \cup {x} |-> IF y = x THEN v ELSE f[y]]

-----------------------------------------------------------------------------
(* A worker's request: the round it reconciles, as it read it; the place of  *)
(* the movement it is at; the movements recorded in the document it last     *)
(* read and, if it has other rounds to visit, the rounds there; the marker   *)
(* of what it prepared itself, which a rollback needs; and, kept for the     *)
(* properties alone, whether its own movement was there when it looked.      *)

Reconciling(action, round, recorded, marker) ==
    [pc |-> "reconcile", action |-> action, round |-> round, recorded |-> recorded,
     intent |-> 0, todo |-> {}, rounds |-> Empty, marker |-> marker,
     found |-> FALSE]

(* _recover goes to the next round of its list that needs it, in the order   *)
(* they were dealt and in the newest document it has seen; with none left    *)
(* the read is over.                                                         *)
Visits(todo, rounds, recorded) ==
    LET due == {r \in todo \cap DOMAIN rounds : NeedsRecovery(rounds[r], recorded)}
        Rest(r) == {q \in todo : q[2] > r[2]}
    IN IF due = {} THEN {None}
       ELSE {[Reconciling(None, rounds[r], recorded, None)
                 EXCEPT !.todo = Rest(r), !.rounds = IF Rest(r) = {} THEN Empty ELSE rounds] :
             r \in {q \in due : \A p \in due : q[2] <= p[2]}}

(* An error: the worker that prepared the round looks whether to roll back.  *)
Raised(w) ==
    IF work[w].marker = None THEN None ELSE [work[w] EXCEPT !.pc = "classify", !.intent = 0]

(* A call that took effect returns, or its answer is lost.                   *)
Return(w, next) ==
    \/ work' = [work EXCEPT ![w] = next] /\ UNCHANGED failures
    \/ /\ failures < MaxFailures
       /\ failures' = failures + 1
       /\ work' = [work EXCEPT ![w] = Raised(w)]

At(w, pc) == work[w] # None /\ work[w].pc = pc
Todo(w) == Unapplied(work[w].round, work[w].recorded)
Movement(w) == Intents(work[w].round)[work[w].intent]

-----------------------------------------------------------------------------
(* Requests.                                                                 *)

LoadState(w) ==
    /\ work[w] = None
    /\ \E next \in Visits(DOMAIN doc.rounds, doc.rounds, doc.ledger_actions) :
          work' = [work EXCEPT ![w] = next]
    /\ UNCHANGED <<doc, rows, wallet, dealt, moves, failures, archive, told, contested>>

Prepared(w, action, command, before, after, rounds) ==
    LET request == [command |-> command, round |-> after.id]
    IN /\ doc' = [doc EXCEPT !.rounds = rounds, !.requests = With(@, action, request)]
       /\ work' = [work EXCEPT ![w] =
              Reconciling(action, after, doc.ledger_actions,
                          [request |-> request, before |-> before, after |-> after,
                           pruned |-> Without(doc.rounds, DOMAIN rounds)])]

NoActiveRound == \A r \in DOMAIN doc.rounds : doc.rounds[r].phase = "settled"

(* The oldest rounds beyond the limit leave the document.                    *)
BeyondHistory(rounds) ==
    {r \in DOMAIN rounds : Cardinality({q \in DOMAIN rounds : q[2] > r[2]}) >= HistoryLimit}

(* Deal, unless a round is still active.                                     *)
PrepareStart(w, action) ==
    /\ work[w] = None /\ dealt < MaxRounds
    /\ action \notin DOMAIN doc.requests
    /\ NoActiveRound
    /\ \E outcome \in {"player_win", "dealer_win", "tie"} :
          LET round == [id |-> <<action, dealt + 1>>, decision |-> None, outcome |-> outcome,
                        phase |-> IF outcome = "tie" THEN "war_decision" ELSE "ledger_pending"]
              all  == With(doc.rounds, round.id, round)
              oldest == BeyondHistory(all)
          IN /\ Prepared(w, action, "start_round", None, round, Without(all, oldest))
             /\ archive' = [r \in DOMAIN archive \cup oldest |->
                               IF r \in oldest THEN all[r] ELSE archive[r]]
    /\ dealt' = dealt + 1
    /\ UNCHANGED <<rows, wallet, moves, failures, told, contested>>

(* Surrender, or go to war: only from the tie.                               *)
PrepareDecision(w, id, action, command) ==
    /\ work[w] = None
    /\ action \notin DOMAIN doc.requests
    /\ id \in DOMAIN doc.rounds /\ doc.rounds[id].phase = "war_decision"
    /\ \E outcome \in IF command = "surrender" THEN {"surrender"} ELSE {"war_win", "war_loss"} :
          LET before == doc.rounds[id]
              after  == [before EXCEPT !.decision = action, !.outcome = outcome,
                                       !.phase = "ledger_pending"]
          IN Prepared(w, action, command, before, after, With(doc.rounds, id, after))
    /\ UNCHANGED <<rows, wallet, dealt, moves, failures, archive, told, contested>>

(* A known action is not prepared again: its round is reconciled. A pruned   *)
(* round, or another command under the same action, is refused.              *)
Replay(w, action) ==
    /\ work[w] = None
    /\ action \in DOMAIN doc.requests
    /\ doc.requests[action].round \in DOMAIN doc.rounds
    /\ work' = [work EXCEPT ![w] =
          Reconciling(action, doc.rounds[doc.requests[action].round],
                      doc.ledger_actions, None)]
    /\ UNCHANGED <<doc, rows, wallet, dealt, moves, failures, archive, told, contested>>

-----------------------------------------------------------------------------
(* _reconcile_round: find, or make, and record each movement in turn.        *)

\* Mutant of FindAction: the movement is taken to have been made.
FindNothing(w) ==
    /\ At(w, "reconcile")
    /\ \E i \in Todo(w) :
          /\ \A j \in Todo(w) : i <= j
          /\ work' = [work EXCEPT ![w].intent = i, ![w].pc = "mark"]
    /\ UNCHANGED <<doc, rows, wallet, dealt, moves, failures, archive, told, contested>>
FindAction(w) ==
    /\ At(w, "reconcile")
    /\ \E i \in Todo(w) :
          /\ \A j \in Todo(w) : i <= j
          /\ work' = [work EXCEPT ![w].intent = i, ![w].pc =
                IF Intents(work[w].round)[i].key \in DOMAIN rows THEN "mark" ELSE "transact"]
    /\ UNCHANGED <<doc, rows, wallet, dealt, moves, failures, archive, told, contested>>

Row(w) == [round |-> work[w].round.id, amount |-> Movement(w).amount]
Affordable(amount) == wallet + amount >= 0

(* The ledger moves the money once under the key. A key that has a row       *)
(* already is a replay when the row is the same movement, else a conflict.   *)
Transact(w) ==
    LET key == Movement(w).key
        ok  == [work[w] EXCEPT !.pc = "mark"]
    IN /\ At(w, "transact")
       /\ \/ /\ key \notin DOMAIN rows /\ Affordable(Row(w).amount)
             /\ rows' = With(rows, key, Row(w))
             /\ wallet' = wallet + Row(w).amount
             /\ Return(w, ok)
          \/ /\ key \in DOMAIN rows /\ rows[key] = Row(w)
             /\ Return(w, ok)
             /\ UNCHANGED <<rows, wallet>>
          \/ /\ IF key \in DOMAIN rows THEN rows[key] # Row(w) ELSE ~Affordable(Row(w).amount)
             /\ work' = [work EXCEPT ![w] = Raised(w)]
             /\ UNCHANGED <<rows, wallet, failures>>
       /\ UNCHANGED <<doc, dealt, moves, archive, told, contested>>

MarkCommitted(w) ==
    /\ At(w, "mark")
    /\ doc' = [doc EXCEPT !.ledger_actions = @ \cup {Movement(w).key}]
    /\ Return(w, [work[w] EXCEPT !.pc = "reconcile", !.intent = 0,
                          !.recorded = doc'.ledger_actions,
                          !.rounds = IF work[w].todo = {} THEN Empty ELSE doc'.rounds])
    /\ UNCHANGED <<rows, wallet, dealt, moves, archive, told, contested>>

(* The request goes on with the round it reconciled: a command answers it, a *)
(* read visits the next one.                                                 *)
Answer(w, round) ==
    told' = IF work[w].action = None THEN told
            ELSE told \cup {[round |-> round.id, outcome |-> round.outcome]}

NothingToSettle(w) ==
    /\ At(w, "reconcile") /\ Todo(w) = {} /\ work[w].round.phase # "ledger_pending"
    /\ \E next \in Visits(work[w].todo, work[w].rounds, work[w].recorded) :
          work' = [work EXCEPT ![w] = next]
    /\ Answer(w, work[w].round)
    /\ UNCHANGED <<doc, rows, wallet, dealt, moves, failures, archive, contested>>

(* The terminal phase is written on whatever the round is by now.            *)
Settle(w) ==
    LET id == work[w].round.id IN
    /\ At(w, "reconcile") /\ Todo(w) = {} /\ work[w].round.phase = "ledger_pending"
    /\ IF id \in DOMAIN doc.rounds
       THEN /\ doc' = [doc EXCEPT !.rounds[id].phase = "settled"]
            /\ \/ /\ \E next \in Visits(work[w].todo, doc'.rounds, doc'.ledger_actions) :
                        work' = [work EXCEPT ![w] = next]
                  /\ Answer(w, doc'.rounds[id])
                  /\ UNCHANGED failures
               \/ /\ failures < MaxFailures /\ failures' = failures + 1
                  /\ work' = [work EXCEPT ![w] = Raised(w)]
                  /\ UNCHANGED told
       ELSE /\ work' = [work EXCEPT ![w] = Raised(w)]
            /\ UNCHANGED <<doc, failures, told>>
    /\ UNCHANGED <<rows, wallet, dealt, moves, archive, contested>>

-----------------------------------------------------------------------------
(* An error in the worker that prepared.                                     *)

(* Roll back only when the preparation's first own movement has no row.      *)
FirstOwn(marker) == Intents(marker.after)[IF marker.before = None THEN 1 ELSE 2]

Classified(w) ==
    [work[w] EXCEPT !.pc = "rollback", !.found = FirstOwn(work[w].marker).key \in DOMAIN rows]

\* Mutant of Classify: the preparation is undone whatever the ledger says.
ClassifyBlindly(w) ==
    /\ At(w, "classify")
    /\ work' = [work EXCEPT ![w] = Classified(w)]
    /\ UNCHANGED <<doc, rows, wallet, dealt, moves, failures, archive, told, contested>>
Classify(w) ==
    /\ At(w, "classify")
    /\ work' = [work EXCEPT ![w] = IF Classified(w).found THEN None ELSE Classified(w)]
    /\ UNCHANGED <<doc, rows, wallet, dealt, moves, failures, archive, told, contested>>

(* Another worker made the movement after this one looked, or holds the      *)
(* round as it was prepared and has the movement still to make.              *)
Contested(w, marker) ==
    \/ ~work[w].found /\ FirstOwn(marker).key \in DOMAIN rows
    \/ \E v \in Workers \ {w} : work[v] # None /\
          \/ work[v].round = marker.after
          \/ \E r \in work[v].todo \cap DOMAIN work[v].rounds :
                work[v].rounds[r] = marker.after

(* Only the exact preparation is undone; anything else is left as it is, for *)
(* an operator.                                                              *)
RollbackPrepared(w) ==
    LET m  == work[w].marker
        id == m.after.id
        exact == /\ work[w].action \in DOMAIN doc.requests
                 /\ doc.requests[work[w].action] = m.request
                 /\ id \in DOMAIN doc.rounds /\ doc.rounds[id] = m.after
    IN /\ At(w, "rollback")
       /\ IF exact
          THEN /\ doc' = [doc EXCEPT
                     !.rounds = IF m.before = None
                                THEN [r \in (DOMAIN @ \ {id}) \cup DOMAIN m.pruned |->
                                         IF r \in DOMAIN m.pruned THEN m.pruned[r] ELSE @[r]]
                                ELSE [@ EXCEPT ![id] = m.before],
                     !.requests = Without(@, {work[w].action})]
               /\ archive' = Without(archive, DOMAIN m.pruned)
               /\ contested' = IF Contested(w, m) THEN contested \cup {id} ELSE contested
          ELSE UNCHANGED <<doc, archive, contested>>
       /\ work' = [work EXCEPT ![w] = None]
       /\ UNCHANGED <<rows, wallet, dealt, moves, failures, told>>

-----------------------------------------------------------------------------
(* The surroundings.                                                         *)

(* A call fails before it has any effect, or the worker dies.                *)
Fail(w) ==
    /\ work[w] # None /\ failures < MaxFailures
    /\ failures' = failures + 1
    /\ \E next \in {None, IF work[w].pc \in {"classify", "rollback"} THEN None ELSE Raised(w)} :
          work' = [work EXCEPT ![w] = next]
    /\ UNCHANGED <<doc, rows, wallet, dealt, moves, archive, told, contested>>

OtherMovement ==
    /\ moves < MaxMoves
    /\ moves' = moves + 1
    /\ \E amount \in Amounts : Affordable(amount) /\ wallet' = wallet + amount
    /\ UNCHANGED <<doc, rows, work, dealt, failures, archive, told, contested>>

Step(w) ==
    \/ FindAction(w) \/ Transact(w) \/ MarkCommitted(w) \/ NothingToSettle(w) \/ Settle(w)
    \/ Classify(w) \/ RollbackPrepared(w)

Next ==
    \/ \E w \in Workers :
          \/ LoadState(w) \/ Step(w) \/ Fail(w)
          \/ \E a \in Actions :
                \/ PrepareStart(w, a) \/ Replay(w, a)
                \/ \E id \in DOMAIN doc.rounds, c \in {"surrender", "war"} :
                      PrepareDecision(w, id, a, c)
    \/ OtherMovement

Spec == Init /\ [][Next]_vars

(* Some worker that is alive goes on with its request, and the player looks  *)
(* at the table again and again.                                             *)
FairSpec ==
    /\ Spec
    /\ WF_vars(\E w \in Workers : Step(w))
    /\ SF_vars(\E w \in Workers : LoadState(w))

-----------------------------------------------------------------------------
Outcomes == {"player_win", "dealer_win", "tie", "surrender", "war_win", "war_loss"}
Rounds == [id : RoundIds, decision : Actions \cup {None}, outcome : Outcomes,
           phase : {"war_decision", "ledger_pending", "settled"}]
ASSUME NoneAssumption == None \notin Actions /\ None \notin Rounds
Keys == Actions \X {"ante", "settlement", "surrender", "war-wager"}
Map(f, D, R) == DOMAIN f \subseteq D /\ \A x \in DOMAIN f : f[x] \in R

(* The document and the ledger have their types, the history its limit, and  *)
(* a movement is recorded only when it is in the ledger.                     *)
TypeOK ==
    /\ Map(doc.rounds, RoundIds, Rounds)
    /\ \A r \in DOMAIN doc.rounds : doc.rounds[r].id = r
    /\ Cardinality(DOMAIN doc.rounds) <= HistoryLimit
    /\ Map(doc.requests, Actions,
           [command : {"start_round", "surrender", "war"}, round : RoundIds])
    /\ Map(rows, Keys, [round : RoundIds, amount : Int])
    /\ doc.ledger_actions \subseteq DOMAIN rows
    /\ wallet \in Nat
    /\ \A w \in Workers : work[w] # None =>
          /\ work[w].pc \in {"reconcile", "transact", "mark", "classify", "rollback"}
          /\ work[w].round \in Rounds
          /\ work[w].pc \in {"transact", "mark"} => work[w].intent \in Todo(w)

Latest(id) == IF id \in DOMAIN doc.rounds THEN doc.rounds[id] ELSE archive[id]
Known == DOMAIN doc.rounds \cup DOMAIN archive

(* Every row is a movement that a known round asks for.                      *)
NoStrayRow ==
    \A key \in DOMAIN rows : rows[key].round \notin contested =>
        /\ rows[key].round \in Known
        /\ \E i \in Range(Intents(Latest(rows[key].round))) :
              i = [key |-> key, amount |-> rows[key].amount]

(* A settled round's movements are all in the ledger, for the round itself.  *)
SettledIsPaid ==
    \A r \in Known \ contested : Latest(r).phase = "settled" =>
        \A i \in Range(Intents(Latest(r))) :
            /\ i.key \in DOMAIN rows
            /\ rows[i.key].round \in contested
                 \/ rows[i.key] = [round |-> r, amount |-> i.amount]

(* No payout reaches the ledger before the stakes it answers.                *)
StakesComeFirst ==
    \A key \in DOMAIN rows : rows[key].amount > 0 =>
        /\ <<rows[key].round[1], "ante">> \in DOMAIN rows
        /\ (key[2] = "settlement" /\ key[1] # rows[key].round[1]) =>
              <<key[1], "war-wager">> \in DOMAIN rows

(* A round a command was answered with is never taken back, nor its result.  *)
AnsweredIsKept ==
    \A t \in told : t.round \notin contested =>
        /\ t.round \in Known
        /\ t.outcome # "tie" => Latest(t.round).outcome = t.outcome

(* Through failing calls, dead workers, retries and two workers on one round *)
(* the money agrees with the rounds: the ledger holds exactly the movements  *)
(* of the rounds, stakes first, a settled round is paid for, and an answered *)
(* one stays (CW-003, CW-006, CW-007). The one exception is a preparation    *)
(* that its worker rolled back, having found no movement of it, while        *)
(* another worker was already making that movement.                          *)
MoneyMatchesRounds == NoStrayRow /\ SettledIsPaid /\ StakesComeFirst /\ AnsweredIsKept

Unfinished ==
    \E id \in DOMAIN doc.rounds :
        \/ doc.rounds[id].phase = "ledger_pending"
        \/ \E i \in Range(Intents(doc.rounds[id])) : i.key \notin doc.ledger_actions

Short ==
    \E id \in DOMAIN doc.rounds : \E i \in Range(Intents(doc.rounds[id])) :
        i.key \notin DOMAIN rows /\ ~Affordable(i.amount)

(* Prepared rounds are finished or rolled back, whoever dies or fails: the   *)
(* looks at the table complete them. Only a wallet that stays too short for  *)
(* a stake that was prepared, and not rolled back, holds a round up.         *)
PreparedIsFinished ==
    []<>~Unfinished \/ <>[]Short
===============================================================================
