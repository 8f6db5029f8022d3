------------------------------- MODULE Blackjack -------------------------------
(* The Blackjack table of one player (games/blackjack). A transition of the   *)
(* round is one atomic update of the player's game document. One that costs   *)
(* money (deal, double, split, insurance) is first published with a marker of *)
(* what it changed and of the debit it needs, the debit is then made in the   *)
(* ledger, and the marker is released; with no debit in the ledger it can be  *)
(* rolled back. A decided round is paid hand by hand and then settled. Every  *)
(* request first finishes what the document shows unfinished. Workers are the *)
(* processes that serve the player, as in CasinoWar.                          *)
(*                                                                            *)
(* Cards are abstracted to what the rules ask of a hand. The shoe is left     *)
(* out: a transition changes it together with its round. So is the dealer's   *)
(* hand but for the Ace it may show: a dealer's blackjack ends the deal, so   *)
(* an insurance is always lost, and the debit is the one movement of a marker.*)
EXTENDS Integers, Sequences, FiniteSets, SequencesExt

CONSTANTS
    Workers,
    Wager, Opening,     \* the stake of a round, the balance at first
    InsuranceAmounts,
    RuleSets,           \* table rules the player may set
    Deals, Halves,      \* opening deals, and hands a split may make, that occur
    Results,            \* how a hand may compare with the dealer's
    MaxRounds, MaxIds,  \* rounds dealt; rounds and split hands
    MaxFailures,        \* calls that fail and workers that die
    None

TwoCards == {"natural", "aces", "pair", "two"}

ASSUME TableAssumption ==
    /\ Wager \in Nat \ {0} /\ Opening \in Nat
    /\ InsuranceAmounts \subseteq Nat \ {0}
    /\ RuleSets # {}
    /\ RuleSets \subseteq [max_split_hands : Nat, double_after_split : BOOLEAN,
                           late_surrender : BOOLEAN, split_aces_one_card : BOOLEAN,
                           blackjack_payout : Nat]    \* of a natural, in percent
    /\ Deals \subseteq [cards : TwoCards, ace : BOOLEAN, dealer_blackjack : BOOLEAN]
    /\ Halves \subseteq TwoCards /\ Results \subseteq {"win", "push", "loss"}
    /\ MaxRounds \in Nat /\ MaxIds \in Nat /\ MaxFailures \in Nat

VARIABLES
    doc,        \* the game document: rules, rounds, prepared action
    rows,       \* the game's rows in the ledger, by action key
    wallet,     \* the player's balance
    claims,     \* how often the history row of a hand was claimed
    work,       \* each worker's request
    ids,        \* identities drawn so far, for rounds and for split hands
    failures,
    contested,  \* rounds rolled back while another worker was making the debit
    reopened    \* rounds that even money took out of their settled state

vars == <<doc, rows, wallet, claims, work, ids, failures, contested, reopened>>

Empty == [x \in {} |-> None]
With(f, x, v) == [y \in DOMAIN f \cup {x} |-> IF y = x THEN v ELSE f[y]]

Init ==
    /\ \E rules \in RuleSets : doc = [rules |-> rules, rounds |-> Empty, pending |-> None]
    /\ rows = Empty
    /\ wallet = Opening
    /\ claims = [h \in 1..MaxIds |-> 0]
    /\ work = [w \in Workers |-> None]
    /\ ids = 0 /\ failures = 0
    /\ contested = {} /\ reopened = {}

-----------------------------------------------------------------------------
(* The rules of the game: a round and the rounds a move may turn it into. A  *)
(* round has the identity of its opening hand.                               *)

Hand(id, bet, cards, from) ==
    [id |-> id, bet |-> bet, cards |-> cards, split_from |-> from, active |-> TRUE,
     outcome |-> None, payout_due |-> 0, credited |-> FALSE]

Decided(hand, outcome, due) ==
    [hand EXCEPT !.active = FALSE, !.outcome = outcome, !.payout_due = due]

NaturalReturn(rules, bet) == bet + (bet * rules.blackjack_payout) \div 100

(* A dealer's blackjack, or a natural, ends the round at the deal; a natural *)
(* under a dealer's Ace waits for the player to choose.                      *)
AutoBlackjacks(rules, round, dealer_blackjack) ==
    LET hand    == round.hands[1]
        natural == hand.cards = "natural"
        result  == CASE natural /\ dealer_blackjack -> Decided(hand, "push", hand.bet)
                     [] natural /\ ~dealer_blackjack ->
                            Decided(hand, "blackjack", NaturalReturn(rules, hand.bet))
                     [] OTHER -> Decided(hand, "dealer_blackjack", 0)
    IN IF dealer_blackjack \/ (natural /\ ~round.ace)
       THEN [round EXCEPT !.hands = <<result>>, !.status = "settled_pending_credit"]
       ELSE round

Dealt(rules, id) ==
    {AutoBlackjacks(rules,
        [id |-> id, status |-> "player_turn", ace |-> d.ace, even_money |-> FALSE,
         insurance |-> 0, hands |-> <<Hand(id, Wager, d.cards, None)>>], d.dealer_blackjack) :
     d \in Deals}

(* The hands not decided yet are compared with the dealer's total.           *)
Compared(rules, hand, result) ==
    IF hand.outcome # None THEN [hand EXCEPT !.active = FALSE]
    ELSE IF hand.cards = "natural" /\ hand.split_from = None
         THEN Decided(hand, "blackjack", NaturalReturn(rules, hand.bet))
    ELSE CASE result = "win"  -> Decided(hand, "win", 2 * hand.bet)
           [] result = "push" -> Decided(hand, "push", hand.bet)
           [] OTHER           -> Decided(hand, "loss", 0)

DealerPlay(rules, round) ==
    LET hands == round.hands IN
    {[round EXCEPT !.status = "settled_pending_credit",
                   !.hands = [i \in DOMAIN hands |-> Compared(rules, hands[i], result[i])]] :
     result \in {r \in [DOMAIN hands -> Results] :
                    \A i \in DOMAIN hands : r[i] = "loss" => hands[i].cards # "natural"}}

Active(round) == {i \in DOMAIN round.hands : round.hands[i].active}
First(S) == CHOOSE i \in S : \A j \in S : i <= j

\* Mutant of Advance: the dealer's turn is forgotten.
AdvanceNever(rules, round) == {round}
Advance(rules, round) == IF Active(round) # {} THEN {round} ELSE DealerPlay(rules, round)

InTurn(round) == round.status = "player_turn" /\ Active(round) # {}
Current(round) == First(Active(round))
Play(round, hand) == [round EXCEPT !.hands[Current(round)] = hand]

(* One more card; a soft hand of two cards cannot bust.                      *)
Drawn(hand) ==
    {[hand EXCEPT !.cards = "more"]} \cup
        IF hand.cards \in {"natural", "aces"} THEN {}
        ELSE {Decided([hand EXCEPT !.cards = "more"], "bust", 0)}

Hit(rules, round) ==
    LET hand == round.hands[Current(round)] IN
    UNION {IF h.active THEN {Play(round, h)} ELSE Advance(rules, Play(round, h)) :
              h \in Drawn(hand)}

Stand(rules, round) ==
    Advance(rules, Play(round, [round.hands[Current(round)] EXCEPT !.active = FALSE]))

CanSurrender(rules, round) ==
    rules.late_surrender /\ round.hands[Current(round)].cards \in TwoCards
Surrender(rules, round) ==
    LET hand == round.hands[Current(round)]
    IN Advance(rules, Play(round, Decided(hand, "surrender", hand.bet \div 2)))

CanDouble(rules, round) ==
    LET hand == round.hands[Current(round)]
    IN hand.cards \in TwoCards /\ (hand.split_from # None => rules.double_after_split)
DoubleDown(rules, round) ==
    UNION {Advance(rules, Play(round, [h EXCEPT !.bet = 2 * @, !.active = FALSE])) :
              h \in Drawn(round.hands[Current(round)])}

(* A split deals a card to each half. The first half keeps the hand's name.  *)
CanSplit(rules, round) ==
    /\ round.hands[Current(round)].cards \in {"aces", "pair"}
    /\ Len(round.hands) < rules.max_split_hands
Split(rules, round, id) ==
    LET i     == Current(round)
        hand  == round.hands[i]
        cards == Halves \ {IF hand.cards = "aces" THEN "pair" ELSE "aces"}
        half(name, c) ==
            LET h == Hand(name, hand.bet, c, hand.id)
            IN IF hand.cards = "aces" /\ rules.split_aces_one_card
               THEN [h EXCEPT !.active = FALSE] ELSE h
    IN UNION {Advance(rules, [round EXCEPT !.hands =
                 SubSeq(@, 1, i - 1) \o <<half(hand.id, c[1]), half(id, c[2])>>
                                     \o SubSeq(@, i + 1, Len(@))]) :
                 c \in cards \X cards}

CanInsure(round, amount) ==
    /\ round.status = "player_turn" /\ round.insurance = 0 /\ round.ace
    /\ 2 * amount <= round.hands[1].bet

(* Even money looks at the first hand and the dealer's card, not at whether  *)
(* the round is still in play.                                               *)
CanTakeEvenMoney(round) ==
    ~round.even_money /\ round.hands[1].cards = "natural" /\ round.ace
EvenMoney(round) ==
    [round EXCEPT !.hands[1] = Decided(@, "even_money", 2 * @.bet),
                  !.even_money = TRUE, !.status = "settled_pending_credit"]

-----------------------------------------------------------------------------
(* A worker's request. What it holds besides its place depends on the place: *)
(* a marker while it settles a prepared action; a round, and how many of its *)
(* hands are paid, while it pays one. moved: the request's own transition    *)
(* has been made. todo: the rounds of its list it still has to visit. absent:*)
(* it found no debit of its marker in the ledger.                            *)

Request(pc, moved, todo) ==
    [pc |-> pc, moved |-> moved, todo |-> todo, marker |-> None, absent |-> FALSE,
     round |-> None, paid |-> 0]

(* Finish the rounds of the list that are decided, in the document at hand;  *)
(* then the request makes its transition, or is over.                        *)
FinishIfNeeded(moved, todo, rounds) ==
    LET due == {r \in todo \cap DOMAIN rounds : rounds[r].status = "settled_pending_credit"}
        r   == First(due)
    IN IF due # {} THEN [Request("pay", moved, {q \in todo : q > r}) EXCEPT
                            !.round = rounds[r]]
       ELSE IF moved THEN None ELSE Request("act", FALSE, {})

SettlePrepared(moved, marker) == [Request("settle", moved, {}) EXCEPT !.marker = marker]

At(w, pc) == work[w] # None /\ work[w].pc = pc

(* The ledger moves the money once under the key; the same movement again is *)
(* a replay, another one under the key, or one beyond the balance, an error. *)
(* The answer of a movement that was made can be lost: an error as well.     *)
ApplyOnce(w, movement, next, raised) ==
    LET key == movement.key IN
    /\ IF key \notin DOMAIN rows /\ wallet + movement.row.amount >= 0
       THEN /\ rows' = With(rows, key, movement.row)
            /\ wallet' = wallet + movement.row.amount
       ELSE UNCHANGED <<rows, wallet>>
    /\ \/ /\ key \in DOMAIN rows' /\ rows'[key] = movement.row
          /\ work' = [work EXCEPT ![w] = next] /\ UNCHANGED failures
       \/ /\ key \in DOMAIN rows' => rows'[key] # movement.row
          /\ work' = [work EXCEPT ![w] = raised] /\ UNCHANGED failures
       \/ /\ failures < MaxFailures /\ failures' = failures + 1
          /\ work' = [work EXCEPT ![w] = raised]
    /\ UNCHANGED <<doc, claims, ids, contested, reopened>>

Movement(round, id, kind, amount, outcome) ==
    [key |-> <<id, kind>>, row |-> [round |-> round, amount |-> amount, outcome |-> outcome]]

-----------------------------------------------------------------------------
(* Requests: load, finish what is unfinished, make one transition.           *)

\* Mutant of LoadMutationState: what is unfinished is left alone.
LoadState(w) ==
    /\ work[w] = None
    /\ work' = [work EXCEPT ![w] = Request("act", FALSE, {})]
    /\ UNCHANGED <<doc, rows, wallet, claims, ids, failures, contested, reopened>>
LoadMutationState(w) ==
    /\ work[w] = None
    /\ work' = [work EXCEPT ![w] =
          IF doc.pending # None THEN SettlePrepared(FALSE, doc.pending)
          ELSE FinishIfNeeded(FALSE, DOMAIN doc.rounds, doc.rounds)]
    /\ UNCHANGED <<doc, rows, wallet, claims, ids, failures, contested, reopened>>

(* A transition without cost. It is made on the round as it is by now.       *)
Commit(w, round) ==
    /\ doc' = [doc EXCEPT !.rounds[round.id] = round]
    /\ work' = [work EXCEPT ![w] = FinishIfNeeded(TRUE, {round.id}, doc'.rounds)]

CommitRoundTransition(w) ==
    /\ At(w, "act") /\ doc.pending = None
    /\ \E r \in DOMAIN doc.rounds :
          LET round == doc.rounds[r] IN
          \/ /\ InTurn(round)
             /\ \E new \in Hit(doc.rules, round) \cup Stand(doc.rules, round) \cup
                   (IF CanSurrender(doc.rules, round) THEN Surrender(doc.rules, round) ELSE {}) :
                      Commit(w, new)
             /\ UNCHANGED reopened
          \/ /\ CanTakeEvenMoney(round)
             /\ Commit(w, EvenMoney(round))
             /\ reopened' = IF round.status = "player_turn" THEN reopened
                            ELSE reopened \cup {r}
    /\ UNCHANGED <<rows, wallet, claims, ids, failures, contested>>

NoActiveRound == \A r \in DOMAIN doc.rounds : doc.rounds[r].status = "settled"

(* One with a debit: the marker keeps the round before and after.            *)
Prepare(w, before, after, id, kind, amount) ==
    LET marker == [before |-> before, after |-> after,
                   movement |-> Movement(after.id, id, kind, -amount, None)]
    IN /\ doc' = [doc EXCEPT !.rounds = With(@, after.id, after), !.pending = marker]
       /\ work' = [work EXCEPT ![w] = SettlePrepared(TRUE, marker)]

PrepareMoneyTransition(w) ==
    /\ At(w, "act") /\ doc.pending = None
    /\ \/ /\ NoActiveRound /\ ids < MaxIds /\ Cardinality(DOMAIN doc.rounds) < MaxRounds
          /\ ids' = ids + 1
          /\ \E new \in Dealt(doc.rules, ids') : Prepare(w, None, new, ids', "wager", Wager)
       \/ \E r \in DOMAIN doc.rounds :
             LET round == doc.rounds[r]
                 hand  == round.hands[Current(round)]
             IN /\ InTurn(round)
                /\ \/ /\ CanDouble(doc.rules, round)
                      /\ \E new \in DoubleDown(doc.rules, round) :
                            Prepare(w, round, new, hand.id, "double", hand.bet)
                      /\ UNCHANGED ids
                   \/ /\ CanSplit(doc.rules, round) /\ ids < MaxIds
                      /\ ids' = ids + 1
                      /\ \E new \in Split(doc.rules, round, ids') :
                            Prepare(w, round, new, hand.id, "split", hand.bet)
                   \/ /\ \E amount \in InsuranceAmounts :
                            /\ CanInsure(round, amount)
                            /\ Prepare(w, round, [round EXCEPT !.insurance = amount],
                                       r, "insurance", amount)
                      /\ UNCHANGED ids
    /\ UNCHANGED <<rows, wallet, claims, failures, contested, reopened>>

UpdateTableSettings(w) ==
    /\ At(w, "act") /\ NoActiveRound
    /\ \E rules \in RuleSets : doc' = [doc EXCEPT !.rules = rules]
    /\ work' = [work EXCEPT ![w] = None]
    /\ UNCHANGED <<rows, wallet, claims, ids, failures, contested, reopened>>

(* The move is not one the table allows now.                                 *)
Refuse(w) ==
    /\ At(w, "act")
    /\ work' = [work EXCEPT ![w] = None]
    /\ UNCHANGED <<doc, rows, wallet, claims, ids, failures, contested, reopened>>

-----------------------------------------------------------------------------
(* settle_prepared_action: the debit, then the marker's release.             *)

Classifying(w) == [work[w] EXCEPT !.pc = "classify"]

SettlePreparedAction(w) ==
    /\ At(w, "settle")
    /\ ApplyOnce(w, work[w].marker.movement,
                 [work[w] EXCEPT !.pc = "complete"], Classifying(w))

(* What the request goes on with when the marker is released: the round it   *)
(* moved itself, or all the rounds there are.                                *)
Continue(w, rounds) ==
    IF work[w].moved THEN FinishIfNeeded(TRUE, {work[w].marker.after.id}, rounds)
    ELSE FinishIfNeeded(FALSE, DOMAIN rounds, rounds)

Complete(w) ==
    LET m == work[w].marker
        id == m.after.id
        unchanged == id \in DOMAIN doc.rounds /\ doc.rounds[id] = m.after
    IN /\ At(w, "complete")
       /\ IF unchanged /\ doc.pending \in {None, m}
          THEN /\ doc' = [doc EXCEPT !.pending = None]
               /\ work' = [work EXCEPT ![w] = Continue(w, doc'.rounds)]
          ELSE work' = [work EXCEPT ![w] = None] /\ UNCHANGED doc
       /\ UNCHANGED <<rows, wallet, claims, ids, failures, contested, reopened>>

(* After an error the marker is rolled back, if the ledger has no debit.     *)
\* Mutant of Classify: a debit is not looked for.
ClassifyBlindly(w) ==
    /\ At(w, "classify")
    /\ work' = [work EXCEPT ![w].pc = "rollback"]
    /\ UNCHANGED <<doc, rows, wallet, claims, ids, failures, contested, reopened>>
Classify(w) ==
    /\ At(w, "classify")
    /\ work' = [work EXCEPT ![w] =
          IF work[w].marker.movement.key \in DOMAIN rows THEN None
          ELSE [work[w] EXCEPT !.pc = "rollback", !.absent = TRUE]]
    /\ UNCHANGED <<doc, rows, wallet, claims, ids, failures, contested, reopened>>

(* Another worker made the debit since, or is still to make it.              *)
Contested(w, marker) ==
    \/ work[w].absent /\ marker.movement.key \in DOMAIN rows
    \/ \E v \in Workers \ {w} : At(v, "settle") /\ work[v].marker = marker

RollbackPreparedAction(w) ==
    LET m  == work[w].marker
        id == m.after.id
    IN /\ At(w, "rollback")
       /\ IF doc.pending = m /\ doc.rounds[id] = m.after
          THEN /\ doc' = [doc EXCEPT !.pending = None,
                     !.rounds = IF m.before = None THEN [r \in DOMAIN @ \ {id} |-> @[r]]
                                ELSE [@ EXCEPT ![id] = m.before]]
               /\ contested' = IF Contested(w, m) THEN contested \cup {id} ELSE contested
          ELSE UNCHANGED <<doc, contested>>
       /\ work' = [work EXCEPT ![w] = None]
       /\ UNCHANGED <<rows, wallet, claims, ids, failures, reopened>>

-----------------------------------------------------------------------------
(* finish_if_needed: each positive return, then the terminal state, with the *)
(* claim to the hand's history row. The row itself is left out: it is lost   *)
(* when the worker that claimed it dies.                                     *)

Settlement(round, hand) ==
    Movement(round.id, hand.id, "settlement", hand.payout_due, hand.outcome)

Unpaid(w) ==
    {i \in DOMAIN work[w].round.hands : /\ i > work[w].paid
                                        /\ work[w].round.hands[i].payout_due > 0}

PayHand(w) ==
    /\ At(w, "pay") /\ Unpaid(w) # {}
    /\ LET i == First(Unpaid(w)) IN
       ApplyOnce(w, Settlement(work[w].round, work[w].round.hands[i]),
                 [work[w] EXCEPT !.paid = i], None)

(* A round compared without what the terminal publication changes.           *)
SettlementShape(round) ==
    [round EXCEPT !.status = "settled_pending_credit",
                  !.hands = [i \in DOMAIN @ |-> [@[i] EXCEPT !.credited = FALSE]]]

\* Mutant of Unclaimed: every finalizer claims every hand.
AllHands(round) == {h.id : h \in Range(round.hands)}
Unclaimed(round) == {h.id : h \in {x \in Range(round.hands) : ~x.credited}}

Finalize(w) ==
    LET now == doc.rounds[work[w].round.id]
        settled == [now EXCEPT !.status = "settled",
                       !.hands = [i \in DOMAIN @ |-> [@[i] EXCEPT !.credited = TRUE]]]
    IN /\ At(w, "pay") /\ Unpaid(w) = {}
       /\ IF /\ work[w].round.id \in DOMAIN doc.rounds
             /\ SettlementShape(now) = SettlementShape(work[w].round)
          THEN /\ doc' = [doc EXCEPT !.rounds[now.id] = settled]
               /\ claims' = [h \in DOMAIN claims |->
                                claims[h] + IF h \in Unclaimed(now) THEN 1 ELSE 0]
               /\ work' = [work EXCEPT ![w] =
                      FinishIfNeeded(work[w].moved, work[w].todo, doc'.rounds)]
          ELSE work' = [work EXCEPT ![w] = None] /\ UNCHANGED <<doc, claims>>
       /\ UNCHANGED <<rows, wallet, ids, failures, contested, reopened>>

-----------------------------------------------------------------------------
(* A call fails before it has any effect, or the worker dies.                *)
Fail(w) ==
    /\ work[w] # None /\ failures < MaxFailures
    /\ failures' = failures + 1
    /\ \E next \in {None, IF At(w, "settle") THEN Classifying(w) ELSE None} :
          work' = [work EXCEPT ![w] = next]
    /\ UNCHANGED <<doc, rows, wallet, claims, ids, contested, reopened>>

Step(w) ==
    \/ CommitRoundTransition(w) \/ PrepareMoneyTransition(w) \/ UpdateTableSettings(w)
    \/ Refuse(w)
    \/ SettlePreparedAction(w) \/ Complete(w) \/ Classify(w) \/ RollbackPreparedAction(w)
    \/ PayHand(w) \/ Finalize(w)

Next == \E w \in Workers : LoadMutationState(w) \/ Step(w) \/ Fail(w)

Spec == Init /\ [][Next]_vars

(* Some worker that is alive goes on with its request, and the player makes  *)
(* another, which may be one the table refuses.                              *)
FairSpec ==
    /\ Spec
    /\ WF_vars(\E w \in Workers : Step(w))
    /\ SF_vars(\E w \in Workers : LoadMutationState(w))

-----------------------------------------------------------------------------
Ids == 1..MaxIds
Kinds == {"wager", "double", "split", "insurance", "settlement"}
Outcomes == {"push", "blackjack", "dealer_blackjack", "win", "loss", "bust", "surrender",
             "even_money"}
Hands == [id : Ids, bet : Nat, cards : TwoCards \cup {"more"}, split_from : Ids \cup {None},
          active : BOOLEAN, outcome : Outcomes \cup {None}, payout_due : Nat,
          credited : BOOLEAN]
Rounds ==
    [id : Ids, status : {"player_turn", "settled_pending_credit", "settled"}, ace : BOOLEAN,
     even_money : BOOLEAN, insurance : InsuranceAmounts \cup {0}, hands : Seq(Hands)]
Rows == [round : Ids, amount : Int, outcome : Outcomes \cup {None}]
Markers ==
    [before : Rounds \cup {None}, after : Rounds,
     movement : [key : Ids \X Kinds, row : Rows]]

ASSUME NoneAssumption ==
    /\ None \notin Ids /\ None \notin Outcomes
    /\ None \notin Rounds /\ None \notin Markers

(* The document, the ledger and the requests have their types, a round in    *)
(* the player's turn has a hand to play, and rounds and hands keep their     *)
(* names apart.                                                              *)
TypeOK ==
    /\ doc.rules \in RuleSets
    /\ DOMAIN doc.rounds \subseteq Ids
    /\ \A r \in DOMAIN doc.rounds :
          LET round == doc.rounds[r] IN
          /\ round \in Rounds /\ round.id = r /\ round.hands # <<>>
          /\ round.status = "player_turn" => Active(round) # {}
          /\ \A i, j \in DOMAIN round.hands :
                i # j => round.hands[i].id # round.hands[j].id
    /\ doc.pending \in Markers \cup {None}
    /\ doc.pending # None => doc.pending.after.id \in DOMAIN doc.rounds
    /\ DOMAIN rows \subseteq Ids \X Kinds
    /\ \A k \in DOMAIN rows : rows[k] \in Rows
    /\ wallet \in Nat /\ claims \in [Ids -> Nat]
    /\ \A w \in Workers : work[w] # None =>
          work[w].pc \in {"act", "settle", "complete", "classify", "rollback", "pay"}

(* The money of a round in the ledger: stakes and returns.                   *)
RowsOf(r, kinds) == {k \in DOMAIN rows : rows[k].round = r /\ k[2] \in kinds}
Stakes(r) == MapThenSumSet(LAMBDA k : -rows[k].amount, RowsOf(r, Kinds \ {"settlement"}))
Bets(round) == FoldLeft(LAMBDA sum, h : sum + h.bet, round.insurance, round.hands)

(* Hands that came of a second split of the same hand: more than the hands   *)
(* that were split, which keep naming themselves in split_from.              *)
FreeHands(round) ==
    Len(round.hands) - 1 - Cardinality({h.split_from : h \in Range(round.hands)} \ {None})

(* The rounds whose debits are all made.                                     *)
Staked == DOMAIN doc.rounds \ (contested \cup
             IF doc.pending = None THEN {} ELSE {doc.pending.after.id})

(* Every bet on the table, doubled, split or insured, has been debited, once,*)
(* whoever failed, died or raced (BJ-011, BJ-014), except for the hand that  *)
(* a second split of the same hand adds.                                     *)
StakesCoverBets ==
    \A r \in Staked : Stakes(r) = Bets(doc.rounds[r]) - Wager * FreeHands(doc.rounds[r])

(* A hand's return is in the ledger only as it was decided, and a settled    *)
(* round has all its returns there.                                          *)
ReturnsMatch ==
    \A r \in DOMAIN doc.rounds \ (contested \cup reopened) :
        LET round == doc.rounds[r]
            due   == {Settlement(round, h) : h \in {x \in Range(round.hands) : x.payout_due > 0}}
        IN /\ \A k \in RowsOf(r, {"settlement"}) :
                 /\ round.status # "player_turn"
                 /\ [key |-> k, row |-> rows[k]] \in due
           /\ round.status = "settled" => \A m \in due : m.key \in DOMAIN rows

(* No row for a round that is not there, and one history row for each hand.  *)
NothingStray ==
    /\ \A k \in DOMAIN rows : rows[k].round \in DOMAIN doc.rounds \cup contested
    /\ \A h \in Ids : claims[h] <= 1

MoneyMatchesHands == StakesCoverBets /\ ReturnsMatch /\ NothingStray

Unfinished ==
    \/ doc.pending # None
    \/ \E r \in DOMAIN doc.rounds : doc.rounds[r].status = "settled_pending_credit"

(* A prepared action is finished or rolled back, and a decided round paid,   *)
(* whoever dies or fails, as long as the player comes back. The one thing in *)
(* the way is a settled round that even money reopened.                      *)
TableIsFreed == []<>~Unfinished \/ <>[](reopened # {})
===============================================================================
