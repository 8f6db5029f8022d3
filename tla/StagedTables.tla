----------------------------- MODULE StagedTables -----------------------------
(* The tables whose rounds are prepared in the player's game document and     *)
(* paid for in the shared ledger (casino/games/<game>/service.py and api.py). *)
(* All of them follow one protocol with their own differences, which are      *)
(* where they go wrong. A request loads the document, repairs what an earlier *)
(* one left half done, and then publishes and moves money in turns: each      *)
(* publication replaces the document only if it is still the one the request  *)
(* last saw, and each movement is made once under its key. An exception while *)
(* a stake is being taken is answered by undoing the preparation, unless the  *)
(* stake is in the ledger. Workers are processes: the player's action lock    *)
(* admits one request at a time in each, and is no help between them.         *)
(* Cards are abstracted to whether the hand pays when it is played out. A     *)
(* look into the ledger is taken together with the read or write before it.   *)
EXTENDS Integers, Sequences, FiniteSets, SequencesExt

CONSTANTS
    Workers, Tables,
    MaxActions,     \* action ids the client issues at each table
    MaxDeals,       \* rounds dealt at each table, those undone included
    MaxFailures,    \* calls that fail and workers that die
    Opening,        \* the player's balances at first, for each table
    Streets,        \* betting streets of Mississippi Stud
    None

Marks == {"not_ready", "pending", "complete"}

(* A round of any of the tables, as its document holds it.                   *)
Round ==
    [id : Nat, start : Nat, hand : Nat, wins : BOOLEAN, holds : BOOLEAN,
     opening : Marks, play : Marks, settlement : Marks,
     phase : {"decision", "playing", "settled", "passed"},
     action : Nat \cup {None}, choice : {None, "play", "fold", "pass"},
     pending : Nat \cup {None}, bets : Seq(Nat \cup {None}),
     attempt : {None, "opening", "play", "pay"}]

ASSUME NoneAssumption == None \notin Round

AllTables ==
    {"hi_lo", "pai_gow_poker", "double_bonus", "joker_poker", "four_card_poker",
     "casino_holdem", "teen_patti", "mississippi_stud", "acey_deucey", "plinko",
     "andar_bahar", "caribbean_stud", "jacks_or_better", "deuces_wild"}

ASSUME TableBounds ==
    /\ Tables \subseteq AllTables
    /\ MaxFailures \in Nat /\ Streets \in Nat \ {0}
    /\ {MaxActions, MaxDeals} \subseteq [Tables -> Nat]
    /\ DOMAIN Opening = Tables /\ \A t \in Tables : Opening[t] \subseteq Nat

VARIABLES
    table,      \* the game played
    doc,        \* its document: the active round, the recent ones, the receipts
    rows,       \* its movements in the ledger, by key
    wallet,     \* the player's balance
    work,       \* each worker's request
    issued, deals, failures,
    contested,  \* movements undone by one worker while another was making them
    overwritten \* street bets that a later bet replaced before the street advanced

vars == <<table, doc, rows, wallet, work, issued, deals, failures, contested, overwritten>>

Actions == 1..MaxActions[table]
Empty == [x \in {} |-> None]

Init ==
    /\ table \in Tables
    /\ doc = [active |-> None, recent |-> {}, receipts |-> Empty]
    /\ rows = Empty /\ wallet \in Opening[table]
    /\ work = [w \in Workers |-> None]
    /\ issued = 0 /\ deals = 0 /\ failures = 0
    /\ contested = {} /\ overwritten = {}

-----------------------------------------------------------------------------
(* Rounds, and what the engines do with them. The cards held are forgotten   *)
(* with the draw.                                                            *)

CreateRound(action, wins) ==
    [id |-> IF table = "jacks_or_better" THEN deals + 1 ELSE action,
     start |-> action, hand |-> deals + 1, wins |-> wins, holds |-> FALSE,
     opening |-> IF table = "acey_deucey" THEN "not_ready" ELSE "pending",
     phase |-> "decision", action |-> None, choice |-> None,
     play |-> "not_ready", pending |-> None, bets |-> <<>>,
     settlement |-> "not_ready",
     attempt |-> IF table = "caribbean_stud" THEN "opening" ELSE None]

(* Only Four Card Poker pays a hand that was folded: its side bet.           *)
Pays(x) == x.wins /\ (x.choice = "play" \/ (x.choice = "fold" /\ table = "four_card_poker"))

Settled(x, action, choice) ==
    LET y == [x EXCEPT !.action = action, !.choice = choice, !.phase = "settled", !.holds = FALSE]
    IN [y EXCEPT !.settlement = IF Pays(y) THEN "pending" ELSE "complete"]

Only(S) == IF S = {} THEN None ELSE CHOOSE x \in S : TRUE
Rounds(s) == s.recent \cup ({s.active} \ {None})
RoundById(s, id) == Only({x \in Rounds(s) : x.id = id})
RoundForStart(s, action) == Only({x \in Rounds(s) : x.start = action})

(* A changed round takes its own place in the document.                      *)
Put(s, x) ==
    IF s.active # None /\ s.active.id = x.id THEN [s EXCEPT !.active = x]
    ELSE [s EXCEPT !.recent = {y \in @ : y.id # x.id} \cup {x}]

ArchiveRound(s, x) ==
    [s EXCEPT !.active = IF @ # None /\ @.id = x.id THEN None ELSE @,
              !.recent = {y \in @ : y.id # x.id} \cup {x}]

Forget(s, action) == [s EXCEPT !.receipts = [a \in DOMAIN @ \ {action} |-> @[a]]]
Remember(s, action, stage, x) ==
    [s EXCEPT !.receipts = [a \in DOMAIN @ \cup {action} |->
        IF a = action THEN [stage |-> stage, round |-> x.id] ELSE @[a]]]

CancelRound(s, x) == Forget([s EXCEPT !.active = None], x.start)

PreparePlay(x, action) ==
    [x EXCEPT !.action = action, !.choice = "play", !.phase = "playing", !.play = "pending"]
ResetUncommittedPlay(s, x) ==
    Forget(Put(s, [x EXCEPT !.action = None, !.choice = None, !.phase = "decision",
                            !.play = "not_ready"]), x.action)

PrepareBet(x, action) == [x EXCEPT !.pending = action, !.play = "pending"]
ResetUncommittedBet(s, x) ==
    Forget(Put(s, [x EXCEPT !.pending = None, !.play = "not_ready"]), x.pending)
AdvanceAfterBet(x) ==
    LET y == [x EXCEPT !.bets = Append(@, x.pending), !.pending = None, !.play = "not_ready"]
    IN IF Len(y.bets) = Streets THEN Settled(y, None, "play") ELSE y

RestoreUncommittedPlay(s, x) ==
    LET y == [x EXCEPT !.phase = "decision", !.action = None, !.choice = None,
                       !.opening = "not_ready", !.settlement = "not_ready"]
    IN Forget([s EXCEPT !.recent = @ \ {x}, !.active = y], x.action)

-----------------------------------------------------------------------------
(* The ledger keys of a round's movements. Some are the action's own id, and *)
(* those are what a look for an action finds.                                *)

HiLoKeys(x) ==
    [opening |-> <<x.start, "">>, play |-> None, pay |-> <<x.action, "">>]
PaiGowKeys(x) ==
    [opening |-> <<x.start, "">>, play |-> None, pay |-> <<x.action, "settlement">>]
DoubleBonusKeys(x) == PaiGowKeys(x)
JokerKeys(x) == HiLoKeys(x)
FourCardKeys(x) ==
    [opening |-> <<x.start, "">>, play |-> <<x.action, "">>, pay |-> <<x.action, "settlement">>]
HoldemKeys(x) == FourCardKeys(x)
TeenPattiKeys(x) == FourCardKeys(x)
MississippiKeys(x) ==
    [opening |-> <<x.start, "">>, play |-> <<x.pending, "">>, pay |-> <<x.id, "settlement">>]
AceyKeys(x) ==
    [opening |-> <<x.action, "wager">>, play |-> None, pay |-> <<x.action, "payout">>]
PlinkoKeys(x) ==
    [opening |-> <<x.start, "">>, play |-> None, pay |-> <<x.start, "payout">>]
AndarBaharKeys(x) ==
    [opening |-> <<x.start, "">>, play |-> None, pay |-> <<x.start, "settlement">>]
CaribbeanKeys(x) ==
    [opening |-> <<x.start, "ante">>, play |-> <<x.action, "call">>,
     pay |-> <<x.action, "settlement">>]
JacksKeys(x) ==
    [opening |-> <<x.id, "wager">>, play |-> None, pay |-> <<x.action, "">>]
DeucesKeys(x) ==
    [opening |-> <<x.id, "wager">>, play |-> None, pay |-> <<x.id, "payout">>]

Keys(x) ==
    CASE table = "hi_lo" -> HiLoKeys(x)
      [] table = "pai_gow_poker" -> PaiGowKeys(x)
      [] table = "double_bonus" -> DoubleBonusKeys(x)
      [] table = "joker_poker" -> JokerKeys(x)
      [] table = "four_card_poker" -> FourCardKeys(x)
      [] table = "casino_holdem" -> HoldemKeys(x)
      [] table = "teen_patti" -> TeenPattiKeys(x)
      [] table = "mississippi_stud" -> MississippiKeys(x)
      [] table = "acey_deucey" -> AceyKeys(x)
      [] table = "plinko" -> PlinkoKeys(x)
      [] table = "andar_bahar" -> AndarBaharKeys(x)
      [] table = "caribbean_stud" -> CaribbeanKeys(x)
      [] table = "jacks_or_better" -> JacksKeys(x)
      [] table = "deuces_wild" -> DeucesKeys(x)

(* The stakes a round has been, or is being, charged for.                    *)
StakeKeys(x) ==
    (IF x.opening # "not_ready" THEN {Keys(x).opening} ELSE {})
        \cup (IF x.play # "not_ready" THEN {Keys(x).play} ELSE {})
        \cup {<<a, "">> : a \in Range(x.bets)}

Committed(action) == <<action, "">> \in DOMAIN rows

-----------------------------------------------------------------------------
(* A request: the document as the worker has changed it, and as it last saw  *)
(* it; the round it is at; the steps it will take; whether it still repairs; *)
(* what an exception restores while more than `until` and at most `from`     *)
(* steps are left; and the movement it looked for in vain.                   *)

Stake == <<"opening", "save">>
Raise == <<"play", "save">>
Pay   == <<"pay", "save">>

Go(r, s, x, plan) == [r EXCEPT !.state = s, !.round = x.id, !.plan = plan]
Focus(r) == RoundById(r.state, r.round)

(* The preparation is published, and the stake then taken under guard.       *)
Guarded(r, key, from, until) ==
    [r EXCEPT !.undo = [state |-> r.base, key |-> key, from |-> from, until |-> until]]

Missing(r, key) == [r EXCEPT !.missing = key]
Handled(r) == [r EXCEPT !.stage = "command"]

-----------------------------------------------------------------------------
(* _recover: the first thing an earlier request left undone. {} is nothing.  *)

OpeningPending(s) == s.active # None /\ s.active.opening = "pending"

(* The opening stake is in the ledger, or the round is taken back.           *)
\* Mutant of ConfirmOrCancel: the ledger is not asked.
CancelUnasked(r) ==
    LET x == r.state.active IN Go(r, CancelRound(r.state, x), x, <<"save">>)
ConfirmOrCancel(r) ==
    LET x == r.state.active
        k == Keys(x).opening
    IN IF k \in DOMAIN rows
       THEN Go(r, Put(r.state, [x EXCEPT !.opening = "complete"]), x, <<"save">>)
       ELSE Go(Missing(r, k), CancelRound(r.state, x), x, <<"save">>)

(* A round taken back ends the repair, where _recover returns.               *)
ConfirmOrStop(r) ==
    LET n == ConfirmOrCancel(r) IN IF n.state.active = None THEN Handled(n) ELSE n

\* Mutant of PayDue: unpaid rounds are left alone.
NothingDue(r) == {}
PayDue(r) ==
    {Go(r, r.state, x, Pay) : x \in {y \in r.state.recent : y.settlement = "pending"}}

HiLoRecover(r) ==
    IF OpeningPending(r.state) THEN {ConfirmOrCancel(r)} ELSE PayDue(r)
DoubleBonusRecover(r) == HiLoRecover(r)
JokerRecover(r) == HiLoRecover(r)
PaiGowRecover(r) ==
    IF OpeningPending(r.state) THEN {ConfirmOrStop(r)} ELSE PayDue(r)

(* A raise is confirmed and played out, or taken back.                       *)
FourCardRecover(r) ==
    LET x == r.state.active IN
    IF OpeningPending(r.state) THEN {ConfirmOrStop(r)}
    ELSE IF x # None /\ x.phase = "playing"
    THEN IF x.play = "complete" THEN {Go(r, r.state, x, <<"settle">>)}
         ELSE IF Keys(x).play \in DOMAIN rows
         THEN {Go(r, Put(r.state, [x EXCEPT !.play = "complete"]), x, <<"save">>)}
         ELSE {Handled(Go(Missing(r, Keys(x).play), ResetUncommittedPlay(r.state, x), x,
                          <<"save">>))}
    ELSE PayDue(r)
HoldemRecover(r) == FourCardRecover(r)
TeenPattiRecover(r) == FourCardRecover(r)

(* A street bet found in the ledger advances the round; one already marked   *)
(* as complete is not looked at.                                             *)
MississippiRecover(r) ==
    LET x == r.state.active IN
    IF OpeningPending(r.state) THEN {ConfirmOrStop(r)}
    ELSE IF x # None /\ x.play = "pending"
    THEN IF Keys(x).play \in DOMAIN rows
         THEN {Go(r, Put(r.state, [x EXCEPT !.play = "complete"]), x, <<"save", "settle">>)}
         ELSE {Go(Missing(r, Keys(x).play), ResetUncommittedBet(r.state, x), x, <<"save">>)}
    ELSE PayDue(r)

(* A round is archived before its wager: without one it becomes active again,*)
(* which another active round forbids.                                       *)
AceyRecover(r) ==
    LET due == {x \in r.state.recent : x.opening = "pending"} IN
    IF due = {} THEN PayDue(r)
    ELSE UNION {LET k == Keys(x).opening IN
                IF k \in DOMAIN rows
                THEN {Go(r, Put(r.state, [x EXCEPT !.opening = "complete"]), x, <<"save">>)}
                ELSE IF r.state.active # None THEN {None}
                ELSE {Go(Missing(r, k), RestoreUncommittedPlay(r.state, x), x, <<"save">>)}
                : x \in due}

(* A drop whose wager is not in the ledger waits for its own action.         *)
PlinkoRecover(r) ==
    LET found == {x \in r.state.recent : x.opening = "pending" /\ Keys(x).opening \in DOMAIN rows}
    IN IF found # {}
       THEN {Go(r, Put(r.state, [x EXCEPT !.opening = "complete"]), x, <<"save">>) : x \in found}
       ELSE {Go(r, r.state, x, Pay) :
                x \in {y \in r.state.recent : y.opening = "complete" /\ y.settlement = "pending"}}

(* A wager that is missing is taken now.                                     *)
AndarBaharRecover(r) ==
    LET due == {x \in r.state.recent : x.opening = "pending"} IN
    IF due # {} THEN {Go(r, r.state, x, Stake) : x \in due} ELSE PayDue(r)
DeucesRecover(r) ==
    LET s == r.state IN
    IF OpeningPending(s) THEN {Go(r, s, s.active, Stake)}
    ELSE {Go(r, s, x, Pay) : x \in {y \in s.recent : y.settlement = "pending"}}

(* A movement that was attempted and is not in the ledger stops the table    *)
(* for an operator.                                                          *)
CaribbeanRecoverAnte(r) ==
    LET x == r.state.active
        k == Keys(x).opening
    IN IF k \in DOMAIN rows
       THEN {Go(r, Put(r.state, [x EXCEPT !.opening = "complete", !.attempt = None]), x,
                <<"save">>)}
       ELSE IF x.attempt = "opening" THEN {None}
       ELSE {Go(r, CancelRound(r.state, x), x, <<"save">>)}
CaribbeanRecoverSettled(r, x) ==
    LET s == r.state IN
    IF x.play = "pending"
    THEN IF Keys(x).play \in DOMAIN rows
         THEN {Go(r, Put(s, [x EXCEPT !.play = "complete", !.attempt = None]), x, <<"save">>)}
         ELSE IF x.attempt = "play" THEN {None} ELSE {}
    ELSE IF x.settlement = "pending"
    THEN IF Keys(x).pay \in DOMAIN rows
         THEN {Go(r, Put(s, [x EXCEPT !.settlement = "complete", !.attempt = None]), x,
                  <<"save">>)}
         ELSE IF x.attempt = "pay" THEN {None} ELSE {}
    ELSE {}
CaribbeanRecover(r) ==
    IF OpeningPending(r.state) THEN CaribbeanRecoverAnte(r)
    ELSE UNION {CaribbeanRecoverSettled(r, x) : x \in r.state.recent}

Recover(r) ==
    CASE table = "hi_lo" -> HiLoRecover(r)
      [] table = "pai_gow_poker" -> PaiGowRecover(r)
      [] table = "double_bonus" -> DoubleBonusRecover(r)
      [] table = "joker_poker" -> JokerRecover(r)
      [] table = "four_card_poker" -> FourCardRecover(r)
      [] table = "casino_holdem" -> HoldemRecover(r)
      [] table = "teen_patti" -> TeenPattiRecover(r)
      [] table = "mississippi_stud" -> MississippiRecover(r)
      [] table = "acey_deucey" -> AceyRecover(r)
      [] table = "plinko" -> PlinkoRecover(r)
      [] table = "andar_bahar" -> AndarBaharRecover(r)
      [] table = "caribbean_stud" -> CaribbeanRecover(r)
      [] table = "deuces_wild" -> DeucesRecover(r)
      [] table = "jacks_or_better" -> {}

-----------------------------------------------------------------------------
(* Starting a round. A known action replays its round; one that anything     *)
(* else knows, or a second active round, is refused ({None}).                *)

Receipt(s, action, stage, x) ==
    action \notin DOMAIN s.receipts \/ s.receipts[action] = [stage |-> stage, round |-> x.id]

(* The actions the rounds answer to: action_owner.                           *)
ActionOwner(s, action) ==
    {<<x.id, "deal">> : x \in {y \in Rounds(s) : y.start = action}}
        \cup {<<x.id, "decision">> : x \in {y \in Rounds(s) : y.action = action}}

ReplayStart(r, x, plan) ==
    LET a == r.request.action IN
    IF Receipt(r.state, a, "deal", x) THEN {Go(r, Remember(r.state, a, "deal", x), x, plan)}
    ELSE {None}

NewRound(r) == {CreateRound(r.request.action, wins) : wins \in IF deals < MaxDeals[table] THEN BOOLEAN ELSE {}}
Seated(r, x) == Remember([r.state EXCEPT !.active = x], r.request.action, "deal", x)

(* The round is published, and then paid for or taken back.                  *)
PrepareStart(r, x, s, plan) ==
    Guarded(Go(r, s, x, <<"save">> \o plan), Keys(x).opening, Len(plan), 0)

(* owner, receipt and ledger are looked at in turn; a receipt must agree.    *)
HiLoStart(r) ==
    LET s == r.state
        a == r.request.action
        x == RoundForStart(s, a)
    IN IF x # None THEN ReplayStart(r, x, Stake)
       ELSE IF ActionOwner(s, a) # {} \/ a \in DOMAIN s.receipts \/ Committed(a)
               \/ s.active # None THEN {None}
       ELSE {PrepareStart(r, y, Seated(r, y), Stake) : y \in NewRound(r)}
PaiGowStart(r) == HiLoStart(r)
JokerStart(r) == HiLoStart(r)
FourCardStart(r) == HiLoStart(r)
HoldemStart(r) == HiLoStart(r)

(* A replay writes its receipt without a look; the owner is not asked.       *)
DoubleBonusStart(r) ==
    LET s == r.state
        a == r.request.action
        x == RoundForStart(s, a)
    IN IF x # None THEN {Go(r, Remember(s, a, "deal", x), x, Stake)}
       ELSE IF a \in DOMAIN s.receipts \/ Committed(a) \/ s.active # None THEN {None}
       ELSE {PrepareStart(r, y, Seated(r, y), Stake) : y \in NewRound(r)}
MississippiStart(r) == DoubleBonusStart(r)
TeenPattiStart(r) ==
    IF RoundForStart(r.state, r.request.action) = None
       /\ ActionOwner(r.state, r.request.action) # {} THEN {None}
    ELSE DoubleBonusStart(r)

(* The deal is free.                                                         *)
AceyDeal(r) ==
    LET s == r.state
        a == r.request.action
        x == RoundForStart(s, a)
    IN IF x # None THEN {Go(r, Remember(s, a, "deal", x), x, <<"save">>)}
       ELSE IF a \in DOMAIN s.receipts \/ s.active # None THEN {None}
       ELSE {Go(r, Seated(r, y), y, <<"save">>) : y \in NewRound(r)}

(* A drop, or a hand of Andar Bahar, is played out before it is paid for.    *)
PlinkoDrop(r) ==
    LET s == r.state
        a == r.request.action
        x == RoundForStart(s, a)
        Played(y) == Settled(y, None, "play")
    IN IF x # None THEN ReplayStart(r, x, Stake \o Pay)
       ELSE IF a \in DOMAIN s.receipts \/ Committed(a) THEN {None}
       ELSE {PrepareStart(r, y, Remember(ArchiveRound(s, y), a, "deal", y), Stake \o Pay) :
                y \in {Played(z) : z \in NewRound(r)}}
AndarBaharPlay(r) == PlinkoDrop(r)

(* The attempt at the ante is published a second time before it is made; an  *)
(* ante that is recorded is only looked up.                                  *)
CaribbeanDeal(r) ==
    LET s == r.state
        a == r.request.action
        x == RoundForStart(s, a)
    IN IF x # None
       THEN {Go(r, Remember(s, a, "deal", x), x,
                IF x.opening = "complete" THEN <<>> ELSE <<"attemptOpening">> \o Stake)}
       ELSE IF ActionOwner(s, a) # {} \/ a \in DOMAIN s.receipts
               \/ <<a, "ante">> \in DOMAIN rows \/ s.active # None THEN {None}
       ELSE {PrepareStart(r, y, Seated(r, y), <<"attemptOpening">> \o Stake) : y \in NewRound(r)}

(* Neither receipts nor repairs.                                             *)
JacksStart(r) ==
    LET x == RoundForStart(r.state, r.request.action) IN
    IF x # None THEN {Go(r, r.state, x, Stake)}
    ELSE IF r.state.active # None THEN {None}
    ELSE {PrepareStart(r, y, [r.state EXCEPT !.active = y], Stake) : y \in NewRound(r)}

DeucesStart(r) ==
    LET s == r.state
        a == r.request.action
        x == RoundById(s, a)
    IN IF a \in DOMAIN s.receipts
       THEN IF s.receipts[a] = [stage |-> "deal", round |-> a] /\ x # None
            THEN {Go(r, s, x, Stake)} ELSE {None}
       ELSE IF <<a, "wager">> \in DOMAIN rows \/ s.active # None THEN {None}
       ELSE {PrepareStart(r, y, Seated(r, y), Stake) : y \in NewRound(r)}

Start(r) ==
    CASE table = "hi_lo" -> HiLoStart(r)
      [] table = "pai_gow_poker" -> PaiGowStart(r)
      [] table = "double_bonus" -> DoubleBonusStart(r)
      [] table = "joker_poker" -> JokerStart(r)
      [] table = "four_card_poker" -> FourCardStart(r)
      [] table = "casino_holdem" -> HoldemStart(r)
      [] table = "teen_patti" -> TeenPattiStart(r)
      [] table = "mississippi_stud" -> MississippiStart(r)
      [] table = "acey_deucey" -> AceyDeal(r)
      [] table = "plinko" -> PlinkoDrop(r)
      [] table = "andar_bahar" -> AndarBaharPlay(r)
      [] table = "caribbean_stud" -> CaribbeanDeal(r)
      [] table = "jacks_or_better" -> JacksStart(r)
      [] table = "deuces_wild" -> DeucesStart(r)

-----------------------------------------------------------------------------
(* Deciding a round: a decision replays, is refused, or ends the round or    *)
(* raises it.                                                                *)

IsActive(s, x) == s.active # None /\ s.active.id = x.id
Decided(x, q) == x.action = q.action /\ x.choice = q.choice

(* Archived with its result, whose payout follows.                           *)
Finish(r, x, plan) ==
    LET q == r.request IN
    Go(r, Remember(ArchiveRound(r.state, Settled(x, q.action, q.choice)), q.action, "decision", x),
       x, <<"save">> \o plan)

(* The action belongs to this decision, or to nothing.                       *)
Misused(s, x, q) ==
    \/ ActionOwner(s, q.action) \ {<<x.id, "decision">>} # {}
    \/ ~Receipt(s, q.action, "decision", x)
    \/ ActionOwner(s, q.action) = {} /\ Committed(q.action)

(* What follows when the round may be decided; a replay settles it again.    *)
Decide(r, refused, fresh) ==
    LET s == r.state
        q == r.request
        x == RoundById(s, q.round)
    IN IF x = None \/ refused THEN {None}
       ELSE IF x.opening # "complete" THEN {None}
       ELSE IF x.phase = "settled"
       THEN IF Decided(x, q) THEN {Go(r, Remember(s, q.action, "decision", x), x, Pay)} ELSE {None}
       ELSE IF ~IsActive(s, x) THEN {None} ELSE {fresh}

Wanted(r) == RoundById(r.state, r.request.round)
Refused(r) == Wanted(r) # None /\ Misused(r.state, Wanted(r), r.request)

HiLoGuess(r) == Decide(r, Refused(r), Finish(r, Wanted(r), Pay))
PaiGowDecide(r) == HiLoGuess(r)
JokerDraw(r) == HiLoGuess(r)

(* Here only a fresh draw is held against what else the action was used for. *)
DoubleBonusDecide(r) ==
    LET q == r.request
        x == Wanted(r)
    IN Decide(r, x # None /\ x.phase # "settled"
                    /\ (q.action \in DOMAIN r.state.receipts \/ Committed(q.action)),
              Finish(r, x, Pay))

(* The raise is published, taken or taken back, and the round played out.    *)
PrepareRaise(r, x) ==
    LET q == r.request
        s == Remember(Put(r.state, PreparePlay(x, q.action)), q.action, "decision", x)
    IN Guarded(Go(r, s, x, <<"save">> \o Raise \o <<"settle">>),
               FourCardKeys(PreparePlay(x, q.action)).play, 3, 1)

FourCardDecide(r) ==
    LET x == Wanted(r) IN
    Decide(r, Refused(r),
           IF r.request.choice = "fold" THEN Finish(r, x, Pay) ELSE PrepareRaise(r, x))
(* A folded hand has nothing to settle.                                      *)
HoldemDecide(r) ==
    LET x == Wanted(r) IN
    Decide(r, Refused(r),
           IF r.request.choice = "fold" THEN Finish(r, x, <<>>) ELSE PrepareRaise(r, x))
TeenPattiDecide(r) == HoldemDecide(r)

(* A decision of a street has no receipt: the bets and the fold that are     *)
(* recorded tell a replay.                                                   *)
DecisionCommitted(x, action) == action \in Range(x.bets) \/ x.action = action
MississippiDecide(r) ==
    LET s == r.state
        q == r.request
        x == Wanted(r)
        bet == PrepareBet(x, q.action)
    IN IF x = None THEN {None}
       ELSE IF x.opening # "complete" THEN {None}
       ELSE IF DecisionCommitted(x, q.action)
       THEN IF x.settlement = "pending" THEN {Go(r, s, x, Pay)} ELSE {None}
       ELSE IF Committed(q.action) \/ x.phase = "settled" \/ ~IsActive(s, x) THEN {None}
       ELSE IF q.choice = "fold"
       THEN {Go(r, ArchiveRound(s, Settled(x, q.action, "fold")), x, <<"save">>)}
       ELSE {Guarded(Go(r, Put(s, bet), x, <<"save">> \o Raise \o <<"settle">>),
                     MississippiKeys(bet).play, 3, 1)}

(* The wager of a played hand is taken after the hand is archived.           *)
AceyPlay(r) ==
    LET s == r.state
        q == r.request
        x == Wanted(r)
        y == [Settled(x, q.action, "play") EXCEPT !.opening = "pending"]
    IN IF x = None THEN {None}
       ELSE IF ~Receipt(s, q.action, "decision", x) THEN {None}
       ELSE IF x.phase = "settled"
       THEN IF Decided(x, q) THEN {Go(r, Remember(s, q.action, "decision", x), x, Stake \o Pay)}
            ELSE {None}
       ELSE IF ~IsActive(s, x) THEN {None}
       ELSE {Guarded(Go(r, Remember(ArchiveRound(s, y), q.action, "decision", x), x,
                        <<"save">> \o Stake \o Pay),
                     AceyKeys(y).opening, 4, 0)}
AceyPass(r) ==
    LET s == r.state
        q == r.request
        x == Wanted(r)
        y == [Settled(x, q.action, "pass") EXCEPT !.phase = "passed", !.settlement = "not_ready"]
    IN IF x = None THEN {None}
       ELSE IF ~Receipt(s, q.action, "decision", x) THEN {None}
       ELSE IF x.phase = "passed"
       THEN IF Decided(x, q) THEN {Go(r, Remember(s, q.action, "decision", x), x, <<"save">>)}
            ELSE {None}
       ELSE IF ~IsActive(s, x) THEN {None}
       ELSE {Go(r, Remember(ArchiveRound(s, y), q.action, "decision", x), x, <<"save">>)}

(* The call, and the payout if there is one, are each published as attempts. *)
CaribbeanEnsureCall(x) ==
    (IF x.play = "complete" THEN <<>> ELSE <<"attemptPlay">> \o Raise)
        \o (IF ~Pays(x) THEN Pay
            ELSE IF x.settlement = "complete" THEN <<>> ELSE <<"attemptPay">> \o Pay)
CaribbeanCall(r) ==
    LET s == r.state
        q == r.request
        x == Wanted(r)
        y == [Settled(x, q.action, "play") EXCEPT !.play = "pending", !.attempt = "play"]
        plan == CaribbeanEnsureCall(y)
    IN IF x = None \/ Refused(r) THEN {None}
       ELSE IF x.opening # "complete" THEN {None}
       ELSE IF x.phase = "settled"
       THEN IF Decided(x, q)
            THEN {Go(r, Remember(s, q.action, "decision", x), x, CaribbeanEnsureCall(x))}
            ELSE {None}
       ELSE IF ~IsActive(s, x) THEN {None}
       ELSE {Guarded(Go(r, Remember(ArchiveRound(s, y), q.action, "decision", x), x,
                        <<"save">> \o plan),
                     CaribbeanKeys(y).play, Len(plan), 0)}
CaribbeanFold(r) ==
    LET s == r.state
        q == r.request
        x == Wanted(r)
    IN IF x = None \/ Refused(r) THEN {None}
       ELSE IF x.opening # "complete" THEN {None}
       ELSE IF x.phase = "settled"
       THEN IF Decided(x, q) THEN {Go(r, Remember(s, q.action, "decision", x), x, <<"save">>)}
            ELSE {None}
       ELSE IF ~IsActive(s, x) THEN {None} ELSE {Finish(r, x, <<>>)}

(* The draw is bound to its action first, and then made: its wager is not    *)
(* asked for.                                                                *)
JacksDraw(r) ==
    LET s == r.state
        a == r.request.action
        x == Wanted(r)
    IN IF x = None \/ (\E y \in Rounds(s) : y.action = a /\ y.id # r.request.round) THEN {None}
       ELSE IF x.action \notin {None, a} THEN {None}
       ELSE IF x.phase = "settled" THEN {Go(r, s, x, Pay)}
       ELSE IF ~IsActive(s, x) THEN {None}
       ELSE {Go(r, Put(s, [x EXCEPT !.action = a]), x, <<"save", "settle">>)}

(* The wager is seen to first, whatever becomes of the draw.                 *)
DeucesDraw(r) ==
    LET s == r.state
        a == r.request.action
        x == Wanted(r)
    IN IF x = None THEN {None}
       ELSE IF a \in DOMAIN s.receipts
       THEN IF s.receipts[a] = [stage |-> "decision", round |-> x.id]
            THEN {Go(r, s, x, Stake \o Pay)} ELSE {None}
       ELSE IF x.phase = "settled" /\ x.action = a
       THEN {Go(r, Remember(s, a, "decision", x), x, Stake \o Pay)}
       ELSE IF x.phase = "settled" \/ Keys(x).pay \in DOMAIN rows THEN {Go(r, s, x, Stake)}
       ELSE {Go(r, s, x, Stake \o <<"settle">>)}

DecideRound(r) ==
    CASE table = "hi_lo" -> HiLoGuess(r)
      [] table = "pai_gow_poker" -> PaiGowDecide(r)
      [] table = "double_bonus" -> DoubleBonusDecide(r)
      [] table = "joker_poker" -> JokerDraw(r)
      [] table = "four_card_poker" -> FourCardDecide(r)
      [] table = "casino_holdem" -> HoldemDecide(r)
      [] table = "teen_patti" -> TeenPattiDecide(r)
      [] table = "mississippi_stud" -> MississippiDecide(r)
      [] table = "acey_deucey" -> IF r.request.choice = "pass" THEN AceyPass(r) ELSE AceyPlay(r)
      [] table = "caribbean_stud" ->
            IF r.request.choice = "fold" THEN CaribbeanFold(r) ELSE CaribbeanCall(r)
      [] table = "jacks_or_better" -> JacksDraw(r)
      [] table = "deuces_wild" -> DeucesDraw(r)

-----------------------------------------------------------------------------
(* Holding cards. Only Deuces Wild knows the action, and asks for the wager. *)

Hold(s, x) == Put(s, [x EXCEPT !.holds = TRUE])

JokerSetHolds(r) ==
    LET x == r.state.active IN
    IF x = None \/ ~IsActive(r.state, Wanted(r)) \/ x.opening # "complete" THEN {None}
    ELSE {Go(r, Hold(r.state, x), x, <<"save">>)}
JacksSetHolds(r) ==
    LET x == r.state.active IN
    IF x = None \/ x.id # r.request.round THEN {None} ELSE {Go(r, Hold(r.state, x), x, <<"save">>)}
DeucesSetHolds(r) ==
    LET s == r.state
        a == r.request.action
        x == Wanted(r)
    IN IF x = None THEN {None}
       ELSE IF a \notin DOMAIN s.receipts THEN {Go(r, s, x, Stake \o <<"hold">>)}
       ELSE IF s.receipts[a] = [stage |-> "hold", round |-> x.id] THEN {Go(r, s, x, Stake)}
       ELSE {None}

SetHolds(r) ==
    CASE table = "joker_poker" -> JokerSetHolds(r)
      [] table = "jacks_or_better" -> JacksSetHolds(r)
      [] table = "deuces_wild" -> DeucesSetHolds(r)

-----------------------------------------------------------------------------
(* A request from its beginning to its answer.                               *)

Command(r) ==
    CASE r.request.op = "state" -> {None}
      [] r.request.op = "start" -> Start(r)
      [] r.request.op = "decide" -> DecideRound(r)
      [] r.request.op = "hold" -> SetHolds(r)

(* What the worker does next: None when the request is answered or refused.  *)
(* A deal past the bound is refused.                                         *)
Continue(r) ==
    IF r.plan # <<>>
    THEN {IF r.undo # None /\ Len(r.plan) <= r.undo.until THEN [r EXCEPT !.undo = None] ELSE r}
    ELSE IF r.stage = "repair" /\ Recover(r) # {} THEN Recover(r)
    ELSE IF r.stage = "answer" THEN {None}
    ELSE LET N == Command([r EXCEPT !.stage = "answer"])
         IN IF N = {} THEN {None}
            ELSE {IF n # None /\ n.plan = <<>> THEN None ELSE n : n \in N}

(* The worker goes on with n; a deal it has made on the way is counted.      *)
Deals(n) ==
    IF n # None /\ n.request.op = "start" /\ n.stage = "answer"
       /\ n.round \notin {x.id : x \in Rounds(n.base)} THEN 1 ELSE 0
GoOn(w, n) == work' = [work EXCEPT ![w] = n]

Repairs(op) == table # "jacks_or_better" /\ (table # "deuces_wild" \/ op \in {"start", "state"})

NewRequest(q) ==
    [request |-> q, stage |-> IF Repairs(q.op) THEN "repair" ELSE "command",
     state |-> doc, base |-> doc, plan |-> <<>>, round |-> None, undo |-> None, missing |-> None]

Load(w, q) ==
    /\ work[w] = None
    /\ \E n \in Continue(NewRequest(q)) : GoOn(w, n) /\ deals' = deals + Deals(n)
    /\ issued' = IF q.action = issued + 1 THEN q.action ELSE issued
    /\ UNCHANGED <<table, doc, rows, wallet, failures, contested, overwritten>>

Request(op, action, round, choice) ==
    [op |-> op, action |-> action, round |-> round, choice |-> choice]

Look(w) == Load(w, Request("state", None, None, None))

OneShot == table \in {"plinko", "andar_bahar"}
DecisionChoices ==
    IF table \in {"four_card_poker", "casino_holdem", "teen_patti", "mississippi_stud",
                  "caribbean_stud"} THEN {"play", "fold"}
    ELSE IF table = "acey_deucey" THEN {"play", "pass"} ELSE {"play"}

Ask(w) ==
    \E a \in {b \in Actions : b <= issued + 1} :
        \/ Load(w, Request("start", a, None, None))
        \/ /\ ~OneShot
           /\ \E x \in Rounds(doc), c \in DecisionChoices : Load(w, Request("decide", a, x.id, c))
        \/ /\ table = "deuces_wild"
           /\ \E x \in Rounds(doc) : Load(w, Request("hold", a, x.id, None))
Arrange(w) ==
    /\ table \in {"joker_poker", "jacks_or_better"}
    /\ \E x \in Rounds(doc) : Load(w, Request("hold", None, x.id, None))

-----------------------------------------------------------------------------
(* The steps of a request.                                                   *)

(* An exception. While the first stake is being taken, and if it is not in   *)
(* the ledger, the preparation is undone; Caribbean Stud undoes it only when *)
(* the stake was refused for want of funds.                                  *)
Undoes(r, short) ==
    /\ r.undo # None /\ Len(r.plan) <= r.undo.from /\ Len(r.plan) > r.undo.until
    /\ r.undo.key \notin DOMAIN rows
    /\ short \/ table # "caribbean_stud"
Raised(r, short) ==
    IF Undoes(r, short)
    THEN [r EXCEPT !.state = r.undo.state, !.plan = <<"save">>, !.stage = "answer",
                   !.missing = r.undo.key, !.undo = None]
    ELSE None

(* The round played out, and what is left to pay.                            *)
Played(r, x) ==
    IF table = "mississippi_stud" THEN AdvanceAfterBet(x)
    ELSE IF table = "deuces_wild" THEN Settled(x, r.request.action, "play")
    ELSE Settled(x, x.action, "play")
PlayOut(r) ==
    LET x == Focus(r)
        y == Played(r, x)
        s == IF y.phase = "settled" THEN ArchiveRound(r.state, y) ELSE Put(r.state, y)
    IN [r EXCEPT !.state = IF table = "deuces_wild"
                           THEN Remember(s, r.request.action, "decision", y) ELSE s,
                 !.plan = IF y.phase # "settled" THEN Tail(@)
                          ELSE Tail(@) \o Pay]

Attempt(r, stage) ==
    [r EXCEPT !.state = Put(@, [Focus(r) EXCEPT !.attempt = stage]), !.plan = Tail(@)]

(* What a publication makes of the document: {} when it is refused first.    *)
Prepared(r) ==
    LET x == Focus(r)
        step == Head(r.plan)
    IN CASE step = "save" -> {[r EXCEPT !.plan = Tail(@)]}
         [] step = "settle" -> {PlayOut(r)}
         [] step = "attemptOpening" -> {Attempt(r, "opening")}
         [] step = "attemptPlay" -> {Attempt(r, "play")}
         [] step = "attemptPay" -> {Attempt(r, "pay")}
         [] step = "hold" ->
              IF x.phase = "settled" THEN {}
              ELSE {[r EXCEPT !.state = Remember(Hold(@, x), r.request.action, "hold", x),
                              !.plan = Tail(@)]}
         [] OTHER -> {}

Publishing(r) ==
    Head(r.plan) \in {"save", "settle", "attemptOpening", "attemptPlay", "attemptPay", "hold"}

Stakes(s) == UNION {StakeKeys(x) : x \in Rounds(s)}

(* The stakes a request is on its way to take.                               *)
Taking(r) ==
    IF r = None \/ r.plan = <<>> \/ Focus(r) = None THEN {}
    ELSE {Keys(Focus(r))[part] : part \in {"opening", "play"} \cap Range(r.plan)}

(* A stake is undone under the worker that is taking it, or that took it     *)
(* after it was looked for.                                                  *)
Contested(w, r, s) ==
    {k \in Stakes(doc) \ Stakes(s) :
        \/ k \in DOMAIN rows /\ r.missing = k
        \/ \E v \in Workers \ {w} : k \in Taking(work[v])}

(* A bet that was taken leaves the document without advancing the street.    *)
Overwritten(s) ==
    IF table = "mississippi_stud" /\ doc.active # None /\ doc.active.play = "complete"
       /\ s.active # None /\ s.active.bets = doc.active.bets
       /\ s.active.pending # doc.active.pending
    THEN {Keys(doc.active).play} ELSE {}

(* A document replaces the one the request last saw; it is accepted as well  *)
(* when it is there already. The call may fail afterwards.                   *)
\* Mutant of Replaceable: no baseline is compared.
LastWriteWins(n) == TRUE
Replaceable(n) == doc \in {n.base, n.state}
Accept(w, r, n) ==
    /\ Replaceable(n)
    /\ doc' = n.state
    /\ contested' = contested \cup Contested(w, n, n.state)
    /\ overwritten' = overwritten \cup Overwritten(n.state)
    /\ \/ /\ \E m \in Continue([n EXCEPT !.base = n.state]) :
                GoOn(w, m) /\ deals' = deals + Deals(m)
          /\ UNCHANGED failures
       \/ /\ failures < MaxFailures /\ failures' = failures + 1
          /\ GoOn(w, Raised(r, FALSE)) /\ UNCHANGED deals

(* It is refused when neither is there, or when the one there differs from   *)
(* the desired one in its time stamps, which are left out here.              *)
Refuse(w, r) ==
    /\ doc # r.base
    /\ GoOn(w, Raised(r, FALSE))
    /\ UNCHANGED <<doc, deals, failures, contested, overwritten>>

Save(w) ==
    LET r == work[w] IN
    /\ r # None /\ Publishing(r)
    /\ \/ \E n \in Prepared(r) : Accept(w, r, n)
       \/ /\ \/ \A n \in Prepared(r) : doc # n.state
             \/ Head(r.plan) \in {"save", "settle"}
          /\ Refuse(w, r)
       \/ /\ Prepared(r) = {}
          /\ GoOn(w, Raised(r, FALSE))
          /\ UNCHANGED <<doc, deals, failures, contested, overwritten>>
    /\ UNCHANGED <<table, rows, wallet, issued>>

Marked(r, part) ==
    LET x == Focus(r)
        y == CASE part = "opening" -> [x EXCEPT !.opening = "complete"]
               [] part = "play" -> [x EXCEPT !.play = "complete"]
               [] part = "pay" -> [x EXCEPT !.settlement = "complete"]
    IN [r EXCEPT !.state = Put(@, [y EXCEPT !.attempt = None]), !.plan = Tail(@), !.missing = None]

Amount(part) == IF part = "pay" THEN 2 ELSE -1

(* What is still to be moved. The gateway makes every movement once under its*)
(* key and replays it after that, also where the service has looked for it   *)
(* before (Jacks or Better, Deuces Wild).                                    *)
Outstanding(r, part) ==
    /\ part = "pay" => Pays(Focus(r))
    /\ Keys(Focus(r))[part] \notin DOMAIN rows

(* The round is marked in the document that is published next.               *)
Move(w) ==
    LET r == work[w]
        part == Head(r.plan)
        k == Keys(Focus(r))[part]
    IN /\ r # None /\ part \in {"opening", "play", "pay"}
       /\ \/ /\ ~Outstanding(r, part)
             /\ GoOn(w, Marked(r, part))
             /\ UNCHANGED <<rows, wallet, failures>>
          \/ /\ Outstanding(r, part) /\ wallet + Amount(part) < 0
             /\ GoOn(w, Raised(r, TRUE))
             /\ UNCHANGED <<rows, wallet, failures>>
          \/ /\ Outstanding(r, part) /\ wallet + Amount(part) >= 0
             /\ wallet' = wallet + Amount(part)
             /\ rows' = [j \in DOMAIN rows \cup {k} |->
                           (IF j \in DOMAIN rows THEN rows[j] ELSE 0) + IF j = k THEN 1 ELSE 0]
             /\ \/ GoOn(w, Marked(r, part)) /\ UNCHANGED failures
                \/ failures < MaxFailures /\ failures' = failures + 1 /\ GoOn(w, None)
       /\ UNCHANGED <<table, doc, issued, deals, contested, overwritten>>

(* A call fails before it does anything, or the worker dies.                 *)
Fail(w) ==
    /\ work[w] # None /\ failures < MaxFailures
    /\ failures' = failures + 1
    /\ GoOn(w, Raised(work[w], FALSE)) \/ GoOn(w, None)
    /\ UNCHANGED <<table, doc, rows, wallet, issued, deals, contested, overwritten>>

Step(w) == Save(w) \/ Move(w)

Next == \E w \in Workers : Look(w) \/ Ask(w) \/ Arrange(w) \/ Step(w) \/ Fail(w)

Spec == Init /\ [][Next]_vars

(* Some worker that is alive goes on, and the player's page keeps looking.   *)
Fairness ==
    /\ WF_vars(\E w \in Workers : Step(w))
    /\ SF_vars(\E w \in Workers : Look(w))
FairSpec == Spec /\ Fairness

-----------------------------------------------------------------------------
RoundType(x) ==
    /\ x.start \in Actions /\ x.wins \in BOOLEAN /\ x.holds \in BOOLEAN
    /\ {x.opening, x.play, x.settlement} \subseteq Marks
    /\ x.phase \in {"decision", "playing", "settled", "passed"}
    /\ x.choice \in {None, "play", "fold", "pass"}
    /\ x.attempt \in {None, "opening", "play", "pay"}
    /\ {x.action, x.pending} \cup Range(x.bets) \subseteq Actions \cup {None}

Movements(x) ==
    StakeKeys(x) \cup (IF x.phase = "settled" /\ Pays(x) THEN {Keys(x).pay} ELSE {})

(* A stake or a payout that is marked complete is in the ledger.             *)
MarksAreBacked ==
    \A x \in Rounds(doc) :
        /\ x.opening = "complete" => Keys(x).opening \in DOMAIN rows
        /\ x.play = "complete" => Keys(x).play \in DOMAIN rows
        /\ x.settlement = "complete" /\ Pays(x) => Keys(x).pay \in DOMAIN rows

(* The ledger and the document tell the same story, whatever fails in        *)
(* between and however the processes overlap: every movement is made once and*)
(* belongs to a round the document knows, a stake or payout marked complete  *)
(* is in the ledger, and a round is paid out only when all its stakes were   *)
(* taken. Excepted are stakes one process undid while another was taking     *)
(* them, the street bets of Mississippi Stud a later bet replaced, and the   *)
(* payouts of Jacks or Better, which does not ask for the stake.             *)
MoneyMatchesTables ==
    /\ MarksAreBacked
    /\ \A k \in DOMAIN rows \ (contested \cup overwritten) :
          rows[k] = 1 /\ \E x \in Rounds(doc) : k \in Movements(x)
    /\ \A x \in Rounds(doc) :
          /\ RoundType(x)
          /\ x.phase = "settled" /\ Keys(x).pay \in DOMAIN rows /\ table # "jacks_or_better"
                => StakeKeys(x) \subseteq DOMAIN rows

(* A round that is over and whose stakes are paid stays as it was decided:   *)
(* no replay, repair or undoing reopens it or changes its result.            *)
Result(x) == [id |-> x.id, action |-> x.action, choice |-> x.choice, wins |-> x.wins]
TerminalIsFinal ==
    [][\A x \in Rounds(doc) :
          x.phase \in {"settled", "passed"} /\ x.opening # "pending" /\ x.play # "pending"
          => \E y \in doc'.recent : y.phase = x.phase /\ Result(y) = Result(x)]_vars

(* However a request ends, the table is free again: what it left pending is  *)
(* confirmed, undone or paid by a later look. It is not where the repair has *)
(* to wait: for the player's own action (Plinko), for funds (Andar Bahar and *)
(* Deuces Wild), for an operator (Caribbean Stud), or where there is none    *)
(* (Jacks or Better).                                                        *)
Pending(x) == "pending" \in {x.opening, x.play, x.settlement} \/ x.phase = "playing"
TablesAreFreed ==
    table \in {"plinko", "andar_bahar", "deuces_wild", "caribbean_stud", "jacks_or_better"}
    \/ []<>(\A x \in Rounds(doc) : ~Pending(x))
===============================================================================
