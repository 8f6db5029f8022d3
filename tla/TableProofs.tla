----------------------------- MODULE TableProofs -----------------------------
(* The table games, for every number of workers, rounds and failures.         *)
(*                                                                            *)
(* Casino War. The ledger never shows a payout without the stakes it answers, *)
(* also for the preparations that are rolled back while another worker        *)
(* settles them: what a worker skips is recorded, and what is recorded is in  *)
(* the ledger, from which nothing is ever taken (Inv).                        *)
(*                                                                            *)
(* And the money agrees with the rounds. A worker acts on a copy of a round   *)
(* that may have changed, or be gone, since it read it: WarInv says what the  *)
(* copy still tells of the round (Copy), whose every movement is (Owned), and *)
(* what a rollback can count on.                                              *)
(*                                                                            *)
(* The other tables, as T: a round that is over and whose stakes are paid     *)
(* stays as it was decided. A publication replaces the document only if it is *)
(* the one the request last saw; TableInv says what a request may make of it, *)
(* with the steps it has left and what it would undo. On top of it MarksInv   *)
(* says which marks a round may have, and that these are in the ledger.       *)
EXTENDS CasinoWar, FiniteSetTheorems, SequenceTheorems, WellFoundedInduction, TLAPS

Fields == {"pc", "action", "round", "recorded", "intent", "todo", "rounds", "marker", "found"}

\* A worker with its request stands on the ledger whose keys are K: what it takes
\* for recorded is there, and so are the movements before the one it is at.
Sound(x, K) ==
    x # None =>
        /\ DOMAIN x = Fields
        /\ x.recorded \subseteq K
        /\ x.pc \in {"transact", "mark"} =>
              /\ x.intent \in DOMAIN Intents(x.round)
              /\ \A j \in DOMAIN Intents(x.round) :
                    j < x.intent => Intents(x.round)[j].key \in K
        /\ x.pc = "mark" => Intents(x.round)[x.intent].key \in K

Inv ==
    /\ DOMAIN doc = {"rounds", "requests", "ledger_actions"}
    /\ doc.ledger_actions \subseteq DOMAIN rows
    /\ DOMAIN work = Workers
    /\ \A w \in Workers : Sound(work[w], DOMAIN rows)
    /\ StakesComeFirst

-----------------------------------------------------------------------------
\* The movements of a round come stakes first.
LEMMA IntentsInOrder ==
    ASSUME NEW round, NEW i \in DOMAIN Intents(round), Intents(round)[i].amount > 0
    PROVE  /\ \E j \in DOMAIN Intents(round) :
                 j < i /\ Intents(round)[j].key = <<round.id[1], "ante">>
           /\ (Intents(round)[i].key[2] = "settlement"
               /\ Intents(round)[i].key[1] # round.id[1]) =>
                 \E j \in DOMAIN Intents(round) :
                    j < i /\ Intents(round)[j].key = <<Intents(round)[i].key[1], "war-wager">>
<1> USE BoundsAssumption DEF Intents, Intent
<1>1. CASE round.outcome = "player_win"
  BY <1>1
<1>2. CASE round.outcome = "surrender"
  BY <1>2
<1>3. CASE round.outcome = "war_win"
  <2>1. /\ DOMAIN Intents(round) = {1, 2, 3}
        /\ Intents(round)[1] = [key |-> <<round.id[1], "ante">>, amount |-> -Wager]
        /\ Intents(round)[2] = [key |-> <<round.decision, "war-wager">>, amount |-> -Wager]
        /\ Intents(round)[3] = [key |-> <<round.decision, "settlement">>, amount |-> 3 * Wager]
    BY <1>3
  <2> HIDE DEF Intents
  <2>2. i = 3
    BY <2>1
  <2> QED BY <2>1, <2>2
<1>4. CASE round.outcome = "war_loss"
  BY <1>4
<1>5. CASE round.outcome \notin {"player_win", "surrender", "war_win", "war_loss"}
  <2>1. DOMAIN Intents(round) = {1} /\ Intents(round)[1].amount = -Wager
    BY <1>5
  <2> HIDE DEF Intents
  <2> QED BY <2>1
<1> QED BY <1>1, <1>2, <1>3, <1>4, <1>5

LEMMA IntentsArePlaces ==
    ASSUME NEW round PROVE DOMAIN Intents(round) \subseteq Nat
<1> USE DEF Intents, Intent
<1>1. CASE round.outcome = "player_win"
  BY <1>1
<1>2. CASE round.outcome = "surrender"
  BY <1>2
<1>3. CASE round.outcome = "war_win"
  BY <1>3
<1>4. CASE round.outcome = "war_loss"
  BY <1>4
<1>5. CASE round.outcome \notin {"player_win", "surrender", "war_win", "war_loss"}
  BY <1>5
<1> QED BY <1>1, <1>2, <1>3, <1>4, <1>5

LEMMA SoundOnMore ==
    ASSUME NEW x, NEW K, NEW L, K \subseteq L, Sound(x, K)
    PROVE  Sound(x, L)
BY DEF Sound

\* A worker at no movement stands on whatever it takes for recorded.
LEMMA ReconcilingIsSound ==
    ASSUME NEW action, NEW round, NEW recorded, NEW marker, NEW K, recorded \subseteq K
    PROVE  Sound(Reconciling(action, round, recorded, marker), K)
BY DEF Sound, Reconciling, Fields

LEMMA VisitIsSound ==
    ASSUME NEW todo, NEW rounds, NEW recorded, NEW K, recorded \subseteq K,
           NEW next \in Visits(todo, rounds, recorded)
    PROVE  Sound(next, K)
BY DEF Sound, Visits, Reconciling, Fields

LEMMA RaisedIsSound ==
    ASSUME NEW w \in Workers, NEW K, Sound(work[w], K), work[w] # None
    PROVE  Sound(Raised(w), K)
BY DEF Sound, Raised, Fields

-----------------------------------------------------------------------------
\* One worker moves on and no row is taken away: all workers stand as before.
LEMMA WorkerMoves ==
    ASSUME Inv, NEW w \in Workers, NEW x,
           work' = [work EXCEPT ![w] = x],
           Sound(x, DOMAIN rows'), DOMAIN rows \subseteq DOMAIN rows'
    PROVE  /\ DOMAIN work' = Workers
           /\ \A v \in Workers : Sound(work'[v], DOMAIN rows')
<1>1. DOMAIN work' = Workers
  BY DEF Inv
<1>2. ASSUME NEW v \in Workers PROVE Sound(work'[v], DOMAIN rows')
  <2>1. CASE v = w
    BY <2>1 DEF Inv
  <2>2. CASE v # w
    <3>1. work'[v] = work[v] /\ Sound(work[v], DOMAIN rows)
      BY <2>2 DEF Inv
    <3> QED BY <3>1, SoundOnMore
  <2> QED BY <2>1, <2>2
<1> QED BY <1>1, <1>2

\* A step that leaves the ledger and the recorded movements alone.
LEMMA QuietStep ==
    ASSUME Inv, NEW w \in Workers, NEW x,
           work' = [work EXCEPT ![w] = x], Sound(x, DOMAIN rows), rows' = rows,
           DOMAIN doc' = DOMAIN doc, doc'.ledger_actions = doc.ledger_actions
    PROVE  Inv'
<1>1. /\ DOMAIN work' = Workers
      /\ \A v \in Workers : Sound(work'[v], DOMAIN rows')
  BY WorkerMoves
<1>2. StakesComeFirst'
  BY DEF Inv, StakesComeFirst
<1> QED BY <1>1, <1>2 DEF Inv

LEMMA AtRequest ==
    ASSUME Inv, NEW w \in Workers, NEW pc, At(w, pc)
    PROVE  work[w] # None /\ work[w].pc = pc /\ Sound(work[w], DOMAIN rows)
BY DEF Inv, At

-----------------------------------------------------------------------------
\* Each operation preserves the invariant.
LEMMA LoadKeeps ==
    ASSUME Inv, NEW w \in Workers, LoadState(w) PROVE Inv'
<1>1. PICK next \in Visits(DOMAIN doc.rounds, doc.rounds, doc.ledger_actions) :
          work' = [work EXCEPT ![w] = next]
  BY DEF LoadState
<1>2. Sound(next, DOMAIN rows)
  BY VisitIsSound DEF Inv
<1> QED BY <1>1, <1>2, QuietStep DEF LoadState

LEMMA PreparedKeeps ==
    ASSUME Inv, NEW w \in Workers, NEW action, NEW command, NEW before, NEW after, NEW rounds,
           Prepared(w, action, command, before, after, rounds), rows' = rows
    PROVE  Inv'
<1> DEFINE request == [command |-> command, round |-> after.id]
           marker == [request |-> request, before |-> before, after |-> after,
                      pruned |-> Without(doc.rounds, DOMAIN rounds)]
           x == Reconciling(action, after, doc.ledger_actions, marker)
<1>1. work' = [work EXCEPT ![w] = x]
  BY DEF Prepared
<1>2. DOMAIN doc' = DOMAIN doc /\ doc'.ledger_actions = doc.ledger_actions
  BY DEF Prepared, Inv
<1>3. Sound(x, DOMAIN rows)
  BY ReconcilingIsSound DEF Inv
<1> HIDE DEF x
<1> QED BY <1>1, <1>2, <1>3, QuietStep

LEMMA StartKeeps ==
    ASSUME Inv, NEW w \in Workers, NEW a \in Actions, PrepareStart(w, a) PROVE Inv'
BY PreparedKeeps DEF PrepareStart

LEMMA DecisionKeeps ==
    ASSUME Inv, NEW w \in Workers, NEW id, NEW a \in Actions, NEW c, PrepareDecision(w, id, a, c)
    PROVE  Inv'
BY PreparedKeeps DEF PrepareDecision

LEMMA ReplayKeeps ==
    ASSUME Inv, NEW w \in Workers, NEW a \in Actions, Replay(w, a) PROVE Inv'
<1>1. Sound(Reconciling(a, doc.rounds[doc.requests[a].round], doc.ledger_actions, None),
            DOMAIN rows)
  BY ReconcilingIsSound DEF Inv
<1> QED BY <1>1, QuietStep DEF Replay

LEMMA FindKeeps ==
    ASSUME Inv, NEW w \in Workers, FindAction(w) PROVE Inv'
<1>1. PICK i \in Todo(w) :
        /\ \A j \in Todo(w) : i <= j
        /\ work' = [work EXCEPT ![w].intent = i, ![w].pc =
              IF Intents(work[w].round)[i].key \in DOMAIN rows THEN "mark" ELSE "transact"]
  BY DEF FindAction
<1> DEFINE x == [work[w] EXCEPT !.intent = i, !.pc =
              IF Intents(work[w].round)[i].key \in DOMAIN rows THEN "mark" ELSE "transact"]
<1>2. Sound(work[w], DOMAIN rows) /\ work[w] # None
  BY AtRequest DEF FindAction
<1>3. ASSUME NEW j \in DOMAIN Intents(work[w].round), j < i
      PROVE  Intents(work[w].round)[j].key \in DOMAIN rows
  <2>1. j \notin Todo(w)
    BY <1>1, <1>3, IntentsArePlaces DEF Todo, Unapplied
  <2> QED BY <1>2, <2>1 DEF Todo, Unapplied, Sound
<1>4. Sound(x, DOMAIN rows)
  <2>1. /\ DOMAIN x = Fields /\ x.recorded = work[w].recorded /\ x.round = work[w].round
        /\ x.intent = i
        /\ x.pc = IF Intents(work[w].round)[i].key \in DOMAIN rows THEN "mark" ELSE "transact"
    BY <1>2 DEF Sound, Fields
  <2>2. i \in DOMAIN Intents(work[w].round)
    BY <1>1 DEF Todo, Unapplied
  <2> HIDE DEF x
  <2> QED BY <1>2, <1>3, <2>1, <2>2 DEF Sound
<1>5. work' = [work EXCEPT ![w] = x]
  BY <1>1 DEF Inv
<1> HIDE DEF x
<1> QED BY <1>4, <1>5, QuietStep DEF FindAction

\* A call that took effect on the ledger leaves every worker standing.
LEMMA TransactKeeps ==
    ASSUME Inv, NEW w \in Workers, Transact(w) PROVE Inv'
<1> DEFINE key == Movement(w).key
           ok  == [work[w] EXCEPT !.pc = "mark"]
<1>1. Sound(work[w], DOMAIN rows) /\ work[w] # None /\ work[w].pc = "transact"
  BY AtRequest DEF Transact
<1>2. doc' = doc
  BY DEF Transact
<1>3. ASSUME NEW K, DOMAIN rows \subseteq K, key \in K PROVE Sound(ok, K)
  <2>1. /\ DOMAIN ok = Fields /\ ok.recorded = work[w].recorded /\ ok.round = work[w].round
        /\ ok.intent = work[w].intent /\ ok.pc = "mark"
    BY <1>1 DEF Sound, Fields
  <2> HIDE DEF ok
  <2> QED BY <1>1, <1>3, <2>1 DEF Sound, Movement
<1>4. Sound(Raised(w), DOMAIN rows)
  BY <1>1, RaisedIsSound
<1>5. CASE rows' = rows
  <2>1. (key \in DOMAIN rows /\ Return(w, ok)) \/ work' = [work EXCEPT ![w] = Raised(w)]
    BY <1>5 DEF Transact, With
  <2>2. CASE work' = [work EXCEPT ![w] = Raised(w)]
    BY <1>2, <1>4, <1>5, <2>2, QuietStep
  <2>3. CASE key \in DOMAIN rows /\ work' = [work EXCEPT ![w] = ok]
    <3>1. Sound(ok, DOMAIN rows)
      BY <1>3, <2>3
    <3> HIDE DEF ok
    <3> QED BY <1>2, <1>5, <2>3, <3>1, QuietStep
  <2> QED BY <2>1, <2>2, <2>3 DEF Return
<1>6. CASE key \notin DOMAIN rows /\ rows' = With(rows, key, Row(w)) /\ Return(w, ok)
  <2>1. /\ DOMAIN rows' = DOMAIN rows \cup {key}
        /\ rows'[key] = Row(w)
        /\ \A k \in DOMAIN rows : rows'[k] = rows[k]
    BY <1>6 DEF With
  <2>2. Sound(ok, DOMAIN rows')
    BY <1>3, <2>1
  <2>3. Sound(Raised(w), DOMAIN rows')
    BY <1>4, <2>1, SoundOnMore
  <2>4. \E x : work' = [work EXCEPT ![w] = x] /\ Sound(x, DOMAIN rows')
    <3> HIDE DEF ok
    <3> QED BY <1>6, <2>2, <2>3 DEF Return
  <2>5. /\ DOMAIN work' = Workers
        /\ \A v \in Workers : Sound(work'[v], DOMAIN rows')
    BY <2>1, <2>4, WorkerMoves
  <2>6. ASSUME NEW k \in DOMAIN rows', rows'[k].amount > 0
        PROVE  /\ <<rows'[k].round[1], "ante">> \in DOMAIN rows'
               /\ (k[2] = "settlement" /\ k[1] # rows'[k].round[1]) =>
                     <<k[1], "war-wager">> \in DOMAIN rows'
    <3>1. CASE k = key
      <4>1. /\ work[w].intent \in DOMAIN Intents(work[w].round)
            /\ \A j \in DOMAIN Intents(work[w].round) :
                  j < work[w].intent => Intents(work[w].round)[j].key \in DOMAIN rows
        BY <1>1 DEF Sound
      <4>2. /\ Intents(work[w].round)[work[w].intent].amount > 0
            /\ rows'[k].round = work[w].round.id
            /\ k = Intents(work[w].round)[work[w].intent].key
        <5>1. rows'[k] = Row(w) /\ k = Intents(work[w].round)[work[w].intent].key
          BY <2>1, <3>1 DEF Movement
        <5>2. rows'[k].round = work[w].round.id
              /\ rows'[k].amount = Intents(work[w].round)[work[w].intent].amount
          BY <5>1 DEF Row, Movement
        <5> QED BY <2>6, <5>1, <5>2
      <4> DEFINE x == work[w].round
                 i == work[w].intent
      <4>3. i \in DOMAIN Intents(x) /\ Intents(x)[i].amount > 0
        BY <4>1, <4>2
      <4>4. \A j \in DOMAIN Intents(x) : j < i => Intents(x)[j].key \in DOMAIN rows'
        BY <2>1, <4>1
      <4>5. rows'[k].round = x.id /\ k = Intents(x)[i].key
        BY <4>2
      <4> HIDE DEF x, i
      <4>6. /\ \E j \in DOMAIN Intents(x) : j < i /\ Intents(x)[j].key = <<x.id[1], "ante">>
            /\ (k[2] = "settlement" /\ k[1] # x.id[1]) =>
                  \E j \in DOMAIN Intents(x) : j < i /\ Intents(x)[j].key = <<k[1], "war-wager">>
        BY <4>3, <4>5, IntentsInOrder
      <4> QED BY <4>4, <4>5, <4>6
    <3>2. CASE k # key
      BY <2>1, <2>6, <3>2 DEF Inv, StakesComeFirst
    <3> QED BY <3>1, <3>2
  <2>7. StakesComeFirst'
    BY <2>6 DEF StakesComeFirst
  <2> QED BY <1>2, <2>1, <2>5, <2>7 DEF Inv
<1> QED BY <1>5, <1>6 DEF Transact

LEMMA MarkKeeps ==
    ASSUME Inv, NEW w \in Workers, MarkCommitted(w) PROVE Inv'
<1> DEFINE x == [work[w] EXCEPT !.pc = "reconcile", !.intent = 0,
                    !.recorded = doc'.ledger_actions,
                    !.rounds = IF work[w].todo = {} THEN Empty ELSE doc'.rounds]
<1>1. Sound(work[w], DOMAIN rows) /\ work[w] # None /\ work[w].pc = "mark"
  BY AtRequest DEF MarkCommitted
<1>2. Movement(w).key \in DOMAIN rows
  BY <1>1 DEF Sound, Movement
<1>3. /\ doc' = [doc EXCEPT !.ledger_actions = @ \cup {Movement(w).key}]
      /\ Return(w, x) /\ rows' = rows
  BY DEF MarkCommitted
<1>4. /\ DOMAIN doc' = {"rounds", "requests", "ledger_actions"}
      /\ doc'.ledger_actions \subseteq DOMAIN rows
  BY <1>2, <1>3 DEF Inv
<1>5. Sound(x, DOMAIN rows)
  <2>1. DOMAIN x = Fields /\ x.recorded = doc'.ledger_actions /\ x.pc = "reconcile"
    BY <1>1 DEF Sound, Fields
  <2> HIDE DEF x
  <2> QED BY <1>4, <2>1 DEF Sound
<1>6. Sound(Raised(w), DOMAIN rows)
  BY <1>1, RaisedIsSound
<1>7. \E y : work' = [work EXCEPT ![w] = y] /\ Sound(y, DOMAIN rows')
  <2> HIDE DEF x
  <2> QED BY <1>3, <1>5, <1>6 DEF Return
<1>8. /\ DOMAIN work' = Workers
      /\ \A v \in Workers : Sound(work'[v], DOMAIN rows')
  BY <1>3, <1>7, WorkerMoves
<1>9. StakesComeFirst'
  BY <1>3 DEF Inv, StakesComeFirst
<1> HIDE DEF x
<1> QED BY <1>3, <1>4, <1>8, <1>9 DEF Inv

LEMMA NothingKeeps ==
    ASSUME Inv, NEW w \in Workers, NothingToSettle(w) PROVE Inv'
<1>1. Sound(work[w], DOMAIN rows) /\ work[w] # None
  BY AtRequest DEF NothingToSettle
<1>2. work[w].recorded \subseteq DOMAIN rows
  BY <1>1 DEF Sound
<1>3. PICK next \in Visits(work[w].todo, work[w].rounds, work[w].recorded) :
          work' = [work EXCEPT ![w] = next]
  BY DEF NothingToSettle
<1>4. Sound(next, DOMAIN rows)
  BY <1>2, VisitIsSound
<1>5. doc' = doc /\ rows' = rows
  BY DEF NothingToSettle
<1> QED BY <1>3, <1>4, <1>5, QuietStep

LEMMA SettleKeeps ==
    ASSUME Inv, NEW w \in Workers, Settle(w) PROVE Inv'
<1>1. Sound(work[w], DOMAIN rows) /\ work[w] # None
  BY AtRequest DEF Settle
<1>2. Sound(Raised(w), DOMAIN rows)
  BY <1>1, RaisedIsSound
<1>3. /\ rows' = rows /\ DOMAIN doc' = DOMAIN doc
      /\ doc'.ledger_actions = doc.ledger_actions
  BY DEF Settle, Inv
<1>4. ASSUME NEW next \in Visits(work[w].todo, doc'.rounds, doc'.ledger_actions)
      PROVE  Sound(next, DOMAIN rows)
  BY <1>3, VisitIsSound DEF Inv
<1>5. \/ \E next \in Visits(work[w].todo, doc'.rounds, doc'.ledger_actions) :
            work' = [work EXCEPT ![w] = next]
      \/ work' = [work EXCEPT ![w] = Raised(w)]
  BY DEF Settle
<1> QED BY <1>2, <1>3, <1>4, <1>5, QuietStep

LEMMA ClassifyKeeps ==
    ASSUME Inv, NEW w \in Workers, Classify(w) PROVE Inv'
<1>1. Sound(work[w], DOMAIN rows) /\ work[w] # None
  BY AtRequest DEF Classify
<1>2. Sound(Classified(w), DOMAIN rows)
  BY <1>1 DEF Sound, Classified, Fields
<1>3. Sound(None, DOMAIN rows)
  BY DEF Sound
<1>4. /\ \/ work' = [work EXCEPT ![w] = None]
         \/ work' = [work EXCEPT ![w] = Classified(w)]
      /\ doc' = doc /\ rows' = rows
  BY DEF Classify
<1> QED BY <1>2, <1>3, <1>4, QuietStep

\* A rollback gives nothing back in the ledger, and keeps what is recorded.
LEMMA RollbackKeeps ==
    ASSUME Inv, NEW w \in Workers, RollbackPrepared(w) PROVE Inv'
<1>1. Sound(None, DOMAIN rows)
  BY DEF Sound
<1>2. DOMAIN doc' = DOMAIN doc /\ doc'.ledger_actions = doc.ledger_actions
  BY DEF RollbackPrepared, Inv
<1>3. work' = [work EXCEPT ![w] = None] /\ rows' = rows
  BY DEF RollbackPrepared
<1> QED BY <1>1, <1>2, <1>3, QuietStep

LEMMA FailKeeps ==
    ASSUME Inv, NEW w \in Workers, Fail(w) PROVE Inv'
<1>1. Sound(work[w], DOMAIN rows) /\ work[w] # None
  BY DEF Fail, Inv
<1>2. Sound(Raised(w), DOMAIN rows) /\ Sound(None, DOMAIN rows)
  BY <1>1, RaisedIsSound DEF Sound
<1>3. /\ work' = [work EXCEPT ![w] = None] \/ work' = [work EXCEPT ![w] = Raised(w)]
      /\ doc' = doc /\ rows' = rows
  BY DEF Fail
<1> QED BY <1>2, <1>3, QuietStep

LEMMA NextKeeps ==
    ASSUME Inv, [Next]_vars PROVE Inv'
<1>1. CASE UNCHANGED vars
  BY <1>1 DEF vars, Inv, StakesComeFirst
<1>2. CASE OtherMovement
  BY <1>2 DEF OtherMovement, Inv, StakesComeFirst
<1>3. ASSUME NEW w \in Workers, Step(w) PROVE Inv'
  BY <1>3, FindKeeps, TransactKeeps, MarkKeeps, NothingKeeps, SettleKeeps, ClassifyKeeps,
     RollbackKeeps DEF Step
<1>4. ASSUME NEW w \in Workers, NEW a \in Actions,
             \/ PrepareStart(w, a) \/ Replay(w, a)
             \/ \E id \in DOMAIN doc.rounds, c \in {"surrender", "war"} :
                   PrepareDecision(w, id, a, c)
      PROVE  Inv'
  BY <1>4, StartKeeps, ReplayKeeps, DecisionKeeps
<1> QED BY <1>1, <1>2, <1>3, <1>4, LoadKeeps, FailKeeps DEF Next

\* No payout of Casino War reaches the ledger before its ante and, after a war,
\* the war wager: _reconcile_round makes the movements in their order, and skips
\* only those the game document records as made.
THEOREM PayoutsFollowStakes == Spec => []StakesComeFirst
<1>1. Init => Inv
  BY DEF Init, Inv, Sound, Empty, StakesComeFirst
<1>2. Inv /\ [Next]_vars => Inv'
  BY NextKeeps
<1>3. Inv => StakesComeFirst
  BY DEF Inv
<1> QED BY <1>1, <1>2, <1>3, PTL DEF Spec

-----------------------------------------------------------------------------
(* The money and the rounds (MoneyMatchesRounds). A round is followed by its  *)
(* id, wherever it is: Now is every round that is in the document or was      *)
(* dropped from it, as it is now. The invariant relates to Now the ledger,    *)
(* the answers, the requests, and the copies and markers that workers hold.   *)

Now == [r \in Known |-> Latest(r)]

Free == {"player_win", "dealer_win", "tie"}

\* A round as the engine makes it.
Sane(x) ==
    /\ x \in Rounds
    /\ x.decision = None <=> x.outcome \in Free
    /\ x.phase = "war_decision" => x.outcome = "tie"
    /\ x.phase = "ledger_pending" => x.outcome # "tie"

\* What became of a round someone read as x, as long as nothing was undone.
Follows(x, y) ==
    \/ y = x
    \/ x.phase = "ledger_pending" /\ y = [x EXCEPT !.phase = "settled"]
    \/ x.phase = "war_decision" /\ y.decision # None

Copy(x, now, gone) ==
    Sane(x) /\ (x.id \notin gone => x.id \in DOMAIN now /\ Follows(x, now[x.id]))

\* Every round owns the actions it was asked for by.
Owned(now, requests) ==
    \A r \in DOMAIN now :
        /\ r[1] \in DOMAIN requests /\ requests[r[1]].round = r
        /\ now[r].decision # None =>
              /\ now[r].decision # r[1]
              /\ now[r].decision \in DOMAIN requests
              /\ requests[now[r].decision].round = r

\* A tie is settled only after its decision was undone under the worker.
Undecided(now, gone) ==
    \A r \in DOMAIN now \ gone : now[r].outcome = "tie" => now[r].phase = "war_decision"

\* NoStrayRow, SettledIsPaid and AnsweredIsKept, of the rounds as they are now.
Fits(L, now, gone) ==
    \A k \in DOMAIN L : L[k].round \notin gone =>
        /\ L[k].round \in DOMAIN now
        /\ \E i \in DOMAIN Intents(now[L[k].round]) :
              Intents(now[L[k].round])[i] = [key |-> k, amount |-> L[k].amount]
PaidFor(x, L, gone) ==
    \A i \in DOMAIN Intents(x) :
        /\ Intents(x)[i].key \in DOMAIN L
        /\ L[Intents(x)[i].key].round \in gone
             \/ L[Intents(x)[i].key] = [round |-> x.id, amount |-> Intents(x)[i].amount]
Paid(L, now, gone) ==
    \A r \in DOMAIN now \ gone : now[r].phase = "settled" => PaidFor(now[r], L, gone)
Recorded(x, L) == \A i \in DOMAIN Intents(x) : Intents(x)[i].key \in DOMAIN L
Kept(answers, L, now, gone) ==
    \A t \in answers : t.round \notin gone =>
        /\ t.round \in DOMAIN now
        /\ <<t.round[1], "ante">> \in DOMAIN L
        /\ t.outcome # "tie" => now[t.round].outcome = t.outcome /\ Recorded(now[t.round], L)

-----------------------------------------------------------------------------
\* The movements of each kind of round.
LEMMA FreeIntents ==
    ASSUME NEW x, Sane(x), x.outcome \in Free
    PROVE  /\ DOMAIN Intents(x) = IF x.outcome = "player_win" THEN {1, 2} ELSE {1}
           /\ Intents(x)[1] = [key |-> <<x.id[1], "ante">>, amount |-> -Wager]
           /\ x.outcome = "player_win" =>
                 Intents(x)[2] = [key |-> <<x.id[1], "settlement">>, amount |-> 2 * Wager]
<1>1. CASE x.outcome = "player_win"
  BY <1>1 DEF Intents, Intent
<1>2. CASE x.outcome = "dealer_win"
  BY <1>2 DEF Intents, Intent
<1>3. CASE x.outcome = "tie"
  BY <1>3 DEF Intents, Intent
<1> QED BY <1>1, <1>2, <1>3 DEF Free

LEMMA DecidedIntents ==
    ASSUME NEW x, Sane(x), x.outcome \notin Free
    PROVE  /\ x.outcome \in {"surrender", "war_win", "war_loss"}
           /\ DOMAIN Intents(x) = IF x.outcome = "war_win" THEN {1, 2, 3} ELSE {1, 2}
           /\ Intents(x)[1] = [key |-> <<x.id[1], "ante">>, amount |-> -Wager]
           /\ x.outcome = "surrender" =>
                 Intents(x)[2] = [key |-> <<x.decision, "surrender">>, amount |-> Wager \div 2]
           /\ x.outcome # "surrender" =>
                 Intents(x)[2] = [key |-> <<x.decision, "war-wager">>, amount |-> -Wager]
           /\ x.outcome = "war_win" =>
                 Intents(x)[3] = [key |-> <<x.decision, "settlement">>, amount |-> 3 * Wager]
<1>0. x.outcome \in {"surrender", "war_win", "war_loss"}
  BY DEF Sane, Rounds, Outcomes, Free
<1>1. CASE x.outcome = "surrender"
  BY <1>1 DEF Intents, Intent
<1>2. CASE x.outcome = "war_win"
  BY <1>2 DEF Intents, Intent
<1>3. CASE x.outcome = "war_loss"
  BY <1>3 DEF Intents, Intent
<1> QED BY <1>0, <1>1, <1>2, <1>3

\* Its stake comes first, each has its own key, named after an action of the round.
LEMMA IntentFacts ==
    ASSUME NEW x, Sane(x)
    PROVE  /\ 1 \in DOMAIN Intents(x) /\ Intents(x)[1].key = <<x.id[1], "ante">>
           /\ \A i \in DOMAIN Intents(x) :
                 /\ Intents(x)[i].key \in Keys /\ Intents(x)[i].amount \in Int
                 /\ Intents(x)[i] = [key |-> Intents(x)[i].key, amount |-> Intents(x)[i].amount]
                 /\ Intents(x)[i].key[1] = x.id[1]
                      \/ (Intents(x)[i].key[1] = x.decision /\ x.decision # None)
           /\ \A i, j \in DOMAIN Intents(x) : Intents(x)[i].key = Intents(x)[j].key => i = j
<1>0. x.id[1] \in Actions /\ x.decision \in Actions \cup {None}
  BY DEF Sane, Rounds, RoundIds
<1>1. Wager \in Int /\ -Wager \in Int /\ 2 * Wager \in Int /\ 3 * Wager \in Int
      /\ Wager \div 2 \in Int
  BY BoundsAssumption
<1> DEFINE f == Intents(x)
<1>2. \E b \in Actions, st \in {"settlement", "surrender", "war-wager"}, n \in Int, o \in Int :
         /\ DOMAIN f \in {{1}, {1, 2}, {1, 2, 3}}
         /\ f[1] = [key |-> <<x.id[1], "ante">>, amount |-> -Wager]
         /\ b = x.id[1] \/ (b = x.decision /\ b # None)
         /\ 2 \in DOMAIN f => f[2] = [key |-> <<b, st>>, amount |-> n]
         /\ 3 \in DOMAIN f => st = "war-wager" /\ f[3] = [key |-> <<b, "settlement">>, amount |-> o]
  <2>1. CASE x.outcome \in Free
    <3>1. /\ DOMAIN f = IF x.outcome = "player_win" THEN {1, 2} ELSE {1}
          /\ f[1] = [key |-> <<x.id[1], "ante">>, amount |-> -Wager]
          /\ x.outcome = "player_win" =>
                f[2] = [key |-> <<x.id[1], "settlement">>, amount |-> 2 * Wager]
      BY <2>1, FreeIntents
    <3> HIDE DEF f
    <3> x.id[1] \in Actions /\ "settlement" \in {"settlement", "surrender", "war-wager"}
          /\ 2 * Wager \in Int /\ 0 \in Int
      BY <1>0, <1>1
    <3> WITNESS x.id[1] \in Actions, "settlement" \in {"settlement", "surrender", "war-wager"},
                2 * Wager \in Int, 0 \in Int
    <3> QED BY <3>1
  <2>2. CASE x.outcome \notin Free
    <3>1. x.decision \in Actions /\ x.decision # None
      BY <1>0, <2>2 DEF Sane
    <3>2. /\ x.outcome \in {"surrender", "war_win", "war_loss"}
          /\ DOMAIN f = IF x.outcome = "war_win" THEN {1, 2, 3} ELSE {1, 2}
          /\ f[1] = [key |-> <<x.id[1], "ante">>, amount |-> -Wager]
          /\ x.outcome = "surrender" =>
                f[2] = [key |-> <<x.decision, "surrender">>, amount |-> Wager \div 2]
          /\ x.outcome # "surrender" =>
                f[2] = [key |-> <<x.decision, "war-wager">>, amount |-> -Wager]
          /\ x.outcome = "war_win" =>
                f[3] = [key |-> <<x.decision, "settlement">>, amount |-> 3 * Wager]
      BY <2>2, DecidedIntents
    <3>3. CASE x.outcome = "surrender"
      <4> HIDE DEF f
      <4> x.decision \in Actions /\ "surrender" \in {"settlement", "surrender", "war-wager"}
            /\ Wager \div 2 \in Int /\ 0 \in Int
        BY <1>1, <3>1
      <4> WITNESS x.decision \in Actions,
                  "surrender" \in {"settlement", "surrender", "war-wager"},
                  Wager \div 2 \in Int, 0 \in Int
      <4> QED BY <3>1, <3>2, <3>3
    <3>4. CASE x.outcome # "surrender"
      <4> HIDE DEF f
      <4> x.decision \in Actions /\ "war-wager" \in {"settlement", "surrender", "war-wager"}
            /\ -Wager \in Int /\ 3 * Wager \in Int
        BY <1>1, <3>1
      <4> WITNESS x.decision \in Actions,
                  "war-wager" \in {"settlement", "surrender", "war-wager"},
                  -Wager \in Int, 3 * Wager \in Int
      <4> QED BY <3>1, <3>2, <3>4
    <3> QED BY <3>3, <3>4
  <2> QED BY <2>1, <2>2
<1> HIDE DEF f
<1>3. PICK b \in Actions, st \in {"settlement", "surrender", "war-wager"}, n \in Int, o \in Int :
         /\ DOMAIN f \in {{1}, {1, 2}, {1, 2, 3}}
         /\ f[1] = [key |-> <<x.id[1], "ante">>, amount |-> -Wager]
         /\ b = x.id[1] \/ (b = x.decision /\ b # None)
         /\ 2 \in DOMAIN f => f[2] = [key |-> <<b, st>>, amount |-> n]
         /\ 3 \in DOMAIN f => st = "war-wager" /\ f[3] = [key |-> <<b, "settlement">>, amount |-> o]
  BY <1>2
<1>4. 1 \in DOMAIN f /\ f[1].key = <<x.id[1], "ante">>
  BY <1>3
<1>5. ASSUME NEW i \in DOMAIN f
      PROVE  /\ f[i].key \in Keys /\ f[i].amount \in Int
             /\ f[i] = [key |-> f[i].key, amount |-> f[i].amount]
             /\ f[i].key[1] = x.id[1] \/ (f[i].key[1] = x.decision /\ x.decision # None)
  <2>1. CASE i = 1
    BY <1>0, <1>1, <1>3, <2>1 DEF Keys
  <2>2. CASE i = 2
    BY <1>3, <2>2 DEF Keys
  <2>3. CASE i = 3
    BY <1>3, <2>3 DEF Keys
  <2> QED BY <1>3, <2>1, <2>2, <2>3
<1>6. \A i, j \in DOMAIN f : f[i].key = f[j].key => i = j
  BY <1>3
<1> QED BY <1>4, <1>5, <1>6 DEF f

LEMMA SettledIntents ==
    ASSUME NEW x, Sane(x)
    PROVE  /\ Intents([x EXCEPT !.phase = "settled"]) = Intents(x)
           /\ Sane([x EXCEPT !.phase = "settled"])
           /\ [x EXCEPT !.phase = "settled"].id = x.id
           /\ [x EXCEPT !.phase = "settled"].decision = x.decision
           /\ [x EXCEPT !.phase = "settled"].outcome = x.outcome
           /\ [x EXCEPT !.phase = "settled"].phase = "settled"
<1> DEFINE y == [x EXCEPT !.phase = "settled"]
<1>1. y \in Rounds /\ y.id = x.id /\ y.decision = x.decision /\ y.outcome = x.outcome
      /\ y.phase = "settled"
  BY DEF Sane, Rounds
<1> HIDE DEF y
<1>2. Intents(y) = Intents(x)
  BY <1>1 DEF Intents, Intent
<1>3. Sane(y)
  BY <1>1 DEF Sane
<1> QED BY <1>1, <1>2, <1>3 DEF y

-----------------------------------------------------------------------------
\* The document and what was dropped of it. At most one round is unsettled, so that
\* while a prepared round is, nothing but its own worker adds or removes rounds.
Unsettled(r, rounds) == r \in DOMAIN rounds /\ rounds[r].phase # "settled"
Books ==
    /\ DOMAIN doc = {"rounds", "requests", "ledger_actions"}
    /\ dealt \in Nat
    /\ \A r \in DOMAIN doc.rounds : doc.rounds[r].id = r /\ Sane(doc.rounds[r])
    /\ \A r \in DOMAIN archive :
          archive[r].id = r /\ Sane(archive[r]) /\ archive[r].phase = "settled"
    /\ DOMAIN doc.rounds \cap DOMAIN archive = {}
    /\ \A r \in Known \cup contested : r \in RoundIds /\ r[2] <= dealt
    /\ \A q, r \in Known : q[2] = r[2] => q = r
    /\ \A q, r \in DOMAIN doc.rounds :
          Unsettled(q, doc.rounds) /\ Unsettled(r, doc.rounds) => q = r
    /\ IsFiniteSet(DOMAIN doc.rounds) /\ Cardinality(DOMAIN doc.rounds) <= HistoryLimit

\* What a worker needs to take its preparation back.
Started(m) == m.before = None
MarkerFits(m, action) ==
    /\ Sane(m.after) /\ m.after.phase # "settled" /\ m.request.round = m.after.id
    /\ Started(m) => m.after.decision = None /\ m.after.id[1] = action
    /\ ~Started(m) =>
          /\ Sane(m.before) /\ m.before.id = m.after.id /\ m.before.phase = "war_decision"
          /\ m.after.decision = action /\ action # None
          /\ DOMAIN m.pruned = {}
Restores(m, rounds, dropped, n) ==
    /\ m.after.id[2] <= n /\ IsFiniteSet(DOMAIN m.pruned)
    /\ Started(m) /\ Unsettled(m.after.id, rounds) =>
          /\ \A r \in DOMAIN m.pruned : r \in DOMAIN dropped /\ dropped[r] = m.pruned[r]
          /\ Cardinality((DOMAIN rounds \ {m.after.id}) \cup DOMAIN m.pruned) <= HistoryLimit

\* A request, and the copies it reads rounds from.
Request(x, now, gone) ==
    x # None =>
        /\ DOMAIN x = Fields
        /\ x.pc \in {"reconcile", "transact", "mark", "classify", "rollback"}
        /\ Copy(x.round, now, gone)
        /\ \A r \in x.todo \cap DOMAIN x.rounds :
              x.rounds[r].id = r /\ Copy(x.rounds[r], now, gone)
        /\ x.pc \in {"transact", "mark"} => x.intent \in Unapplied(x.round, x.recorded)
        /\ x.pc = "rollback" => ~x.found
        /\ x.pc \in {"classify", "rollback"} => x.marker # None
        /\ x.marker # None => MarkerFits(x.marker, x.action)

Marked(x) == x # None /\ x.marker # None
Working ==
    \A w \in Workers :
        /\ Request(work[w], Now, contested)
        /\ Marked(work[w]) => Restores(work[w].marker, doc.rounds, archive, dealt)

LedgerTyped == Map(rows, Keys, [round : RoundIds, amount : Int]) /\ wallet \in Nat
RequestsTyped ==
    Map(doc.requests, Actions, [command : {"start_round", "surrender", "war"}, round : RoundIds])

Money(L, requests, answers, now, gone) ==
    /\ Owned(now, requests)
    /\ Undecided(now, gone)
    /\ Fits(L, now, gone)
    /\ Paid(L, now, gone)
    /\ Kept(answers, L, now, gone)

Settling == Money(rows, doc.requests, told, Now, contested)

WarInv == Inv /\ Books /\ Working /\ LedgerTyped /\ RequestsTyped /\ Settling

-----------------------------------------------------------------------------
\* What a copy of a round says of the round, step by step.
Faithful(now) == \A r \in DOMAIN now : now[r].id = r /\ Sane(now[r])

LEMMA FollowedIntents ==
    ASSUME NEW x, NEW y, Sane(x), Sane(y), x.id = y.id, Follows(x, y)
    PROVE  \A i \in DOMAIN Intents(x) :
              i \in DOMAIN Intents(y) /\ Intents(y)[i] = Intents(x)[i]
<1>1. CASE y = x
  BY <1>1
<1>2. CASE y = [x EXCEPT !.phase = "settled"]
  BY <1>2, SettledIntents
<1>3. CASE x.phase = "war_decision" /\ y.decision # None
  <2>1. DOMAIN Intents(x) = {1} /\ Intents(x)[1] = [key |-> <<x.id[1], "ante">>, amount |-> -Wager]
    BY <1>3, FreeIntents DEF Sane, Free
  <2>2. 1 \in DOMAIN Intents(y) /\ Intents(y)[1] = [key |-> <<y.id[1], "ante">>, amount |-> -Wager]
    BY <1>3, DecidedIntents, IntentFacts DEF Sane
  <2> QED BY <2>1, <2>2
<1> QED BY <1>1, <1>2, <1>3 DEF Follows

LEMMA CopyOfMore ==
    ASSUME NEW x, NEW now, NEW later, NEW gone, Copy(x, now, gone),
           DOMAIN now \subseteq DOMAIN later, \A r \in DOMAIN now : later[r] = now[r]
    PROVE  Copy(x, later, gone)
BY DEF Copy

LEMMA CopyOfSettled ==
    ASSUME NEW x, NEW now, NEW later, NEW gone, NEW id, Copy(x, now, gone), Faithful(now),
           DOMAIN later = DOMAIN now, \A r \in DOMAIN now : r # id => later[r] = now[r],
           id \in DOMAIN now => later[id] = [now[id] EXCEPT !.phase = "settled"],
           id \in DOMAIN now \ gone => now[id].phase # "war_decision"
    PROVE  Copy(x, later, gone)
<1>1. CASE x.id = id /\ id \notin gone
  <2>1. Sane(x) /\ id \in DOMAIN now /\ Follows(x, now[id]) /\ Sane(now[id])
    BY <1>1 DEF Copy, Faithful
  <2>2. now[id].phase \in {"ledger_pending", "settled"}
    BY <1>1, <2>1 DEF Sane, Rounds
  <2>3. [now[id] EXCEPT !.phase = "settled"].decision = now[id].decision
    BY <2>1, SettledIntents
  <2>4. now[id].phase = "settled" => [now[id] EXCEPT !.phase = "settled"] = now[id]
    BY <2>1 DEF Sane, Rounds
  <2>5. x.phase = "ledger_pending" /\ now[id] = [x EXCEPT !.phase = "settled"]
            => now[id].phase = "settled"
    BY <2>1, SettledIntents
  <2>6. Follows(x, later[id])
    BY <2>1, <2>2, <2>3, <2>4, <2>5 DEF Follows
  <2> QED BY <1>1, <2>1, <2>6 DEF Copy
<1>2. CASE x.id # id \/ id \in gone
  BY <1>2 DEF Copy
<1> QED BY <1>1, <1>2

LEMMA CopyOfDecided ==
    ASSUME NEW x, NEW now, NEW later, NEW gone, NEW id, Copy(x, now, gone),
           id \in DOMAIN now, now[id].phase = "war_decision",
           DOMAIN later = DOMAIN now, \A r \in DOMAIN now : r # id => later[r] = now[r],
           later[id].decision # None
    PROVE  Copy(x, later, gone)
<1>1. CASE x.id = id /\ id \notin gone
  <2>1. Sane(x) /\ Follows(x, now[id])
    BY <1>1 DEF Copy
  <2>2. now[id] # [x EXCEPT !.phase = "settled"]
    BY <2>1, SettledIntents
  <2>3. Follows(x, later[id])
    BY <2>1, <2>2 DEF Follows
  <2> QED BY <1>1, <2>1, <2>3 DEF Copy
<1>2. CASE x.id # id \/ id \in gone
  BY <1>2 DEF Copy
<1> QED BY <1>1, <1>2

\* Only a copy of exactly what was prepared is cut off when that is undone.
LEMMA CopyOfUndone ==
    ASSUME NEW x, NEW now, NEW later, NEW gone, NEW more, NEW m, NEW action,
           Copy(x, now, gone), Faithful(now), MarkerFits(m, action),
           m.after.id \in DOMAIN now, now[m.after.id] = m.after,
           gone \subseteq more, x = m.after => m.after.id \in more,
           \A r \in DOMAIN now : r # m.after.id => r \in DOMAIN later /\ later[r] = now[r],
           ~Started(m) => m.after.id \in DOMAIN later /\ later[m.after.id] = m.before
    PROVE  Copy(x, later, more)
<1> DEFINE id == m.after.id
<1>1. CASE x.id = id /\ id \notin more
  <2>1. Sane(x) /\ Follows(x, m.after) /\ x # m.after
    BY <1>1 DEF Copy
  <2>2. Sane(m.after) /\ m.after.phase # "settled"
    BY DEF MarkerFits
  <2>3. m.after # [x EXCEPT !.phase = "settled"]
    BY <2>1, <2>2, SettledIntents
  <2>4. x.phase = "war_decision" /\ m.after.decision # None
    BY <2>1, <2>3 DEF Follows
  <2>5. ~Started(m)
    BY <2>4 DEF MarkerFits
  <2>6. Sane(m.before) /\ m.before.id = id /\ m.before.phase = "war_decision"
    BY <2>5 DEF MarkerFits
  <2>7. m.before = x
    <3>1. /\ x \in Rounds /\ x.outcome = "tie" /\ x.decision = None
          /\ m.before \in Rounds /\ m.before.outcome = "tie" /\ m.before.decision = None
      BY <2>1, <2>4, <2>6 DEF Sane, Free
    <3> QED BY <1>1, <2>4, <2>6, <3>1 DEF Rounds
  <2>8. id \in DOMAIN later /\ later[id] = x
    BY <2>5, <2>7
  <2> QED BY <1>1, <2>1, <2>8 DEF Copy, Follows
<1>2. CASE x.id # id \/ id \in more
  BY <1>2 DEF Copy
<1> QED BY <1>1, <1>2

-----------------------------------------------------------------------------
\* What each kind of step does to the agreement of money and rounds.
Staked(L) ==
    \A k \in DOMAIN L : L[k].amount > 0 =>
        /\ <<L[k].round[1], "ante">> \in DOMAIN L
        /\ (k[2] = "settlement" /\ k[1] # L[k].round[1]) => <<k[1], "war-wager">> \in DOMAIN L

\* A movement's key names an action, and that action names the round.
LEMMA KeyOwner ==
    ASSUME NEW now, NEW requests, Owned(now, requests), Faithful(now),
           NEW r \in DOMAIN now, NEW i \in DOMAIN Intents(now[r])
    PROVE  requests[Intents(now[r])[i].key[1]].round = r
BY IntentFacts DEF Owned, Faithful

\* The ledger makes a movement a worker's copy asks for.
LEMMA MoneyOfRow ==
    ASSUME NEW L, NEW M, NEW requests, NEW answers, NEW now, NEW gone, NEW x,
           NEW i \in DOMAIN Intents(x),
           Money(L, requests, answers, now, gone), Faithful(now), Copy(x, now, gone),
           Intents(x)[i].key \notin DOMAIN L,
           DOMAIN M = DOMAIN L \cup {Intents(x)[i].key},
           M[Intents(x)[i].key] = [round |-> x.id, amount |-> Intents(x)[i].amount],
           \A k \in DOMAIN L : M[k] = L[k]
    PROVE  Money(M, requests, answers, now, gone)
<1> DEFINE key == Intents(x)[i].key
<1>1. Owned(now, requests) /\ Undecided(now, gone) /\ Fits(L, now, gone) /\ Paid(L, now, gone)
      /\ Kept(answers, L, now, gone)
  BY DEF Money
<1>2. Fits(M, now, gone)
  <2>1. ASSUME NEW k \in DOMAIN M, M[k].round \notin gone
        PROVE  /\ M[k].round \in DOMAIN now
               /\ \E j \in DOMAIN Intents(now[M[k].round]) :
                     Intents(now[M[k].round])[j] = [key |-> k, amount |-> M[k].amount]
    <3>1. CASE k \in DOMAIN L
      BY <1>1, <2>1, <3>1 DEF Fits
    <3>2. CASE k \notin DOMAIN L
      <4>1. k = key /\ M[k] = [round |-> x.id, amount |-> Intents(x)[i].amount]
        BY <3>2
      <4>2. x.id \notin gone /\ M[k].round = x.id /\ M[k].amount = Intents(x)[i].amount
        BY <2>1, <4>1
      <4>3. Sane(x) /\ x.id \in DOMAIN now /\ Follows(x, now[x.id])
        BY <4>2 DEF Copy
      <4>4. now[x.id].id = x.id /\ Sane(now[x.id])
        BY <4>3 DEF Faithful
      <4>5. i \in DOMAIN Intents(now[x.id]) /\ Intents(now[x.id])[i] = Intents(x)[i]
        BY <4>3, <4>4, FollowedIntents
      <4>6. Intents(x)[i] = [key |-> key, amount |-> Intents(x)[i].amount]
        BY <4>3, IntentFacts
      <4> HIDE DEF key
      <4> QED BY <4>1, <4>2, <4>3, <4>5, <4>6
    <3> QED BY <3>1, <3>2
  <2> QED BY <2>1 DEF Fits
<1>3. Paid(M, now, gone)
  BY <1>1 DEF Paid, PaidFor
<1>4. Kept(answers, M, now, gone)
  BY <1>1 DEF Kept, Recorded
<1> QED BY <1>1, <1>2, <1>3, <1>4 DEF Money

\* A command is answered with the round it followed to the end.
LEMMA MoneyOfAnswer ==
    ASSUME NEW L, NEW requests, NEW answers, NEW more, NEW now, NEW gone, NEW x,
           Money(L, requests, answers, now, gone), Copy(x, now, gone), Faithful(now),
           x.id \notin gone => Recorded(x, L),
           x.phase # "ledger_pending",
           more \subseteq answers \cup {[round |-> x.id, outcome |-> x.outcome]}
    PROVE  Money(L, requests, more, now, gone)
<1>1. Kept(answers, L, now, gone)
  BY DEF Money
<1>2. Kept(more, L, now, gone)
  <2>1. ASSUME NEW t \in more, t.round \notin gone
        PROVE  /\ t.round \in DOMAIN now
               /\ <<t.round[1], "ante">> \in DOMAIN L
               /\ t.outcome # "tie" =>
                     now[t.round].outcome = t.outcome /\ Recorded(now[t.round], L)
    <3>1. CASE t \in answers
      BY <1>1, <2>1, <3>1 DEF Kept
    <3>2. CASE t = [round |-> x.id, outcome |-> x.outcome]
      <4>1. t.round = x.id /\ t.outcome = x.outcome
        BY <3>2
      <4>2. Sane(x) /\ x.id \in DOMAIN now /\ Follows(x, now[x.id])
        BY <2>1, <4>1 DEF Copy
      <4>3. <<x.id[1], "ante">> \in DOMAIN L
        BY <2>1, <4>1, <4>2, IntentFacts DEF Recorded
      <4>4. x.outcome # "tie" => now[x.id] = x
        BY <4>2 DEF Follows, Sane
      <4> QED BY <2>1, <4>1, <4>2, <4>3, <4>4
    <3> QED BY <3>1, <3>2
  <2> QED BY <2>1 DEF Kept
<1> QED BY <1>2 DEF Money

\* A round all of whose movements are recorded is settled.
LEMMA MoneyOfSettled ==
    ASSUME NEW L, NEW requests, NEW answers, NEW now, NEW later, NEW gone, NEW x,
           Money(L, requests, answers, now, gone), Faithful(now), Copy(x, now, gone),
           Map(L, Keys, [round : RoundIds, amount : Int]),
           Recorded(x, L), x.phase = "ledger_pending", x.id \in DOMAIN now,
           DOMAIN later = DOMAIN now, \A r \in DOMAIN now : r # x.id => later[r] = now[r],
           later[x.id] = [now[x.id] EXCEPT !.phase = "settled"]
    PROVE  Money(L, requests, answers, later, gone)
<1> DEFINE id == x.id
<1>1. Owned(now, requests) /\ Undecided(now, gone) /\ Fits(L, now, gone) /\ Paid(L, now, gone)
      /\ Kept(answers, L, now, gone)
  BY DEF Money
<1>2. Sane(now[id]) /\ now[id].id = id /\ Sane(x)
  BY DEF Faithful, Copy
<1>3. /\ Intents(later[id]) = Intents(now[id]) /\ Sane(later[id]) /\ later[id].id = id
      /\ later[id].decision = now[id].decision /\ later[id].outcome = now[id].outcome
      /\ later[id].phase = "settled"
  BY <1>2, SettledIntents
<1>4. id \notin gone => later[id] = [x EXCEPT !.phase = "settled"] /\ Intents(now[id]) = Intents(x)
                        /\ x.outcome # "tie"
  <2>1. ASSUME id \notin gone
        PROVE  now[id] = x \/ now[id] = [x EXCEPT !.phase = "settled"]
    BY <2>1 DEF Copy, Follows
  <2>2. /\ Intents([x EXCEPT !.phase = "settled"]) = Intents(x)
        /\ [[x EXCEPT !.phase = "settled"] EXCEPT !.phase = "settled"]
              = [x EXCEPT !.phase = "settled"]
    BY <1>2, SettledIntents DEF Sane, Rounds
  <2>3. x.outcome # "tie"
    BY <1>2 DEF Sane
  <2> QED BY <2>1, <2>2, <2>3
<1>5. Owned(later, requests)
  <2>1. \A r \in DOMAIN now : later[r].decision = now[r].decision
    BY <1>3
  <2> QED BY <1>1, <2>1 DEF Owned
<1>6. Undecided(later, gone)
  <2>1. id \notin gone => later[id].outcome # "tie"
    <3>1. id \notin gone => later[id].outcome = x.outcome
      BY <1>2, <1>4, SettledIntents
    <3> QED BY <1>4, <3>1
  <2>2. \A r \in DOMAIN now : r # id => later[r] = now[r]
    OBVIOUS
  <2> HIDE DEF id
  <2> QED BY <1>1, <2>1, <2>2 DEF Undecided
<1>7. Fits(L, later, gone)
  BY <1>1, <1>3 DEF Fits
<1>8. Paid(L, later, gone)
  <2>1. ASSUME id \notin gone, NEW i \in DOMAIN Intents(x)
        PROVE  /\ Intents(x)[i].key \in DOMAIN L
               /\ L[Intents(x)[i].key].round \in gone
                    \/ L[Intents(x)[i].key] = [round |-> id, amount |-> Intents(x)[i].amount]
    <3> DEFINE k == Intents(x)[i].key
    <3>1. k \in DOMAIN L
      BY DEF Recorded
    <3>2. ASSUME L[k].round \notin gone
          PROVE  L[k].round = id /\ L[k].amount = Intents(x)[i].amount
      <4>1. PICK j \in DOMAIN Intents(now[L[k].round]) :
                    Intents(now[L[k].round])[j] = [key |-> k, amount |-> L[k].amount]
        BY <1>1, <3>1, <3>2 DEF Fits
      <4>2. L[k].round \in DOMAIN now
        BY <1>1, <3>1, <3>2 DEF Fits
      <4>3. Intents(now[L[k].round])[j].key = k /\ Intents(now[L[k].round])[j].amount = L[k].amount
        BY <4>1
      <4>4. requests[k[1]].round = L[k].round
        BY <1>1, <4>2, <4>3, KeyOwner
      <4>5. requests[k[1]].round = id
        BY <1>1, <1>4, <2>1, KeyOwner
      <4>6. L[k].round = id
        BY <4>4, <4>5
      <4>7. j \in DOMAIN Intents(x) /\ Intents(x)[j].key = Intents(x)[i].key
        BY <1>4, <2>1, <4>3, <4>6
      <4>8. j = i
        BY <1>2, <4>7, IntentFacts
      <4> QED BY <1>4, <2>1, <4>3, <4>6, <4>8
    <3>3. ASSUME L[k].round \notin gone
          PROVE  L[k] = [round |-> id, amount |-> Intents(x)[i].amount]
      <4>1. PICK q \in RoundIds, n \in Int : L[k] = [round |-> q, amount |-> n]
        BY <3>1 DEF Map
      <4>2. L[k].round = id /\ L[k].amount = Intents(x)[i].amount
        BY <3>2, <3>3
      <4>3. q = id /\ n = Intents(x)[i].amount
        BY <4>1, <4>2
      <4> QED BY <4>1, <4>3
    <3> QED BY <3>1, <3>3
  <2>2. ASSUME NEW r \in DOMAIN later \ gone, later[r].phase = "settled"
        PROVE  PaidFor(later[r], L, gone)
    <3>1. CASE r = id
      <4>1. id \notin gone /\ Intents(later[r]) = Intents(x) /\ later[r].id = id
        BY <1>3, <1>4, <2>2, <3>1
      <4> HIDE DEF id
      <4> QED BY <2>1, <4>1 DEF PaidFor
    <3>2. CASE r # id
      BY <1>1, <2>2, <3>2 DEF Paid
    <3> QED BY <3>1, <3>2
  <2> QED BY <2>2 DEF Paid
<1>9. Kept(answers, L, later, gone)
  BY <1>1, <1>3 DEF Kept, Recorded
<1> QED BY <1>5, <1>6, <1>7, <1>8, <1>9 DEF Money

\* A round is dealt under an action no round has.
LEMMA MoneyOfStarted ==
    ASSUME NEW L, NEW requests, NEW wanted, NEW answers, NEW now, NEW later, NEW gone,
           NEW id, NEW action,
           Money(L, requests, answers, now, gone),
           id \notin DOMAIN now, id[1] = action, action \notin DOMAIN requests,
           DOMAIN later = DOMAIN now \cup {id}, \A r \in DOMAIN now : later[r] = now[r],
           later[id].decision = None, later[id].phase # "settled",
           later[id].outcome = "tie" => later[id].phase = "war_decision",
           DOMAIN wanted = DOMAIN requests \cup {action}, wanted[action].round = id,
           \A a \in DOMAIN requests : wanted[a] = requests[a]
    PROVE  Money(L, wanted, answers, later, gone)
<1>1. Owned(now, requests) /\ Undecided(now, gone) /\ Fits(L, now, gone) /\ Paid(L, now, gone)
      /\ Kept(answers, L, now, gone)
  BY DEF Money
<1>2. Owned(later, wanted)
  <2>1. ASSUME NEW r \in DOMAIN later
        PROVE  /\ r[1] \in DOMAIN wanted /\ wanted[r[1]].round = r
               /\ later[r].decision # None =>
                     /\ later[r].decision # r[1]
                     /\ later[r].decision \in DOMAIN wanted
                     /\ wanted[later[r].decision].round = r
    <3>1. CASE r = id
      BY <3>1
    <3>2. CASE r # id
      BY <1>1, <3>2 DEF Owned
    <3> QED BY <3>1, <3>2
  <2> QED BY <2>1 DEF Owned
<1>3. Undecided(later, gone)
  BY <1>1 DEF Undecided
<1>4. Fits(L, later, gone)
  BY <1>1 DEF Fits
<1>5. Paid(L, later, gone)
  BY <1>1 DEF Paid
<1>6. Kept(answers, L, later, gone)
  BY <1>1 DEF Kept
<1> QED BY <1>2, <1>3, <1>4, <1>5, <1>6 DEF Money

\* The player decides on a tie, under an action no round has.
LEMMA MoneyOfDecided ==
    ASSUME NEW L, NEW requests, NEW wanted, NEW answers, NEW now, NEW later, NEW gone,
           NEW id, NEW action,
           Money(L, requests, answers, now, gone), Faithful(now),
           id \in DOMAIN now, now[id].phase = "war_decision",
           action \notin DOMAIN requests,
           DOMAIN later = DOMAIN now, \A r \in DOMAIN now : r # id => later[r] = now[r],
           Sane(later[id]), later[id].id = id,
           later[id].decision = action, later[id].decision # None,
           later[id].phase = "ledger_pending",
           DOMAIN wanted = DOMAIN requests \cup {action}, wanted[action].round = id,
           \A a \in DOMAIN requests : wanted[a] = requests[a]
    PROVE  Money(L, wanted, answers, later, gone)
<1>1. Owned(now, requests) /\ Undecided(now, gone) /\ Fits(L, now, gone) /\ Paid(L, now, gone)
      /\ Kept(answers, L, now, gone)
  BY DEF Money
<1>2. Sane(now[id]) /\ now[id].id = id /\ now[id].outcome = "tie" /\ later[id].outcome # "tie"
  BY DEF Faithful, Sane
<1>3. Owned(later, wanted)
  <2>1. ASSUME NEW r \in DOMAIN later
        PROVE  /\ r[1] \in DOMAIN wanted /\ wanted[r[1]].round = r
               /\ later[r].decision # None =>
                     /\ later[r].decision # r[1]
                     /\ later[r].decision \in DOMAIN wanted
                     /\ wanted[later[r].decision].round = r
    <3>1. CASE r = id
      BY <1>1, <3>1 DEF Owned
    <3>2. CASE r # id
      BY <1>1, <3>2 DEF Owned
    <3> QED BY <3>1, <3>2
  <2> QED BY <2>1 DEF Owned
<1>4. Undecided(later, gone)
  BY <1>1, <1>2 DEF Undecided
<1>5. Fits(L, later, gone)
  <2>1. \A i \in DOMAIN Intents(now[id]) :
            i \in DOMAIN Intents(later[id]) /\ Intents(later[id])[i] = Intents(now[id])[i]
    BY <1>2, FollowedIntents DEF Follows
  <2> QED BY <1>1, <2>1 DEF Fits
<1>6. Paid(L, later, gone)
  BY <1>1 DEF Paid
<1>7. Kept(answers, L, later, gone)
  BY <1>1, <1>2 DEF Kept
<1> QED BY <1>3, <1>4, <1>5, <1>6, <1>7 DEF Money

\* The movements of what a worker prepared, the ones of the round before it apart.
LEMMA OwnMovements ==
    ASSUME NEW m, NEW action, MarkerFits(m, action), NEW L, Staked(L),
           FirstOwn(m).key \notin DOMAIN L, NEW i \in DOMAIN Intents(m.after),
           Intents(m.after)[i].key \in DOMAIN L,
           L[Intents(m.after)[i].key].round = m.after.id,
           L[Intents(m.after)[i].key].amount = Intents(m.after)[i].amount,
           ~Started(m) => m.after.decision # m.after.id[1]
    PROVE  ~Started(m) /\ i = 1
<1>0. Sane(m.after) /\ Wager \in Nat \ {0}
  BY BoundsAssumption DEF MarkerFits
<1> DEFINE x == m.after
<1>1. CASE Started(m)
  <2>1. /\ DOMAIN Intents(x) = IF x.outcome = "player_win" THEN {1, 2} ELSE {1}
        /\ Intents(x)[1] = [key |-> <<x.id[1], "ante">>, amount |-> -Wager]
        /\ x.outcome = "player_win" =>
              Intents(x)[2] = [key |-> <<x.id[1], "settlement">>, amount |-> 2 * Wager]
    BY <1>0, <1>1, FreeIntents DEF MarkerFits, Sane
  <2>2. FirstOwn(m) = Intents(x)[1]
    BY <1>1 DEF FirstOwn, Started
  <2>3. <<x.id[1], "ante">> \notin DOMAIN L
    BY <2>1, <2>2
  <2>4. i = 2 /\ Intents(x)[2] = [key |-> <<x.id[1], "settlement">>, amount |-> 2 * Wager]
    BY <2>1, <2>3
  <2>5. 2 * Wager > 0
    BY <1>0
  <2>6. L[Intents(x)[i].key].amount > 0 /\ L[Intents(x)[i].key].round[1] = x.id[1]
    BY <2>4, <2>5
  <2> QED BY <2>3, <2>6 DEF Staked
<1>2. CASE ~Started(m)
  <2>0. x.decision # None /\ x.outcome \notin Free
    BY <1>0, <1>2, NoneAssumption DEF MarkerFits, Sane
  <2>1. /\ x.outcome \in {"surrender", "war_win", "war_loss"}
        /\ DOMAIN Intents(x) = IF x.outcome = "war_win" THEN {1, 2, 3} ELSE {1, 2}
        /\ x.outcome # "surrender" =>
              Intents(x)[2] = [key |-> <<x.decision, "war-wager">>, amount |-> -Wager]
        /\ x.outcome = "war_win" =>
              Intents(x)[3] = [key |-> <<x.decision, "settlement">>, amount |-> 3 * Wager]
    BY <1>0, <2>0, DecidedIntents
  <2>2. FirstOwn(m) = Intents(x)[2]
    BY <1>2 DEF FirstOwn, Started
  <2>3. i # 2
    BY <2>2
  <2>4. i # 3
    <3>1. SUFFICES ASSUME i = 3 PROVE FALSE
      OBVIOUS
    <3>2. x.outcome = "war_win"
      BY <2>1, <3>1
    <3>3. /\ FirstOwn(m).key = <<x.decision, "war-wager">>
          /\ Intents(x)[i].key = <<x.decision, "settlement">>
          /\ Intents(x)[i].amount = 3 * Wager
      BY <2>1, <2>2, <3>1, <3>2
    <3>4. 3 * Wager > 0 /\ x.decision # x.id[1]
      BY <1>0, <1>2
    <3> DEFINE k == Intents(x)[i].key
    <3>5. /\ k \in DOMAIN L /\ L[k].amount > 0 /\ L[k].round[1] = x.id[1]
          /\ k[2] = "settlement" /\ k[1] = x.decision
      BY <3>3, <3>4
    <3>6. <<x.decision, "war-wager">> \notin DOMAIN L
      BY <3>3
    <3> HIDE DEF k
    <3> QED BY <3>4, <3>5, <3>6 DEF Staked
  <2> QED BY <1>2, <2>1, <2>3, <2>4
<1> QED BY <1>1, <1>2

\* A dealt round none of whose movements was made is taken back.
LEMMA MoneyOfUndealt ==
    ASSUME NEW L, NEW requests, NEW wanted, NEW answers, NEW now, NEW later, NEW gone, NEW more,
           NEW m, NEW action,
           Money(L, requests, answers, now, gone), Faithful(now), Staked(L),
           MarkerFits(m, action), Started(m),
           m.after.id \in DOMAIN now, now[m.after.id] = m.after,
           DOMAIN later = DOMAIN now \ {m.after.id}, \A r \in DOMAIN later : later[r] = now[r],
           action \in DOMAIN requests, requests[action].round = m.after.id,
           DOMAIN wanted = DOMAIN requests \ {action},
           \A a \in DOMAIN wanted : wanted[a] = requests[a],
           gone \subseteq more,
           m.after.id \in more \/ FirstOwn(m).key \notin DOMAIN L
    PROVE  Money(L, wanted, answers, later, more)
<1> DEFINE id == m.after.id
<1>1. Owned(now, requests) /\ Undecided(now, gone) /\ Fits(L, now, gone) /\ Paid(L, now, gone)
      /\ Kept(answers, L, now, gone)
  BY DEF Money
<1>2. Owned(later, wanted)
  BY <1>1 DEF Owned
<1>3. Undecided(later, more)
  BY <1>1 DEF Undecided
<1>4. Fits(L, later, more)
  <2>1. ASSUME NEW k \in DOMAIN L, L[k].round \notin more PROVE L[k].round # id
    <3>1. SUFFICES ASSUME L[k].round = id PROVE FALSE
      OBVIOUS
    <3>2. PICK i \in DOMAIN Intents(m.after) :
              Intents(m.after)[i] = [key |-> k, amount |-> L[k].amount]
      BY <1>1, <2>1, <3>1 DEF Fits
    <3>3. Intents(m.after)[i].key = k /\ Intents(m.after)[i].amount = L[k].amount
      BY <3>2
    <3> QED BY <2>1, <3>1, <3>3, OwnMovements
  <2> QED BY <1>1, <2>1 DEF Fits
<1>5. Paid(L, later, more)
  BY <1>1 DEF Paid, PaidFor
<1>6. Kept(answers, L, later, more)
  <2>1. FirstOwn(m).key = <<id[1], "ante">>
    BY IntentFacts DEF FirstOwn, Started, MarkerFits
  <2> QED BY <1>1, <2>1 DEF Kept
<1> QED BY <1>2, <1>3, <1>4, <1>5, <1>6 DEF Money

\* So is a decision; the round is the tie it was.
LEMMA MoneyOfUndecided ==
    ASSUME NEW L, NEW requests, NEW wanted, NEW answers, NEW now, NEW later, NEW gone, NEW more,
           NEW m, NEW action,
           Money(L, requests, answers, now, gone), Faithful(now), Staked(L),
           MarkerFits(m, action), ~Started(m),
           m.after.id \in DOMAIN now, now[m.after.id] = m.after,
           DOMAIN later = DOMAIN now,
           \A r \in DOMAIN now : r # m.after.id => later[r] = now[r],
           later[m.after.id] = m.before,
           action \in DOMAIN requests, requests[action].round = m.after.id,
           DOMAIN wanted = DOMAIN requests \ {action},
           \A a \in DOMAIN wanted : wanted[a] = requests[a],
           gone \subseteq more,
           m.after.id \in more \/ FirstOwn(m).key \notin DOMAIN L
    PROVE  Money(L, wanted, answers, later, more)
<1> DEFINE id == m.after.id
<1>1. Owned(now, requests) /\ Undecided(now, gone) /\ Fits(L, now, gone) /\ Paid(L, now, gone)
      /\ Kept(answers, L, now, gone)
  BY DEF Money
<1>2. /\ Sane(m.before) /\ m.before.id = id /\ m.before.phase = "war_decision"
      /\ m.before.outcome = "tie" /\ m.before.decision = None
      /\ Sane(m.after) /\ m.after.decision = action /\ action # None
      /\ m.after.outcome # "tie"
  BY DEF MarkerFits, Sane, Free
<1>3. action # id[1]
  BY <1>1, <1>2 DEF Owned
<1>4. Owned(later, wanted)
  <2>1. ASSUME NEW r \in DOMAIN later
        PROVE  /\ r[1] \in DOMAIN wanted /\ wanted[r[1]].round = r
               /\ later[r].decision # None =>
                     /\ later[r].decision # r[1]
                     /\ later[r].decision \in DOMAIN wanted
                     /\ wanted[later[r].decision].round = r
    <3>1. CASE r = id
      BY <1>1, <1>2, <1>3, <3>1 DEF Owned
    <3>2. CASE r # id
      BY <1>1, <3>2 DEF Owned
    <3> QED BY <3>1, <3>2
  <2> QED BY <2>1 DEF Owned
<1>5. Undecided(later, more)
  BY <1>1, <1>2 DEF Undecided
<1>6. Fits(L, later, more)
  <2>1. ASSUME NEW k \in DOMAIN L, L[k].round \notin more, L[k].round = id
        PROVE  \E j \in DOMAIN Intents(m.before) :
                  Intents(m.before)[j] = [key |-> k, amount |-> L[k].amount]
    <3>2. PICK i \in DOMAIN Intents(m.after) :
              Intents(m.after)[i] = [key |-> k, amount |-> L[k].amount]
      BY <1>1, <2>1 DEF Fits
    <3>3. Intents(m.after)[i].key = k /\ Intents(m.after)[i].amount = L[k].amount
      BY <3>2
    <3>4. i = 1
      BY <1>2, <1>3, <2>1, <3>3, OwnMovements
    <3>5. 1 \in DOMAIN Intents(m.before) /\ Intents(m.before)[1] = Intents(m.after)[1]
      <4>1. /\ DOMAIN Intents(m.before) = {1}
            /\ Intents(m.before)[1] = [key |-> <<id[1], "ante">>, amount |-> -Wager]
        <5>1. m.before.outcome \in Free
          BY <1>2 DEF Free
        <5>2. /\ DOMAIN Intents(m.before) = IF m.before.outcome = "player_win" THEN {1, 2} ELSE {1}
              /\ Intents(m.before)[1] = [key |-> <<m.before.id[1], "ante">>, amount |-> -Wager]
          BY <1>2, <5>1, FreeIntents
        <5>3. m.before.outcome # "player_win" /\ m.before.id = id
          BY <1>2
        <5> HIDE DEF id
        <5> QED BY <5>2, <5>3
      <4>2. Intents(m.after)[1] = [key |-> <<id[1], "ante">>, amount |-> -Wager]
        <5>1. m.after.outcome \notin Free /\ m.after.id = id
          BY <1>2 DEF Sane
        <5>2. Sane(m.after)
          BY <1>2
        <5>3. Intents(m.after)[1] = [key |-> <<m.after.id[1], "ante">>, amount |-> -Wager]
          BY <5>1, <5>2, DecidedIntents
        <5> HIDE DEF id
        <5> QED BY <5>1, <5>3
      <4> QED BY <4>1, <4>2
    <3> QED BY <3>2, <3>4, <3>5
  <2> QED BY <1>1, <2>1 DEF Fits
<1>7. Paid(L, later, more)
  <2>1. ASSUME NEW r \in DOMAIN later \ more, later[r].phase = "settled"
        PROVE  PaidFor(later[r], L, more)
    <3>1. r # id
      BY <1>2, <2>1
    <3> QED BY <1>1, <2>1, <3>1 DEF Paid, PaidFor
  <2> QED BY <2>1 DEF Paid
<1>8. Kept(answers, L, later, more)
  <2>1. FirstOwn(m) = Intents(m.after)[2] /\ 2 \in DOMAIN Intents(m.after)
    <3>1. m.after.outcome \notin Free /\ m.before # None
      BY <1>2 DEF Sane, Started
    <3>2. 2 \in DOMAIN Intents(m.after)
      BY <1>2, <3>1, DecidedIntents
    <3>3. FirstOwn(m) = Intents(m.after)[2]
      BY <3>1 DEF FirstOwn
    <3> QED BY <3>2, <3>3
  <2>2. ASSUME NEW t \in answers, t.round \notin more, t.round = id PROVE t.outcome = "tie"
    <3>1. ~Recorded(now[id], L)
      BY <2>1, <2>2 DEF Recorded
    <3> QED BY <1>1, <2>2, <3>1 DEF Kept
  <2> QED BY <1>1, <2>2 DEF Kept
<1> QED BY <1>4, <1>5, <1>6, <1>7, <1>8 DEF Money

-----------------------------------------------------------------------------
\* The rounds as they are now, and the requests that hold copies of them.
LEMMA NowFacts ==
    ASSUME Books
    PROVE  /\ DOMAIN Now = DOMAIN doc.rounds \cup DOMAIN archive
           /\ \A r \in DOMAIN doc.rounds : Now[r] = doc.rounds[r]
           /\ \A r \in DOMAIN archive : r \notin DOMAIN doc.rounds /\ Now[r] = archive[r]
           /\ Faithful(Now)
<1>1. DOMAIN Now = DOMAIN doc.rounds \cup DOMAIN archive
  BY DEF Now, Known
<1>2. \A r \in DOMAIN doc.rounds : Now[r] = doc.rounds[r]
  BY DEF Now, Known, Latest
<1>3. \A r \in DOMAIN archive : r \notin DOMAIN doc.rounds /\ Now[r] = archive[r]
  BY DEF Now, Known, Latest, Books
<1>4. Faithful(Now)
  BY <1>1, <1>2, <1>3 DEF Faithful, Books
<1> QED BY <1>1, <1>2, <1>3, <1>4

LEMMA DocumentCopies ==
    ASSUME Books, NEW r \in DOMAIN doc.rounds
    PROVE  doc.rounds[r].id = r /\ Copy(doc.rounds[r], Now, contested)
BY NowFacts DEF Copy, Follows, Books

LEMMA RequestOn ==
    ASSUME NEW x, NEW now, NEW gone, NEW later, NEW more, Request(x, now, gone),
           x # None => Copy(x.round, later, more),
           x # None => \A r \in x.todo \cap DOMAIN x.rounds : Copy(x.rounds[r], later, more)
    PROVE  Request(x, later, more)
BY DEF Request

\* The next request of a read, from copies of rounds.
LEMMA VisitIsRequest ==
    ASSUME NEW todo, NEW rounds, NEW recorded, NEW now, NEW gone,
           \A r \in todo \cap DOMAIN rounds : rounds[r].id = r /\ Copy(rounds[r], now, gone),
           NEW x \in Visits(todo, rounds, recorded)
    PROVE  Request(x, now, gone) /\ ~Marked(x)
<1>1. CASE x = None
  BY <1>1 DEF Request, Marked
<1>2. CASE x # None
  <2> DEFINE Rest(r) == {q \in todo : q[2] > r[2]}
             Next_(r) == [Reconciling(None, rounds[r], recorded, None)
                           EXCEPT !.todo = Rest(r),
                                  !.rounds = IF Rest(r) = {} THEN Empty ELSE rounds]
  <2>1. PICK r \in todo \cap DOMAIN rounds : x = Next_(r)
    BY <1>2 DEF Visits
  <2>2. /\ DOMAIN x = Fields /\ x.pc = "reconcile" /\ x.round = rounds[r] /\ x.marker = None
        /\ x.todo = Rest(r) /\ x.rounds = IF Rest(r) = {} THEN Empty ELSE rounds
    BY <2>1 DEF Reconciling, Fields
  <2>3. \A q \in x.todo \cap DOMAIN x.rounds : q \in todo \cap DOMAIN rounds /\ x.rounds[q] = rounds[q]
    <3> HIDE DEF Next_
    <3> QED BY <2>2 DEF Empty
  <2> HIDE DEF Rest, Next_
  <2> QED BY <2>2, <2>3 DEF Request, Marked
<1> QED BY <1>1, <1>2

LEMMA ReconcilingIsRequest ==
    ASSUME NEW action, NEW round, NEW recorded, NEW marker, NEW now, NEW gone,
           Copy(round, now, gone), marker # None => MarkerFits(marker, action)
    PROVE  LET x == Reconciling(action, round, recorded, marker)
           IN  Request(x, now, gone) /\ x.marker = marker
<1> DEFINE x == Reconciling(action, round, recorded, marker)
<1>1. /\ DOMAIN x = Fields /\ x.pc = "reconcile" /\ x.round = round /\ x.marker = marker
      /\ x.action = action /\ x.todo = {}
  BY DEF Reconciling, Fields
<1> HIDE DEF x
<1>2. Request(x, now, gone) /\ x.marker = marker
  BY <1>1 DEF Request
<1> QED BY <1>2 DEF x

LEMMA RaisedIsRequest ==
    ASSUME NEW w \in Workers, NEW now, NEW gone, Request(work[w], now, gone), work[w] # None
    PROVE  /\ Request(Raised(w), now, gone)
           /\ Marked(Raised(w)) => Marked(work[w]) /\ Raised(w).marker = work[w].marker
<1>1. CASE work[w].marker = None
  BY <1>1 DEF Raised, Request, Marked
<1>2. CASE work[w].marker # None
  <2> DEFINE x == [work[w] EXCEPT !.pc = "classify", !.intent = 0]
  <2>1. x = Raised(w)
    BY <1>2 DEF Raised
  <2>2. /\ DOMAIN x = Fields /\ x.pc = "classify" /\ x.round = work[w].round
        /\ x.marker = work[w].marker /\ x.action = work[w].action
        /\ x.todo = work[w].todo /\ x.rounds = work[w].rounds
    BY DEF Request, Fields
  <2> HIDE DEF x
  <2>3. Request(x, now, gone)
    BY <1>2, <2>2 DEF Request
  <2> QED BY <1>2, <2>1, <2>2, <2>3 DEF Marked
<1> QED BY <1>1, <1>2

\* One worker moves on, and the others' copies and markers are what they were.
LEMMA WorkerGoesOn ==
    ASSUME Inv, Working, NEW w \in Workers, NEW x, work' = [work EXCEPT ![w] = x],
           Request(x, Now', contested'),
           Marked(x) => Restores(x.marker, doc'.rounds, archive', dealt'),
           \A v \in Workers \ {w} : work[v] # None =>
              /\ Copy(work[v].round, Now', contested')
              /\ \A r \in work[v].todo \cap DOMAIN work[v].rounds :
                    Copy(work[v].rounds[r], Now', contested')
              /\ Marked(work[v]) => Restores(work[v].marker, doc'.rounds, archive', dealt')
    PROVE  Working'
<1>1. ASSUME NEW v \in Workers
      PROVE  /\ Request(work'[v], Now', contested')
             /\ Marked(work'[v]) => Restores(work'[v].marker, doc'.rounds, archive', dealt')
  <2>1. CASE v = w
    BY <2>1 DEF Inv
  <2>2. CASE v # w
    <3>1. work'[v] = work[v] /\ Request(work[v], Now, contested)
      BY <2>2 DEF Working
    <3>2. Request(work[v], Now', contested')
      BY <2>2, <3>1, RequestOn
    <3> QED BY <2>2, <3>1, <3>2 DEF Marked
  <2> QED BY <2>1, <2>2
<1> QED BY <1>1 DEF Working

\* A step that leaves the rounds alone.
Surroundings == Books /\ Working /\ LedgerTyped /\ RequestsTyped /\ Settling

LEMMA SameRounds ==
    ASSUME WarInv, NEW w \in Workers, NEW x, work' = [work EXCEPT ![w] = x],
           Request(x, Now, contested),
           Marked(x) => Marked(work[w]) /\ x.marker = work[w].marker,
           doc'.rounds = doc.rounds, doc'.requests = doc.requests, DOMAIN doc' = DOMAIN doc,
           archive' = archive, dealt' = dealt, contested' = contested,
           Money(rows', doc.requests, told', Now, contested), LedgerTyped'
    PROVE  Surroundings'
<1>1. Now' = Now /\ Known' = Known
  BY DEF Now, Known, Latest
<1>2. Books'
  <2>1. Books
    BY DEF WarInv
  <2> QED BY <1>1, <2>1 DEF Books
<1>3. Working'
  <2>1. Inv /\ Working
    BY DEF WarInv
  <2>2. Marked(x) => Restores(x.marker, doc'.rounds, archive', dealt')
    BY <2>1 DEF Working
  <2>3. \A v \in Workers \ {w} : work[v] # None =>
              /\ Copy(work[v].round, Now', contested')
              /\ \A r \in work[v].todo \cap DOMAIN work[v].rounds :
                    Copy(work[v].rounds[r], Now', contested')
              /\ Marked(work[v]) => Restores(work[v].marker, doc'.rounds, archive', dealt')
    BY <1>1, <2>1 DEF Working, Request
  <2> QED BY <1>1, <2>1, <2>2, <2>3, WorkerGoesOn
<1>4. RequestsTyped'
  BY DEF WarInv, RequestsTyped
<1>5. Settling'
  BY <1>1 DEF Settling
<1> QED BY <1>2, <1>3, <1>4, <1>5 DEF Surroundings

-----------------------------------------------------------------------------
\* Each operation keeps the money with the rounds.
LEMMA AtWork ==
    ASSUME WarInv, NEW w \in Workers, work[w] # None
    PROVE  /\ Request(work[w], Now, contested) /\ Sound(work[w], DOMAIN rows)
           /\ DOMAIN work[w] = Fields
           /\ Copy(work[w].round, Now, contested) /\ Sane(work[w].round)
BY DEF WarInv, Working, Inv, Request, Copy

LEMMA SameMoney ==
    ASSUME WarInv, rows' = rows, wallet' = wallet, told' = told
    PROVE  Money(rows', doc.requests, told', Now, contested) /\ LedgerTyped'
BY DEF WarInv, Settling, LedgerTyped

LEMMA LoadBalances ==
    ASSUME WarInv, NEW w \in Workers, LoadState(w) PROVE Surroundings'
<1>1. PICK x \in Visits(DOMAIN doc.rounds, doc.rounds, doc.ledger_actions) :
          work' = [work EXCEPT ![w] = x]
  BY DEF LoadState
<1>2. Request(x, Now, contested) /\ ~Marked(x)
  BY DocumentCopies, VisitIsRequest DEF WarInv
<1> QED BY <1>1, <1>2, SameRounds, SameMoney DEF LoadState

LEMMA ReplayBalances ==
    ASSUME WarInv, NEW w \in Workers, NEW a \in Actions, Replay(w, a) PROVE Surroundings'
<1> DEFINE x == Reconciling(a, doc.rounds[doc.requests[a].round], doc.ledger_actions, None)
<1>1. work' = [work EXCEPT ![w] = x]
  BY DEF Replay
<1>2. Copy(doc.rounds[doc.requests[a].round], Now, contested)
  BY DocumentCopies DEF Replay, WarInv
<1>3. Request(x, Now, contested) /\ x.marker = None
  BY <1>2, ReconcilingIsRequest
<1> HIDE DEF x
<1> QED BY <1>1, <1>3, SameRounds, SameMoney DEF Replay, Marked

LEMMA FindBalances ==
    ASSUME WarInv, NEW w \in Workers, FindAction(w) PROVE Surroundings'
<1>1. PICK i \in Todo(w) :
        work' = [work EXCEPT ![w].intent = i, ![w].pc =
              IF Intents(work[w].round)[i].key \in DOMAIN rows THEN "mark" ELSE "transact"]
  BY DEF FindAction
<1> DEFINE x == [work[w] EXCEPT !.intent = i, !.pc =
              IF Intents(work[w].round)[i].key \in DOMAIN rows THEN "mark" ELSE "transact"]
<1>2. Request(work[w], Now, contested) /\ work[w] # None
  BY AtWork DEF FindAction, At
<1>3. /\ DOMAIN x = Fields /\ x.round = work[w].round /\ x.recorded = work[w].recorded
      /\ x.todo = work[w].todo /\ x.rounds = work[w].rounds /\ x.marker = work[w].marker
      /\ x.action = work[w].action /\ x.intent = i /\ x.pc \in {"mark", "transact"}
  BY <1>2 DEF Request, Fields
<1>4. work' = [work EXCEPT ![w] = x]
  BY <1>1 DEF WarInv, Inv
<1> HIDE DEF x
<1>5. Request(x, Now, contested)
  BY <1>1, <1>2, <1>3 DEF Request, Todo
<1> QED BY <1>2, <1>3, <1>4, <1>5, SameRounds, SameMoney DEF FindAction, Marked

\* The ledger has the movement already, or makes it, for a worker that asks.
LEMMA TransactBalances ==
    ASSUME WarInv, NEW w \in Workers, Transact(w) PROVE Surroundings'
<1> DEFINE i == work[w].intent
           key == Movement(w).key
           ok == [work[w] EXCEPT !.pc = "mark"]
<1>1. /\ work[w] # None /\ Request(work[w], Now, contested)
      /\ Copy(work[w].round, Now, contested) /\ Sane(work[w].round)
  BY AtWork DEF Transact, At
<1>2. i \in DOMAIN Intents(work[w].round) /\ Movement(w) = Intents(work[w].round)[i]
  BY <1>1 DEF Transact, At, Request, Unapplied, Movement
<1>3. Request(ok, Now, contested) /\ (Marked(ok) => Marked(work[w]) /\ ok.marker = work[w].marker)
  <2>1. /\ DOMAIN ok = Fields /\ ok.round = work[w].round /\ ok.recorded = work[w].recorded
        /\ ok.todo = work[w].todo /\ ok.rounds = work[w].rounds /\ ok.marker = work[w].marker
        /\ ok.action = work[w].action /\ ok.intent = work[w].intent /\ ok.pc = "mark"
    BY <1>1 DEF Request, Fields
  <2> HIDE DEF ok
  <2> QED BY <1>1, <2>1 DEF Request, Marked, Transact, At
<1>4. /\ Request(Raised(w), Now, contested)
      /\ Marked(Raised(w)) => Marked(work[w]) /\ Raised(w).marker = work[w].marker
  BY <1>1, RaisedIsRequest
<1> HIDE DEF ok
<1>5. \E x : /\ work' = [work EXCEPT ![w] = x] /\ Request(x, Now, contested)
             /\ Marked(x) => Marked(work[w]) /\ x.marker = work[w].marker
  BY <1>3, <1>4 DEF Transact, Return, ok
<1>6. /\ doc' = doc /\ archive' = archive /\ dealt' = dealt /\ contested' = contested /\ told' = told
  BY DEF Transact
<1>7. CASE rows' = rows /\ wallet' = wallet
  BY <1>5, <1>6, <1>7, SameRounds, SameMoney
<1>8. CASE /\ key \notin DOMAIN rows /\ Affordable(Row(w).amount)
           /\ rows' = With(rows, key, Row(w)) /\ wallet' = wallet + Row(w).amount
  <2>1. /\ DOMAIN rows' = DOMAIN rows \cup {key} /\ rows'[key] = Row(w)
        /\ \A k \in DOMAIN rows : rows'[k] = rows[k]
    BY <1>8 DEF With
  <2>2. Row(w) = [round |-> work[w].round.id, amount |-> Intents(work[w].round)[i].amount]
    BY <1>2 DEF Row
  <2>3. key \in Keys /\ Intents(work[w].round)[i].amount \in Int /\ work[w].round.id \in RoundIds
    BY <1>1, <1>2, IntentFacts DEF Sane, Rounds
  <2>4. LedgerTyped'
    <3>1. wallet' \in Nat
      BY <1>8, <2>2, <2>3 DEF Affordable, WarInv, LedgerTyped
    <3>2. Row(w) \in [round : RoundIds, amount : Int]
      BY <2>2, <2>3
    <3> HIDE DEF key
    <3>3. DOMAIN rows' \subseteq Keys /\ \A k \in DOMAIN rows' : rows'[k] \in [round : RoundIds, amount : Int]
      BY <2>1, <2>3, <3>2 DEF WarInv, LedgerTyped, Map
    <3> QED BY <3>1, <3>3 DEF LedgerTyped, Map
  <2>5. Money(rows', doc.requests, told', Now, contested)
    <3>1. Money(rows, doc.requests, told, Now, contested) /\ Faithful(Now)
      BY NowFacts DEF WarInv, Settling
    <3>2. key = Intents(work[w].round)[i].key
      BY <1>2
    <3> HIDE DEF key, i
    <3> QED BY <1>1, <1>2, <1>6, <1>8, <2>1, <2>2, <3>1, <3>2, MoneyOfRow
  <2> QED BY <1>5, <1>6, <2>4, <2>5, SameRounds
<1> QED BY <1>7, <1>8 DEF Transact

LEMMA MarkBalances ==
    ASSUME WarInv, NEW w \in Workers, MarkCommitted(w) PROVE Surroundings'
<1> DEFINE x == [work[w] EXCEPT !.pc = "reconcile", !.intent = 0,
                    !.recorded = doc'.ledger_actions,
                    !.rounds = IF work[w].todo = {} THEN Empty ELSE doc'.rounds]
<1>1. work[w] # None /\ Request(work[w], Now, contested) /\ DOMAIN work[w] = Fields
  BY AtWork DEF MarkCommitted, At
<1>2. /\ doc'.rounds = doc.rounds /\ doc'.requests = doc.requests /\ DOMAIN doc' = DOMAIN doc
  BY DEF MarkCommitted, WarInv, Books
<1>3. /\ DOMAIN x = Fields /\ x.round = work[w].round /\ x.marker = work[w].marker
      /\ x.todo = work[w].todo /\ x.action = work[w].action /\ x.pc = "reconcile"
      /\ x.rounds = IF work[w].todo = {} THEN Empty ELSE doc.rounds
  BY <1>1, <1>2 DEF Fields
<1>4. Return(w, x)
  BY DEF MarkCommitted
<1> HIDE DEF x
<1>5. \A r \in x.todo \cap DOMAIN x.rounds :
          x.rounds[r].id = r /\ Copy(x.rounds[r], Now, contested)
  BY <1>3, DocumentCopies DEF WarInv
<1>6. Request(x, Now, contested) /\ (Marked(x) => Marked(work[w]) /\ x.marker = work[w].marker)
  BY <1>1, <1>3, <1>5 DEF Request, Marked
<1>7. \E y : /\ work' = [work EXCEPT ![w] = y] /\ Request(y, Now, contested)
             /\ Marked(y) => Marked(work[w]) /\ y.marker = work[w].marker
  BY <1>1, <1>4, <1>6, RaisedIsRequest DEF Return
<1> QED BY <1>2, <1>7, SameRounds, SameMoney DEF MarkCommitted

LEMMA ToldIsMoney ==
    ASSUME WarInv, NEW w \in Workers, At(w, "reconcile"), Todo(w) = {},
           work[w].round.phase # "ledger_pending", Answer(w, work[w].round)
    PROVE  Money(rows, doc.requests, told', Now, contested)
<1>1. /\ work[w] # None /\ Copy(work[w].round, Now, contested) /\ Sound(work[w], DOMAIN rows)
  BY AtWork DEF At
<1>2. Recorded(work[w].round, rows)
  BY <1>1 DEF Recorded, Todo, Unapplied, Sound
<1>3. told' \subseteq told \cup {[round |-> work[w].round.id, outcome |-> work[w].round.outcome]}
  BY DEF Answer
<1>4. Money(rows, doc.requests, told, Now, contested) /\ Faithful(Now)
  BY NowFacts DEF WarInv, Settling
<1> DEFINE x == work[w].round
<1>5. /\ Copy(x, Now, contested) /\ Recorded(x, rows) /\ x.phase # "ledger_pending"
      /\ told' \subseteq told \cup {[round |-> x.id, outcome |-> x.outcome]}
  BY <1>1, <1>2, <1>3
<1> HIDE DEF x
<1> QED BY <1>4, <1>5, MoneyOfAnswer

LEMMA NothingBalances ==
    ASSUME WarInv, NEW w \in Workers, NothingToSettle(w) PROVE Surroundings'
<1>1. work[w] # None /\ Request(work[w], Now, contested)
  BY AtWork DEF NothingToSettle, At
<1>2. PICK x \in Visits(work[w].todo, work[w].rounds, work[w].recorded) :
          work' = [work EXCEPT ![w] = x]
  BY DEF NothingToSettle
<1>3. Request(x, Now, contested) /\ ~Marked(x)
  <2> DEFINE todo == work[w].todo
             rounds == work[w].rounds
  <2>1. \A r \in todo \cap DOMAIN rounds : rounds[r].id = r /\ Copy(rounds[r], Now, contested)
    BY <1>1 DEF Request
  <2>2. x \in Visits(todo, rounds, work[w].recorded)
    BY <1>2
  <2> HIDE DEF todo, rounds
  <2> QED BY <2>1, <2>2, VisitIsRequest
<1>4. Money(rows, doc.requests, told', Now, contested)
  BY ToldIsMoney DEF NothingToSettle
<1>5. rows' = rows /\ LedgerTyped'
  BY DEF NothingToSettle, LedgerTyped, WarInv
<1> QED BY <1>2, <1>3, <1>4, <1>5, SameRounds DEF NothingToSettle

LEMMA ClassifyBalances ==
    ASSUME WarInv, NEW w \in Workers, Classify(w) PROVE Surroundings'
<1> DEFINE x == [work[w] EXCEPT !.pc = "rollback",
                                !.found = FirstOwn(work[w].marker).key \in DOMAIN rows]
<1>1. /\ work[w] # None /\ Request(work[w], Now, contested) /\ DOMAIN work[w] = Fields
      /\ work[w].pc = "classify"
  BY AtWork DEF Classify, At
<1>2. work' = [work EXCEPT ![w] = IF x.found THEN None ELSE x]
  BY DEF Classify, Classified
<1>3. /\ DOMAIN x = Fields /\ x.round = work[w].round /\ x.marker = work[w].marker
      /\ x.todo = work[w].todo /\ x.rounds = work[w].rounds
      /\ x.action = work[w].action /\ x.pc = "rollback"
  BY <1>1 DEF Fields
<1> HIDE DEF x
<1>4. CASE ~x.found
  <2>1. Request(x, Now, contested)
    BY <1>1, <1>3, <1>4 DEF Request
  <2>2. Marked(x) => Marked(work[w]) /\ x.marker = work[w].marker
    BY <1>1, <1>3 DEF Marked
  <2> QED BY <1>2, <1>4, <2>1, <2>2, SameRounds, SameMoney DEF Classify
<1>5. CASE x.found
  <2>1. Request(None, Now, contested) /\ ~Marked(None)
    BY DEF Request, Marked
  <2> QED BY <1>2, <1>5, <2>1, SameRounds, SameMoney DEF Classify
<1> QED BY <1>4, <1>5

LEMMA FailBalances ==
    ASSUME WarInv, NEW w \in Workers, Fail(w) PROVE Surroundings'
<1>1. work[w] # None /\ Request(work[w], Now, contested)
  BY AtWork DEF Fail
<1>2. Request(None, Now, contested) /\ ~Marked(None)
  BY DEF Request, Marked
<1>3. \E x : /\ work' = [work EXCEPT ![w] = x] /\ Request(x, Now, contested)
             /\ Marked(x) => Marked(work[w]) /\ x.marker = work[w].marker
  BY <1>1, <1>2, RaisedIsRequest DEF Fail
<1> QED BY <1>3, SameRounds, SameMoney DEF Fail

LEMMA OtherBalances ==
    ASSUME WarInv, OtherMovement PROVE Surroundings'
<1>1. Now' = Now /\ Known' = Known
  BY DEF Now, Known, Latest, OtherMovement
<1>2. wallet' \in Nat
  BY BoundsAssumption DEF OtherMovement, Affordable, WarInv, LedgerTyped
<1>3. Books' /\ Working' /\ RequestsTyped' /\ Settling'
  BY <1>1 DEF OtherMovement, WarInv, Books, Working, RequestsTyped, Settling
<1> QED BY <1>2, <1>3 DEF OtherMovement, WarInv, LedgerTyped, Surroundings

LEMMA CopyOfItself ==
    ASSUME NEW now, NEW gone, Faithful(now), NEW r \in DOMAIN now
    PROVE  now[r].id = r /\ Copy(now[r], now, gone)
BY DEF Faithful, Copy, Follows

\* The round is settled wherever it is by now, if it is in the document at all.
LEMMA SettleBalances ==
    ASSUME WarInv, NEW w \in Workers, Settle(w) PROVE Surroundings'
<1> DEFINE x == work[w].round
           id == x.id
<1>1. /\ work[w] # None /\ Request(work[w], Now, contested) /\ Sound(work[w], DOMAIN rows)
      /\ Copy(x, Now, contested) /\ Sane(x)
  BY AtWork DEF Settle, At
<1>2. /\ Request(Raised(w), Now, contested)
      /\ Marked(Raised(w)) => Marked(work[w]) /\ Raised(w).marker = work[w].marker
  BY <1>1, RaisedIsRequest
<1>3. CASE id \notin DOMAIN doc.rounds
  BY <1>2, <1>3, SameRounds, SameMoney DEF Settle
<1>4. CASE id \in DOMAIN doc.rounds
  <2>0. Books /\ Inv /\ Working
    BY DEF WarInv
  <2>1. /\ DOMAIN doc' = DOMAIN doc /\ doc'.requests = doc.requests
        /\ DOMAIN doc'.rounds = DOMAIN doc.rounds
        /\ \A r \in DOMAIN doc.rounds : r # id => doc'.rounds[r] = doc.rounds[r]
        /\ doc'.rounds[id] = [doc.rounds[id] EXCEPT !.phase = "settled"]
    <3>1. doc' = [doc EXCEPT !.rounds[id].phase = "settled"]
      BY <1>4 DEF Settle
    <3> QED BY <1>4, <2>0, <3>1 DEF Books
  <2>2. /\ archive' = archive /\ rows' = rows /\ wallet' = wallet /\ dealt' = dealt
        /\ contested' = contested
    BY DEF Settle
  <2>3. /\ DOMAIN Now = DOMAIN doc.rounds \cup DOMAIN archive /\ Faithful(Now)
        /\ \A r \in DOMAIN doc.rounds : Now[r] = doc.rounds[r]
        /\ \A r \in DOMAIN archive : r \notin DOMAIN doc.rounds /\ Now[r] = archive[r]
    BY <2>0, NowFacts
  <2>4. /\ DOMAIN Now' = DOMAIN Now
        /\ \A r \in DOMAIN Now : r # id => Now'[r] = Now[r]
        /\ \A r \in DOMAIN doc.rounds : Now'[r] = doc'.rounds[r]
        /\ Now'[id] = [Now[id] EXCEPT !.phase = "settled"]
    <3>1. DOMAIN Now' = DOMAIN Now
      BY <2>1, <2>2 DEF Now, Known
    <3>2. \A r \in DOMAIN doc.rounds : Now'[r] = doc'.rounds[r]
      BY <2>1, <2>2 DEF Now, Known, Latest
    <3>3. \A r \in DOMAIN archive : Now'[r] = archive[r]
      BY <2>1, <2>2, <2>3 DEF Now, Known, Latest
    <3> HIDE DEF x
    <3> QED BY <1>4, <2>1, <2>3, <3>1, <3>2, <3>3
  <2>5. /\ Sane(Now[id]) /\ Sane(Now'[id]) /\ Now'[id].id = id /\ Now'[id].phase = "settled"
        /\ Intents(Now'[id]) = Intents(Now[id])
    BY <1>4, <2>3, <2>4, SettledIntents DEF Faithful
  <2>6. Faithful(Now')
    BY <2>3, <2>4, <2>5 DEF Faithful
  <2>7. x.phase = "ledger_pending" /\ Recorded(x, rows)
    BY <1>1 DEF Settle, Todo, Unapplied, Recorded, Sound
  <2>8. id \notin contested => Now[id] = x \/ Now[id] = [x EXCEPT !.phase = "settled"]
    BY <1>1, <2>7 DEF Copy, Follows
  <2>9. ASSUME NEW y, Copy(y, Now, contested) PROVE Copy(y, Now', contested)
    <3>1. id \in DOMAIN Now \ contested => Now[id].phase # "war_decision"
      BY <1>1, <2>7, <2>8, SettledIntents
    <3> HIDE DEF x
    <3> QED BY <2>3, <2>4, <2>9, <3>1, CopyOfSettled
  <2>10. Books'
    <3>1. \A r \in DOMAIN doc.rounds : doc'.rounds[r].id = r /\ Sane(doc'.rounds[r])
      BY <2>3, <2>4, <2>6 DEF Faithful
    <3>2. \A r : Unsettled(r, doc'.rounds) => Unsettled(r, doc.rounds)
      BY <1>4, <2>1, <2>4, <2>5 DEF Unsettled
    <3>3. Known' = Known
      BY <2>1, <2>2 DEF Known
    <3> HIDE DEF x
    <3> QED BY <2>0, <2>1, <2>2, <3>1, <3>2, <3>3 DEF Books
  <2>11. \A m : Restores(m, doc.rounds, archive, dealt) => Restores(m, doc'.rounds, archive', dealt')
    <3>1. \A r : Unsettled(r, doc'.rounds) => Unsettled(r, doc.rounds)
      BY <1>4, <2>1, <2>4, <2>5 DEF Unsettled
    <3> QED BY <2>1, <2>2, <3>1 DEF Restores
  <2>12. Working'
    <3>1. /\ Request(Raised(w), Now', contested)
          /\ Marked(Raised(w)) => Restores(Raised(w).marker, doc'.rounds, archive', dealt')
      <4>1. Request(work[w], Now', contested)
        BY <1>1, <2>9, RequestOn DEF Request
      <4> QED BY <1>1, <1>2, <2>0, <2>11, <4>1, RaisedIsRequest DEF Working
    <3>2. ASSUME NEW y \in Visits(work[w].todo, doc'.rounds, doc'.ledger_actions)
          PROVE  Request(y, Now', contested) /\ ~Marked(y)
      <4>1. \A r \in work[w].todo \cap DOMAIN doc'.rounds :
                doc'.rounds[r].id = r /\ Copy(doc'.rounds[r], Now', contested)
        BY <2>1, <2>3, <2>4, <2>6, CopyOfItself
      <4> DEFINE todo == work[w].todo
                 rounds == doc'.rounds
      <4>2. /\ \A r \in todo \cap DOMAIN rounds : rounds[r].id = r /\ Copy(rounds[r], Now', contested)
            /\ y \in Visits(todo, rounds, doc'.ledger_actions)
        BY <4>1
      <4> HIDE DEF todo, rounds
      <4> QED BY <4>2, VisitIsRequest
    <3>3. \E y : /\ work' = [work EXCEPT ![w] = y] /\ Request(y, Now', contested)
                 /\ Marked(y) => Restores(y.marker, doc'.rounds, archive', dealt')
      BY <1>4, <3>1, <3>2 DEF Settle
    <3>4. \A v \in Workers \ {w} : work[v] # None =>
              /\ Copy(work[v].round, Now', contested')
              /\ \A r \in work[v].todo \cap DOMAIN work[v].rounds :
                    Copy(work[v].rounds[r], Now', contested')
              /\ Marked(work[v]) => Restores(work[v].marker, doc'.rounds, archive', dealt')
      BY <2>0, <2>2, <2>9, <2>11 DEF Working, Request
    <3> HIDE DEF x
    <3> QED BY <2>0, <2>2, <3>3, <3>4, WorkerGoesOn
  <2>13. Settling'
    <3>1. Money(rows, doc.requests, told, Now, contested)
      BY DEF WarInv, Settling
    <3>2. Map(rows, Keys, [round : RoundIds, amount : Int])
      BY DEF WarInv, LedgerTyped
    <3>3. Money(rows, doc.requests, told, Now', contested)
      <4> HIDE DEF x
      <4> QED BY <1>1, <1>4, <2>3, <2>4, <2>7, <3>1, <3>2, MoneyOfSettled
    <3>4. told' \subseteq told \cup {[round |-> Now'[id].id, outcome |-> Now'[id].outcome]}
      BY <1>4, <2>4, <2>5 DEF Settle, Answer
    <3>5. id \notin contested => Recorded(Now'[id], rows)
      BY <1>1, <2>5, <2>7, <2>8, SettledIntents DEF Recorded
    <3>6. Copy(Now'[id], Now', contested) /\ Now'[id].phase # "ledger_pending"
      BY <1>4, <2>3, <2>4, <2>5, <2>6, CopyOfItself
    <3>7. Money(rows, doc.requests, told', Now', contested)
      <4> HIDE DEF x
      <4> QED BY <2>5, <2>6, <3>3, <3>4, <3>5, <3>6, MoneyOfAnswer
    <3> QED BY <2>1, <2>2, <3>7 DEF Settling
  <2> QED BY <2>1, <2>2, <2>10, <2>12, <2>13 DEF WarInv, LedgerTyped, RequestsTyped, Surroundings
<1> QED BY <1>3, <1>4

-----------------------------------------------------------------------------
\* A nonempty set of numbers has a least one.
LEMMA LeastNumber ==
    ASSUME NEW B \in SUBSET Nat, B # {} PROVE \E n \in B : \A m \in B : n <= m
<1> DEFINE R == {p \in Nat \X Nat : p[1] < p[2]}
<1>1. IsWellFoundedOn(R, Nat)
  <2>1. R = OpToRel(<, Nat)
    BY DEF OpToRel
  <2> QED BY <2>1, NatLessThanWellFounded
<1>2. PICK n \in B : \A m \in B : <<m, n>> \notin R
  BY <1>1, WFMin
<1>3. ASSUME NEW m \in B PROVE n <= m
  <2>1. ~(<<m, n>> \in R)
    BY <1>2
  <2>2. <<m, n>>[1] = m /\ <<m, n>>[2] = n /\ <<m, n>> \in Nat \X Nat
    OBVIOUS
  <2>3. ~(m < n)
    BY <2>1, <2>2
  <2> QED BY <2>3
<1> QED BY <1>3

\* What is left of the rounds when the oldest are dropped is within the limit: the
\* oldest of those is followed by all the others.
LEMMA HistoryIsBounded ==
    ASSUME NEW D, IsFiniteSet(D), \A q \in D : q[2] \in Nat,
           \A q, r \in D : q[2] = r[2] => q = r,
           NEW K, K = {r \in D : ~(Cardinality({q \in D : q[2] > r[2]}) >= HistoryLimit)}
    PROVE  IsFiniteSet(K) /\ Cardinality(K) <= HistoryLimit
<1>1. IsFiniteSet(K) /\ Cardinality(K) \in Nat /\ HistoryLimit \in Nat
  <2>1. K \in SUBSET D
    OBVIOUS
  <2>2. IsFiniteSet(K)
    BY <2>1, FS_Subset
  <2>3. Cardinality(K) \in Nat
    BY <2>2, FS_CardinalityType
  <2> QED BY <2>2, <2>3, BoundsAssumption
<1>2. CASE K = {}
  <2>1. Cardinality(K) = 0
    BY <1>1, <1>2, FS_EmptySet, Zenon
  <2> QED BY <1>1, <2>1
<1>3. CASE K # {}
  <2> DEFINE B == {q[2] : q \in K}
  <2>1. PICK n \in B : \A m \in B : n <= m
    <3>1. B \in SUBSET Nat
      OBVIOUS
    <3>2. PICK q \in K : TRUE
      BY <1>3
    <3>3. q[2] \in B
      BY <3>2
    <3> HIDE DEF B
    <3> QED BY <3>1, <3>3, LeastNumber
  <2>2. PICK r \in K : r[2] = n
    OBVIOUS
  <2> DEFINE later == {q \in D : q[2] > r[2]}
  <2>3. IsFiniteSet(later) /\ Cardinality(later) \in Nat
    <3>1. later \in SUBSET D
      OBVIOUS
    <3> HIDE DEF later
    <3> QED BY <3>1, FS_Subset, FS_CardinalityType
  <2>4. ~(Cardinality(later) >= HistoryLimit)
    OBVIOUS
  <2>5. K \ {r} \in SUBSET later
    <3>1. ASSUME NEW q \in K \ {r} PROVE q \in D /\ q[2] > r[2]
      <4>1. q \in D /\ r \in D /\ q # r /\ q[2] \in Nat /\ r[2] \in Nat /\ r[2] <= q[2]
        BY <2>1, <2>2
      <4>2. q[2] # r[2]
        BY <4>1
      <4> QED BY <4>1, <4>2
    <3> QED BY <3>1
  <2> HIDE DEF later
  <2>6. IsFiniteSet(K \ {r}) /\ Cardinality(K \ {r}) <= Cardinality(later)
    BY <2>3, <2>5, FS_Subset
  <2>7. Cardinality(K \ {r}) = Cardinality(K) - 1
    BY <1>1, FS_RemoveElement
  <2> QED BY <1>1, <2>3, <2>4, <2>6, <2>7
<1> QED BY <1>2, <1>3

\* A round is dealt when none is active, and the oldest beyond the limit, which are
\* settled, leave the document; they are what its rollback would bring back.
LEMMA StartBalances ==
    ASSUME WarInv, NEW w \in Workers, NEW a \in Actions, PrepareStart(w, a) PROVE Surroundings'
<1>0. Books /\ Inv /\ Working /\ RequestsTyped /\ LedgerTyped /\ Settling
  BY DEF WarInv
<1> DEFINE id == <<a, dealt + 1>>
<1>1. PICK outcome \in {"player_win", "dealer_win", "tie"} :
         LET round == [id |-> id, decision |-> None, outcome |-> outcome,
                       phase |-> IF outcome = "tie" THEN "war_decision" ELSE "ledger_pending"]
             all  == With(doc.rounds, round.id, round)
             oldest == BeyondHistory(all)
         IN /\ Prepared(w, a, "start_round", None, round, Without(all, oldest))
            /\ archive' = [r \in DOMAIN archive \cup oldest |->
                              IF r \in oldest THEN all[r] ELSE archive[r]]
  BY DEF PrepareStart
<1> DEFINE round == [id |-> id, decision |-> None, outcome |-> outcome,
                     phase |-> IF outcome = "tie" THEN "war_decision" ELSE "ledger_pending"]
           all == With(doc.rounds, id, round)
           oldest == BeyondHistory(all)
           m == [request |-> [command |-> "start_round", round |-> id], before |-> None,
                 after |-> round, pruned |-> Without(doc.rounds, DOMAIN Without(all, oldest))]
           x == Reconciling(a, round, doc.ledger_actions, m)
<1>2. /\ a \notin DOMAIN doc.requests /\ dealt' = dealt + 1 /\ dealt + 1 \in 1..MaxRounds
      /\ \A r \in DOMAIN doc.rounds : doc.rounds[r].phase = "settled"
      /\ rows' = rows /\ wallet' = wallet /\ told' = told /\ contested' = contested
  BY <1>0, BoundsAssumption DEF PrepareStart, NoActiveRound, Books
<1>3. /\ id \in RoundIds /\ id[1] = a /\ id[2] = dealt + 1 /\ dealt \in Nat
      /\ id \notin Known /\ id \notin contested
      /\ \A r \in Known \cup contested : r[2] \in Nat /\ r[2] < id[2]
  <2>1. id \in RoundIds /\ id[1] = a /\ id[2] = dealt + 1 /\ dealt \in Nat
    BY <1>0, <1>2 DEF RoundIds, Books
  <2>2. \A r \in Known \cup contested : r[2] \in Nat /\ r[2] <= dealt
    BY <1>0 DEF Books, RoundIds
  <2>3. \A r \in Known \cup contested : r[2] # dealt + 1
    BY <2>1, <2>2
  <2> HIDE DEF id
  <2> QED BY <2>1, <2>2, <2>3
<1>4. /\ Sane(round) /\ round.id = id /\ round.decision = None /\ round.phase # "settled"
      /\ round.outcome = "tie" => round.phase = "war_decision"
  <2>1. outcome \in Free /\ outcome \in Outcomes
    BY DEF Free, Outcomes
  <2>2. round \in Rounds
    BY <1>3, <2>1 DEF Rounds
  <2> QED BY <2>1, <2>2 DEF Sane
<1>5. /\ DOMAIN doc' = DOMAIN doc /\ doc'.rounds = Without(all, oldest)
      /\ doc'.requests = With(doc.requests, a, [command |-> "start_round", round |-> id])
      /\ work' = [work EXCEPT ![w] = x]
  <2>1. Prepared(w, a, "start_round", None, round, Without(all, oldest))
    BY <1>1
  <2>2. round.id = id
    OBVIOUS
  <2> HIDE DEF round, all, oldest
  <2> QED BY <1>0, <2>1, <2>2 DEF Prepared, Books
<1>6. archive' = [r \in DOMAIN archive \cup oldest |-> IF r \in oldest THEN all[r] ELSE archive[r]]
  BY <1>1
<1> HIDE DEF round
<1>7. /\ DOMAIN all = DOMAIN doc.rounds \cup {id} /\ all[id] = round
      /\ \A r \in DOMAIN doc.rounds : r # id /\ all[r] = doc.rounds[r]
  BY <1>3 DEF With, Known
<1> HIDE DEF all
<1>8. /\ IsFiniteSet(DOMAIN all) /\ \A q \in DOMAIN all : q[2] \in Nat
      /\ \A q, r \in DOMAIN all : q[2] = r[2] => q = r
      /\ \A q \in DOMAIN all : ~(q[2] > id[2])
  <2>1. IsFiniteSet(DOMAIN all)
    BY <1>0, <1>7, FS_AddElement DEF Books
  <2>2. \A q, r \in DOMAIN all : q[2] = r[2] => q = r
    <3>1. ASSUME NEW q \in DOMAIN all, NEW r \in DOMAIN all, q[2] = r[2] PROVE q = r
      <4>1. q = id \/ q \in Known
        BY <1>7 DEF Known
      <4>2. r = id \/ r \in Known
        BY <1>7 DEF Known
      <4>3. q \in Known => q[2] # id[2]
        BY <1>3
      <4>4. r \in Known => r[2] # id[2]
        BY <1>3
      <4> HIDE DEF id
      <4> QED BY <1>0, <3>1, <4>1, <4>2, <4>3, <4>4 DEF Books
    <3> QED BY <3>1
  <2>3. \A q \in DOMAIN all : q[2] \in Nat /\ ~(q[2] > id[2])
    <3>1. ASSUME NEW q \in DOMAIN all PROVE q[2] \in Nat /\ ~(q[2] > id[2])
      <4>1. CASE q = id
        BY <1>3, <4>1
      <4>2. CASE q \in Known
        BY <1>3, <4>2
      <4> QED BY <1>7, <4>1, <4>2 DEF Known
    <3> QED BY <3>1
  <2> QED BY <2>1, <2>2, <2>3
<1>9. id \notin oldest /\ oldest \subseteq DOMAIN doc.rounds
  <2>1. {q \in DOMAIN all : q[2] > id[2]} = {}
    BY <1>8
  <2>2. Cardinality({q \in DOMAIN all : q[2] > id[2]}) = 0
    <3> HIDE DEF id
    <3> QED BY <2>1, FS_EmptySet
  <2>3. ~(0 >= HistoryLimit)
    BY BoundsAssumption
  <2> HIDE DEF id
  <2> QED BY <1>7, <2>2, <2>3 DEF BeyondHistory
<1>10. IsFiniteSet(DOMAIN all \ oldest) /\ Cardinality(DOMAIN all \ oldest) <= HistoryLimit
  <2>1. DOMAIN all \ oldest
           = {r \in DOMAIN all : ~(Cardinality({q \in DOMAIN all : q[2] > r[2]}) >= HistoryLimit)}
    BY DEF BeyondHistory
  <2> QED BY <1>8, <2>1, HistoryIsBounded
<1> HIDE DEF oldest
<1>11. /\ DOMAIN doc'.rounds = (DOMAIN doc.rounds \ oldest) \cup {id} /\ doc'.rounds[id] = round
       /\ DOMAIN doc'.rounds = DOMAIN all \ oldest
       /\ \A r \in DOMAIN doc.rounds \ oldest : doc'.rounds[r] = doc.rounds[r]
       /\ DOMAIN archive' = DOMAIN archive \cup oldest
       /\ \A r \in oldest : archive'[r] = doc.rounds[r]
       /\ \A r \in DOMAIN archive : archive'[r] = archive[r]
  <2>1. \A r \in DOMAIN archive : r \notin oldest
    BY <1>0, <1>9 DEF Books
  <2> HIDE DEF id
  <2> QED BY <1>5, <1>6, <1>7, <1>9, <2>1 DEF Without
<1>12. /\ DOMAIN Now = DOMAIN doc.rounds \cup DOMAIN archive /\ Faithful(Now)
       /\ \A r \in DOMAIN doc.rounds : Now[r] = doc.rounds[r]
       /\ \A r \in DOMAIN archive : r \notin DOMAIN doc.rounds /\ Now[r] = archive[r]
  BY <1>0, NowFacts
<1>13. /\ Known' = Known \cup {id} /\ DOMAIN Now' = DOMAIN Now \cup {id} /\ Now'[id] = round
       /\ \A r \in DOMAIN Now : Now'[r] = Now[r]
  <2>1. Known' = Known \cup {id}
    BY <1>9, <1>11 DEF Known
  <2>2. DOMAIN Now' = Known' /\ DOMAIN Now = Known
    BY DEF Now
  <2>3. Now'[id] = round
    BY <2>1, <1>11 DEF Now, Latest
  <2>4. ASSUME NEW r \in DOMAIN Now PROVE Now'[r] = Now[r]
    <3>0. r \in Known' /\ r # id
      BY <1>3, <2>1, <2>2, <2>4
    <3>1. Now'[r] = IF r \in DOMAIN doc'.rounds THEN doc'.rounds[r] ELSE archive'[r]
      BY <3>0 DEF Now, Latest
    <3>2. CASE r \in DOMAIN archive
      BY <1>9, <1>11, <1>12, <3>0, <3>1, <3>2
    <3>3. CASE r \in DOMAIN doc.rounds \ oldest
      BY <1>11, <1>12, <3>1, <3>3
    <3>4. CASE r \in oldest
      BY <1>9, <1>11, <1>12, <3>0, <3>1, <3>4
    <3> QED BY <1>12, <2>4, <3>2, <3>3, <3>4
  <2> QED BY <2>1, <2>2, <2>3, <2>4
<1>14. ASSUME NEW r, Unsettled(r, doc'.rounds) PROVE r = id
  BY <1>2, <1>11, <1>14 DEF Unsettled
<1>15. Books'
  <2>1. /\ DOMAIN doc' = {"rounds", "requests", "ledger_actions"} /\ dealt' \in Nat
    BY <1>0, <1>2, <1>3, <1>5 DEF Books
  <2>2. \A r \in DOMAIN doc'.rounds : doc'.rounds[r].id = r /\ Sane(doc'.rounds[r])
    BY <1>0, <1>4, <1>11 DEF Books
  <2>3. \A r \in DOMAIN archive' :
            archive'[r].id = r /\ Sane(archive'[r]) /\ archive'[r].phase = "settled"
    BY <1>0, <1>2, <1>9, <1>11 DEF Books
  <2>4. DOMAIN doc'.rounds \cap DOMAIN archive' = {}
    BY <1>0, <1>3, <1>9, <1>11 DEF Books, Known
  <2>5. \A r \in Known' \cup contested' : r \in RoundIds /\ r[2] <= dealt'
    <3>1. ASSUME NEW r \in Known' \cup contested' PROVE r \in RoundIds /\ r[2] <= dealt'
      <4>1. CASE r = id
        BY <1>2, <1>3, <4>1
      <4>2. CASE r \in Known \cup contested
        BY <1>0, <1>2, <1>3, <4>2 DEF Books
      <4> QED BY <1>2, <1>13, <3>1, <4>1, <4>2
    <3> QED BY <3>1
  <2>6. \A q, r \in Known' : q[2] = r[2] => q = r
    <3>1. ASSUME NEW q \in Known', NEW r \in Known', q[2] = r[2] PROVE q = r
      <4>1. (q \in Known => q[2] # id[2]) /\ (r \in Known => r[2] # id[2])
        BY <1>3
      <4> HIDE DEF id
      <4> QED BY <1>0, <1>13, <3>1, <4>1 DEF Books
    <3> QED BY <3>1
  <2>7. IsFiniteSet(DOMAIN doc'.rounds) /\ Cardinality(DOMAIN doc'.rounds) <= HistoryLimit
    BY <1>10, <1>11
  <2> QED BY <1>14, <2>1, <2>2, <2>3, <2>4, <2>5, <2>6, <2>7 DEF Books
<1>16. Working'
  <2>1. /\ m.request.round = id /\ m.before = None /\ m.after = round
        /\ DOMAIN m.pruned = oldest /\ \A r \in oldest : m.pruned[r] = doc.rounds[r]
    <3>1. DOMAIN Without(all, oldest) = (DOMAIN doc.rounds \ oldest) \cup {id}
      BY <1>5, <1>11
    <3>2. DOMAIN doc.rounds \ DOMAIN Without(all, oldest) = oldest
      <4> HIDE DEF id
      <4> QED BY <1>3, <1>9, <3>1 DEF Known
    <3>3. /\ DOMAIN m.pruned = oldest /\ \A r \in oldest : m.pruned[r] = doc.rounds[r]
      <4>1. m.pruned = Without(doc.rounds, DOMAIN Without(all, oldest))
        OBVIOUS
      <4> HIDE DEF m
      <4> QED BY <3>2, <4>1 DEF Without
    <3>4. m.request.round = id /\ m.before = None /\ m.after = round
      OBVIOUS
    <3> HIDE DEF m
    <3> QED BY <3>3, <3>4
  <2> HIDE DEF m
  <2>2. MarkerFits(m, a) /\ Started(m)
    BY <1>3, <1>4, <2>1 DEF MarkerFits, Started
  <2>3. Restores(m, doc'.rounds, archive', dealt')
    <3>1. IsFiniteSet(oldest)
      <4>1. IsFiniteSet(DOMAIN doc.rounds) /\ oldest \in SUBSET DOMAIN doc.rounds
        BY <1>0, <1>9 DEF Books
      <4> QED BY <4>1, FS_Subset
    <3>2. (DOMAIN doc'.rounds \ {id}) \cup oldest = DOMAIN doc.rounds
      BY <1>3, <1>9, <1>11 DEF Known
    <3>3. m.after.id = id /\ id[2] <= dealt'
      BY <1>2, <1>3, <1>4, <2>1
    <3>4. \A r \in DOMAIN m.pruned : r \in DOMAIN archive' /\ archive'[r] = m.pruned[r]
      BY <1>11, <2>1
    <3>5. Cardinality((DOMAIN doc'.rounds \ {id}) \cup DOMAIN m.pruned) <= HistoryLimit
      BY <1>0, <2>1, <3>2 DEF Books
    <3> HIDE DEF id
    <3> QED BY <2>1, <3>1, <3>3, <3>4, <3>5 DEF Restores
  <2>4. Faithful(Now')
    BY <1>4, <1>12, <1>13 DEF Faithful
  <2>5. Copy(round, Now', contested')
    <3> HIDE DEF id
    <3> QED BY <1>13, <2>4, CopyOfItself
  <2>6. Request(x, Now', contested') /\ x.marker = m
    BY <2>2, <2>5, ReconcilingIsRequest
  <2>7. ASSUME NEW v \in Workers \ {w}, work[v] # None
        PROVE  /\ Copy(work[v].round, Now', contested')
               /\ \A r \in work[v].todo \cap DOMAIN work[v].rounds :
                     Copy(work[v].rounds[r], Now', contested')
               /\ Marked(work[v]) => Restores(work[v].marker, doc'.rounds, archive', dealt')
    <3>1. ASSUME NEW y, Copy(y, Now, contested) PROVE Copy(y, Now', contested')
      BY <1>2, <1>13, <3>1, CopyOfMore
    <3>2. Request(work[v], Now, contested)
      BY <1>0 DEF Working
    <3>3. ASSUME Marked(work[v])
          PROVE  Restores(work[v].marker, doc'.rounds, archive', dealt')
      <4>1. Restores(work[v].marker, doc.rounds, archive, dealt)
        BY <1>0, <3>3 DEF Working
      <4>2. MarkerFits(work[v].marker, work[v].action)
        BY <2>7, <3>2, <3>3 DEF Request, Marked
      <4>3. work[v].marker.after.id[2] \in Nat
        BY <4>2 DEF MarkerFits, Sane, Rounds, RoundIds
      <4>4. ~Unsettled(work[v].marker.after.id, doc'.rounds)
        BY <1>3, <1>14, <4>1, <4>3 DEF Restores
      <4>5. work[v].marker.after.id[2] <= dealt'
        BY <1>2, <1>3, <4>1, <4>3 DEF Restores
      <4> QED BY <4>1, <4>4, <4>5 DEF Restores
    <3> QED BY <2>7, <3>1, <3>2, <3>3 DEF Request
  <2> HIDE DEF x
  <2> QED BY <1>0, <1>5, <2>3, <2>6, <2>7, WorkerGoesOn
<1>17. /\ DOMAIN doc'.requests = DOMAIN doc.requests \cup {a}
       /\ doc'.requests[a] = [command |-> "start_round", round |-> id]
       /\ \A b \in DOMAIN doc.requests : doc'.requests[b] = doc.requests[b]
  BY <1>2, <1>5 DEF With
<1>18. RequestsTyped'
  <2>1. doc'.requests[a] \in [command : {"start_round", "surrender", "war"}, round : RoundIds]
    BY <1>3, <1>17
  <2> QED BY <1>0, <1>17, <2>1 DEF RequestsTyped, Map
<1>19. Settling'
  <2>1. doc'.requests[a].round = id
    BY <1>17
  <2>2. id \notin DOMAIN Now
    BY <1>3 DEF Now
  <2>3. Money(rows, doc.requests, told, Now, contested)
    BY <1>0 DEF Settling
  <2>4. id[1] = a
    BY <1>3
  <2> HIDE DEF id
  <2>5. Money(rows, doc'.requests, told, Now', contested)
    BY <1>2, <1>4, <1>13, <1>17, <2>1, <2>2, <2>3, <2>4, MoneyOfStarted
  <2> QED BY <1>2, <2>5 DEF Settling
<1> QED BY <1>0, <1>2, <1>15, <1>16, <1>18, <1>19 DEF Surroundings, LedgerTyped

\* The player's decision turns the tie in the document into a round to be paid.
LEMMA DecisionBalances ==
    ASSUME WarInv, NEW w \in Workers, NEW id, NEW a \in Actions, NEW c \in {"surrender", "war"},
           PrepareDecision(w, id, a, c)
    PROVE  Surroundings'
<1>0. Books /\ Inv /\ Working /\ RequestsTyped /\ LedgerTyped /\ Settling
  BY DEF WarInv
<1> DEFINE before == doc.rounds[id]
<1>1. PICK outcome \in IF c = "surrender" THEN {"surrender"} ELSE {"war_win", "war_loss"} :
         LET after == [before EXCEPT !.decision = a, !.outcome = outcome,
                                     !.phase = "ledger_pending"]
         IN Prepared(w, a, c, before, after, With(doc.rounds, id, after))
  BY DEF PrepareDecision
<1> DEFINE after == [before EXCEPT !.decision = a, !.outcome = outcome, !.phase = "ledger_pending"]
           m == [request |-> [command |-> c, round |-> after.id], before |-> before,
                 after |-> after,
                 pruned |-> Without(doc.rounds, DOMAIN With(doc.rounds, id, after))]
           x == Reconciling(a, after, doc.ledger_actions, m)
<1>2. /\ a \notin DOMAIN doc.requests /\ id \in DOMAIN doc.rounds
      /\ before.phase = "war_decision"
      /\ rows' = rows /\ wallet' = wallet /\ told' = told /\ contested' = contested
      /\ dealt' = dealt /\ archive' = archive
  BY DEF PrepareDecision
<1>3. Sane(before) /\ before.id = id /\ before \in Rounds /\ id \in RoundIds
  BY <1>0, <1>2 DEF Books, Sane, Known
<1>4. /\ Sane(after) /\ after.id = id /\ after.decision = a /\ a # None
      /\ after.phase = "ledger_pending"
  <2>1. outcome \notin Free /\ outcome \in Outcomes /\ a # None
    BY NoneAssumption DEF Free, Outcomes
  <2>2. /\ after \in Rounds /\ after.id = id /\ after.decision = a /\ after.outcome = outcome
        /\ after.phase = "ledger_pending"
    BY <1>3, <2>1 DEF Rounds
  <2>3. outcome # "tie"
    BY <2>1 DEF Free
  <2> HIDE DEF after
  <2> QED BY <2>1, <2>2, <2>3 DEF Sane
<1>5. /\ DOMAIN doc' = DOMAIN doc /\ doc'.rounds = With(doc.rounds, id, after)
      /\ doc'.requests = With(doc.requests, a, [command |-> c, round |-> after.id])
      /\ work' = [work EXCEPT ![w] = x]
  <2>1. Prepared(w, a, c, before, after, With(doc.rounds, id, after))
    BY <1>1
  <2> HIDE DEF before, after
  <2> QED BY <1>0, <2>1 DEF Prepared, Books
<1> HIDE DEF after
<1>6. /\ DOMAIN doc'.rounds = DOMAIN doc.rounds /\ doc'.rounds[id] = after
      /\ \A r \in DOMAIN doc.rounds : r # id => doc'.rounds[r] = doc.rounds[r]
  BY <1>2, <1>5 DEF With
<1>7. /\ DOMAIN Now = DOMAIN doc.rounds \cup DOMAIN archive /\ Faithful(Now)
      /\ \A r \in DOMAIN doc.rounds : Now[r] = doc.rounds[r]
      /\ \A r \in DOMAIN archive : r \notin DOMAIN doc.rounds /\ Now[r] = archive[r]
  BY <1>0, NowFacts
<1>8. /\ Known' = Known /\ DOMAIN Now' = DOMAIN Now /\ Now'[id] = after
      /\ \A r \in DOMAIN Now : r # id => Now'[r] = Now[r]
  <2>1. Known' = Known
    BY <1>2, <1>6 DEF Known
  <2>2. \A r \in Known : Now'[r] = IF r \in DOMAIN doc'.rounds THEN doc'.rounds[r] ELSE archive'[r]
    BY <2>1 DEF Now, Latest
  <2>3. DOMAIN Now' = Known /\ DOMAIN Now = Known
    BY <2>1 DEF Now
  <2> QED BY <1>2, <1>6, <1>7, <2>1, <2>2, <2>3
<1>9. \A r : Unsettled(r, doc'.rounds) <=> Unsettled(r, doc.rounds)
  BY <1>2, <1>4, <1>6 DEF Unsettled
<1>10. Books'
  <2>1. \A r \in DOMAIN doc'.rounds : doc'.rounds[r].id = r /\ Sane(doc'.rounds[r])
    BY <1>0, <1>4, <1>6 DEF Books
  <2> HIDE DEF before
  <2> QED BY <1>0, <1>2, <1>5, <1>6, <1>8, <1>9, <2>1 DEF Books
<1>11. Working'
  <2>1. /\ m.request.round = id /\ m.before = before /\ m.after = after
        /\ DOMAIN m.pruned = {}
    <3>1. DOMAIN Without(doc.rounds, DOMAIN With(doc.rounds, id, after)) = {}
      BY <1>5, <1>6 DEF Without
    <3>2. m.pruned = Without(doc.rounds, DOMAIN With(doc.rounds, id, after))
      OBVIOUS
    <3>3. m.request.round = after.id /\ m.before = before /\ m.after = after
      OBVIOUS
    <3> HIDE DEF m, before
    <3> QED BY <1>4, <3>1, <3>2, <3>3
  <2> HIDE DEF m
  <2>2. before # None
    BY <1>3, NoneAssumption
  <2>3. MarkerFits(m, a) /\ ~Started(m)
    BY <1>2, <1>3, <1>4, <2>1, <2>2 DEF MarkerFits, Started
  <2>4. Restores(m, doc'.rounds, archive', dealt')
    <3>1. id[2] <= dealt'
      BY <1>0, <1>2 DEF Books, Known
    <3> QED BY <1>4, <2>1, <2>3, <3>1, FS_EmptySet DEF Restores
  <2>5. Faithful(Now')
    BY <1>4, <1>7, <1>8 DEF Faithful
  <2>6. Copy(after, Now', contested')
    BY <1>2, <1>7, <1>8, <2>5, CopyOfItself
  <2>7. Request(x, Now', contested') /\ x.marker = m
    BY <2>3, <2>6, ReconcilingIsRequest
  <2>8. ASSUME NEW v \in Workers \ {w}, work[v] # None
        PROVE  /\ Copy(work[v].round, Now', contested')
               /\ \A r \in work[v].todo \cap DOMAIN work[v].rounds :
                     Copy(work[v].rounds[r], Now', contested')
               /\ Marked(work[v]) => Restores(work[v].marker, doc'.rounds, archive', dealt')
    <3>1. ASSUME NEW y, Copy(y, Now, contested) PROVE Copy(y, Now', contested')
      <4> HIDE DEF before
      <4>1. id \in DOMAIN Now /\ Now[id].phase = "war_decision" /\ Now'[id].decision # None
        BY <1>2, <1>4, <1>7, <1>8 DEF before
      <4> QED BY <1>2, <1>8, <3>1, <4>1, CopyOfDecided
    <3>2. Request(work[v], Now, contested)
      BY <1>0 DEF Working
    <3>3. Marked(work[v]) => Restores(work[v].marker, doc'.rounds, archive', dealt')
      BY <1>0, <1>2, <1>6, <1>9 DEF Working, Restores
    <3> QED BY <2>8, <3>1, <3>2, <3>3 DEF Request
  <2> HIDE DEF x
  <2> QED BY <1>0, <1>5, <2>4, <2>7, <2>8, WorkerGoesOn
<1>12. /\ DOMAIN doc'.requests = DOMAIN doc.requests \cup {a}
       /\ doc'.requests[a] = [command |-> c, round |-> id]
       /\ \A b \in DOMAIN doc.requests : doc'.requests[b] = doc.requests[b]
  BY <1>2, <1>4, <1>5 DEF With
<1>13. RequestsTyped'
  <2>1. doc'.requests[a] \in [command : {"start_round", "surrender", "war"}, round : RoundIds]
    BY <1>3, <1>12
  <2> QED BY <1>0, <1>12, <2>1 DEF RequestsTyped, Map
<1>14. Settling'
  <2>1. doc'.requests[a].round = id
    BY <1>12
  <2>2. id \in DOMAIN Now /\ Now[id].phase = "war_decision"
    BY <1>2, <1>7
  <2>3. Money(rows, doc.requests, told, Now, contested)
    BY <1>0 DEF Settling
  <2>4. Money(rows, doc'.requests, told, Now', contested)
    BY <1>2, <1>4, <1>7, <1>8, <1>12, <2>1, <2>2, <2>3, MoneyOfDecided
  <2> QED BY <1>2, <2>4 DEF Settling
<1> QED BY <1>0, <1>2, <1>10, <1>11, <1>13, <1>14 DEF Surroundings, LedgerTyped

\* An exact preparation is taken back, from the rounds and from the requests; the
\* rounds it had displaced return, since none was dealt after it.
LEMMA RollbackBalances ==
    ASSUME WarInv, NEW w \in Workers, RollbackPrepared(w) PROVE Surroundings'
<1>0. Books /\ Inv /\ Working /\ RequestsTyped /\ LedgerTyped /\ Settling
  BY DEF WarInv
<1> DEFINE m == work[w].marker
           id == m.after.id
           action == work[w].action
           exact == /\ action \in DOMAIN doc.requests
                    /\ doc.requests[action] = m.request
                    /\ id \in DOMAIN doc.rounds /\ doc.rounds[id] = m.after
<1>1. /\ work[w] # None /\ m # None /\ ~work[w].found /\ MarkerFits(m, action)
      /\ Restores(m, doc.rounds, archive, dealt)
  <2>1. work[w] # None /\ work[w].pc = "rollback" /\ Request(work[w], Now, contested)
    BY <1>0 DEF RollbackPrepared, At, Working
  <2> QED BY <1>0, <2>1 DEF Request, Working, Marked
<1>2. /\ work' = [work EXCEPT ![w] = None]
      /\ rows' = rows /\ wallet' = wallet /\ dealt' = dealt /\ told' = told
  BY DEF RollbackPrepared
<1>3. Request(None, Now, contested) /\ Request(None, Now', contested') /\ ~Marked(None)
  BY DEF Request, Marked
<1>4. CASE ~exact
  <2>1. doc' = doc /\ archive' = archive /\ contested' = contested
    BY <1>4 DEF RollbackPrepared
  <2> HIDE DEF exact
  <2> QED BY <1>2, <1>3, <2>1, SameRounds, SameMoney
<1>5. CASE exact
  <2>1. /\ doc' = [doc EXCEPT
             !.rounds = IF m.before = None
                        THEN [r \in (DOMAIN doc.rounds \ {id}) \cup DOMAIN m.pruned |->
                                 IF r \in DOMAIN m.pruned THEN m.pruned[r] ELSE doc.rounds[r]]
                        ELSE [doc.rounds EXCEPT ![id] = m.before],
             !.requests = Without(doc.requests, {action})]
        /\ archive' = Without(archive, DOMAIN m.pruned)
        /\ contested' = IF Contested(w, m) THEN contested \cup {id} ELSE contested
    BY <1>5 DEF RollbackPrepared
  <2>2. /\ DOMAIN doc' = DOMAIN doc
        /\ doc'.requests = Without(doc.requests, {action})
        /\ doc'.rounds = IF m.before = None
                         THEN [r \in (DOMAIN doc.rounds \ {id}) \cup DOMAIN m.pruned |->
                                 IF r \in DOMAIN m.pruned THEN m.pruned[r] ELSE doc.rounds[r]]
                         ELSE [doc.rounds EXCEPT ![id] = m.before]
    <3> HIDE DEF m, id, action
    <3> QED BY <1>0, <2>1 DEF Books
  <2>3. /\ action \in DOMAIN doc.requests /\ doc.requests[action].round = id
        /\ id \in DOMAIN doc.rounds /\ doc.rounds[id] = m.after
        /\ Sane(m.after) /\ m.after.phase # "settled" /\ Unsettled(id, doc.rounds)
    BY <1>1, <1>5 DEF MarkerFits, Unsettled
  <2>4. /\ DOMAIN doc'.requests = DOMAIN doc.requests \ {action}
        /\ \A a \in DOMAIN doc'.requests : doc'.requests[a] = doc.requests[a]
    BY <2>2 DEF Without
  <2>5. /\ contested \subseteq contested' /\ contested' \subseteq contested \cup {id}
        /\ id \in contested' \/ FirstOwn(m).key \notin DOMAIN rows
        /\ \A v \in Workers \ {w} : work[v] # None =>
              /\ work[v].round = m.after => id \in contested'
              /\ \A r \in work[v].todo \cap DOMAIN work[v].rounds :
                    work[v].rounds[r] = m.after => id \in contested'
    <3>1. contested' = IF Contested(w, m) THEN contested \cup {id} ELSE contested
      BY <2>1
    <3>2. ~Contested(w, m) => FirstOwn(m).key \notin DOMAIN rows
      BY <1>1 DEF Contested
    <3>3. ~Contested(w, m) => \A v \in Workers \ {w} : work[v] # None =>
              /\ work[v].round # m.after
              /\ \A r \in work[v].todo \cap DOMAIN work[v].rounds :
                    work[v].rounds[r] # m.after
      BY DEF Contested
    <3> HIDE DEF m, id
    <3> QED BY <3>1, <3>2, <3>3
  <2>6. /\ DOMAIN Now = DOMAIN doc.rounds \cup DOMAIN archive /\ Faithful(Now)
        /\ \A r \in DOMAIN doc.rounds : Now[r] = doc.rounds[r]
        /\ \A r \in DOMAIN archive : r \notin DOMAIN doc.rounds /\ Now[r] = archive[r]
    BY <1>0, NowFacts
  <2>7. /\ DOMAIN Now' = Known' /\ Known' = DOMAIN doc'.rounds \cup DOMAIN archive'
        /\ \A r \in Known' :
              Now'[r] = IF r \in DOMAIN doc'.rounds THEN doc'.rounds[r] ELSE archive'[r]
    BY DEF Now, Known, Latest
  <2>8. Money(rows, doc.requests, told, Now, contested) /\ Staked(rows)
    BY <1>0 DEF Settling, Inv, StakesComeFirst, Staked
  <2>9. id \in DOMAIN Now /\ Now[id] = m.after
    BY <2>3, <2>6
  <2>10. \A r \in Known \cup contested' : r \in RoundIds /\ r[2] <= dealt
    <3>1. id \in Known
      BY <2>3 DEF Known
    <3> HIDE DEF id
    <3> QED BY <1>0, <2>5, <3>1 DEF Books
  <2>11. /\ Books' /\ Money(rows, doc'.requests, told, Now', contested')
         /\ \A r \in DOMAIN Now : r # id => r \in DOMAIN Now' /\ Now'[r] = Now[r]
         /\ ~Started(m) => id \in DOMAIN Now' /\ Now'[id] = m.before
         /\ \A n : Restores(n, doc.rounds, archive, dealt) =>
                   Restores(n, doc'.rounds, archive', dealt')
    <3>1. CASE Started(m)
      <4> DEFINE P == DOMAIN m.pruned
      <4>1. /\ \A r \in P : r \in DOMAIN archive /\ archive[r] = m.pruned[r]
            /\ Cardinality((DOMAIN doc.rounds \ {id}) \cup P) <= HistoryLimit
            /\ IsFiniteSet(P)
        BY <1>1, <2>3, <3>1 DEF Restores
      <4>2. /\ DOMAIN doc'.rounds = (DOMAIN doc.rounds \ {id}) \cup P
            /\ \A r \in P : doc'.rounds[r] = archive[r]
            /\ \A r \in DOMAIN doc.rounds \ {id} : doc'.rounds[r] = doc.rounds[r]
            /\ DOMAIN archive' = DOMAIN archive \ P
            /\ \A r \in DOMAIN archive' : archive'[r] = archive[r]
        <5>1. doc'.rounds = [r \in (DOMAIN doc.rounds \ {id}) \cup P |->
                                 IF r \in P THEN m.pruned[r] ELSE doc.rounds[r]]
          BY <2>2, <3>1 DEF Started
        <5>2. archive' = Without(archive, P)
          BY <2>1
        <5>3. \A r \in DOMAIN doc.rounds : r \notin P
          BY <2>6, <4>1
        <5> HIDE DEF P, m, id
        <5> QED BY <4>1, <5>1, <5>2, <5>3 DEF Without, P
      <4> HIDE DEF P
      <4>3. /\ Known' = Known \ {id} /\ DOMAIN Now' = DOMAIN Now \ {id}
            /\ \A r \in DOMAIN Now' : Now'[r] = Now[r]
        <5>1. Known' = Known \ {id} /\ DOMAIN Now' = DOMAIN Now \ {id}
          <6>1. P \subseteq DOMAIN archive /\ id \notin DOMAIN archive
            BY <2>3, <2>6, <2>7, <4>1, <4>2 DEF Known
          <6>2. Known' = Known \ {id}
            BY <2>3, <4>2, <6>1 DEF Known
          <6> QED BY <2>6, <2>7, <6>2 DEF Known
        <5>2. ASSUME NEW r \in DOMAIN Now' PROVE Now'[r] = Now[r]
          <6>1. CASE r \in P
            BY <2>6, <2>7, <4>1, <4>2, <6>1, <5>2
          <6>2. CASE r \in DOMAIN doc.rounds \ {id}
            BY <2>6, <2>7, <4>2, <6>2, <5>2
          <6>3. CASE r \notin DOMAIN doc'.rounds
            BY <2>6, <2>7, <4>2, <6>3, <5>2
          <6> QED BY <4>2, <6>1, <6>2, <6>3
        <5> QED BY <5>1, <5>2
      <4>4. \A r : ~Unsettled(r, doc'.rounds)
        <5>1. ASSUME NEW r, Unsettled(r, doc'.rounds) PROVE FALSE
          <6>1. CASE r \in P
            BY <1>0, <4>1, <4>2, <5>1, <6>1 DEF Unsettled, Books
          <6>2. CASE r \in DOMAIN doc.rounds \ {id}
            <7>1. Unsettled(r, doc.rounds) /\ r \in DOMAIN doc.rounds /\ r # id
              BY <4>2, <5>1, <6>2 DEF Unsettled
            <7> HIDE DEF id
            <7> QED BY <1>0, <2>3, <7>1 DEF Books
          <6> QED BY <4>2, <5>1, <6>1, <6>2 DEF Unsettled
        <5> QED BY <5>1
      <4>5. Books'
        <5>1. IsFiniteSet(DOMAIN doc'.rounds) /\ Cardinality(DOMAIN doc'.rounds) <= HistoryLimit
          <6>1. IsFiniteSet(DOMAIN doc.rounds \ {id})
            <7>1. IsFiniteSet(DOMAIN doc.rounds)
              BY <1>0 DEF Books
            <7> QED BY <7>1, FS_RemoveElement
          <6>2. IsFiniteSet((DOMAIN doc.rounds \ {id}) \cup P)
            BY <4>1, <6>1, FS_Union
          <6> QED BY <4>1, <4>2, <6>2
        <5>2. \A r \in DOMAIN doc'.rounds : doc'.rounds[r].id = r /\ Sane(doc'.rounds[r])
          <6>1. \A r \in P : doc'.rounds[r].id = r /\ Sane(doc'.rounds[r])
            BY <1>0, <4>1, <4>2 DEF Books
          <6>2. \A r \in DOMAIN doc.rounds \ {id} : doc'.rounds[r].id = r /\ Sane(doc'.rounds[r])
            BY <1>0, <4>2 DEF Books
          <6> QED BY <4>2, <6>1, <6>2
        <5>3. DOMAIN doc'.rounds \cap DOMAIN archive' = {}
          BY <1>0, <4>1, <4>2 DEF Books
        <5>4. \A r \in DOMAIN archive' :
                 archive'[r].id = r /\ Sane(archive'[r]) /\ archive'[r].phase = "settled"
          BY <1>0, <4>2 DEF Books
        <5>5. \A r \in Known' \cup contested' : r \in RoundIds /\ r[2] <= dealt'
          BY <1>2, <2>10, <4>3
        <5>6. /\ DOMAIN doc' = {"rounds", "requests", "ledger_actions"} /\ dealt' \in Nat
              /\ \A q, r \in Known' : q[2] = r[2] => q = r
          BY <1>0, <1>2, <2>2, <4>3 DEF Books
        <5> HIDE DEF id, m
        <5> QED BY <4>4, <5>1, <5>2, <5>3, <5>4, <5>5, <5>6 DEF Books
      <4>6. Money(rows, doc'.requests, told, Now', contested')
        <5> HIDE DEF m, action
        <5> QED BY <1>1, <2>3, <2>4, <2>5, <2>6, <2>8, <2>9, <3>1, <4>3, MoneyOfUndealt
      <4>7. \A n : Restores(n, doc.rounds, archive, dealt) =>
                   Restores(n, doc'.rounds, archive', dealt')
        BY <1>2, <4>4 DEF Restores
      <4> QED BY <3>1, <4>3, <4>5, <4>6, <4>7
    <3>2. CASE ~Started(m)
      <4>1. /\ DOMAIN m.pruned = {} /\ Sane(m.before) /\ m.before.id = id
            /\ m.before.phase = "war_decision"
        BY <1>1, <3>2 DEF MarkerFits
      <4>2. /\ DOMAIN doc'.rounds = DOMAIN doc.rounds /\ doc'.rounds[id] = m.before
            /\ \A r \in DOMAIN doc.rounds : r # id => doc'.rounds[r] = doc.rounds[r]
            /\ DOMAIN archive' = DOMAIN archive
            /\ \A r \in DOMAIN archive : archive'[r] = archive[r]
        <5>1. doc'.rounds = [doc.rounds EXCEPT ![id] = m.before]
          BY <2>2, <3>2 DEF Started
        <5>2. archive' = Without(archive, DOMAIN m.pruned)
          BY <2>1
        <5> HIDE DEF m, id
        <5> QED BY <2>3, <4>1, <5>1, <5>2 DEF Without
      <4>3. /\ Known' = Known /\ DOMAIN Now' = DOMAIN Now /\ Now'[id] = m.before
            /\ \A r \in DOMAIN Now : r # id => Now'[r] = Now[r]
        <5>1. Known' = Known /\ DOMAIN Now' = DOMAIN Now
          BY <2>6, <2>7, <4>2 DEF Known
        <5> HIDE DEF m, id
        <5> QED BY <2>3, <2>6, <2>7, <4>2, <5>1
      <4>4. \A r : Unsettled(r, doc'.rounds) <=> Unsettled(r, doc.rounds)
        <5>1. m.before.phase # "settled"
          BY <4>1
        <5> HIDE DEF m, id
        <5> QED BY <2>3, <4>2, <5>1 DEF Unsettled
      <4>5. Books'
        <5>1. \A r \in DOMAIN doc'.rounds : doc'.rounds[r].id = r /\ Sane(doc'.rounds[r])
          <6> HIDE DEF m, id
          <6> QED BY <1>0, <4>1, <4>2 DEF Books
        <5>2. \A r \in Known' \cup contested' : r \in RoundIds /\ r[2] <= dealt'
          BY <1>2, <2>10, <4>3
        <5>3. \A r \in DOMAIN archive' :
                 archive'[r].id = r /\ Sane(archive'[r]) /\ archive'[r].phase = "settled"
          BY <1>0, <4>2 DEF Books
        <5> HIDE DEF m, id
        <5> QED BY <1>0, <1>2, <2>2, <4>2, <4>3, <4>4, <5>1, <5>2, <5>3 DEF Books
      <4>6. Money(rows, doc'.requests, told, Now', contested')
        <5> HIDE DEF m, action
        <5> QED BY <1>1, <2>3, <2>4, <2>5, <2>6, <2>8, <2>9, <3>2, <4>3, MoneyOfUndecided
      <4>7. \A n : Restores(n, doc.rounds, archive, dealt) =>
                   Restores(n, doc'.rounds, archive', dealt')
        BY <1>2, <4>2, <4>4 DEF Restores
      <4> QED BY <2>9, <4>3, <4>5, <4>6, <4>7
    <3> QED BY <3>1, <3>2
  <2>12. Working'
    <3>1. ASSUME NEW y, Copy(y, Now, contested), y = m.after => id \in contested'
          PROVE  Copy(y, Now', contested')
      <4> HIDE DEF m, action
      <4> QED BY <1>1, <2>5, <2>6, <2>9, <2>11, <3>1, CopyOfUndone
    <3>2. ASSUME NEW v \in Workers \ {w}, work[v] # None
          PROVE  /\ Copy(work[v].round, Now', contested')
                 /\ \A r \in work[v].todo \cap DOMAIN work[v].rounds :
                       Copy(work[v].rounds[r], Now', contested')
                 /\ Marked(work[v]) => Restores(work[v].marker, doc'.rounds, archive', dealt')
      <4>1. Request(work[v], Now, contested)
        BY <1>0 DEF Working
      <4> HIDE DEF m, id
      <4>2. Marked(work[v]) => Restores(work[v].marker, doc'.rounds, archive', dealt')
        BY <1>0, <2>11 DEF Working
      <4>3. Copy(work[v].round, Now', contested')
        BY <2>5, <3>1, <3>2, <4>1 DEF Request
      <4>4. \A r \in work[v].todo \cap DOMAIN work[v].rounds :
                       Copy(work[v].rounds[r], Now', contested')
        BY <2>5, <3>1, <3>2, <4>1 DEF Request
      <4> QED BY <4>2, <4>3, <4>4
    <3> HIDE DEF m, id
    <3> QED BY <1>0, <1>2, <1>3, <3>2, WorkerGoesOn
  <2>13. RequestsTyped'
    BY <1>0, <2>4 DEF RequestsTyped, Map
  <2>14. Settling'
    BY <1>2, <2>11 DEF Settling
  <2> QED BY <1>0, <1>2, <2>11, <2>12, <2>13, <2>14 DEF Surroundings, LedgerTyped
<1> QED BY <1>4, <1>5

-----------------------------------------------------------------------------
LEMMA InitBalances == Init => WarInv
<1> SUFFICES ASSUME Init PROVE WarInv
  OBVIOUS
<1>1. /\ doc = [rounds |-> Empty, requests |-> Empty, ledger_actions |-> {}]
      /\ rows = Empty /\ archive = Empty /\ work = [w \in Workers |-> None]
      /\ dealt = 0 /\ told = {} /\ contested = {} /\ wallet = Opening
  BY DEF Init
<1>2. DOMAIN doc.rounds = {} /\ DOMAIN doc.requests = {} /\ DOMAIN rows = {} /\ DOMAIN archive = {}
  BY <1>1 DEF Empty
<1>3. Known = {} /\ DOMAIN Now = {}
  BY <1>2 DEF Known, Now
<1>4. Inv
  BY <1>1 DEF Inv, Sound, Empty, StakesComeFirst
<1>5. Books
  <2>1. IsFiniteSet(DOMAIN doc.rounds) /\ Cardinality(DOMAIN doc.rounds) <= HistoryLimit
    BY <1>2, FS_EmptySet, BoundsAssumption
  <2> QED BY <1>1, <1>2, <1>3, <2>1 DEF Books
<1>6. Working
  BY <1>1 DEF Working, Request, Marked
<1>7. LedgerTyped /\ RequestsTyped
  BY <1>1, <1>2, BoundsAssumption DEF LedgerTyped, RequestsTyped, Map
<1>8. Settling
  BY <1>1, <1>2, <1>3 DEF Settling, Money, Owned, Undecided, Fits, Paid, Kept
<1> QED BY <1>4, <1>5, <1>6, <1>7, <1>8 DEF WarInv

LEMMA NextBalances ==
    ASSUME WarInv, [Next]_vars PROVE WarInv'
<1>1. Inv'
  BY NextKeeps DEF WarInv
<1>2. Surroundings'
  <2>1. CASE UNCHANGED vars
    <3>1. Now' = Now /\ Known' = Known
      BY <2>1 DEF vars, Now, Known, Latest
    <3> QED BY <2>1, <3>1 DEF vars, WarInv, Books, Working, LedgerTyped, RequestsTyped, Settling,
                Surroundings
  <2>2. ASSUME NEW w \in Workers, Step(w) PROVE Surroundings'
    BY <2>2, FindBalances, TransactBalances, MarkBalances, NothingBalances, SettleBalances,
       ClassifyBalances, RollbackBalances DEF Step
  <2>3. ASSUME NEW w \in Workers, NEW a \in Actions,
               \/ PrepareStart(w, a) \/ Replay(w, a)
               \/ \E id \in DOMAIN doc.rounds, c \in {"surrender", "war"} :
                     PrepareDecision(w, id, a, c)
        PROVE  Surroundings'
    BY <2>3, StartBalances, ReplayBalances, DecisionBalances
  <2> QED BY <2>1, <2>2, <2>3, LoadBalances, FailBalances, OtherBalances DEF Next
<1> QED BY <1>1, <1>2 DEF Surroundings, WarInv

LEMMA InvariantHolds == Spec => []WarInv
BY InitBalances, NextBalances, PTL DEF Spec

\* The document, the ledger and every worker's request keep their types, the history
\* its limit, and a movement is recorded only when the ledger has it.
THEOREM CasinoWarTypes == Spec => []TypeOK
<1>1. ASSUME WarInv PROVE TypeOK
  <2>0. Books /\ Inv /\ Working /\ RequestsTyped /\ LedgerTyped
    BY <1>1 DEF WarInv
  <2>1. Map(doc.rounds, RoundIds, Rounds) /\ \A r \in DOMAIN doc.rounds : doc.rounds[r].id = r
    BY <2>0 DEF Books, Map, Sane, Known
  <2>2. Cardinality(DOMAIN doc.rounds) <= HistoryLimit
    BY <2>0 DEF Books
  <2>3. ASSUME NEW w \in Workers, work[w] # None
        PROVE  /\ work[w].pc \in {"reconcile", "transact", "mark", "classify", "rollback"}
               /\ work[w].round \in Rounds
               /\ work[w].pc \in {"transact", "mark"} => work[w].intent \in Todo(w)
    BY <2>0, <2>3 DEF Working, Request, Copy, Sane, Todo
  <2>4. /\ Map(doc.requests, Actions,
               [command : {"start_round", "surrender", "war"}, round : RoundIds])
        /\ Map(rows, Keys, [round : RoundIds, amount : Int]) /\ wallet \in Nat
        /\ doc.ledger_actions \subseteq DOMAIN rows
    BY <2>0 DEF RequestsTyped, LedgerTyped, Inv
  <2> QED BY <2>1, <2>2, <2>3, <2>4 DEF TypeOK
<1> QED BY <1>1, InvariantHolds, PTL

\* Whatever calls fail, workers die, requests are repeated and workers meet on one
\* round, the ledger has only movements that the rounds ask for, a settled round is
\* paid, and an answered round stays with its result: _reconcile_round records what
\* is made, and rollback_prepared undoes only what was prepared exactly. The one
\* exception is a preparation rolled back while another worker was settling it.
THEOREM MoneyMatches == Spec => []MoneyMatchesRounds
<1>1. ASSUME WarInv PROVE MoneyMatchesRounds
  <2>1. Books /\ Fits(rows, Now, contested) /\ Paid(rows, Now, contested)
        /\ Kept(told, rows, Now, contested) /\ StakesComeFirst
    BY <1>1 DEF WarInv, Settling, Money, Inv
  <2>2. /\ DOMAIN Now = Known /\ \A r \in Known : Now[r] = Latest(r)
        /\ \A r \in Known : Latest(r).id = r
    <3>1. DOMAIN Now = Known /\ \A r \in Known : Now[r] = Latest(r)
      BY DEF Now
    <3> QED BY <2>1, <3>1, NowFacts DEF Faithful
  <2>3. NoStrayRow
    BY <2>1, <2>2 DEF NoStrayRow, Fits, Range
  <2>4. SettledIsPaid
    <3>1. ASSUME NEW r \in Known \ contested, Latest(r).phase = "settled",
                 NEW i \in Range(Intents(Latest(r)))
          PROVE  /\ i.key \in DOMAIN rows
                 /\ rows[i.key].round \in contested
                      \/ rows[i.key] = [round |-> r, amount |-> i.amount]
      <4>1. PICK j \in DOMAIN Intents(Latest(r)) : i = Intents(Latest(r))[j]
        BY DEF Range
      <4>2. PaidFor(Latest(r), rows, contested)
        BY <2>1, <2>2, <3>1 DEF Paid
      <4> QED BY <2>2, <4>1, <4>2 DEF PaidFor
    <3> QED BY <3>1 DEF SettledIsPaid
  <2>5. AnsweredIsKept
    BY <2>1, <2>2 DEF AnsweredIsKept, Kept
  <2> QED BY <2>1, <2>3, <2>4, <2>5 DEF MoneyMatchesRounds
<1> QED BY <1>1, InvariantHolds, PTL

-----------------------------------------------------------------------------
(* The other tables                                                          *)

CONSTANTS Tables, MaxActions, MaxDeals, Openings, Streets
VARIABLES table, issued, deals, overwritten

T == INSTANCE StagedTables WITH Opening <- Openings


(* Rounds that are over, and a document that still has those of another.      *)
Over == {"settled", "passed"}
Terminal(x) == x.phase \in Over /\ x.opening # "pending" /\ x.play # "pending"
Keeps(s, t) ==
    \A x \in T!Rounds(s) : Terminal(x) =>
        \E y \in t.recent : Terminal(y) /\ y.phase = x.phase /\ T!Result(y) = T!Result(x)

Ids(s) == {x.id : x \in T!Rounds(s)}
RoundFits(x, d) ==
    /\ IF table = "jacks_or_better" THEN x.id <= d ELSE x.id = x.start
    /\ x.phase = "passed" => table = "acey_deucey"
DocSound(s, d) ==
    /\ DOMAIN s = {"active", "recent", "receipts"}
    /\ s.active # None => s.active \in T!Round /\ s.active.phase \notin Over
    /\ \A x \in s.recent : x \in T!Round /\ x.phase \in Over
    /\ \A x, y \in T!Rounds(s) : x.id = y.id => x = y
    /\ \A x \in T!Rounds(s) : RoundFits(x, d)
    /\ table = "deuces_wild" => Ids(s) \subseteq DOMAIN s.receipts

Parts == {"opening", "play", "pay"}
Attempts == {"attemptOpening", "attemptPlay", "attemptPay"}
Steps == {"save", "settle", "hold"} \cup Parts \cup Attempts
PlanFits(p, s, id) ==
    /\ p \in Seq(Steps)
    /\ p # <<>> => p[Len(p)] \in {"save", "settle", "hold"}
    /\ \A i \in 1..Len(p) :
          /\ p[i] # "save" => id \in Ids(s)
          /\ p[i] = "settle" => i = Len(p) /\ s.active # None /\ s.active.id = id

(* What an exception would restore: the document before the preparation. It    *)
(* has all other rounds, and the round is not over without its stake.          *)
UndoSound(r, d, K) ==
    LET u == r.undo
    IN  /\ DOMAIN u = {"state", "key", "from", "until"} /\ u.until \in Nat
        /\ Len(r.plan) > u.until => r.plan[Len(r.plan) - u.until] = "save"
        /\ DocSound(u.state, d)
        /\ \A x \in T!Rounds(r.base) \cup T!Rounds(r.state) :
              IF x.id = r.round THEN Terminal(x) => u.key \in K ELSE x \in T!Rounds(u.state)
        /\ \A i \in 1..Len(r.plan) : \A x \in T!Rounds(r.state) :
              r.plan[i] \in {"opening", "play"} /\ x.id = r.round /\ x.phase \in Over =>
                  T!Keys(x)[r.plan[i]] = u.key

RequestFields == {"request", "stage", "state", "base", "plan", "round", "undo", "missing"}
Asked(q) ==
    /\ DOMAIN q = {"op", "action", "round", "choice"}
    /\ q.op \in {"state", "start", "decide", "hold"}
    /\ q.op \in {"start", "decide"} => q.action \in Nat
    /\ q.op = "decide" => ~T!OneShot
    /\ q.op = "hold" => table \in {"joker_poker", "jacks_or_better", "deuces_wild"}
    /\ q.action \in Nat \cup {None}
    /\ q.choice \in {None, "play", "fold", "pass"}
Resting(r, d, K) ==
    /\ DOMAIN r = RequestFields /\ Asked(r.request)
    /\ r.stage \in {"repair", "command", "answer"} /\ (r.stage # "answer" => r.undo = None)
    /\ DocSound(r.base, d) /\ DocSound(r.state, d) /\ Keeps(r.base, r.state)
    /\ PlanFits(r.plan, r.state, r.round)
    /\ r.undo # None => UndoSound(r, d, K)
WorkSound(r, d, K) ==
    Resting(r, d, K) /\ r.plan # <<>> /\ (r.undo # None => Len(r.plan) > r.undo.until)

TableInv ==
    /\ table \in Tables /\ deals \in Nat
    /\ DocSound(doc, deals) /\ DOMAIN work = Workers
    /\ \A w \in Workers : work[w] = None \/ WorkSound(work[w], deals, DOMAIN rows)

-----------------------------------------------------------------------------
(* Documents                                                                 *)

(* A document keeps its own rounds.                                          *)
LEMMA KeepsItself == ASSUME NEW d, NEW s, DocSound(s, d) PROVE Keeps(s, s)
  BY DEF DocSound, Keeps, Terminal, T!Rounds, Over

(* What is kept by each of two changes is kept by both.                      *)
LEMMA KeepsOn == ASSUME NEW r, NEW s, NEW t, Keeps(r, s), Keeps(s, t) PROVE Keeps(r, t)
  BY DEF Keeps, T!Rounds

(* Of the rounds of a document the active one alone is not over.             *)
LEMMA RoundsAreRounds ==
  ASSUME T!NoneAssumption, NEW d, NEW s, DocSound(s, d)
  PROVE  /\ T!Rounds(s) \subseteq T!Round /\ None \notin T!Rounds(s)
         /\ s.active # None => s.active \in T!Rounds(s) /\ s.active \notin s.recent
         /\ s.recent \subseteq T!Rounds(s)
         /\ \A x \in T!Rounds(s) : x.phase \notin Over => s.active # None /\ x = s.active
         /\ \A x \in T!Rounds(s) : x.phase \in Over => x \in s.recent
  BY DEF DocSound, T!Rounds, T!NoneAssumption

(* Looks find what is there.                                                 *)
LEMMA OnlyIsIn == ASSUME NEW S, S # {} PROVE T!Only(S) \in S
  BY DEF T!Only

(* A look by id finds the round that has it.                                 *)
LEMMA ById ==
  ASSUME T!NoneAssumption, NEW d, NEW s, DocSound(s, d), NEW id
  PROVE  /\ id \in Ids(s) => T!RoundById(s, id) \in T!Rounds(s) /\ T!RoundById(s, id).id = id
         /\ T!RoundById(s, id) # None => id \in Ids(s)
         /\ T!RoundById(s, id) = None => id \notin Ids(s)
<1> DEFINE S == {x \in T!Rounds(s) : x.id = id}
<1>1. id \in Ids(s) <=> S # {}
  BY DEF Ids
<1>2. T!RoundById(s, id) = T!Only(S)
  BY DEF T!RoundById
<1>3. S = {} => T!RoundById(s, id) = None
  BY <1>2 DEF T!Only
<1>4. S # {} => T!RoundById(s, id) \in S
  BY <1>2, OnlyIsIn
<1>5. None \notin S
  BY RoundsAreRounds
<1> QED BY <1>1, <1>3, <1>4, <1>5

(* A look by the action that started a round finds it, if it is there.       *)
LEMMA ForStart ==
  ASSUME T!NoneAssumption, NEW d, NEW s, DocSound(s, d), NEW a
  PROVE  /\ T!RoundForStart(s, a) # None =>
               T!RoundForStart(s, a) \in T!Rounds(s) /\ T!RoundForStart(s, a).start = a
         /\ T!RoundForStart(s, a) = None => \A x \in T!Rounds(s) : x.start # a
<1> DEFINE S == {x \in T!Rounds(s) : x.start = a}
<1>2. T!RoundForStart(s, a) = T!Only(S)
  BY DEF T!RoundForStart
<1>3. S = {} => T!RoundForStart(s, a) = None
  BY <1>2 DEF T!Only
<1>4. S # {} => T!RoundForStart(s, a) \in S
  BY <1>2, OnlyIsIn
<1>5. None \notin S
  BY RoundsAreRounds
<1> QED BY <1>3, <1>4, <1>5

(* y is what round x has become, and t what its document has.                *)
Becomes(x, y) ==
    /\ y \in T!Round /\ y.id = x.id /\ y.start = x.start
    /\ y.phase = "passed" => x.phase = "passed"
    /\ Terminal(x) => Terminal(y) /\ y.phase = x.phase /\ T!Result(y) = T!Result(x)
Swaps(s, t, x, y, d) ==
    /\ DocSound(t, d) /\ Keeps(s, t) /\ Ids(t) = Ids(s)
    /\ T!Rounds(t) = (T!Rounds(s) \ {x}) \cup {y}
    /\ t.receipts = s.receipts

(* A round changed in its own place takes the place of what it was.          *)
LEMMA PutSwaps ==
  ASSUME T!NoneAssumption, NEW d, NEW s, DocSound(s, d), NEW x \in T!Rounds(s), NEW y, Becomes(x, y),
         y.phase \in Over <=> x.phase \in Over
  PROVE  /\ Swaps(s, T!Put(s, y), x, y, d)
         /\ T!Put(s, y).active = IF x = s.active THEN y ELSE s.active
<1> DEFINE t == T!Put(s, y)
<1>1. x \in T!Round /\ y # None /\ y.id = x.id
  BY RoundsAreRounds DEF Becomes, T!NoneAssumption
<1>2. CASE x = s.active
  <2>1. s.active # None /\ x.phase \notin Over
    BY <1>1, <1>2, RoundsAreRounds DEF DocSound, T!NoneAssumption
  <2>2. t = [s EXCEPT !.active = y]
    BY <2>1, <1>2, <1>1 DEF T!Put
  <2>3. t.active = y /\ t.recent = s.recent /\ t.receipts = s.receipts
        /\ DOMAIN t = {"active", "recent", "receipts"}
    BY <2>2 DEF DocSound
  <2>4. T!Rounds(t) = s.recent \cup {y} /\ T!Rounds(s) = s.recent \cup {x}
    BY <2>1, <2>3, <1>1, <1>2 DEF T!Rounds
  <2>5. x \notin s.recent
    BY <2>1 DEF DocSound
  <2>6. T!Rounds(t) = (T!Rounds(s) \ {x}) \cup {y} /\ Ids(t) = Ids(s)
    BY <2>4, <2>5, <1>1 DEF Ids
  <2>7. DocSound(t, d)
    BY <2>1, <2>3, <2>4, <2>6, <1>1 DEF DocSound, Becomes, RoundFits
  <2>8. Keeps(s, t)
    BY <2>1, <2>3, <2>4, KeepsItself DEF Keeps, Terminal
  <2> QED BY <2>3, <2>6, <2>7, <2>8, <1>2 DEF Swaps
<1>3. CASE x # s.active
  <2>1. x \in s.recent
    BY <1>3 DEF T!Rounds
  <2>2. ~(s.active # None /\ s.active.id = y.id)
    BY <1>1, <1>3, RoundsAreRounds DEF DocSound
  <2>3. t = [s EXCEPT !.recent = {z \in @ : z.id # y.id} \cup {y}]
    BY <2>2 DEF T!Put
  <2>4. t.active = s.active /\ t.receipts = s.receipts
        /\ t.recent = {z \in s.recent : z.id # y.id} \cup {y}
        /\ DOMAIN t = {"active", "recent", "receipts"}
    BY <2>3 DEF DocSound
  <2>5. t.recent = (s.recent \ {x}) \cup {y}
    BY <2>1, <2>4, <1>1 DEF DocSound, T!Rounds
  <2>6. T!Rounds(t) = (T!Rounds(s) \ {x}) \cup {y}
    BY <2>4, <2>5, <2>1, <1>1, <1>3 DEF T!Rounds
  <2>7. Ids(t) = Ids(s)
    BY <2>6, <1>1 DEF Ids
  <2>8. y.phase \in Over
    BY <2>1 DEF DocSound
  <2>9. DocSound(t, d)
    BY <2>4, <2>5, <2>6, <2>7, <2>8, <1>1 DEF DocSound, Becomes, RoundFits
  <2>10. Keeps(s, t)
    <3> SUFFICES ASSUME NEW z \in T!Rounds(s), Terminal(z)
                 PROVE  \E v \in t.recent : Terminal(v) /\ v.phase = z.phase /\ T!Result(v) = T!Result(z)
      BY DEF Keeps
    <3>1. CASE z = x
      BY <3>1, <2>5 DEF Becomes
    <3>2. CASE z # x
      BY <3>2, <2>5, RoundsAreRounds DEF Terminal
    <3> QED BY <3>1, <3>2
  <2> QED BY <2>4, <2>6, <2>7, <2>9, <2>10, <1>3 DEF Swaps
<1> QED BY <1>2, <1>3

(* The active round is over.                                                 *)
LEMMA ArchiveSwaps ==
  ASSUME T!NoneAssumption, NEW d, NEW s, DocSound(s, d), s.active # None,
         NEW y \in T!Round, y.id = s.active.id, y.start = s.active.start, y.phase \in Over,
         y.phase = "passed" => table = "acey_deucey"
  PROVE  /\ Swaps(s, T!ArchiveRound(s, y), s.active, y, d)
         /\ T!ArchiveRound(s, y).active = None
<1> DEFINE t == T!ArchiveRound(s, y)
           x == s.active
<1>1. x \in T!Round /\ x.phase \notin Over /\ x \in T!Rounds(s) /\ x \notin s.recent
  BY RoundsAreRounds DEF DocSound
<1>2. t.active = None /\ t.receipts = s.receipts
      /\ t.recent = {z \in s.recent : z.id # y.id} \cup {y}
      /\ DOMAIN t = {"active", "recent", "receipts"}
  BY DEF DocSound, T!ArchiveRound
<1>3. \A z \in s.recent : z.id # y.id
  BY <1>1 DEF DocSound, T!Rounds
<1>4. t.recent = s.recent \cup {y}
  BY <1>2, <1>3
<1>5. T!Rounds(t) = s.recent \cup {y} /\ T!Rounds(s) = s.recent \cup {x}
  BY <1>2, <1>4, <1>1 DEF T!Rounds
<1>6. T!Rounds(t) = (T!Rounds(s) \ {x}) \cup {y} /\ Ids(t) = Ids(s)
  BY <1>5, <1>1 DEF Ids
<1>7. DocSound(t, d)
  BY <1>1, <1>2, <1>4, <1>5, <1>6 DEF DocSound, RoundFits
<1>8. Keeps(s, t)
  BY <1>4, <1>5, <1>1 DEF Keeps, Terminal, DocSound
<1> QED BY <1>2, <1>6, <1>7, <1>8 DEF Swaps

(* Receipts are written, and elsewhere than at Deuces Wild also forgotten.   *)
LEMMA KeptRounds ==
  ASSUME NEW d, NEW s, DocSound(s, d), NEW t, DOMAIN t = DOMAIN s,
         t.active = s.active, t.recent = s.recent,
         table = "deuces_wild" => DOMAIN s.receipts \subseteq DOMAIN t.receipts
  PROVE  DocSound(t, d) /\ T!Rounds(t) = T!Rounds(s) /\ Ids(t) = Ids(s)
<1>1. T!Rounds(t) = T!Rounds(s)
  BY DEF T!Rounds
<1>2. Ids(t) = Ids(s)
  BY <1>1 DEF Ids
<1>3. DocSound(t, d)
  BY <1>1, <1>2 DEF DocSound
<1> QED BY <1>1, <1>2, <1>3

(* A receipt written changes no round.                                       *)
LEMMA Remembered ==
  ASSUME NEW d, NEW s, DocSound(s, d), NEW a, NEW stage, NEW x
  PROVE  LET t == T!Remember(s, a, stage, x)
         IN  /\ DocSound(t, d) /\ T!Rounds(t) = T!Rounds(s) /\ Ids(t) = Ids(s)
             /\ t.active = s.active /\ t.recent = s.recent
<1> DEFINE t == T!Remember(s, a, stage, x)
<1>1. /\ DOMAIN t = DOMAIN s /\ t.active = s.active /\ t.recent = s.recent
      /\ DOMAIN t.receipts = DOMAIN s.receipts \cup {a}
  BY DEF T!Remember, DocSound
<1> QED BY <1>1, KeptRounds

(* Nor does one forgotten; Deuces Wild, where rounds need theirs, forgets none. *)
LEMMA Forgotten ==
  ASSUME NEW d, NEW s, DocSound(s, d), NEW a, table # "deuces_wild"
  PROVE  LET t == T!Forget(s, a)
         IN  /\ DocSound(t, d) /\ T!Rounds(t) = T!Rounds(s) /\ Ids(t) = Ids(s)
             /\ t.active = s.active /\ t.recent = s.recent
<1> DEFINE t == T!Forget(s, a)
<1>1. /\ DOMAIN t = DOMAIN s /\ t.active = s.active /\ t.recent = s.recent
  BY DEF T!Forget, DocSound
<1> QED BY <1>1, KeptRounds

(* Only the rounds that are over count for what is kept.                     *)
LEMMA KeepsSame ==
  ASSUME NEW s, NEW t, NEW u, Keeps(s, t), u.recent = t.recent PROVE Keeps(s, u)
  BY DEF Keeps

(* The active round is taken back.                                           *)
LEMMA Cancelled ==
  ASSUME T!NoneAssumption, NEW d, NEW s, DocSound(s, d), table # "deuces_wild", s.active # None
  PROVE  LET t == T!CancelRound(s, s.active)
         IN  DocSound(t, d) /\ Keeps(s, t) /\ t.active = None /\ T!Rounds(t) \subseteq T!Rounds(s)
<1> DEFINE u == [s EXCEPT !.active = None]
           t == T!CancelRound(s, s.active)
<1>1. /\ u.active = None /\ u.recent = s.recent /\ u.receipts = s.receipts
      /\ DOMAIN u = {"active", "recent", "receipts"}
  BY DEF DocSound
<1>2. T!Rounds(u) = s.recent
  BY <1>1 DEF T!Rounds
<1>3. DocSound(u, d)
  <2>1. \A x \in T!Rounds(u) : x \in T!Rounds(s)
    BY <1>2 DEF T!Rounds, DocSound, T!NoneAssumption
  <2> QED BY <1>1, <1>2, <2>1 DEF DocSound
<1>4. DocSound(t, d) /\ T!Rounds(t) = T!Rounds(u) /\ t.active = u.active /\ t.recent = u.recent
  BY <1>3, Forgotten DEF T!CancelRound
<1>5. Keeps(s, t)
  BY <1>1, <1>4, KeepsItself, KeepsSame
<1> QED BY <1>1, <1>2, <1>4, <1>5, RoundsAreRounds

(* A round comes, at a free place of the document.                           *)
LEMMA Comes ==
  ASSUME T!NoneAssumption, NEW d, NEW s, DocSound(s, d), NEW t, DOMAIN t = {"active", "recent", "receipts"},
         NEW x \in T!Round, x.id \notin Ids(s), RoundFits(x, d),
         \/ s.active = None /\ t.active = x /\ t.recent = s.recent /\ x.phase \notin Over
         \/ t.active = s.active /\ t.recent = s.recent \cup {x} /\ x.phase \in Over,
         table = "deuces_wild" => DOMAIN s.receipts \cup {x.id} \subseteq DOMAIN t.receipts
  PROVE  /\ DocSound(t, d) /\ Keeps(s, t)
         /\ T!Rounds(t) = T!Rounds(s) \cup {x} /\ Ids(t) = Ids(s) \cup {x.id}
<1>1. x # None
  BY DEF T!NoneAssumption
<1>2. T!Rounds(t) = T!Rounds(s) \cup {x}
  BY <1>1 DEF T!Rounds
<1>3. Ids(t) = Ids(s) \cup {x.id}
  BY <1>2 DEF Ids
<1>4. \A y \in T!Rounds(s) : y.id # x.id
  BY DEF Ids
<1>5. DocSound(t, d)
  BY <1>1, <1>2, <1>3, <1>4 DEF DocSound
<1>6. Keeps(s, t)
  BY KeepsItself DEF Keeps, T!Rounds
<1> QED BY <1>2, <1>3, <1>5, <1>6

-----------------------------------------------------------------------------
(* Plans                                                                     *)

(* A publication is a plan for any document.                                 *)
LEMMA SaveFits ==
  ASSUME NEW s, NEW id PROVE PlanFits(<<"save">>, s, id) /\ <<"save">> # <<>>
  BY DEF PlanFits, Steps

(* Steps other than playing out come before a plan.                          *)
LEMMA CatFits ==
  ASSUME NEW s, NEW id, NEW p \in Seq(Steps), NEW q, PlanFits(q, s, id), q # <<>>,
         \A i \in 1..Len(p) : p[i] # "settle" /\ (p[i] # "save" => id \in Ids(s))
  PROVE  /\ PlanFits(p \o q, s, id) /\ p \o q # <<>> /\ p \o q \in Seq(Steps)
         /\ Len(p \o q) = Len(p) + Len(q)
         /\ \A i \in 1..Len(p) + Len(q) : (p \o q)[i] = IF i <= Len(p) THEN p[i] ELSE q[i - Len(p)]
<1>1. q \in Seq(Steps) /\ Len(q) \in Nat \ {0} /\ Len(p) \in Nat
  BY EmptySeq, LenProperties DEF PlanFits
<1>2. /\ p \o q \in Seq(Steps) /\ Len(p \o q) = Len(p) + Len(q)
      /\ \A i \in 1..Len(p) + Len(q) : (p \o q)[i] = IF i <= Len(p) THEN p[i] ELSE q[i - Len(p)]
  BY <1>1, ConcatProperties
<1>3. p \o q # <<>>
  BY <1>1, <1>2, EmptySeq
<1>4. (p \o q)[Len(p \o q)] = q[Len(q)]
  BY <1>1, <1>2
<1>5. ASSUME NEW i \in 1..Len(p \o q)
      PROVE  /\ (p \o q)[i] # "save" => id \in Ids(s)
             /\ (p \o q)[i] = "settle" => i = Len(p \o q) /\ s.active # None /\ s.active.id = id
  <2>1. CASE i <= Len(p)
    BY <2>1, <1>1, <1>2
  <2>2. CASE i > Len(p)
    <3>1. i - Len(p) \in 1..Len(q) /\ (p \o q)[i] = q[i - Len(p)]
      BY <2>2, <1>1, <1>2
    <3>2. /\ q[i - Len(p)] # "save" => id \in Ids(s)
          /\ q[i - Len(p)] = "settle" => i - Len(p) = Len(q) /\ s.active # None /\ s.active.id = id
      BY <3>1 DEF PlanFits
    <3> QED BY <3>1, <3>2, <1>1, <1>2
  <2> QED BY <2>1, <2>2, <1>1, <1>2
<1> QED BY <1>2, <1>3, <1>4, <1>5, <1>1 DEF PlanFits

(* What is left of a plan fits the document its step leaves.                 *)
LEMMA TailFits ==
  ASSUME NEW s, NEW t, NEW id, NEW p, PlanFits(p, s, id), p # <<>>, Ids(t) = Ids(s),
         s.active # None /\ s.active.id = id => t.active # None /\ t.active.id = id
  PROVE  /\ PlanFits(Tail(p), t, id)
         /\ Len(p) \in Nat \ {0} /\ Len(Tail(p)) = Len(p) - 1 /\ Head(p) = p[1]
         /\ \A i \in 1..Len(p) - 1 : Tail(p)[i] = p[i + 1]
         /\ Head(p) \notin {"save", "settle", "hold"} => Tail(p) # <<>>
<1>1. p \in Seq(Steps) /\ Len(p) \in Nat \ {0}
  BY EmptySeq DEF PlanFits
<1>2. Tail(p) \in Seq(Steps) /\ Len(Tail(p)) = Len(p) - 1 /\ Head(p) = p[1]
      /\ \A i \in 1..Len(p) - 1 : Tail(p)[i] = p[i + 1]
  BY <1>1, HeadTailProperties
<1>3. Tail(p) # <<>> => Len(p) - 1 \in Nat \ {0}
  BY <1>2, EmptySeq
<1>4. Tail(p) # <<>> => Tail(p)[Len(Tail(p))] = p[Len(p)]
  BY <1>1, <1>2, <1>3
<1>5. Head(p) \notin {"save", "settle", "hold"} => Tail(p) # <<>>
  <2>1. p[Len(p)] \in {"save", "settle", "hold"}
    BY DEF PlanFits
  <2>2. Tail(p) = <<>> => Len(p) = 1
    <3>1. Tail(p) = <<>> => Len(Tail(p)) = 0
      BY EmptySeq
    <3>2. Len(p) \in Nat /\ Len(Tail(p)) = Len(p) - 1
      BY <1>1, <1>2
    <3> QED BY <3>1, <3>2
  <2> QED BY <2>1, <2>2, <1>2
<1>6. ASSUME NEW i \in 1..Len(Tail(p))
      PROVE  /\ Tail(p)[i] # "save" => id \in Ids(t)
             /\ Tail(p)[i] = "settle" =>
                   i = Len(Tail(p)) /\ t.active # None /\ t.active.id = id
  <2>1. i + 1 \in 1..Len(p) /\ Tail(p)[i] = p[i + 1]
    BY <1>1, <1>2
  <2>2. /\ p[i + 1] # "save" => id \in Ids(s)
        /\ p[i + 1] = "settle" => i + 1 = Len(p) /\ s.active # None /\ s.active.id = id
    BY <2>1 DEF PlanFits
  <2>3. Tail(p)[i] # "save" => id \in Ids(t)
    BY <2>1, <2>2
  <2>4. p[i + 1] = "settle" => i = Len(Tail(p))
    BY <2>2, <1>1, <1>2
  <2> QED BY <2>1, <2>2, <2>3, <2>4
<1> QED BY <1>1, <1>2, <1>4, <1>5, <1>6 DEF PlanFits

(* The plans of the requests.                                                *)
LEMMA PartFits ==
  ASSUME NEW s, NEW id, id \in Ids(s)
  PROVE  /\ PlanFits(T!Pay, s, id) /\ PlanFits(T!Stake, s, id)
         /\ PlanFits(<<"hold">>, s, id)
         /\ s.active # None /\ s.active.id = id => PlanFits(<<"settle">>, s, id)
<1>1. PlanFits(T!Pay, s, id)
  BY DEF PlanFits, T!Pay, Steps, Parts
<1>2. PlanFits(T!Stake, s, id)
  BY DEF PlanFits, T!Stake, Steps, Parts
<1>3. PlanFits(<<"hold">>, s, id) /\ (s.active # None /\ s.active.id = id => PlanFits(<<"settle">>, s, id))
  BY DEF PlanFits, Steps
<1> QED BY <1>1, <1>2, <1>3

(* The active round is published, then played out.                           *)
LEMMA SaveSettleFits ==
  ASSUME NEW s, NEW id, id \in Ids(s), s.active # None, s.active.id = id
  PROVE  PlanFits(<<"save", "settle">>, s, id) /\ <<"save", "settle">> # <<>>
<1> DEFINE p == <<"save", "settle">>
<1>1. p \in Seq(Steps) /\ Len(p) = 2 /\ p[1] = "save" /\ p[2] = "settle"
  BY DEF Steps
<1>2. \A i \in 1..2 : i = 1 \/ i = 2
  OBVIOUS
<1>3. p # <<>>
  BY <1>1, EmptySeq
<1> HIDE DEF p
<1>4. PlanFits(p, s, id)
  BY <1>1, <1>2 DEF PlanFits
<1> QED BY <1>3, <1>4 DEF p

(* The steps a stake is published and taken with end in a publication.       *)
Closes(p, s, id) ==
    /\ PlanFits(p, s, id) /\ p # <<>> /\ Len(p) > 0 /\ p[Len(p)] = "save"
    /\ \A i \in 1..Len(p) : p[i] # "play"

(* One step comes before a plan.                                             *)
LEMMA ConsFits ==
  ASSUME NEW s, NEW id, NEW a \in Steps \ {"settle"}, a # "save" => id \in Ids(s),
         NEW q, PlanFits(q, s, id), q # <<>>
  PROVE  /\ PlanFits(<<a>> \o q, s, id) /\ <<a>> \o q # <<>>
         /\ Len(<<a>> \o q) = Len(q) + 1 /\ Len(q) \in Nat \ {0}
         /\ (<<a>> \o q)[1] = a
         /\ \A i \in 2..Len(q) + 1 : (<<a>> \o q)[i] = q[i - 1]
<1> DEFINE p == <<a>>
<1>1. p \in Seq(Steps) /\ Len(p) = 1 /\ p[1] = a
  OBVIOUS
<1>2. q \in Seq(Steps) /\ Len(q) \in Nat \ {0}
  BY EmptySeq DEF PlanFits
<1> HIDE DEF p
<1>3. /\ PlanFits(p \o q, s, id) /\ p \o q # <<>>
      /\ Len(p \o q) = Len(p) + Len(q)
      /\ \A i \in 1..Len(p) + Len(q) : (p \o q)[i] = IF i <= Len(p) THEN p[i] ELSE q[i - Len(p)]
  <2>1. \A i \in 1..Len(p) : p[i] # "settle" /\ (p[i] # "save" => id \in Ids(s))
    BY <1>1
  <2>2. p \in Seq(Steps) /\ PlanFits(q, s, id) /\ q # <<>>
    BY <1>1
  <2>3. PlanFits(p \o q, s, id)
    BY <2>1, <2>2, CatFits
  <2>4. p \o q # <<>> /\ Len(p \o q) = Len(p) + Len(q)
    BY <2>1, <2>2, CatFits
  <2>5. \A i \in 1..Len(p) + Len(q) : (p \o q)[i] = IF i <= Len(p) THEN p[i] ELSE q[i - Len(p)]
    BY <2>1, <2>2, CatFits
  <2> QED BY <2>3, <2>4, <2>5
<1>4. (p \o q)[1] = a /\ \A i \in 2..Len(q) + 1 : (p \o q)[i] = q[i - 1]
  BY <1>1, <1>2, <1>3
<1> QED BY <1>1, <1>2, <1>3, <1>4 DEF p

(* One step before steps that end in a publication.                          *)
LEMMA ConsCloses ==
  ASSUME NEW s, NEW id, NEW a \in Steps \ {"settle", "play"}, a # "save" => id \in Ids(s),
         NEW q, Closes(q, s, id)
  PROVE  Closes(<<a>> \o q, s, id)
<1> DEFINE p == <<a>> \o q
<1>1. /\ PlanFits(p, s, id) /\ p # <<>>
      /\ Len(p) = Len(q) + 1 /\ Len(q) \in Nat \ {0} /\ p[1] = a
      /\ \A i \in 2..Len(q) + 1 : p[i] = q[i - 1]
  <2>1. a \in Steps \ {"settle"} /\ PlanFits(q, s, id) /\ q # <<>>
    BY DEF Closes
  <2> HIDE DEF p
  <2>2. PlanFits(p, s, id)
    BY <2>1, ConsFits DEF p
  <2>3. Len(p) = Len(q) + 1 /\ p # <<>>
    BY <2>1, ConsFits DEF p
  <2>4. Len(q) \in Nat \ {0}
    BY <2>1, EmptySeq DEF PlanFits
  <2>5. p[1] = a
    BY <2>1, ConsFits DEF p
  <2>6. \A i \in 2..Len(q) + 1 : p[i] = q[i - 1]
    BY <2>1, ConsFits DEF p
  <2> QED BY <2>2, <2>3, <2>4, <2>5, <2>6
<1> HIDE DEF p
<1>2. p[Len(p)] = "save"
  <2>1. Len(p) \in 2..Len(q) + 1 /\ Len(p) - 1 = Len(q)
    BY <1>1
  <2> QED BY <2>1, <1>1 DEF Closes
<1>3. ASSUME NEW i \in 1..Len(p) PROVE p[i] # "play"
  <2>1. CASE i = 1
    BY <2>1, <1>1
  <2>2. CASE i # 1
    <3>1. i \in 2..Len(q) + 1 /\ i - 1 \in 1..Len(q)
      BY <2>2, <1>1
    <3> QED BY <3>1, <1>1 DEF Closes
  <2> QED BY <2>1, <2>2
<1>4. Closes(p, s, id)
  BY <1>1, <1>2, <1>3 DEF Closes
<1> QED BY <1>4 DEF p

(* Two such plans, one after the other.                                      *)
LEMMA CatCloses ==
  ASSUME NEW s, NEW id, id \in Ids(s), NEW p, Closes(p, s, id), \A i \in 1..Len(p) : p[i] # "settle",
         NEW q, Closes(q, s, id)
  PROVE  Closes(p \o q, s, id)
<1>1. p \in Seq(Steps) /\ q \in Seq(Steps) /\ Len(p) \in Nat /\ Len(q) \in Nat \ {0}
  BY EmptySeq DEF PlanFits, Closes
<1>2. /\ PlanFits(p \o q, s, id) /\ p \o q # <<>>
      /\ Len(p \o q) = Len(p) + Len(q)
      /\ \A i \in 1..Len(p) + Len(q) : (p \o q)[i] = IF i <= Len(p) THEN p[i] ELSE q[i - Len(p)]
  BY <1>1, CatFits DEF Closes
<1>3. (p \o q)[Len(p \o q)] = "save"
  BY <1>1, <1>2 DEF Closes
<1>4. ASSUME NEW i \in 1..Len(p \o q) PROVE (p \o q)[i] # "play"
  <2>1. CASE i <= Len(p)
    BY <2>1, <1>1, <1>2 DEF Closes
  <2>2. CASE i > Len(p)
    <3>1. i - Len(p) \in 1..Len(q) /\ (p \o q)[i] = q[i - Len(p)]
      BY <2>2, <1>1, <1>2
    <3> QED BY <3>1 DEF Closes
  <2> QED BY <2>1, <2>2, <1>1, <1>2
<1> QED BY <1>1, <1>2, <1>3, <1>4 DEF Closes

(* The plans of stakes and payouts are such plans.                           *)
LEMMA PartCloses ==
  ASSUME NEW s, NEW id, id \in Ids(s)
  PROVE  /\ Closes(T!Pay, s, id) /\ Closes(T!Stake, s, id)
         /\ Closes(<<"attemptOpening">> \o T!Stake, s, id) /\ Closes(T!Stake \o T!Pay, s, id)
         /\ Closes(<<"attemptPay">> \o T!Pay, s, id)
<1>1. T!Pay # <<>> /\ Len(T!Pay) = 2 /\ T!Pay[1] = "pay" /\ T!Pay[2] = "save"
  BY DEF T!Pay
<1>2. T!Stake # <<>> /\ Len(T!Stake) = 2 /\ T!Stake[1] = "opening" /\ T!Stake[2] = "save"
  BY DEF T!Stake
<1>3. \A i \in 1..2 : i = 1 \/ i = 2
  OBVIOUS
<1>4. Closes(T!Pay, s, id)
  BY <1>1, <1>3, PartFits DEF Closes
<1>5. Closes(T!Stake, s, id)
  BY <1>2, <1>3, PartFits DEF Closes
<1>6. {"attemptOpening", "attemptPay"} \subseteq Steps \ {"settle", "play"}
  BY DEF Steps, Attempts
<1>7. \A i \in 1..Len(T!Stake) : T!Stake[i] # "settle"
  BY <1>2, <1>3
<1>8. Closes(<<"attemptOpening">> \o T!Stake, s, id) /\ Closes(<<"attemptPay">> \o T!Pay, s, id)
  BY <1>4, <1>5, <1>6, ConsCloses
<1>9. Closes(T!Stake \o T!Pay, s, id)
  BY <1>4, <1>5, <1>7, CatCloses
<1> QED BY <1>4, <1>5, <1>8, <1>9

-----------------------------------------------------------------------------
(* What a request goes on with                                               *)

(* A request that has nothing left to do on the document it last saw.        *)
Ready(r, d) ==
    /\ DOMAIN r = RequestFields /\ Asked(r.request)
    /\ r.stage \in {"repair", "command", "answer"}
    /\ DocSound(r.state, d) /\ r.base = r.state /\ r.plan = <<>> /\ r.undo = None

(* It goes on with n, which an exception does not undo.                      *)
Soundly(n, d, K) == WorkSound(n, d, K) /\ n.undo = None
Plainly(n, d, K) == n = None \/ Soundly(n, d, K)

(* A request that goes on with a sound document and a plan that fits it is sound. *)
LEMMA Goes ==
  ASSUME NEW d, NEW K, NEW r, Ready(r, d), NEW t, DocSound(t, d), Keeps(r.state, t),
         NEW x, NEW p, PlanFits(p, t, x.id), p # <<>>
  PROVE  Soundly(T!Go(r, t, x, p), d, K)
<1>1. /\ DOMAIN T!Go(r, t, x, p) = RequestFields
      /\ T!Go(r, t, x, p).state = t /\ T!Go(r, t, x, p).round = x.id /\ T!Go(r, t, x, p).plan = p
      /\ T!Go(r, t, x, p).base = r.state /\ T!Go(r, t, x, p).undo = None
      /\ T!Go(r, t, x, p).request = r.request /\ T!Go(r, t, x, p).stage = r.stage
  BY DEF T!Go, Ready, RequestFields
<1> QED BY <1>1 DEF Soundly, WorkSound, Resting, Ready

(* How an exception is answered makes no difference to that.                 *)
LEMMA Wrapped ==
  ASSUME NEW d, NEW K, NEW n, Soundly(n, d, K), NEW k
  PROVE  Soundly(T!Missing(n, k), d, K) /\ Soundly(T!Handled(n), d, K)
<1>1. ASSUME NEW m, m \in {T!Missing(n, k), T!Handled(n)}
      PROVE  /\ DOMAIN m = RequestFields /\ m.state = n.state /\ m.round = n.round
             /\ m.plan = n.plan /\ m.base = n.base /\ m.undo = n.undo /\ m.request = n.request
             /\ m.stage \in {"repair", "command", "answer"}
  BY <1>1 DEF T!Missing, T!Handled, Soundly, WorkSound, Resting, RequestFields
<1> QED BY <1>1 DEF Soundly, WorkSound, Resting

(* It has the document it went on with.                                      *)
LEMMA GoesIs ==
  ASSUME NEW d, NEW r, Ready(r, d), NEW t, NEW x, NEW p
  PROVE  T!Go(r, t, x, p).state = t
  BY DEF T!Go, Ready, RequestFields

(* A preparation that an exception takes back.                               *)
LEMMA Guards ==
  ASSUME T!NoneAssumption, NEW d, NEW K, NEW r, Ready(r, d), r.stage = "answer",
         NEW t, DocSound(t, d), Keeps(r.state, t), NEW x, NEW p, PlanFits(p, t, x.id), p # <<>>,
         NEW key, NEW from, NEW until \in Nat, Len(p) > until, p[Len(p) - until] = "save",
         \A y \in T!Rounds(r.state) \cup T!Rounds(t) :
             IF y.id = x.id THEN ~Terminal(y) ELSE y \in T!Rounds(r.state),
         \A y \in T!Rounds(t) : y.id = x.id /\ y.phase \in Over =>
             \A i \in 1..Len(p) : p[i] \in {"opening", "play"} => T!Keys(y)[p[i]] = key
  PROVE  WorkSound(T!Guarded(T!Go(r, t, x, p), key, from, until), d, K)
<1> DEFINE n == T!Guarded(T!Go(r, t, x, p), key, from, until)
<1>1. /\ DOMAIN n = RequestFields
      /\ n.state = t /\ n.round = x.id /\ n.plan = p /\ n.base = r.state
      /\ n.undo = [state |-> r.state, key |-> key, from |-> from, until |-> until]
      /\ n.request = r.request /\ n.stage = "answer"
  BY DEF T!Go, T!Guarded, Ready, RequestFields
<1>2. UndoSound(n, d, K)
  BY <1>1 DEF UndoSound, Ready
<1> QED BY <1>1, <1>2 DEF WorkSound, Resting, Ready

(* More rounds may have been dealt, and more be in the ledger.               *)
LEMMA DealtMore ==
  ASSUME NEW d \in Nat, NEW e \in Nat, d <= e, NEW s, DocSound(s, d), None \notin T!Round
  PROVE  DocSound(s, e)
<1>1. ASSUME NEW x \in T!Rounds(s) PROVE RoundFits(x, e)
  <2>1. x \in T!Round /\ RoundFits(x, d)
    BY DEF DocSound, T!Rounds
  <2>2. x.id \in Nat
    BY <2>1 DEF T!Round
  <2> QED BY <2>1, <2>2 DEF RoundFits
<1> QED BY <1>1 DEF DocSound

(* What other workers add to the ledger and deal leaves a request sound.     *)
LEMMA LaterSound ==
  ASSUME T!NoneAssumption, NEW d \in Nat, NEW e \in Nat, d <= e, NEW K, NEW L, K \subseteq L,
         NEW r, WorkSound(r, d, K)
  PROVE  WorkSound(r, e, L)
<1>1. DocSound(r.base, e) /\ DocSound(r.state, e)
  BY DealtMore DEF WorkSound, Resting, T!NoneAssumption
<1>2. r.undo # None => UndoSound(r, e, L)
  <2> SUFFICES ASSUME r.undo # None PROVE UndoSound(r, e, L)
    OBVIOUS
  <2>1. DocSound(r.undo.state, e)
    BY DealtMore DEF WorkSound, Resting, T!NoneAssumption, UndoSound
  <2> QED BY <2>1 DEF WorkSound, Resting, UndoSound
<1> QED BY <1>1, <1>2 DEF WorkSound, Resting

(* So for a request that has nothing left to do.                             *)
LEMMA LaterReady ==
  ASSUME T!NoneAssumption, NEW d \in Nat, NEW e \in Nat, d <= e, NEW r, Ready(r, d)
  PROVE  Ready(r, e)
  BY DealtMore DEF Ready, T!NoneAssumption

-----------------------------------------------------------------------------
(* Repairs                                                                   *)

(* A round is marked, not changed: its movements keep their keys.            *)
Marked2(x, y) ==
    /\ y \in T!Round /\ y.phase = x.phase
    /\ \A f \in {"id", "start", "wins", "action", "choice", "pending"} : y[f] = x[f]
    /\ y.opening \in {x.opening, "complete"} /\ y.play \in {x.play, "complete"}

(* A marked round is the same round.                                         *)
LEMMA MarkedBecomes ==
  ASSUME NEW x \in T!Round, NEW y, Marked2(x, y) PROVE Becomes(x, y)
  BY DEF Marked2, Becomes, Terminal, T!Result

(* The marks the code makes.                                                 *)
LEMMA Marking ==
  ASSUME NEW x \in T!Round
  PROVE  /\ Marked2(x, [x EXCEPT !.opening = "complete"])
         /\ Marked2(x, [x EXCEPT !.play = "complete"])
         /\ Marked2(x, [x EXCEPT !.settlement = "complete"])
         /\ \A a \in {None, "opening", "play", "pay"} : Marked2(x, [x EXCEPT !.attempt = a])
         /\ Marked2(x, [x EXCEPT !.holds = TRUE])
<1>1. Marked2(x, [x EXCEPT !.opening = "complete"])
  BY DEF Marked2, T!Round, T!Marks
<1>2. Marked2(x, [x EXCEPT !.play = "complete"])
  BY DEF Marked2, T!Round, T!Marks
<1>3. Marked2(x, [x EXCEPT !.settlement = "complete"])
  BY DEF Marked2, T!Round, T!Marks
<1>4. \A a \in {None, "opening", "play", "pay"} : Marked2(x, [x EXCEPT !.attempt = a])
  BY DEF Marked2, T!Round, T!Marks
<1>5. Marked2(x, [x EXCEPT !.holds = TRUE])
  BY DEF Marked2, T!Round, T!Marks
<1> QED BY <1>1, <1>2, <1>3, <1>4, <1>5

(* One mark after another.                                                   *)
LEMMA MarkedTwice ==
  ASSUME NEW x, NEW y, NEW z, Marked2(x, y), Marked2(y, z) PROVE Marked2(x, z)
  BY DEF Marked2

(* A repair that marks a round and publishes it.                             *)
LEMMA PutSaved ==
  ASSUME T!NoneAssumption, NEW d, NEW K, NEW r, Ready(r, d), NEW x \in T!Rounds(r.state), NEW y,
         Marked2(x, y)
  PROVE  /\ Soundly(T!Go(r, T!Put(r.state, y), x, <<"save">>), d, K)
         /\ Swaps(r.state, T!Put(r.state, y), x, y, d)
         /\ T!Put(r.state, y).active = IF x = r.state.active THEN y ELSE r.state.active
<1>1. DocSound(r.state, d) /\ x \in T!Round
  BY RoundsAreRounds DEF Ready
<1>2. Becomes(x, y) /\ y.phase = x.phase
  BY <1>1, MarkedBecomes DEF Marked2
<1>3. /\ Swaps(r.state, T!Put(r.state, y), x, y, d)
      /\ T!Put(r.state, y).active = IF x = r.state.active THEN y ELSE r.state.active
  BY <1>1, <1>2, PutSwaps
<1>4. Soundly(T!Go(r, T!Put(r.state, y), x, <<"save">>), d, K)
  BY <1>3, SaveFits, Goes DEF Swaps
<1> QED BY <1>3, <1>4

(* A repair that takes the active round back.                                *)
LEMMA CancelSaved ==
  ASSUME T!NoneAssumption, NEW d, NEW K, NEW r, Ready(r, d), r.state.active # None,
         table # "deuces_wild"
  PROVE  Soundly(T!Go(r, T!CancelRound(r.state, r.state.active), r.state.active, <<"save">>), d, K)
  BY Cancelled, SaveFits, Goes DEF Ready

(* The document stays, and the steps p follow.                               *)
LEMMA StaysFor ==
  ASSUME T!NoneAssumption, NEW d, NEW K, NEW r, Ready(r, d), NEW x \in T!Rounds(r.state), NEW p,
         p # <<>>, x.id \in Ids(r.state) => PlanFits(p, r.state, x.id)
  PROVE  Soundly(T!Go(r, r.state, x, p), d, K)
<1>1. x.id \in Ids(r.state)
  BY DEF Ids
<1> QED BY <1>1, KeepsItself, Goes DEF Ready

(* None of the plans is empty.                                               *)
LEMMA PlansAreSome ==
  T!Pay # <<>> /\ T!Stake # <<>> /\ <<"settle">> # <<>>
  BY DEF T!Pay, T!Stake

(* The repair of an opening that is pending.                                 *)
LEMMA ConfirmSound ==
  ASSUME T!NoneAssumption, NEW d, NEW K, NEW r, Ready(r, d), T!OpeningPending(r.state),
         table # "deuces_wild"
  PROVE  Soundly(T!ConfirmOrCancel(r), d, K) /\ Soundly(T!ConfirmOrStop(r), d, K)
<1> DEFINE x == r.state.active
<1>1. x # None /\ x \in T!Rounds(r.state) /\ x \in T!Round
  BY RoundsAreRounds DEF T!OpeningPending, Ready
<1>2. Soundly(T!Go(r, T!Put(r.state, [x EXCEPT !.opening = "complete"]), x, <<"save">>), d, K)
  BY <1>1, Marking, PutSaved
<1>3. Soundly(T!Go(r, T!CancelRound(r.state, x), x, <<"save">>), d, K)
  BY <1>1, CancelSaved
<1>4. \A k : Soundly(T!Go(T!Missing(r, k), T!CancelRound(r.state, x), x, <<"save">>), d, K)
  <2> TAKE k
  <2>1. T!Go(T!Missing(r, k), T!CancelRound(r.state, x), x, <<"save">>)
          = T!Missing(T!Go(r, T!CancelRound(r.state, x), x, <<"save">>), k)
    BY DEF T!Go, T!Missing, Ready, RequestFields
  <2> QED BY <2>1, <1>3, Wrapped
<1>5. Soundly(T!ConfirmOrCancel(r), d, K)
  BY <1>2, <1>4 DEF T!ConfirmOrCancel
<1>6. Soundly(T!ConfirmOrStop(r), d, K)
  BY <1>5, Wrapped DEF T!ConfirmOrStop
<1> QED BY <1>5, <1>6

(* The repair of a payout that is due.                                       *)
LEMMA PayDueSound ==
  ASSUME T!NoneAssumption, NEW d, NEW K, NEW r, Ready(r, d), NEW n \in T!PayDue(r)
  PROVE  Soundly(n, d, K)
<1>1. PICK x \in r.state.recent : n = T!Go(r, r.state, x, T!Pay)
  BY DEF T!PayDue
<1>2. x \in T!Rounds(r.state)
  BY DEF T!Rounds
<1> QED BY <1>1, <1>2, StaysFor, PartFits, PlansAreSome

(* Repairs, table by table: Hi-Lo, Pai Gow Poker.                            *)
LEMMA HiLoRecovers ==
  ASSUME T!NoneAssumption, NEW d, NEW K, NEW r, Ready(r, d), table # "deuces_wild",
         NEW n \in T!HiLoRecover(r) \cup T!PaiGowRecover(r)
  PROVE  Soundly(n, d, K)
<1>1. \A m \in T!PayDue(r) : Soundly(m, d, K)
  BY PayDueSound
<1> QED BY <1>1, ConfirmSound DEF T!HiLoRecover, T!PaiGowRecover

(* The raise of a round that is being played is taken back.                  *)
LEMMA PlayReset ==
  ASSUME T!NoneAssumption, NEW d, NEW K, NEW r, Ready(r, d), table # "deuces_wild",
         r.state.active # None
  PROVE  LET x == r.state.active
         IN  /\ Soundly(T!Go(r, T!ResetUncommittedPlay(r.state, x), x, <<"save">>), d, K)
             /\ Soundly(T!Go(r, T!ResetUncommittedBet(r.state, x), x, <<"save">>), d, K)
<1> DEFINE s == r.state
           x == s.active
<1>1. DocSound(s, d) /\ x \in T!Rounds(s) /\ x \in T!Round /\ x.phase \notin Over
  BY RoundsAreRounds DEF Ready, DocSound
<1>2. ASSUME NEW y, NEW a, Becomes(x, y), y.phase \notin Over
      PROVE  Soundly(T!Go(r, T!Forget(T!Put(s, y), a), x, <<"save">>), d, K)
  <2>1. Swaps(s, T!Put(s, y), x, y, d)
    BY <1>1, <1>2, PutSwaps
  <2>2. DocSound(T!Forget(T!Put(s, y), a), d) /\ Keeps(s, T!Forget(T!Put(s, y), a))
    BY <2>1, Forgotten, KeepsSame DEF Swaps
  <2> QED BY <2>2, SaveFits, Goes
<1>3. LET y == [x EXCEPT !.action = None, !.choice = None, !.phase = "decision",
                         !.play = "not_ready"]
      IN Becomes(x, y) /\ y.phase \notin Over
  BY <1>1 DEF Becomes, Terminal, T!Round, T!Marks, Over
<1>4. LET y == [x EXCEPT !.pending = None, !.play = "not_ready"]
      IN Becomes(x, y) /\ y.phase \notin Over
  BY <1>1 DEF Becomes, Terminal, T!Round, T!Marks, Over
<1> QED BY <1>2, <1>3, <1>4 DEF T!ResetUncommittedPlay, T!ResetUncommittedBet

(* Four Card Poker.                                                          *)
LEMMA FourCardRecovers ==
  ASSUME T!NoneAssumption, NEW d, NEW K, NEW r, Ready(r, d), table # "deuces_wild",
         NEW n \in T!FourCardRecover(r)
  PROVE  Soundly(n, d, K)
<1> DEFINE x == r.state.active
<1>1. CASE T!OpeningPending(r.state)
  BY <1>1, ConfirmSound DEF T!FourCardRecover
<1>2. CASE ~T!OpeningPending(r.state) /\ x # None /\ x.phase = "playing"
  <2>1. x \in T!Rounds(r.state) /\ x \in T!Round /\ x.id \in Ids(r.state)
    BY <1>2, RoundsAreRounds DEF Ready, Ids
  <2>2. Soundly(T!Go(r, r.state, x, <<"settle">>), d, K)
    BY <2>1, <1>2, StaysFor, PartFits, PlansAreSome
  <2>3. Soundly(T!Go(r, T!Put(r.state, [x EXCEPT !.play = "complete"]), x, <<"save">>), d, K)
    BY <2>1, Marking, PutSaved
  <2>4. \A k : Soundly(T!Handled(T!Go(T!Missing(r, k), T!ResetUncommittedPlay(r.state, x), x, <<"save">>)), d, K)
    <3> TAKE k
    <3>1. T!Go(T!Missing(r, k), T!ResetUncommittedPlay(r.state, x), x, <<"save">>)
            = T!Missing(T!Go(r, T!ResetUncommittedPlay(r.state, x), x, <<"save">>), k)
      BY DEF T!Go, T!Missing, Ready, RequestFields
    <3> QED BY <3>1, <1>2, PlayReset, Wrapped
  <2> QED BY <1>2, <2>2, <2>3, <2>4 DEF T!FourCardRecover
<1>3. CASE ~T!OpeningPending(r.state) /\ ~(x # None /\ x.phase = "playing")
  BY <1>3, PayDueSound DEF T!FourCardRecover
<1> QED BY <1>1, <1>2, <1>3

(* Mississippi Stud.                                                         *)
LEMMA MississippiRecovers ==
  ASSUME T!NoneAssumption, NEW d, NEW K, NEW r, Ready(r, d), table # "deuces_wild",
         NEW n \in T!MississippiRecover(r)
  PROVE  Soundly(n, d, K)
<1> DEFINE x == r.state.active
<1>1. CASE T!OpeningPending(r.state)
  BY <1>1, ConfirmSound DEF T!MississippiRecover
<1>2. CASE ~T!OpeningPending(r.state) /\ x # None /\ x.play = "pending"
  <2>1. x \in T!Rounds(r.state) /\ x \in T!Round /\ x.id \in Ids(r.state)
    BY <1>2, RoundsAreRounds DEF Ready, Ids
  <2>2. Soundly(T!Go(r, T!Put(r.state, [x EXCEPT !.play = "complete"]), x, <<"save", "settle">>), d, K)
    <3> DEFINE y == [x EXCEPT !.play = "complete"]
               t == T!Put(r.state, y)
    <3>0. Marked2(x, y)
      BY <2>1, Marking
    <3>1. Swaps(r.state, t, x, y, d) /\ t.active = y /\ Marked2(x, y)
      <4> HIDE DEF y
      <4> QED BY <2>1, <3>0, PutSaved
    <3>2. y # None /\ y.id = x.id
      BY <3>1 DEF Marked2, T!NoneAssumption
    <3>3. x.id \in Ids(t)
      BY <2>1, <3>1 DEF Swaps
    <3>4. PlanFits(<<"save", "settle">>, t, x.id) /\ <<"save", "settle">> # <<>>
      BY <3>1, <3>2, <3>3, SaveSettleFits
    <3> QED BY <3>1, <3>4, Goes DEF Swaps
  <2>3. \A k : Soundly(T!Go(T!Missing(r, k), T!ResetUncommittedBet(r.state, x), x, <<"save">>), d, K)
    <3> TAKE k
    <3>1. T!Go(T!Missing(r, k), T!ResetUncommittedBet(r.state, x), x, <<"save">>)
            = T!Missing(T!Go(r, T!ResetUncommittedBet(r.state, x), x, <<"save">>), k)
      BY DEF T!Go, T!Missing, Ready, RequestFields
    <3> QED BY <3>1, <1>2, PlayReset, Wrapped
  <2> QED BY <1>2, <2>2, <2>3 DEF T!MississippiRecover
<1>3. CASE ~T!OpeningPending(r.state) /\ ~(x # None /\ x.play = "pending")
  BY <1>3, PayDueSound DEF T!MississippiRecover
<1> QED BY <1>1, <1>2, <1>3

(* A wager that never reached the ledger: its round is active again.         *)
LEMMA RestoreSaved ==
  ASSUME T!NoneAssumption, NEW d, NEW K, NEW r, Ready(r, d), table # "deuces_wild",
         NEW x \in r.state.recent, x.opening = "pending", r.state.active = None
  PROVE  Soundly(T!Go(r, T!RestoreUncommittedPlay(r.state, x), x, <<"save">>), d, K)
<1> DEFINE s == r.state
           y == [x EXCEPT !.phase = "decision", !.action = None, !.choice = None,
                          !.opening = "not_ready", !.settlement = "not_ready"]
           u == [s EXCEPT !.recent = @ \ {x}, !.active = y]
<1>1. DocSound(s, d) /\ x \in T!Rounds(s) /\ x \in T!Round /\ x.phase \in Over
  BY DEF Ready, DocSound, T!Rounds
<1>2. y \in T!Round /\ y.id = x.id /\ y.start = x.start /\ y.phase = "decision" /\ y # None
  <2>1. y \in T!Round /\ y.id = x.id /\ y.start = x.start /\ y.phase = "decision"
    BY ZenonT(60), <1>1 DEF T!Round, T!Marks, Over
  <2> QED BY <2>1 DEF T!NoneAssumption
<1> HIDE DEF y
<1>3. u.active = y /\ u.recent = s.recent \ {x} /\ u.receipts = s.receipts
      /\ DOMAIN u = {"active", "recent", "receipts"}
  BY <1>1 DEF DocSound
<1> HIDE DEF u
<1>4. T!Rounds(s) = s.recent /\ T!Rounds(u) = (s.recent \ {x}) \cup {y}
  BY <1>2, <1>3 DEF T!Rounds
<1>5. DocSound(u, d)
  BY <1>1, <1>2, <1>3, <1>4 DEF DocSound, RoundFits, Over
<1>6. Keeps(s, u)
  BY <1>3, <1>4 DEF Keeps, Terminal
<1>7. DocSound(T!Forget(u, x.action), d) /\ Keeps(s, T!Forget(u, x.action))
  BY <1>5, <1>6, Forgotten, KeepsSame
<1>8. T!RestoreUncommittedPlay(s, x) = T!Forget(u, x.action)
  BY DEF T!RestoreUncommittedPlay, u, y
<1> QED BY <1>7, <1>8, SaveFits, Goes

(* Acey Deucey.                                                              *)
LEMMA AceyRecovers ==
  ASSUME T!NoneAssumption, NEW d, NEW K, NEW r, Ready(r, d), table # "deuces_wild",
         NEW n \in T!AceyRecover(r)
  PROVE  Plainly(n, d, K)
<1> DEFINE due == {x \in r.state.recent : x.opening = "pending"}
<1>1. CASE due = {}
  BY <1>1, PayDueSound DEF T!AceyRecover, Plainly
<1>2. CASE due # {}
  <2>1. PICK x \in due :
          LET k == T!Keys(x).opening
          IN n \in IF k \in DOMAIN rows
                   THEN {T!Go(r, T!Put(r.state, [x EXCEPT !.opening = "complete"]), x, <<"save">>)}
                   ELSE IF r.state.active # None THEN {None}
                   ELSE {T!Go(T!Missing(r, k), T!RestoreUncommittedPlay(r.state, x), x, <<"save">>)}
    BY <1>2 DEF T!AceyRecover
  <2>2. x \in r.state.recent /\ x.opening = "pending" /\ x \in T!Rounds(r.state) /\ x \in T!Round
    BY RoundsAreRounds DEF Ready, T!Rounds, DocSound
  <2>3. Soundly(T!Go(r, T!Put(r.state, [x EXCEPT !.opening = "complete"]), x, <<"save">>), d, K)
    BY <2>2, Marking, PutSaved
  <2>4. r.state.active = None =>
          \A k : Soundly(T!Go(T!Missing(r, k), T!RestoreUncommittedPlay(r.state, x), x, <<"save">>), d, K)
    <3> SUFFICES ASSUME r.state.active = None, NEW k
                 PROVE  Soundly(T!Go(T!Missing(r, k), T!RestoreUncommittedPlay(r.state, x), x, <<"save">>), d, K)
      OBVIOUS
    <3>1. T!Go(T!Missing(r, k), T!RestoreUncommittedPlay(r.state, x), x, <<"save">>)
            = T!Missing(T!Go(r, T!RestoreUncommittedPlay(r.state, x), x, <<"save">>), k)
      BY DEF T!Go, T!Missing, Ready, RequestFields
    <3> QED BY <3>1, <2>2, RestoreSaved, Wrapped
  <2> QED BY <2>1, <2>3, <2>4 DEF Plainly
<1> QED BY <1>1, <1>2

(* Plinko.                                                                   *)
LEMMA PlinkoRecovers ==
  ASSUME T!NoneAssumption, NEW d, NEW K, NEW r, Ready(r, d), NEW n \in T!PlinkoRecover(r)
  PROVE  Soundly(n, d, K)
<1>1. \A x \in r.state.recent : x \in T!Rounds(r.state) /\ x \in T!Round
  BY RoundsAreRounds DEF Ready, T!Rounds, DocSound
<1>2. \A x \in r.state.recent :
        Soundly(T!Go(r, T!Put(r.state, [x EXCEPT !.opening = "complete"]), x, <<"save">>), d, K)
  BY <1>1, Marking, PutSaved
<1>3. \A x \in r.state.recent : Soundly(T!Go(r, r.state, x, T!Pay), d, K)
  BY <1>1, StaysFor, PartFits, PlansAreSome
<1> QED BY <1>2, <1>3 DEF T!PlinkoRecover

(* Andar Bahar.                                                              *)
LEMMA AndarBaharRecovers ==
  ASSUME T!NoneAssumption, NEW d, NEW K, NEW r, Ready(r, d), NEW n \in T!AndarBaharRecover(r)
  PROVE  Soundly(n, d, K)
<1>1. \A x \in r.state.recent : x \in T!Rounds(r.state)
  BY DEF T!Rounds
<1>2. \A x \in r.state.recent : Soundly(T!Go(r, r.state, x, T!Stake), d, K)
  BY <1>1, StaysFor, PartFits, PlansAreSome
<1> QED BY <1>2, PayDueSound DEF T!AndarBaharRecover

(* Deuces Wild.                                                              *)
LEMMA DeucesRecovers ==
  ASSUME T!NoneAssumption, NEW d, NEW K, NEW r, Ready(r, d), NEW n \in T!DeucesRecover(r)
  PROVE  Soundly(n, d, K)
<1>1. \A x \in r.state.recent : Soundly(T!Go(r, r.state, x, T!Pay), d, K)
  <2>1. \A x \in r.state.recent : x \in T!Rounds(r.state)
    BY DEF T!Rounds
  <2> QED BY <2>1, StaysFor, PartFits, PlansAreSome
<1>2. T!OpeningPending(r.state) => Soundly(T!Go(r, r.state, r.state.active, T!Stake), d, K)
  <2>1. T!OpeningPending(r.state) => r.state.active \in T!Rounds(r.state)
    BY DEF T!OpeningPending, T!Rounds
  <2> QED BY <2>1, StaysFor, PartFits, PlansAreSome
<1> QED BY <1>1, <1>2 DEF T!DeucesRecover

(* Caribbean Stud.                                                           *)
LEMMA CaribbeanRecovers ==
  ASSUME T!NoneAssumption, NEW d, NEW K, NEW r, Ready(r, d), table # "deuces_wild",
         NEW n \in T!CaribbeanRecover(r)
  PROVE  Plainly(n, d, K)
<1>1. \A x \in T!Rounds(r.state) : x \in T!Round
  BY RoundsAreRounds DEF Ready
<1>2. ASSUME NEW x \in T!Rounds(r.state)
      PROVE  /\ Soundly(T!Go(r, T!Put(r.state, [x EXCEPT !.opening = "complete", !.attempt = None]), x, <<"save">>), d, K)
             /\ Soundly(T!Go(r, T!Put(r.state, [x EXCEPT !.play = "complete", !.attempt = None]), x, <<"save">>), d, K)
             /\ Soundly(T!Go(r, T!Put(r.state, [x EXCEPT !.settlement = "complete", !.attempt = None]), x, <<"save">>), d, K)
  <2>1. ASSUME NEW y \in T!Round, Marked2(x, y)
        PROVE  Soundly(T!Go(r, T!Put(r.state, [y EXCEPT !.attempt = None]), x, <<"save">>), d, K)
    <3>1. Marked2(y, [y EXCEPT !.attempt = None])
      BY Marking
    <3>2. Marked2(x, [y EXCEPT !.attempt = None])
      BY <2>1, <3>1, MarkedTwice
    <3> QED BY <3>2, PutSaved
  <2>2. \A y : Marked2(x, y) => y \in T!Round
    BY DEF Marked2
  <2> QED BY <2>1, <2>2, <1>1, Marking
<1>3. CASE T!OpeningPending(r.state)
  <2>1. r.state.active \in T!Rounds(r.state) /\ r.state.active # None
    BY <1>3 DEF T!OpeningPending, T!Rounds
  <2>2. Soundly(T!Go(r, T!CancelRound(r.state, r.state.active), r.state.active, <<"save">>), d, K)
    BY <2>1, CancelSaved
  <2> QED BY <1>2, <1>3, <2>1, <2>2 DEF T!CaribbeanRecover, T!CaribbeanRecoverAnte, Plainly
<1>4. CASE ~T!OpeningPending(r.state)
  <2>1. PICK x \in r.state.recent : n \in T!CaribbeanRecoverSettled(r, x)
    BY <1>4 DEF T!CaribbeanRecover
  <2>2. x \in T!Rounds(r.state)
    BY DEF T!Rounds
  <2> QED BY <2>1, <2>2, <1>2 DEF T!CaribbeanRecoverSettled, Plainly
<1> QED BY <1>3, <1>4

(* The repairs of every table.                                               *)
LEMMA RecoverSound ==
  ASSUME T!NoneAssumption, table \in T!AllTables, NEW d, NEW K, NEW r, Ready(r, d), NEW n \in T!Recover(r)
  PROVE  Plainly(n, d, K)
<1>1. CASE table \in {"hi_lo", "double_bonus", "joker_poker", "pai_gow_poker"}
  <2>1. n \in T!HiLoRecover(r) \cup T!PaiGowRecover(r)
    BY <1>1 DEF T!Recover, T!DoubleBonusRecover, T!JokerRecover
  <2> QED BY <2>1, <1>1, HiLoRecovers DEF Plainly
<1>2. CASE table \in {"four_card_poker", "casino_holdem", "teen_patti"}
  <2>1. n \in T!FourCardRecover(r)
    BY <1>2 DEF T!Recover, T!HoldemRecover, T!TeenPattiRecover
  <2> QED BY <2>1, <1>2, FourCardRecovers DEF Plainly
<1>3. CASE table = "mississippi_stud"
  BY <1>3, MississippiRecovers DEF T!Recover, Plainly
<1>4. CASE table = "acey_deucey"
  BY <1>4, AceyRecovers DEF T!Recover
<1>5. CASE table = "plinko"
  BY <1>5, PlinkoRecovers DEF T!Recover, Plainly
<1>6. CASE table = "andar_bahar"
  BY <1>6, AndarBaharRecovers DEF T!Recover, Plainly
<1>7. CASE table = "caribbean_stud"
  BY <1>7, CaribbeanRecovers DEF T!Recover
<1>8. CASE table = "deuces_wild"
  BY <1>8, DeucesRecovers DEF T!Recover, Plainly
<1>9. CASE table = "jacks_or_better"
  BY <1>9 DEF T!Recover
<1> QED BY <1>1, <1>2, <1>3, <1>4, <1>5, <1>6, <1>7, <1>8, <1>9 DEF T!AllTables

-----------------------------------------------------------------------------
(* Starts                                                                    *)

(* A plan fits a document with the same rounds.                              *)
LEMMA SameFits ==
  ASSUME NEW s, NEW t, Ids(t) = Ids(s), t.active = s.active, NEW p, NEW id, PlanFits(p, s, id)
  PROVE  PlanFits(p, t, id)
  BY DEF PlanFits

(* A receipt is written, and the steps p follow.                             *)
LEMMA RepliesFor ==
  ASSUME T!NoneAssumption, NEW d, NEW K, NEW r, Ready(r, d), NEW x \in T!Rounds(r.state), NEW p,
         NEW a, NEW stage, p # <<>>, x.id \in Ids(r.state) => PlanFits(p, r.state, x.id)
  PROVE  Soundly(T!Go(r, T!Remember(r.state, a, stage, x), x, p), d, K)
<1> DEFINE t == T!Remember(r.state, a, stage, x)
<1>1. x.id \in Ids(r.state) /\ DocSound(r.state, d)
  BY DEF Ids, Ready
<1>2. /\ DocSound(t, d) /\ Ids(t) = Ids(r.state)
      /\ t.active = r.state.active /\ t.recent = r.state.recent
  BY <1>1, Remembered
<1>3. Keeps(r.state, t)
  BY <1>1, <1>2, KeepsItself, KeepsSame
<1>4. PlanFits(p, t, x.id)
  BY <1>1, <1>2, SameFits
<1> QED BY <1>2, <1>3, <1>4, Goes

(* A request to start a round, where no round has its id.                    *)
Starts(r, d) == Ready(r, d) /\ r.stage = "answer" /\ r.request.op = "start"
NewId(r) == IF table = "jacks_or_better" THEN deals + 1 ELSE r.request.action

(* A new round waits for its stake, or for a wager to be made.               *)
LEMMA NewRounds ==
  ASSUME deals \in Nat, NEW d, NEW r, Starts(r, d), NEW y \in T!NewRound(r)
  PROVE  /\ y \in T!Round /\ y.id = NewId(r) /\ y.start = r.request.action
         /\ y.phase = "decision" /\ y.opening \in {"pending", "not_ready"} /\ y.play = "not_ready"
         /\ table # "acey_deucey" => y.opening = "pending"
<1>1. PICK wins \in BOOLEAN : y = T!CreateRound(r.request.action, wins)
  BY DEF T!NewRound
<1>2. r.request.action \in Nat
  BY DEF Starts, Ready, Asked
<1>3. <<>> \in Seq(Nat \cup {None})
  BY EmptySeq
<1> QED BY <1>1, <1>2, <1>3 DEF T!CreateRound, NewId, T!Round, T!Marks

(* It takes the empty place of the active round.                             *)
LEMMA SeatSound ==
  ASSUME T!NoneAssumption, deals \in Nat, NEW d, NEW r, Starts(r, d), NEW y \in T!NewRound(r),
         r.state.active = None, NewId(r) \notin Ids(r.state), RoundFits(y, d),
         NEW t, t \in {T!Seated(r, y), [r.state EXCEPT !.active = y]},
         (t = T!Seated(r, y) /\ NewId(r) = r.request.action) \/ table # "deuces_wild"
  PROVE  /\ DocSound(t, d) /\ Keeps(r.state, t) /\ t.active = y
         /\ T!Rounds(t) = T!Rounds(r.state) \cup {y} /\ Ids(t) = Ids(r.state) \cup {y.id}
<1>1. y \in T!Round /\ y.id = NewId(r) /\ y.phase \notin Over
  BY NewRounds DEF Over
<1>2. /\ DOMAIN t = {"active", "recent", "receipts"} /\ t.active = y /\ t.recent = r.state.recent
      /\ t = T!Seated(r, y) => DOMAIN t.receipts = DOMAIN r.state.receipts \cup {r.request.action}
  <2>1. DOMAIN r.state = {"active", "recent", "receipts"}
    BY DEF Starts, Ready, DocSound
  <2>2. CASE t = [r.state EXCEPT !.active = y] /\ t # T!Seated(r, y)
    BY <2>1, <2>2
  <2>3. CASE t = T!Seated(r, y)
    BY <2>1, <2>3 DEF T!Seated, T!Remember
  <2> QED BY <2>2, <2>3
<1>3. table = "deuces_wild" => DOMAIN r.state.receipts \cup {y.id} \subseteq DOMAIN t.receipts
  BY <1>1, <1>2
<1>4. DocSound(r.state, d) /\ y.id \notin Ids(r.state)
  BY <1>1 DEF Starts, Ready
<1> HIDE DEF NewId
<1>5. DocSound(t, d) /\ Keeps(r.state, t)
      /\ T!Rounds(t) = T!Rounds(r.state) \cup {y} /\ Ids(t) = Ids(r.state) \cup {y.id}
  BY <1>1, <1>2, <1>3, <1>4, Comes
<1> QED BY <1>2, <1>5

(* The round is published with its stake to take.                            *)
LEMMA PrepareSound ==
  ASSUME T!NoneAssumption, NEW d, NEW K, NEW r, Starts(r, d), NEW y \in T!Round,
         ~Terminal(y), y.id \notin Ids(r.state),
         NEW t, DocSound(t, d), Keeps(r.state, t),
         T!Rounds(t) = T!Rounds(r.state) \cup {y}, Ids(t) = Ids(r.state) \cup {y.id},
         NEW plan, Closes(plan, t, y.id)
  PROVE  WorkSound(T!PrepareStart(r, y, t, plan), d, K)
<1> DEFINE p == <<"save">> \o plan
<1>1. Closes(p, t, y.id)
  <2>1. "save" \in Steps \ {"settle", "play"}
    BY DEF Steps
  <2> QED BY <2>1, ConsCloses
<1> HIDE DEF p
<1>2. \A z \in T!Rounds(r.state) : z.id # y.id
  BY DEF Ids
<1>3. \A z \in T!Rounds(r.state) \cup T!Rounds(t) :
        IF z.id = y.id THEN ~Terminal(z) ELSE z \in T!Rounds(r.state)
  BY <1>2
<1>4. \A z \in T!Rounds(t) : z.id = y.id /\ z.phase \in Over =>
        \A i \in 1..Len(p) : p[i] \in {"opening", "play"} => T!Keys(z)[p[i]] = T!Keys(y).opening
  <2> SUFFICES ASSUME NEW z \in T!Rounds(t), z.id = y.id, z.phase \in Over
               PROVE  \A i \in 1..Len(p) : p[i] \in {"opening", "play"} =>
                          T!Keys(z)[p[i]] = T!Keys(y).opening
    OBVIOUS
  <2>1. z = y
    BY <1>2
  <2>2. \A i \in 1..Len(p) : p[i] \in {"opening", "play"} => p[i] = "opening"
    BY <1>1 DEF Closes
  <2> QED BY <2>1, <2>2
<1>5. PlanFits(p, t, y.id) /\ p # <<>> /\ Len(p) > 0 /\ Len(p) \in Nat /\ p[Len(p) - 0] = "save"
  BY <1>1, LenProperties DEF Closes, PlanFits
<1>6. Ready(r, d) /\ r.stage = "answer"
  BY DEF Starts
<1>7. WorkSound(T!Guarded(T!Go(r, t, y, p), T!Keys(y).opening, Len(plan), 0), d, K)
  BY <1>3, <1>4, <1>5, <1>6, Guards
<1> QED BY <1>7 DEF T!PrepareStart, p

(* The usual start: the round is seated, and published with its stake to take. *)
LEMMA SeatedPrepared ==
  ASSUME T!NoneAssumption, deals \in Nat, NEW d, NEW K, NEW r, Starts(r, d), NEW y \in T!NewRound(r),
         r.state.active = None, NewId(r) \notin Ids(r.state), RoundFits(y, d),
         NEW t, t \in {T!Seated(r, y), [r.state EXCEPT !.active = y]},
         (t = T!Seated(r, y) /\ NewId(r) = r.request.action) \/ table # "deuces_wild",
         NEW plan, y.id \in Ids(t) => Closes(plan, t, y.id)
  PROVE  WorkSound(T!PrepareStart(r, y, t, plan), d, K)
<1>1. y \in T!Round /\ y.id = NewId(r) /\ y.phase \notin Over
  BY NewRounds DEF Over
<1>2. /\ DocSound(t, d) /\ Keeps(r.state, t) /\ t.active = y
      /\ T!Rounds(t) = T!Rounds(r.state) \cup {y} /\ Ids(t) = Ids(r.state) \cup {y.id}
  BY SeatSound
<1> QED BY <1>1, <1>2, PrepareSound DEF Terminal

(* The looks of a start before it deals.                                     *)
LEMMA NoRoundId ==
  ASSUME T!NoneAssumption, NEW d, NEW r, Starts(r, d), table # "jacks_or_better",
         T!RoundForStart(r.state, r.request.action) = None
  PROVE  NewId(r) \notin Ids(r.state)
<1>1. DocSound(r.state, d)
  BY DEF Starts, Ready
<1>2. \A x \in T!Rounds(r.state) : x.start # r.request.action
  BY <1>1, ForStart
<1>3. \A x \in T!Rounds(r.state) : x.id = x.start
  BY <1>1 DEF DocSound, RoundFits
<1> QED BY <1>2, <1>3 DEF NewId, Ids

(* A receipt is written, and steps follow that end in a publication.         *)
LEMMA Replies ==
  ASSUME T!NoneAssumption, NEW d, NEW K, NEW r, Ready(r, d), NEW x \in T!Rounds(r.state), NEW p,
         NEW a, NEW stage, Closes(p, r.state, x.id)
  PROVE  Soundly(T!Go(r, T!Remember(r.state, a, stage, x), x, p), d, K)
  BY RepliesFor DEF Closes

(* A publication alone ends in one.                                          *)
LEMMA SaveCloses == ASSUME NEW s, NEW id PROVE Closes(<<"save">>, s, id)
<1>1. <<"save">> # <<>> /\ Len(<<"save">>) = 1 /\ <<"save">>[1] = "save"
  OBVIOUS
<1>2. \A i \in 1..1 : i = 1
  OBVIOUS
<1> QED BY <1>1, <1>2, SaveFits DEF Closes

(* Starts, table by table: Hi-Lo, Double Bonus.                              *)
LEMMA HiLoStarts ==
  ASSUME T!NoneAssumption, deals \in Nat, NEW d, NEW K, NEW r, Starts(r, d),
         table \notin {"jacks_or_better", "deuces_wild"},
         NEW n \in T!HiLoStart(r) \cup T!DoubleBonusStart(r)
  PROVE  n = None \/ WorkSound(n, d, K)
<1> DEFINE a == r.request.action
           x == T!RoundForStart(r.state, a)
<1>1. x # None => x \in T!Rounds(r.state) /\ x.id \in Ids(r.state)
  BY ForStart DEF Starts, Ready, Ids
<1>2. x # None => Soundly(T!Go(r, T!Remember(r.state, a, "deal", x), x, T!Stake), d, K)
  BY <1>1, PartCloses, Replies DEF Starts
<1>3. ASSUME x = None, r.state.active = None, NEW y \in T!NewRound(r)
      PROVE  WorkSound(T!PrepareStart(r, y, T!Seated(r, y), T!Stake), d, K)
  <2>1. NewId(r) \notin Ids(r.state) /\ RoundFits(y, d) /\ NewId(r) = r.request.action
    BY <1>3, NoRoundId, NewRounds DEF RoundFits, NewId
  <2> QED BY <1>3, <2>1, SeatedPrepared, PartCloses
<1>4. n \in T!HiLoStart(r) => n = None \/ WorkSound(n, d, K)
  BY <1>2, <1>3 DEF T!HiLoStart, T!ReplayStart, Soundly
<1>5. n \in T!DoubleBonusStart(r) => n = None \/ WorkSound(n, d, K)
  BY <1>2, <1>3 DEF T!DoubleBonusStart, Soundly
<1> QED BY <1>4, <1>5

(* Acey Deucey.                                                              *)
LEMMA AceyDeals ==
  ASSUME T!NoneAssumption, deals \in Nat, NEW d, NEW K, NEW r, Starts(r, d),
         table \notin {"jacks_or_better", "deuces_wild"}, NEW n \in T!AceyDeal(r)
  PROVE  n = None \/ WorkSound(n, d, K)
<1> DEFINE a == r.request.action
           x == T!RoundForStart(r.state, a)
<1>1. x # None => x \in T!Rounds(r.state) /\ x.id \in Ids(r.state)
  BY ForStart DEF Starts, Ready, Ids
<1>2. x # None => Soundly(T!Go(r, T!Remember(r.state, a, "deal", x), x, <<"save">>), d, K)
  BY <1>1, SaveCloses, Replies DEF Starts
<1>3. ASSUME x = None, r.state.active = None, NEW y \in T!NewRound(r)
      PROVE  Soundly(T!Go(r, T!Seated(r, y), y, <<"save">>), d, K)
  <2>1. NewId(r) \notin Ids(r.state) /\ RoundFits(y, d) /\ NewId(r) = r.request.action
    BY <1>3, NoRoundId, NewRounds DEF RoundFits, NewId
  <2>2. DocSound(T!Seated(r, y), d) /\ Keeps(r.state, T!Seated(r, y))
    BY <1>3, <2>1, SeatSound
  <2> QED BY <2>2, SaveFits, Goes DEF Starts
<1> QED BY <1>2, <1>3 DEF T!AceyDeal, Soundly

(* Plinko and Andar Bahar, where the round is over at once.                  *)
LEMMA PlinkoDrops ==
  ASSUME T!NoneAssumption, deals \in Nat, NEW d, NEW K, NEW r, Starts(r, d),
         table \in {"plinko", "andar_bahar"}, NEW n \in T!PlinkoDrop(r)
  PROVE  n = None \/ WorkSound(n, d, K)
<1> DEFINE s == r.state
           a == r.request.action
           x == T!RoundForStart(r.state, a)
<1>1. x # None => x \in T!Rounds(r.state) /\ x.id \in Ids(r.state)
  BY ForStart DEF Starts, Ready, Ids
<1>2. x # None => Soundly(T!Go(r, T!Remember(r.state, a, "deal", x), x, T!Stake \o T!Pay), d, K)
  BY <1>1, PartCloses, Replies DEF Starts
<1>3. ASSUME x = None, NEW z \in T!NewRound(r)
      PROVE  LET y == T!Settled(z, None, "play")
             IN WorkSound(T!PrepareStart(r, y, T!Remember(T!ArchiveRound(s, y), a, "deal", y), T!Stake \o T!Pay), d, K)
  <2> DEFINE y == T!Settled(z, None, "play")
             u == T!ArchiveRound(s, y)
             t == T!Remember(u, a, "deal", y)
  <2>1. /\ z \in T!Round /\ z.id = NewId(r) /\ z.start = a /\ NewId(r) = a
        /\ z.opening = "pending" /\ z.play = "not_ready" /\ NewId(r) \notin Ids(s)
    BY <1>3, NewRounds, NoRoundId DEF NewId
  <2>2. /\ y \in T!Round /\ y.id = z.id /\ y.start = z.start /\ y.opening = "pending"
        /\ y.phase = "settled"
    BY ZenonT(60), <2>1 DEF T!Settled, T!Round, T!Marks
  <2> HIDE DEF y
  <2>3. DocSound(s, d) /\ \A v \in T!Rounds(s) : v.id # y.id
    BY <2>1, <2>2 DEF Starts, Ready, Ids
  <2>4. /\ DOMAIN u = {"active", "recent", "receipts"} /\ u.active = s.active
        /\ u.recent = s.recent \cup {y}
    BY <2>3 DEF T!ArchiveRound, DocSound, T!Rounds
  <2>5. /\ DOMAIN t = {"active", "recent", "receipts"} /\ t.active = s.active
        /\ t.recent = s.recent \cup {y}
    BY <2>4 DEF T!Remember
  <2> HIDE DEF u, t
  <2>6. y.id \notin Ids(s) /\ RoundFits(y, d) /\ y.phase \in Over /\ ~Terminal(y)
    BY <2>1, <2>2 DEF RoundFits, Over, Terminal
  <2>7. /\ DocSound(t, d) /\ Keeps(s, t)
        /\ T!Rounds(t) = T!Rounds(s) \cup {y} /\ Ids(t) = Ids(s) \cup {y.id}
    BY <2>2, <2>3, <2>5, <2>6, Comes
  <2>8. Closes(T!Stake \o T!Pay, t, y.id)
    BY <2>7, PartCloses
  <2>9. WorkSound(T!PrepareStart(r, y, t, T!Stake \o T!Pay), d, K)
    BY <2>2, <2>6, <2>7, <2>8, PrepareSound
  <2> QED BY <2>9 DEF t, u, y
<1>4. ASSUME x = None, n # None
      PROVE  \E z \in T!NewRound(r) :
               n = T!PrepareStart(r, T!Settled(z, None, "play"),
                     T!Remember(T!ArchiveRound(s, T!Settled(z, None, "play")), a, "deal",
                              T!Settled(z, None, "play")), T!Stake \o T!Pay)
  BY <1>4 DEF T!PlinkoDrop
<1> QED BY <1>2, <1>3, <1>4 DEF T!PlinkoDrop, T!ReplayStart, Soundly

(* Caribbean Stud.                                                           *)
LEMMA CaribbeanDeals ==
  ASSUME T!NoneAssumption, deals \in Nat, NEW d, NEW K, NEW r, Starts(r, d),
         table \notin {"jacks_or_better", "deuces_wild"}, NEW n \in T!CaribbeanDeal(r)
  PROVE  n = None \/ WorkSound(n, d, K) \/ n.plan = <<>>
<1> DEFINE a == r.request.action
           x == T!RoundForStart(r.state, a)
           p == <<"attemptOpening">> \o T!Stake
<1>1. x # None => x \in T!Rounds(r.state) /\ x.id \in Ids(r.state)
  BY ForStart DEF Starts, Ready, Ids
<1>2. x # None => Soundly(T!Go(r, T!Remember(r.state, a, "deal", x), x, p), d, K)
  BY <1>1, PartCloses, Replies DEF Starts
<1>3. ASSUME x = None, r.state.active = None, NEW y \in T!NewRound(r)
      PROVE  WorkSound(T!PrepareStart(r, y, T!Seated(r, y), p), d, K)
  <2>1. NewId(r) \notin Ids(r.state) /\ RoundFits(y, d) /\ NewId(r) = r.request.action
    BY <1>3, NoRoundId, NewRounds DEF RoundFits, NewId
  <2> QED BY <1>3, <2>1, SeatedPrepared, PartCloses
<1>4. T!Go(r, T!Remember(r.state, a, "deal", x), x, <<>>).plan = <<>>
  BY DEF T!Go, Starts, Ready, RequestFields
<1> QED BY <1>2, <1>3, <1>4 DEF T!CaribbeanDeal, Soundly

(* Jacks or Better, which numbers its rounds.                                *)
LEMMA JacksStarts ==
  ASSUME T!NoneAssumption, deals \in Nat, NEW d, d = deals, NEW K, NEW r, Starts(r, d),
         table = "jacks_or_better", NEW n \in T!JacksStart(r)
  PROVE  \/ n = None \/ WorkSound(n, d, K)
         \/ /\ WorkSound(n, d + 1, K) /\ n.round = d + 1
            /\ n.base = r.state /\ n.request = r.request /\ n.stage = "answer"
<1> DEFINE a == r.request.action
           x == T!RoundForStart(r.state, a)
<1>1. x # None => x \in T!Rounds(r.state) /\ x.id \in Ids(r.state)
  BY ForStart DEF Starts, Ready, Ids
<1>2. x # None => Soundly(T!Go(r, r.state, x, T!Stake), d, K)
  BY <1>1, PartCloses, StaysFor DEF Starts, Closes
<1>3. ASSUME r.state.active = None, NEW y \in T!NewRound(r)
      PROVE  LET t == [r.state EXCEPT !.active = y]
             IN  /\ WorkSound(T!PrepareStart(r, y, t, T!Stake), d + 1, K)
                 /\ T!PrepareStart(r, y, t, T!Stake).round = d + 1
                 /\ T!PrepareStart(r, y, t, T!Stake).base = r.state
                 /\ T!PrepareStart(r, y, t, T!Stake).request = r.request
                 /\ T!PrepareStart(r, y, t, T!Stake).stage = "answer"
  <2>1. Starts(r, d + 1)
    BY LaterReady DEF Starts
  <2>2. y.id = d + 1 /\ RoundFits(y, d + 1) /\ NewId(r) = d + 1
    BY NewRounds DEF RoundFits, NewId
  <2>3. d + 1 \notin Ids(r.state)
    <3> SUFFICES ASSUME NEW v \in T!Rounds(r.state), v.id = d + 1 PROVE FALSE
      BY DEF Ids
    <3> QED BY DEF Starts, Ready, DocSound, RoundFits
  <2>4. WorkSound(T!PrepareStart(r, y, [r.state EXCEPT !.active = y], T!Stake), d + 1, K)
    BY <1>3, <2>1, <2>2, <2>3, SeatedPrepared, PartCloses
  <2>5. /\ T!PrepareStart(r, y, [r.state EXCEPT !.active = y], T!Stake).round = y.id
        /\ T!PrepareStart(r, y, [r.state EXCEPT !.active = y], T!Stake).base = r.state
        /\ T!PrepareStart(r, y, [r.state EXCEPT !.active = y], T!Stake).request = r.request
        /\ T!PrepareStart(r, y, [r.state EXCEPT !.active = y], T!Stake).stage = "answer"
    BY DEF T!PrepareStart, T!Guarded, T!Go, Starts, Ready, RequestFields
  <2> QED BY <2>2, <2>4, <2>5
<1> QED BY <1>2, <1>3 DEF T!JacksStart, Soundly

(* Deuces Wild.                                                              *)
LEMMA DeucesStarts ==
  ASSUME T!NoneAssumption, deals \in Nat, NEW d, NEW K, NEW r, Starts(r, d),
         table = "deuces_wild", NEW n \in T!DeucesStart(r)
  PROVE  n = None \/ WorkSound(n, d, K)
<1> DEFINE a == r.request.action
           x == T!RoundById(r.state, a)
<1>1. x # None => x \in T!Rounds(r.state) /\ x.id \in Ids(r.state)
  BY ById DEF Starts, Ready, Ids
<1>2. x # None => Soundly(T!Go(r, r.state, x, T!Stake), d, K)
  BY <1>1, PartCloses, StaysFor DEF Starts, Closes
<1>3. ASSUME a \notin DOMAIN r.state.receipts, r.state.active = None, NEW y \in T!NewRound(r)
      PROVE  WorkSound(T!PrepareStart(r, y, T!Seated(r, y), T!Stake), d, K)
  <2>1. NewId(r) = a /\ RoundFits(y, d)
    BY NewRounds DEF RoundFits, NewId
  <2>2. NewId(r) \notin Ids(r.state)
    BY <2>1, <1>3 DEF Starts, Ready, DocSound
  <2> QED BY <1>3, <2>1, <2>2, SeatedPrepared, PartCloses
<1> QED BY <1>2, <1>3 DEF T!DeucesStart, Soundly

-----------------------------------------------------------------------------
(* Decisions                                                                 *)

(* A request that decides a round or holds its cards.                        *)
Decides(r, d) == Ready(r, d) /\ r.stage = "answer"
Answered(n, d, K) == n = None \/ WorkSound(n, d, K) \/ n.plan = <<>>

(* The round a decision is about is one of the document.                     *)
LEMMA WantedIs ==
  ASSUME T!NoneAssumption, NEW d, NEW r, Decides(r, d), T!Wanted(r) # None
  PROVE  LET s == r.state
             x == T!Wanted(r)
         IN  /\ DocSound(s, d) /\ x \in T!Rounds(s) /\ x \in T!Round /\ x.id \in Ids(s)
             /\ T!IsActive(s, x) => s.active # None /\ x = s.active /\ x.phase \notin Over
             /\ x.phase \notin Over => T!IsActive(s, x)
             /\ table # "acey_deucey" => x.phase # "passed"
<1> DEFINE s == r.state
           x == T!Wanted(r)
<1>1. DocSound(s, d) /\ s.active # None => s.active \in T!Rounds(s) /\ s.active.phase \notin Over
  BY RoundsAreRounds DEF Decides, Ready, DocSound
<1>2. x \in T!Rounds(s) /\ x \in T!Round /\ x.id \in Ids(s)
  BY ById, RoundsAreRounds DEF T!Wanted, Decides, Ready, Ids
<1>3. T!IsActive(s, x) => s.active # None /\ x = s.active
  BY <1>1, <1>2 DEF T!IsActive, DocSound, Decides, Ready
<1>4. x.phase \notin Over => T!IsActive(s, x)
  BY <1>2, RoundsAreRounds DEF T!IsActive, Decides, Ready
<1>5. table # "acey_deucey" => x.phase # "passed"
  BY <1>2 DEF DocSound, RoundFits, Decides, Ready
<1> QED BY <1>1, <1>2, <1>3, <1>4, <1>5 DEF Decides, Ready

(* A settled round is over, and its stakes stand as they did.                *)
LEMMA SettledIs ==
  ASSUME NEW x \in T!Round, NEW a \in Nat \cup {None}, NEW c \in {None, "play", "fold", "pass"}
  PROVE  LET y == T!Settled(x, a, c)
         IN  /\ y \in T!Round /\ y.id = x.id /\ y.start = x.start /\ y.phase = "settled"
             /\ y.opening = x.opening /\ y.play = x.play
             /\ T!Pays(y) => y.settlement = "pending"
<1> DEFINE z == [x EXCEPT !.action = a, !.choice = c, !.phase = "settled", !.holds = FALSE]
           y == [z EXCEPT !.settlement = IF T!Pays(z) THEN "pending" ELSE "complete"]
<1>1. /\ z \in T!Round /\ z.id = x.id /\ z.start = x.start /\ z.phase = "settled"
      /\ z.opening = x.opening /\ z.play = x.play
  BY DEF T!Round, T!Marks
<1>2. y = T!Settled(x, a, c)
  BY DEF T!Settled
<1> HIDE DEF z
<1>3. /\ y \in T!Round /\ y.id = z.id /\ y.start = z.start /\ y.phase = z.phase
      /\ y.opening = z.opening /\ y.play = z.play /\ y.wins = z.wins /\ y.choice = z.choice
      /\ y.settlement = IF T!Pays(z) THEN "pending" ELSE "complete"
  BY ZenonT(60), <1>1 DEF T!Round, T!Marks
<1>4. T!Pays(y) <=> T!Pays(z)
  BY <1>3 DEF T!Pays
<1> QED BY <1>1, <1>2, <1>3, <1>4

(* The active round, settled, is among the recent ones, with its receipt or without. *)
LEMMA Archived ==
  ASSUME T!NoneAssumption, NEW d, NEW s, DocSound(s, d), s.active # None, NEW y \in T!Round,
         y.id = s.active.id, y.start = s.active.start, y.phase \in Over,
         y.phase = "passed" => table = "acey_deucey",
         NEW a, NEW stage, NEW z,
         NEW t, t \in {T!ArchiveRound(s, y), T!Remember(T!ArchiveRound(s, y), a, stage, z)}
  PROVE  /\ DocSound(t, d) /\ Keeps(s, t) /\ Ids(t) = Ids(s) /\ t.active = None
         /\ T!Rounds(t) = (T!Rounds(s) \ {s.active}) \cup {y}
<1> DEFINE u == T!ArchiveRound(s, y)
<1>1. Swaps(s, u, s.active, y, d) /\ u.active = None
  BY ArchiveSwaps
<1>2. DocSound(u, d) /\ Keeps(s, u) /\ Ids(u) = Ids(s) /\ u.active = None
      /\ T!Rounds(u) = (T!Rounds(s) \ {s.active}) \cup {y}
  BY <1>1 DEF Swaps
<1> HIDE DEF u
<1>3. CASE t = u
  BY <1>2, <1>3
<1>4. CASE t = T!Remember(u, a, stage, z)
  <2>1. DocSound(t, d) /\ T!Rounds(t) = T!Rounds(u) /\ Ids(t) = Ids(u)
        /\ t.active = u.active /\ t.recent = u.recent
    BY <1>2, <1>4, Remembered
  <2> QED BY <2>1, <1>2, KeepsSame
<1> QED BY <1>3, <1>4 DEF u

(* A fold, and what is paid after it.                                        *)
LEMMA FinishSound ==
  ASSUME T!NoneAssumption, NEW d, NEW K, NEW r, Decides(r, d), T!Wanted(r) # None,
         T!IsActive(r.state, T!Wanted(r)), NEW plan \in {<<>>, T!Pay}
  PROVE  Soundly(T!Finish(r, T!Wanted(r), plan), d, K)
<1> DEFINE s == r.state
           x == T!Wanted(r)
           q == r.request
           y == T!Settled(x, q.action, q.choice)
           t == T!Remember(T!ArchiveRound(s, y), q.action, "decision", x)
<1>1. /\ DocSound(s, d) /\ x \in T!Rounds(s) /\ x \in T!Round /\ x.id \in Ids(s)
      /\ s.active # None /\ x = s.active
  BY WantedIs
<1>2. y \in T!Round /\ y.id = x.id /\ y.start = x.start /\ y.phase = "settled"
  <2>1. q.action \in Nat \cup {None} /\ q.choice \in {None, "play", "fold", "pass"}
    BY DEF Decides, Ready, Asked
  <2> QED BY ZenonT(60), <1>1, <2>1, SettledIs
<1> HIDE DEF y
<1>3. DocSound(t, d) /\ Keeps(s, t) /\ Ids(t) = Ids(s)
  <2>1. /\ y \in T!Round /\ y.id = s.active.id /\ y.start = s.active.start
        /\ y.phase \in Over /\ y.phase # "passed"
    BY <1>1, <1>2 DEF Over
  <2>2. t \in {T!ArchiveRound(s, y), T!Remember(T!ArchiveRound(s, y), q.action, "decision", x)}
    OBVIOUS
  <2> HIDE DEF t, q, x, s
  <2> QED BY <1>1, <2>1, <2>2, Archived
<1>4. PlanFits(<<"save">> \o plan, t, x.id) /\ <<"save">> \o plan # <<>>
  <2>0. x.id \in Ids(t)
    BY <1>1, <1>3
  <2> HIDE DEF t, x, s
  <2>1. CASE plan = <<>>
    <3>1. <<"save">> \o plan = <<"save">>
      BY <2>1
    <3> QED BY <3>1, SaveFits
  <2>2. CASE plan = T!Pay
    <3>1. PlanFits(T!Pay, t, x.id) /\ T!Pay # <<>> /\ "save" \in Steps \ {"settle"}
      <4>1. PlanFits(T!Pay, t, x.id)
        BY <2>0, PartFits
      <4>2. T!Pay # <<>> /\ "save" \in Steps \ {"settle"}
        BY PlansAreSome DEF Steps
      <4> QED BY <4>1, <4>2
    <3>2. PlanFits(<<"save">> \o T!Pay, t, x.id) /\ <<"save">> \o T!Pay # <<>>
      <4> DEFINE p == T!Pay
                 a == "save"
                 id == x.id
      <4>1. PlanFits(p, t, id) /\ p # <<>> /\ a \in Steps \ {"settle"} /\ a = "save"
        BY <3>1
      <4>2. id \in Ids(t)
        BY <2>0
      <4> HIDE DEF p, a, id
      <4>3. PlanFits(<<a>> \o p, t, id) /\ <<a>> \o p # <<>>
        BY <4>1, <4>2, ConsFits
      <4> QED BY <4>3 DEF a, p, id
    <3> QED BY <3>2, <2>2
  <2> QED BY <2>1, <2>2
<1>5. Soundly(T!Go(r, t, x, <<"save">> \o plan), d, K)
  BY <1>3, <1>4, Goes DEF Decides
<1> QED BY <1>5 DEF T!Finish, t, y

(* A decision is refused, answered again or taken.                           *)
LEMMA DecideSound ==
  ASSUME T!NoneAssumption, NEW d, NEW K, NEW r, Decides(r, d), NEW refused, NEW fresh,
         T!Wanted(r) # None /\ T!IsActive(r.state, T!Wanted(r)) => WorkSound(fresh, d, K),
         NEW n \in T!Decide(r, refused, fresh)
  PROVE  n = None \/ WorkSound(n, d, K)
<1> DEFINE x == T!Wanted(r)
           m == T!Go(r, T!Remember(r.state, r.request.action, "decision", x), x, T!Pay)
<1>1. x # None => x \in T!Rounds(r.state) /\ x.id \in Ids(r.state)
  BY WantedIs
<1>2. x # None => Soundly(m, d, K)
  BY <1>1, PartCloses, Replies DEF Decides
<1>3. T!Decide(r, refused, fresh) \subseteq {None} \cup (IF x # None THEN {m} ELSE {})
        \cup (IF x # None /\ T!IsActive(r.state, x) THEN {fresh} ELSE {})
  BY DEF T!Decide, T!Wanted
<1> QED BY <1>2, <1>3 DEF Soundly

(* The plan of a raise: published, taken, played out.                        *)
LEMMA RaiseFits ==
  ASSUME NEW s, NEW id, id \in Ids(s), s.active # None, s.active.id = id
  PROVE  LET p == <<"save">> \o T!Raise \o <<"settle">>
         IN  PlanFits(p, s, id) /\ p # <<>> /\ Len(p) = 4 /\ p[3] = "save"
<1> DEFINE v == <<"save">>
           w == <<"settle">>
           u == v \o T!Raise
           p == u \o w
<1>1. v \in Seq(Steps) /\ Len(v) = 1 /\ v[1] = "save"
  BY DEF Steps
<1>2. T!Raise \in Seq(Steps) /\ Len(T!Raise) = 2 /\ T!Raise[1] = "play" /\ T!Raise[2] = "save"
  BY DEF Steps, Parts, T!Raise
<1>3. w \in Seq(Steps) /\ Len(w) = 1 /\ w[1] = "settle" /\ PlanFits(w, s, id) /\ w # <<>>
  BY PartFits DEF Steps
<1> HIDE DEF v, w
<1>4. u \in Seq(Steps) /\ Len(u) = 3 /\ u[1] = "save" /\ u[2] = "play" /\ u[3] = "save"
  <2> DEFINE z == T!Raise
  <2>1. z \in Seq(Steps) /\ Len(z) = 2 /\ z[1] = "play" /\ z[2] = "save"
    BY <1>2
  <2>2. u = v \o z
    OBVIOUS
  <2> HIDE DEF z, u
  <2>3. u \in Seq(Steps) /\ Len(u) = Len(v) + Len(z)
    <3>1. v \in Seq(Steps) /\ z \in Seq(Steps)
      BY <1>1, <2>1
    <3> QED BY <2>2, <3>1, ConcatProperties
  <2>4. \A i \in 1..3 : u[i] = IF i <= 1 THEN v[i] ELSE z[i - 1]
    BY <1>1, <2>1, <2>2, ConcatProperties
  <2> QED BY <1>1, <2>1, <2>3, <2>4
<1> HIDE DEF u
<1>5. \A i \in 1..Len(u) : u[i] # "settle" /\ (u[i] # "save" => id \in Ids(s))
  <2>1. \A i \in 1..3 : i = 1 \/ i = 2 \/ i = 3
    OBVIOUS
  <2> QED BY <2>1, <1>4
<1>6. PlanFits(p, s, id) /\ p # <<>>
  BY <1>3, <1>4, <1>5, CatFits
<1>7. Len(p) = 4 /\ p[3] = "save"
  <2>1. /\ Len(p) = Len(u) + Len(w)
        /\ \A i \in 1..Len(u) + Len(w) : p[i] = IF i <= Len(u) THEN u[i] ELSE w[i - Len(u)]
    BY <1>3, <1>4, ConcatProperties
  <2> HIDE DEF p
  <2> QED BY <2>1, <1>3, <1>4
<1> QED BY <1>6, <1>7 DEF u, v, w

(* A raise that is published before it is taken; the round goes on as y.     *)
LEMMA RaiseSound ==
  ASSUME T!NoneAssumption, NEW d, NEW K, NEW r, Decides(r, d), T!Wanted(r) # None,
         T!IsActive(r.state, T!Wanted(r)), NEW y, Becomes(T!Wanted(r), y), y.phase \notin Over,
         NEW a, NEW stage, NEW key, NEW from,
         NEW t, t \in {T!Put(r.state, y), T!Remember(T!Put(r.state, y), a, stage, T!Wanted(r))}
  PROVE  WorkSound(T!Guarded(T!Go(r, t, T!Wanted(r), <<"save">> \o T!Raise \o <<"settle">>), key, from, 1), d, K)
<1> DEFINE s == r.state
           x == T!Wanted(r)
           u == T!Put(s, y)
           p == <<"save">> \o T!Raise \o <<"settle">>
<1>1. /\ DocSound(s, d) /\ x \in T!Rounds(s) /\ x \in T!Round /\ x.id \in Ids(s)
      /\ s.active # None /\ x = s.active /\ x.phase \notin Over
  BY WantedIs
<1>2. Swaps(s, u, x, y, d) /\ u.active = y
  BY <1>1, PutSwaps
<1> HIDE DEF u
<1>3. /\ DocSound(t, d) /\ Keeps(s, t) /\ Ids(t) = Ids(s) /\ t.active = y
      /\ T!Rounds(t) = (T!Rounds(s) \ {x}) \cup {y}
  <2>1. DocSound(u, d)
    BY <1>2 DEF Swaps
  <2>2. t = u \/ t = T!Remember(u, a, stage, x)
    BY DEF u
  <2>3. DocSound(t, d) /\ T!Rounds(t) = T!Rounds(u) /\ Ids(t) = Ids(u)
        /\ t.active = u.active /\ t.recent = u.recent
    BY <2>1, <2>2, Remembered
  <2> QED BY <2>3, <1>2, KeepsSame DEF Swaps
<1>4. y # None /\ y.id = x.id
  BY DEF Becomes, T!NoneAssumption
<1>5. PlanFits(p, t, x.id) /\ p # <<>> /\ Len(p) = 4 /\ p[3] = "save"
  BY <1>1, <1>3, <1>4, RaiseFits
<1> HIDE DEF p
<1>6. \A z \in T!Rounds(s) : z.id = x.id => z = x
  BY <1>1 DEF DocSound
<1>7. \A z \in T!Rounds(s) \cup T!Rounds(t) :
         IF z.id = x.id THEN ~Terminal(z) ELSE z \in T!Rounds(s)
  BY <1>1, <1>3, <1>4, <1>6 DEF Terminal
<1>8. \A z \in T!Rounds(t) : z.id = x.id => z.phase \notin Over
  BY <1>1, <1>3, <1>4, <1>6
<1>9. Len(p) > 1 /\ p[Len(p) - 1] = "save" /\ 1 \in Nat
  BY <1>5
<1>10. Ready(r, d) /\ r.stage = "answer"
  BY DEF Decides
<1>11. WorkSound(T!Guarded(T!Go(r, t, x, p), key, from, 1), d, K)
  BY <1>3, <1>5, <1>7, <1>8, <1>9, <1>10, Guards
<1> QED BY <1>11 DEF p

(* The rounds there are once the active one is settled.                      *)
LEMMA ArchivedRounds ==
  ASSUME T!NoneAssumption, NEW d, NEW s, DocSound(s, d), s.active # None, NEW y \in T!Round,
         y.id = s.active.id, y.start = s.active.start, y.phase \in Over,
         y.phase = "passed" => table = "acey_deucey", NEW a, NEW stage, NEW z
  PROVE  T!Rounds(T!Remember(T!ArchiveRound(s, y), a, stage, z)) = (T!Rounds(s) \ {s.active}) \cup {y}
<1> DEFINE u == T!ArchiveRound(s, y)
           t == T!Remember(u, a, stage, z)
<1>1. Swaps(s, u, s.active, y, d)
  BY ArchiveSwaps
<1>2. DocSound(u, d) /\ T!Rounds(u) = (T!Rounds(s) \ {s.active}) \cup {y}
  BY <1>1 DEF Swaps
<1> HIDE DEF u
<1>3. T!Rounds(t) = T!Rounds(u)
  BY <1>2, Remembered
<1> QED BY <1>2, <1>3 DEF u

(* Two steps after a publication.                                            *)
LEMMA SaveThen ==
  ASSUME NEW a \in Steps, NEW b \in Steps
  PROVE  LET p == <<"save">> \o <<a, b>>
         IN  Len(p) = 3 /\ p[1] = "save" /\ p[2] = a /\ p[3] = b
<1> DEFINE v == <<"save">>
           w == <<a, b>>
<1>1. v \in Seq(Steps) /\ w \in Seq(Steps) /\ Len(v) = 1 /\ Len(w) = 2
      /\ v[1] = "save" /\ w[1] = a /\ w[2] = b
  BY DEF Steps
<1> HIDE DEF v, w
<1>2. Len(v \o w) = 3 /\ \A i \in 1..3 : (v \o w)[i] = IF i <= 1 THEN v[i] ELSE w[i - 1]
  BY SMTT(60), <1>1, ConcatProperties
<1>3. Len(v \o w) = 3 /\ (v \o w)[1] = "save" /\ (v \o w)[2] = a /\ (v \o w)[3] = b
  BY <1>1, <1>2
<1> QED BY <1>3 DEF v, w

(* Decisions, table by table: Hi-Lo, Double Bonus.                           *)
LEMMA HiLoDecides ==
  ASSUME T!NoneAssumption, NEW d, NEW K, NEW r, Decides(r, d),
         NEW n \in T!HiLoGuess(r) \cup T!DoubleBonusDecide(r)
  PROVE  n = None \/ WorkSound(n, d, K)
<1> DEFINE x == T!Wanted(r)
<1>1. x # None /\ T!IsActive(r.state, x) => WorkSound(T!Finish(r, x, T!Pay), d, K)
  BY FinishSound DEF Soundly
<1>2. n \in T!HiLoGuess(r) => n = None \/ WorkSound(n, d, K)
  <2>1. T!HiLoGuess(r) = T!Decide(r, T!Refused(r), T!Finish(r, x, T!Pay))
    BY DEF T!HiLoGuess
  <2> QED BY <1>1, <2>1, DecideSound
<1>3. n \in T!DoubleBonusDecide(r) => n = None \/ WorkSound(n, d, K)
  <2>1. PICK refused : T!DoubleBonusDecide(r) = T!Decide(r, refused, T!Finish(r, x, T!Pay))
    BY DEF T!DoubleBonusDecide
  <2> QED BY <1>1, <2>1, DecideSound
<1> QED BY <1>2, <1>3

(* The raise of the tables that take one.                                    *)
LEMMA PreparedRaiseSound ==
  ASSUME T!NoneAssumption, NEW d, NEW K, NEW r, Decides(r, d), r.request.op = "decide",
         T!Wanted(r) # None, T!IsActive(r.state, T!Wanted(r))
  PROVE  WorkSound(T!PrepareRaise(r, T!Wanted(r)), d, K)
<1> DEFINE x == T!Wanted(r)
           a == r.request.action
           y == T!PreparePlay(x, a)
<1>1. x \in T!Round /\ x.phase \notin Over
  BY WantedIs
<1>2. a \in Nat
  BY DEF Decides, Ready, Asked
<1>3. Becomes(x, y) /\ y.phase \notin Over
  BY <1>1, <1>2 DEF T!PreparePlay, Becomes, Terminal, T!Round, T!Marks, Over
<1> HIDE DEF y
<1>4. WorkSound(T!Guarded(T!Go(r, T!Remember(T!Put(r.state, y), a, "decision", x), x,
                           <<"save">> \o T!Raise \o <<"settle">>), T!FourCardKeys(y).play, 3, 1), d, K)
  BY <1>3, RaiseSound
<1> QED BY <1>4 DEF T!PrepareRaise, y

(* Four Card Poker and Casino Hold'em.                                       *)
LEMMA FourCardDecides ==
  ASSUME T!NoneAssumption, NEW d, NEW K, NEW r, Decides(r, d), r.request.op = "decide",
         NEW n \in T!FourCardDecide(r) \cup T!HoldemDecide(r)
  PROVE  n = None \/ WorkSound(n, d, K)
<1> DEFINE x == T!Wanted(r)
<1>1. x # None /\ T!IsActive(r.state, x) =>
        /\ WorkSound(T!Finish(r, x, T!Pay), d, K) /\ WorkSound(T!Finish(r, x, <<>>), d, K)
        /\ WorkSound(T!PrepareRaise(r, x), d, K)
  BY FinishSound, PreparedRaiseSound DEF Soundly
<1>2. PICK fresh \in {T!Finish(r, x, T!Pay), T!Finish(r, x, <<>>), T!PrepareRaise(r, x)} :
        n \in T!Decide(r, T!Refused(r), fresh)
  <2>1. n \in T!FourCardDecide(r) => \E f \in {T!Finish(r, x, T!Pay), T!PrepareRaise(r, x)} :
                                      n \in T!Decide(r, T!Refused(r), f)
    BY DEF T!FourCardDecide
  <2>2. n \in T!HoldemDecide(r) => \E f \in {T!Finish(r, x, <<>>), T!PrepareRaise(r, x)} :
                                      n \in T!Decide(r, T!Refused(r), f)
    BY DEF T!HoldemDecide
  <2> QED BY <2>1, <2>2
<1> QED BY <1>1, <1>2, DecideSound

(* Mississippi Stud.                                                         *)
LEMMA MississippiDecides ==
  ASSUME T!NoneAssumption, NEW d, NEW K, NEW r, Decides(r, d), r.request.op = "decide",
         NEW n \in T!MississippiDecide(r)
  PROVE  n = None \/ WorkSound(n, d, K)
<1> DEFINE s == r.state
           q == r.request
           x == T!Wanted(r)
           y == T!PrepareBet(x, q.action)
           z == T!Settled(x, q.action, "fold")
           fold == T!Go(r, T!ArchiveRound(s, z), x, <<"save">>)
           bet == T!Guarded(T!Go(r, T!Put(s, y), x, <<"save">> \o T!Raise \o <<"settle">>),
                          T!MississippiKeys(y).play, 3, 1)
<1>1. x # None => x \in T!Rounds(s) /\ x \in T!Round
  BY WantedIs
<1>2. x # None => Soundly(T!Go(r, s, x, T!Pay), d, K)
  BY <1>1, StaysFor, PartFits, PlansAreSome DEF Decides
<1>3. x # None /\ T!IsActive(s, x) => Soundly(fold, d, K)
  <2> SUFFICES ASSUME x # None, T!IsActive(s, x) PROVE Soundly(fold, d, K)
    OBVIOUS
  <2>1. DocSound(s, d) /\ s.active # None /\ x = s.active /\ x \in T!Round
    BY WantedIs
  <2>2. q.action \in Nat \cup {None}
    BY DEF Decides, Ready, Asked
  <2>3. z \in T!Round /\ z.id = x.id /\ z.start = x.start /\ z.phase = "settled"
    BY <2>1, <2>2, SettledIs
  <2> HIDE DEF z
  <2>4. DocSound(T!ArchiveRound(s, z), d) /\ Keeps(s, T!ArchiveRound(s, z))
    BY <2>1, <2>3, Archived DEF Over
  <2> QED BY <2>4, SaveFits, Goes DEF Decides
<1>4. x # None /\ T!IsActive(s, x) => WorkSound(bet, d, K)
  <2> SUFFICES ASSUME x # None, T!IsActive(s, x) PROVE WorkSound(bet, d, K)
    OBVIOUS
  <2>1. x \in T!Round /\ x.phase \notin Over /\ q.action \in Nat
    BY WantedIs DEF Decides, Ready, Asked
  <2>2. Becomes(x, y) /\ y.phase \notin Over
    BY <2>1 DEF T!PrepareBet, Becomes, Terminal, T!Round, T!Marks, Over
  <2> HIDE DEF y
  <2> QED BY <2>2, RaiseSound
<1>5. n \in {None} \cup (IF x # None THEN {T!Go(r, s, x, T!Pay)} ELSE {})
        \cup (IF x # None /\ T!IsActive(s, x) THEN {fold, bet} ELSE {})
  BY DEF T!MississippiDecide
<1> HIDE DEF fold, bet
<1> QED BY <1>2, <1>3, <1>4, <1>5 DEF Soundly

(* Acey Deucey, where a wager settles the round before it is taken.          *)
LEMMA AceyDecides ==
  ASSUME T!NoneAssumption, NEW d, NEW K, NEW r, Decides(r, d), table = "acey_deucey",
         NEW n \in T!AceyPlay(r) \cup T!AceyPass(r)
  PROVE  n = None \/ WorkSound(n, d, K)
<1> DEFINE s == r.state
           q == r.request
           x == T!Wanted(r)
           u == T!Settled(x, q.action, "play")
           y == [u EXCEPT !.opening = "pending"]
           v == T!Settled(x, q.action, "pass")
           z == [v EXCEPT !.phase = "passed", !.settlement = "not_ready"]
           p == <<"save">> \o T!Stake \o T!Pay
           t == T!Remember(T!ArchiveRound(s, y), q.action, "decision", x)
           again == T!Go(r, T!Remember(s, q.action, "decision", x), x, T!Stake \o T!Pay)
           passed == T!Go(r, T!Remember(s, q.action, "decision", x), x, <<"save">>)
           play == T!Guarded(T!Go(r, t, x, p), T!AceyKeys(y).opening, 4, 0)
           pass == T!Go(r, T!Remember(T!ArchiveRound(s, z), q.action, "decision", x), x, <<"save">>)
<1>1. x # None => x \in T!Rounds(s) /\ x \in T!Round /\ x.id \in Ids(s) /\ DocSound(s, d)
  BY WantedIs
<1>2. x # None => Soundly(again, d, K) /\ Soundly(passed, d, K)
  BY <1>1, PartCloses, SaveCloses, Replies DEF Decides
<1>3. q.action \in Nat \cup {None}
  BY DEF Decides, Ready, Asked
<1>4. x # None /\ T!IsActive(s, x) => WorkSound(play, d, K)
  <2> SUFFICES ASSUME x # None, T!IsActive(s, x) PROVE WorkSound(play, d, K)
    OBVIOUS
  <2>1. s.active # None /\ x = s.active /\ x.phase \notin Over
    BY WantedIs
  <2>2. u \in T!Round /\ u.id = x.id /\ u.start = x.start /\ u.phase = "settled"
    BY <1>1, <1>3, SettledIs
  <2> HIDE DEF u
  <2>3. y \in T!Round /\ y.id = x.id /\ y.start = x.start /\ y.phase = "settled" /\ y.opening = "pending"
    BY <2>2 DEF T!Round, T!Marks
  <2> HIDE DEF y
  <2>4. /\ DocSound(t, d) /\ Keeps(s, t) /\ Ids(t) = Ids(s)
        /\ T!Rounds(t) = (T!Rounds(s) \ {x}) \cup {y}
    <3>1. /\ DocSound(s, d) /\ s.active # None /\ y \in T!Round /\ y.id = s.active.id
          /\ y.start = s.active.start /\ y.phase \in Over /\ y.phase # "passed"
      BY <1>1, <2>1, <2>3 DEF Over
    <3>2. t \in {T!ArchiveRound(s, y), T!Remember(T!ArchiveRound(s, y), q.action, "decision", x)}
      OBVIOUS
    <3>3. DocSound(t, d) /\ Keeps(s, t)
      BY <3>1, <3>2, Archived
    <3>4. Ids(t) = Ids(s)
      BY <3>1, <3>2, Archived
    <3>5. T!Rounds(t) = (T!Rounds(s) \ {s.active}) \cup {y}
      BY <3>1, ArchivedRounds
    <3> QED BY <3>3, <3>4, <3>5, <2>1
  <2> HIDE DEF t
  <2>5. Closes(p, t, x.id)
    <3>1. Closes(T!Stake, t, x.id) /\ Closes(T!Pay, t, x.id) /\ x.id \in Ids(t)
      BY <1>1, <2>4, PartCloses
    <3>2. "save" \in Steps \ {"settle", "play"} /\ "save" \in Steps \ {"settle"}
      BY DEF Steps
    <3>3. Closes(<<"save">> \o T!Stake, t, x.id)
      BY <3>1, <3>2, ConsCloses
    <3>4. \A i \in 1..Len(<<"save">> \o T!Stake) : (<<"save">> \o T!Stake)[i] # "settle"
      <4> DEFINE w == <<"save">> \o <<"opening", "save">>
      <4>1. "opening" \in Steps /\ "save" \in Steps
        BY DEF Steps, Parts
      <4> HIDE DEF w
      <4>2. Len(w) = 3 /\ w[1] = "save" /\ w[2] = "opening" /\ w[3] = "save"
        BY <4>1, SaveThen DEF w
      <4>3. \A i \in 1..3 : i = 1 \/ i = 2 \/ i = 3
        OBVIOUS
      <4>4. \A i \in 1..Len(w) : w[i] # "settle"
        BY <4>2, <4>3
      <4> QED BY <4>4 DEF w, T!Stake
    <3> QED BY <3>1, <3>3, <3>4, CatCloses
  <2> HIDE DEF p
  <2>6. \A w \in T!Rounds(s) : w.id = x.id => w = x
    BY <1>1 DEF DocSound
  <2>7. \A w \in T!Rounds(s) \cup T!Rounds(t) :
           IF w.id = x.id THEN ~Terminal(w) ELSE w \in T!Rounds(s)
    BY <2>1, <2>3, <2>4, <2>6 DEF Terminal
  <2>8. \A w \in T!Rounds(t) : w.id = x.id /\ w.phase \in Over =>
           \A i \in 1..Len(p) : p[i] \in {"opening", "play"} => T!Keys(w)[p[i]] = T!AceyKeys(y).opening
    <3> SUFFICES ASSUME NEW w \in T!Rounds(t), w.id = x.id
                 PROVE  \A i \in 1..Len(p) : p[i] \in {"opening", "play"} =>
                                         T!Keys(w)[p[i]] = T!AceyKeys(y).opening
      OBVIOUS
    <3>1. w = y
      BY <2>4, <2>6
    <3>2. \A i \in 1..Len(p) : p[i] \in {"opening", "play"} => p[i] = "opening"
      BY <2>5 DEF Closes
    <3>3. T!Keys(w).opening = T!AceyKeys(y).opening
      BY <3>1 DEF T!Keys
    <3> QED BY <3>2, <3>3
  <2>9. PlanFits(p, t, x.id) /\ p # <<>> /\ Len(p) > 0 /\ Len(p) \in Nat /\ p[Len(p) - 0] = "save"
    BY <2>5, LenProperties DEF Closes, PlanFits
  <2>10. Ready(r, d) /\ r.stage = "answer"
    BY DEF Decides
  <2> HIDE DEF x
  <2> QED BY <2>4, <2>7, <2>8, <2>9, <2>10, Guards
<1>5. x # None /\ T!IsActive(s, x) => Soundly(pass, d, K)
  <2> SUFFICES ASSUME x # None, T!IsActive(s, x) PROVE Soundly(pass, d, K)
    OBVIOUS
  <2>1. s.active # None /\ x = s.active /\ x.phase \notin Over
    BY WantedIs
  <2>2. v \in T!Round /\ v.id = x.id /\ v.start = x.start
    BY <1>1, <1>3, SettledIs
  <2> HIDE DEF v
  <2>3. z \in T!Round /\ z.id = x.id /\ z.start = x.start /\ z.phase = "passed"
    BY <2>2 DEF T!Round, T!Marks
  <2> HIDE DEF z
  <2>4. LET w == T!Remember(T!ArchiveRound(s, z), q.action, "decision", x)
        IN DocSound(w, d) /\ Keeps(s, w)
    BY <1>1, <2>1, <2>3, Archived DEF Over
  <2> QED BY <2>4, SaveFits, Goes DEF Decides
<1>6. n \in {None} \cup (IF x # None THEN {again, passed} ELSE {})
        \cup (IF x # None /\ T!IsActive(s, x) THEN {play, pass} ELSE {})
  BY DEF T!AceyPlay, T!AceyPass
<1> HIDE DEF again, passed, play, pass
<1> QED BY <1>2, <1>4, <1>5, <1>6 DEF Soundly

(* What a call has left to do: nothing, or steps that end in a publication and *)
(* take no other stake than the call.                                          *)
Calls(p, s, id) ==
    /\ PlanFits(p, s, id) /\ p # <<>> /\ Len(p) \in Nat \ {0} /\ p[Len(p)] = "save"
    /\ \A i \in 1..Len(p) : p[i] # "opening"

(* Two such plans, one after the other.                                      *)
LEMMA CatCalls ==
  ASSUME NEW s, NEW id, NEW p, Calls(p, s, id), \A i \in 1..Len(p) : p[i] # "settle",
         NEW q, Calls(q, s, id), id \in Ids(s)
  PROVE  Calls(p \o q, s, id)
<1>1. p \in Seq(Steps) /\ q \in Seq(Steps) /\ Len(p) \in Nat /\ Len(q) \in Nat \ {0}
  BY EmptySeq DEF PlanFits, Calls
<1>2. /\ Len(p \o q) = Len(p) + Len(q)
      /\ \A i \in 1..Len(p) + Len(q) : (p \o q)[i] = IF i <= Len(p) THEN p[i] ELSE q[i - Len(p)]
  BY <1>1, ConcatProperties
<1>3. PlanFits(p \o q, s, id) /\ p \o q # <<>>
  BY <1>1, CatFits DEF Calls
<1>4. (p \o q)[Len(p \o q)] = "save"
  BY <1>1, <1>2 DEF Calls
<1>5. ASSUME NEW i \in 1..Len(p \o q) PROVE (p \o q)[i] # "opening"
  <2>1. CASE i <= Len(p)
    BY <2>1, <1>1, <1>2 DEF Calls
  <2>2. CASE i > Len(p)
    <3>1. i - Len(p) \in 1..Len(q) /\ (p \o q)[i] = q[i - Len(p)]
      BY <2>2, <1>1, <1>2
    <3> QED BY <3>1 DEF Calls
  <2> QED BY <2>1, <2>2, <1>1, <1>2
<1> QED BY <1>1, <1>2, <1>3, <1>4, <1>5 DEF Calls

(* One or two steps, and a publication.                                      *)
LEMMA AnythingThenSave ==
  ASSUME NEW s, NEW id, id \in Ids(s), NEW a \in Steps, NEW b \in Steps,
         a \notin {"settle", "opening"}, b \notin {"settle", "opening"},
         NEW p, p \in {<<a, "save">>, <<a>> \o <<b, "save">>}
  PROVE  Calls(p, s, id) /\ \A i \in 1..Len(p) : p[i] # "settle"
<1>1. CASE p = <<a, "save">>
  <2>1. p \in Seq(Steps) /\ Len(p) = 2 /\ p[1] = a /\ p[2] = "save"
    BY <1>1 DEF Steps
  <2>2. \A i \in 1..2 : i = 1 \/ i = 2
    OBVIOUS
  <2>3. p # <<>>
    BY SMTT(60), <2>1, EmptySeq
  <2>4. PlanFits(p, s, id)
    BY <2>1, <2>2, <2>3 DEF PlanFits
  <2> QED BY <2>1, <2>2, <2>3, <2>4 DEF Calls
<1>2. CASE p = <<a>> \o <<b, "save">>
  <2> DEFINE v == <<a>>
             w == <<b, "save">>
  <2>1. v \in Seq(Steps) /\ w \in Seq(Steps) /\ Len(v) = 1 /\ Len(w) = 2
        /\ v[1] = a /\ w[1] = b /\ w[2] = "save" /\ p = v \o w
    BY <1>2 DEF Steps
  <2> HIDE DEF v, w
  <2>2. p \in Seq(Steps) /\ Len(p) = 3 /\ \A i \in 1..3 : p[i] = IF i <= 1 THEN v[i] ELSE w[i - 1]
    <3>1. /\ p \in Seq(Steps) /\ Len(p) = Len(v) + Len(w)
          /\ \A i \in 1..Len(v) + Len(w) : p[i] = IF i <= Len(v) THEN v[i] ELSE w[i - Len(v)]
      BY <2>1, ConcatProperties
    <3>2. Len(v) + Len(w) = 3
      BY <2>1
    <3> QED BY <2>1, <3>1, <3>2
  <2>3. p \in Seq(Steps) /\ Len(p) = 3 /\ p[1] = a /\ p[2] = b /\ p[3] = "save"
    BY <2>1, <2>2
  <2>4. \A i \in 1..3 : i = 1 \/ i = 2 \/ i = 3
    OBVIOUS
  <2>5. p # <<>>
    BY <2>3, EmptySeq
  <2>6. PlanFits(p, s, id)
    BY <2>3, <2>4, <2>5 DEF PlanFits
  <2> QED BY <2>3, <2>4, <2>5, <2>6 DEF Calls
<1> QED BY <1>1, <1>2

(* What Caribbean Stud has left to do for a call.                            *)
LEMMA EnsureCalls ==
  ASSUME NEW s, NEW id, id \in Ids(s), NEW x
  PROVE  T!CaribbeanEnsureCall(x) = <<>> \/ Calls(T!CaribbeanEnsureCall(x), s, id)
<1> DEFINE p == IF x.play = "complete" THEN <<>> ELSE <<"attemptPlay">> \o T!Raise
           q == IF ~T!Pays(x) THEN T!Pay
                ELSE IF x.settlement = "complete" THEN <<>> ELSE <<"attemptPay">> \o T!Pay
<1>1. /\ {"attemptPlay", "attemptPay", "play", "pay"} \subseteq Steps
  BY DEF Steps, Attempts, Parts
<1>2. p = <<>> \/ (Calls(p, s, id) /\ \A i \in 1..Len(p) : p[i] # "settle")
  <2> DEFINE u == <<"attemptPlay">> \o <<"play", "save">>
  <2>1. Calls(u, s, id) /\ \A i \in 1..Len(u) : u[i] # "settle"
    BY <1>1, AnythingThenSave
  <2>2. p = <<>> \/ p = u
    BY DEF T!Raise
  <2> HIDE DEF u, p
  <2> QED BY <2>1, <2>2
<1>3. q = <<>> \/ Calls(q, s, id)
  <2> DEFINE u == <<"attemptPay">> \o <<"pay", "save">>
             v == <<"pay", "save">>
  <2>1. Calls(u, s, id)
    BY <1>1, AnythingThenSave
  <2>2. Calls(v, s, id)
    BY <1>1, AnythingThenSave
  <2>3. q = <<>> \/ q = u \/ q = v
    BY DEF T!Pay
  <2> HIDE DEF u, v, q
  <2> QED BY <2>1, <2>2, <2>3
<1>4. T!CaribbeanEnsureCall(x) = p \o q
  BY DEF T!CaribbeanEnsureCall
<1> HIDE DEF p, q
<1>5. /\ (p = <<>> \/ p \in Seq(Steps)) /\ (q = <<>> \/ q \in Seq(Steps))
  BY <1>2, <1>3 DEF Calls, PlanFits
<1>6. p \in Seq(Steps) /\ q \in Seq(Steps)
  BY <1>5, EmptySeq
<1>7. (p = <<>> => p \o q = q) /\ (q = <<>> => p \o q = p)
  BY <1>6, ConcatEmptySeq
<1> QED BY <1>2, <1>3, <1>4, <1>7, CatCalls

(* Caribbean Stud.                                                           *)
LEMMA CaribbeanDecides ==
  ASSUME T!NoneAssumption, NEW d, NEW K, NEW r, Decides(r, d), table = "caribbean_stud",
         NEW n \in T!CaribbeanCall(r) \cup T!CaribbeanFold(r)
  PROVE  Answered(n, d, K)
<1> DEFINE s == r.state
           q == r.request
           x == T!Wanted(r)
           u == T!Settled(x, q.action, "play")
           y == [u EXCEPT !.play = "pending", !.attempt = "play"]
           plan == T!CaribbeanEnsureCall(y)
           p == <<"save">> \o plan
           t == T!Remember(T!ArchiveRound(s, y), q.action, "decision", x)
           again == T!Go(r, T!Remember(s, q.action, "decision", x), x, T!CaribbeanEnsureCall(x))
           folded == T!Go(r, T!Remember(s, q.action, "decision", x), x, <<"save">>)
           call == T!Guarded(T!Go(r, t, x, p), T!CaribbeanKeys(y).play, Len(plan), 0)
           fold == T!Finish(r, x, <<>>)
<1>1. x # None => x \in T!Rounds(s) /\ x \in T!Round /\ x.id \in Ids(s) /\ DocSound(s, d)
  BY WantedIs
<1>2. x # None => Soundly(folded, d, K)
  BY <1>1, SaveCloses, Replies DEF Decides
<1>3. x # None => Answered(again, d, K)
  <2> SUFFICES ASSUME x # None PROVE Answered(again, d, K)
    OBVIOUS
  <2>1. CASE T!CaribbeanEnsureCall(x) = <<>>
    <3>1. again.plan = <<>>
      BY <2>1 DEF T!Go, Decides, Ready, RequestFields
    <3> QED BY <3>1 DEF Answered
  <2>2. CASE T!CaribbeanEnsureCall(x) # <<>>
    <3>1. PlanFits(T!CaribbeanEnsureCall(x), s, x.id)
      BY <2>2, <1>1, EnsureCalls DEF Calls
    <3>2. Soundly(again, d, K)
      BY <3>1, <2>2, <1>1, RepliesFor DEF Decides
    <3> QED BY <3>2 DEF Answered, Soundly
  <2> QED BY <2>1, <2>2
<1>4. x # None /\ T!IsActive(s, x) => Soundly(fold, d, K)
  BY FinishSound
<1>5. q.action \in Nat \cup {None}
  BY DEF Decides, Ready, Asked
<1>6. x # None /\ T!IsActive(s, x) => WorkSound(call, d, K)
  <2> SUFFICES ASSUME x # None, T!IsActive(s, x) PROVE WorkSound(call, d, K)
    OBVIOUS
  <2>1. s.active # None /\ x = s.active /\ x.phase \notin Over
    BY WantedIs
  <2>2. u \in T!Round /\ u.id = x.id /\ u.start = x.start /\ u.phase = "settled"
    BY <1>1, <1>5, SettledIs
  <2> HIDE DEF u
  <2>3. y \in T!Round /\ y.id = x.id /\ y.start = x.start /\ y.phase = "settled" /\ y.play = "pending"
    BY <2>2 DEF T!Round, T!Marks
  <2> HIDE DEF y
  <2>4. /\ DocSound(s, d) /\ s.active # None /\ y \in T!Round /\ y.id = s.active.id
        /\ y.start = s.active.start /\ y.phase \in Over /\ y.phase # "passed"
    BY <1>1, <2>1, <2>3 DEF Over
  <2>5. t \in {T!ArchiveRound(s, y), T!Remember(T!ArchiveRound(s, y), q.action, "decision", x)}
    OBVIOUS
  <2>6. DocSound(t, d) /\ Keeps(s, t)
    BY <2>4, <2>5, Archived
  <2>7. Ids(t) = Ids(s)
    BY <2>4, <2>5, Archived
  <2>8. T!Rounds(t) = (T!Rounds(s) \ {x}) \cup {y}
    BY <2>1, <2>4, ArchivedRounds
  <2> HIDE DEF t
  <2>9. plan = <<>> \/ Calls(plan, t, x.id)
    BY <1>1, <2>7, EnsureCalls
  <2>10. Calls(p, t, x.id)
    <3>1. "save" \in Steps \ {"settle"} /\ x.id \in Ids(t)
      BY <1>1, <2>7 DEF Steps
    <3>2. Calls(<<"save">>, t, x.id) /\ \A i \in 1..Len(<<"save">>) : <<"save">>[i] # "settle"
      <4>1. <<"save">> # <<>> /\ Len(<<"save">>) = 1 /\ <<"save">>[1] = "save"
        OBVIOUS
      <4>2. \A i \in 1..1 : i = 1
        OBVIOUS
      <4> QED BY <4>1, <4>2, SaveFits DEF Calls
    <3>3. <<"save">> \in Seq(Steps)
      BY <3>1
    <3>4. plan = <<>> => p = <<"save">>
      BY <3>3, ConcatEmptySeq
    <3> HIDE DEF plan
    <3>5. Calls(plan, t, x.id) => Calls(p, t, x.id)
      BY <3>1, <3>2, CatCalls
    <3> QED BY <2>9, <3>2, <3>4, <3>5
  <2> HIDE DEF p
  <2>11. \A w \in T!Rounds(s) : w.id = x.id => w = x
    BY <1>1 DEF DocSound
  <2>12. \A w \in T!Rounds(s) \cup T!Rounds(t) :
           IF w.id = x.id THEN ~Terminal(w) ELSE w \in T!Rounds(s)
    BY <2>1, <2>3, <2>8, <2>11 DEF Terminal
  <2>13. \A w \in T!Rounds(t) : w.id = x.id /\ w.phase \in Over =>
           \A i \in 1..Len(p) : p[i] \in {"opening", "play"} => T!Keys(w)[p[i]] = T!CaribbeanKeys(y).play
    <3> SUFFICES ASSUME NEW w \in T!Rounds(t), w.id = x.id
                 PROVE  \A i \in 1..Len(p) : p[i] \in {"opening", "play"} =>
                                         T!Keys(w)[p[i]] = T!CaribbeanKeys(y).play
      OBVIOUS
    <3>1. w = y
      BY <2>8, <2>11
    <3>2. \A i \in 1..Len(p) : p[i] \in {"opening", "play"} => p[i] = "play"
      BY <2>10 DEF Calls
    <3>3. T!Keys(w).play = T!CaribbeanKeys(y).play
      BY <3>1 DEF T!Keys
    <3> QED BY <3>2, <3>3
  <2>14. PlanFits(p, t, x.id) /\ p # <<>> /\ Len(p) > 0 /\ p[Len(p) - 0] = "save"
    BY <2>10 DEF Calls
  <2>15. Ready(r, d) /\ r.stage = "answer"
    BY DEF Decides
  <2> HIDE DEF x
  <2> QED BY <2>6, <2>12, <2>13, <2>14, <2>15, Guards
<1>7. n \in {None} \cup (IF x # None THEN {again, folded} ELSE {})
        \cup (IF x # None /\ T!IsActive(s, x) THEN {call, fold} ELSE {})
  BY DEF T!CaribbeanCall, T!CaribbeanFold
<1> HIDE DEF again, folded, call, fold
<1> QED BY <1>2, <1>3, <1>4, <1>6, <1>7 DEF Soundly, Answered

(* Jacks or Better.                                                          *)
LEMMA JacksDraws ==
  ASSUME T!NoneAssumption, NEW d, NEW K, NEW r, Decides(r, d), r.request.op = "decide",
         table = "jacks_or_better", NEW n \in T!JacksDraw(r)
  PROVE  n = None \/ WorkSound(n, d, K)
<1> DEFINE s == r.state
           x == T!Wanted(r)
           y == [x EXCEPT !.action = r.request.action]
           paid == T!Go(r, s, x, T!Pay)
           draw == T!Go(r, T!Put(s, y), x, <<"save", "settle">>)
<1>1. x # None => x \in T!Rounds(s) /\ x \in T!Round /\ x.id \in Ids(s) /\ DocSound(s, d)
  BY WantedIs
<1>2. x # None => Soundly(paid, d, K)
  BY <1>1, StaysFor, PartFits, PlansAreSome DEF Decides
<1>3. x # None /\ T!IsActive(s, x) => Soundly(draw, d, K)
  <2> SUFFICES ASSUME x # None, T!IsActive(s, x) PROVE Soundly(draw, d, K)
    OBVIOUS
  <2>1. s.active # None /\ x = s.active /\ x.phase \notin Over
    BY WantedIs
  <2>2. r.request.action \in Nat
    BY DEF Decides, Ready, Asked
  <2>3. Becomes(x, y) /\ y.phase \notin Over
    BY <1>1, <2>1, <2>2 DEF Becomes, Terminal, T!Round, T!Marks
  <2> HIDE DEF y
  <2>4. Swaps(s, T!Put(s, y), x, y, d) /\ T!Put(s, y).active = y
    BY <1>1, <2>1, <2>3, PutSwaps
  <2>5. y # None /\ y.id = x.id /\ x.id \in Ids(T!Put(s, y))
    BY <1>1, <2>3, <2>4 DEF Becomes, T!NoneAssumption, Swaps
  <2>6. PlanFits(<<"save", "settle">>, T!Put(s, y), x.id) /\ <<"save", "settle">> # <<>>
    BY <2>4, <2>5, SaveSettleFits
  <2> QED BY <2>4, <2>6, Goes DEF Swaps, Decides
<1>4. n \in {None} \cup (IF x # None THEN {paid} ELSE {})
        \cup (IF x # None /\ T!IsActive(s, x) THEN {draw} ELSE {})
  BY DEF T!JacksDraw
<1> HIDE DEF paid, draw
<1> QED BY <1>2, <1>3, <1>4 DEF Soundly

(* At Deuces Wild the wager is seen to first.                                *)
LEMMA StakeThenFits ==
  ASSUME NEW s, NEW id, id \in Ids(s), NEW q, PlanFits(q, s, id), q # <<>>
  PROVE  PlanFits(T!Stake \o q, s, id) /\ T!Stake \o q # <<>>
<1>1. T!Stake \in Seq(Steps)
  BY PartFits DEF PlanFits
<1>2. \A i \in 1..Len(T!Stake) : T!Stake[i] # "settle"
  <2>1. Len(T!Stake) = 2 /\ T!Stake[1] = "opening" /\ T!Stake[2] = "save"
    BY DEF T!Stake
  <2>2. \A i \in 1..2 : i = 1 \/ i = 2
    OBVIOUS
  <2> QED BY <2>1, <2>2
<1> QED BY <1>1, <1>2, CatFits

(* Deuces Wild, the cards it holds included.                                 *)
LEMMA DeucesSound ==
  ASSUME T!NoneAssumption, NEW d, NEW K, NEW r, Decides(r, d), table = "deuces_wild",
         NEW n \in T!DeucesDraw(r) \cup T!DeucesSetHolds(r)
  PROVE  n = None \/ WorkSound(n, d, K)
<1> DEFINE s == r.state
           a == r.request.action
           x == T!Wanted(r)
           seek == T!Go(r, s, x, T!Stake)
           pay == T!Go(r, s, x, T!Stake \o T!Pay)
           again == T!Go(r, T!Remember(s, a, "decision", x), x, T!Stake \o T!Pay)
           hold == T!Go(r, s, x, T!Stake \o <<"hold">>)
           draw == T!Go(r, s, x, T!Stake \o <<"settle">>)
<1>1. x # None =>
        /\ x \in T!Rounds(s) /\ x \in T!Round /\ x.id \in Ids(s) /\ DocSound(s, d)
        /\ T!IsActive(s, x) => s.active # None /\ x = s.active
        /\ x.phase \notin Over => T!IsActive(s, x)
        /\ x.phase # "passed"
  BY WantedIs
<1>2. x # None => /\ PlanFits(T!Pay, s, x.id) /\ T!Pay # <<>> /\ PlanFits(<<"hold">>, s, x.id)
                  /\ PlanFits(T!Stake, s, x.id) /\ T!Stake # <<>>
  BY <1>1, PartFits, PlansAreSome
<1>3. x # None => Soundly(seek, d, K)
  BY <1>1, <1>2, StaysFor DEF Decides
<1>4. x # None => Soundly(pay, d, K)
  BY <1>1, <1>2, StakeThenFits, StaysFor DEF Decides
<1>5. x # None => Soundly(again, d, K)
  BY <1>1, <1>2, StakeThenFits, RepliesFor DEF Decides
<1>6. x # None => Soundly(hold, d, K)
  <2>1. <<"hold">> # <<>>
    OBVIOUS
  <2> QED BY <2>1, <1>1, <1>2, StakeThenFits, StaysFor DEF Decides
<1>7. x # None /\ x.phase # "settled" => Soundly(draw, d, K)
  <2> SUFFICES ASSUME x # None, x.phase # "settled" PROVE Soundly(draw, d, K)
    OBVIOUS
  <2>1. s.active # None /\ x = s.active
    BY <1>1 DEF Over
  <2>2. PlanFits(<<"settle">>, s, x.id) /\ <<"settle">> # <<>>
    BY <1>1, <2>1, PartFits, PlansAreSome
  <2> QED BY <1>1, <2>2, StakeThenFits, StaysFor DEF Decides
<1>8. n \in {None} \cup (IF x # None THEN {seek, pay, again, hold} ELSE {})
        \cup (IF x # None /\ x.phase # "settled" THEN {draw} ELSE {})
  BY DEF T!DeucesDraw, T!DeucesSetHolds
<1> HIDE DEF seek, pay, again, hold, draw
<1> QED BY <1>3, <1>4, <1>5, <1>6, <1>7, <1>8 DEF Soundly

(* The cards held at Joker Poker and Jacks or Better.                        *)
LEMMA CardsHeld ==
  ASSUME T!NoneAssumption, NEW d, NEW K, NEW r, Decides(r, d),
         NEW n \in T!JokerSetHolds(r) \cup T!JacksSetHolds(r)
  PROVE  n = None \/ WorkSound(n, d, K)
<1> DEFINE s == r.state
           x == s.active
           held == T!Go(r, T!Hold(s, x), x, <<"save">>)
<1>1. x # None => x \in T!Rounds(s) /\ x \in T!Round
  BY RoundsAreRounds DEF Decides, Ready
<1>2. x # None => Soundly(held, d, K)
  BY <1>1, Marking, PutSaved DEF T!Hold, Decides
<1>3. n \in {None} \cup (IF x # None THEN {held} ELSE {})
  BY DEF T!JokerSetHolds, T!JacksSetHolds
<1> HIDE DEF held
<1> QED BY <1>2, <1>3 DEF Soundly

(* The decisions of every table.                                             *)
LEMMA DecideRoundSound ==
  ASSUME T!NoneAssumption, table \in T!AllTables, ~T!OneShot, NEW d, NEW K, NEW r, Decides(r, d),
         r.request.op = "decide", NEW n \in T!DecideRound(r)
  PROVE  Answered(n, d, K)
<1>1. CASE table \in {"hi_lo", "pai_gow_poker", "double_bonus", "joker_poker"}
  <2>1. n \in T!HiLoGuess(r) \cup T!DoubleBonusDecide(r)
    BY <1>1 DEF T!DecideRound, T!PaiGowDecide, T!JokerDraw
  <2> QED BY <2>1, HiLoDecides DEF Answered
<1>2. CASE table \in {"four_card_poker", "casino_holdem", "teen_patti"}
  <2>1. n \in T!FourCardDecide(r) \cup T!HoldemDecide(r)
    BY <1>2 DEF T!DecideRound, T!TeenPattiDecide
  <2> QED BY <2>1, FourCardDecides DEF Answered
<1>3. CASE table = "mississippi_stud"
  BY <1>3, MississippiDecides DEF T!DecideRound, Answered
<1>4. CASE table = "acey_deucey"
  <2>1. n \in T!AceyPlay(r) \cup T!AceyPass(r)
    BY <1>4 DEF T!DecideRound
  <2> QED BY <2>1, <1>4, AceyDecides DEF Answered
<1>5. CASE table = "caribbean_stud"
  <2>1. n \in T!CaribbeanCall(r) \cup T!CaribbeanFold(r)
    BY <1>5 DEF T!DecideRound
  <2> QED BY <2>1, <1>5, CaribbeanDecides
<1>6. CASE table = "jacks_or_better"
  BY <1>6, JacksDraws DEF T!DecideRound, Answered
<1>7. CASE table = "deuces_wild"
  BY <1>7, DeucesSound DEF T!DecideRound, Answered
<1> QED BY <1>1, <1>2, <1>3, <1>4, <1>5, <1>6, <1>7 DEF T!AllTables, T!OneShot

(* The cards held at every table.                                            *)
LEMMA SetHoldsSound ==
  ASSUME T!NoneAssumption, NEW d, NEW K, NEW r, Decides(r, d),
         table \in {"joker_poker", "jacks_or_better", "deuces_wild"}, NEW n \in T!SetHolds(r)
  PROVE  Answered(n, d, K)
<1>1. CASE table = "deuces_wild"
  BY <1>1, DeucesSound DEF T!SetHolds, Answered
<1>2. CASE table \in {"joker_poker", "jacks_or_better"}
  <2>1. n \in T!JokerSetHolds(r) \cup T!JacksSetHolds(r)
    BY <1>2 DEF T!SetHolds
  <2> QED BY <2>1, CardsHeld DEF Answered
<1> QED BY <1>1, <1>2

(* A start at Jacks or Better may deal the next round.                       *)
Dealt(r, n, d, K) ==
    /\ table = "jacks_or_better" /\ WorkSound(n, d + 1, K) /\ n.round = d + 1
    /\ n.base = r.state /\ n.request = r.request /\ n.stage = "answer"

(* The starts of every table.                                                *)
LEMMA StartSound ==
  ASSUME T!NoneAssumption, table \in T!AllTables, deals \in Nat, NEW d, d = deals, NEW K, NEW r,
         Starts(r, d), NEW n \in T!Start(r)
  PROVE  Answered(n, d, K) \/ Dealt(r, n, d, K)
<1>1. CASE table \in {"hi_lo", "pai_gow_poker", "joker_poker", "four_card_poker", "casino_holdem",
                      "double_bonus", "mississippi_stud", "teen_patti"}
  <2>1. n = None \/ n \in T!HiLoStart(r) \cup T!DoubleBonusStart(r)
    BY <1>1 DEF T!Start, T!PaiGowStart, T!JokerStart, T!FourCardStart, T!HoldemStart,
       T!MississippiStart,
                T!TeenPattiStart
  <2> QED BY <2>1, <1>1, HiLoStarts DEF Answered
<1>2. CASE table = "acey_deucey"
  BY <1>2, AceyDeals DEF T!Start, Answered
<1>3. CASE table \in {"plinko", "andar_bahar"}
  <2>1. n \in T!PlinkoDrop(r)
    BY <1>3 DEF T!Start, T!AndarBaharPlay
  <2> QED BY <2>1, <1>3, PlinkoDrops DEF Answered
<1>4. CASE table = "caribbean_stud"
  BY <1>4, CaribbeanDeals DEF T!Start, Answered
<1>5. CASE table = "jacks_or_better"
  <2>1. n \in T!JacksStart(r)
    BY <1>5 DEF T!Start
  <2> QED BY <2>1, <1>5, JacksStarts DEF Answered, Dealt
<1>6. CASE table = "deuces_wild"
  BY <1>6, DeucesStarts DEF T!Start, Answered
<1> QED BY <1>1, <1>2, <1>3, <1>4, <1>5, <1>6 DEF T!AllTables

-----------------------------------------------------------------------------
(* What a request goes on with when it has published, or begins.             *)

(* Every command.                                                            *)
LEMMA CommandSound ==
  ASSUME T!NoneAssumption, table \in T!AllTables, deals \in Nat, NEW d, d = deals, NEW K, NEW r,
         Ready(r, d), r.stage = "answer", NEW n \in T!Command(r)
  PROVE  Answered(n, d, K) \/ (Dealt(r, n, d, K) /\ r.request.op = "start")
<1>1. Decides(r, d) /\ Asked(r.request)
  BY DEF Decides, Ready
<1>2. CASE r.request.op = "state"
  BY <1>2 DEF T!Command, Answered
<1>3. CASE r.request.op = "start"
  <2>1. Starts(r, d) /\ n \in T!Start(r)
    BY <1>3 DEF Starts, T!Command
  <2> QED BY <2>1, <1>3, StartSound
<1>4. CASE r.request.op = "decide"
  <2>1. ~T!OneShot /\ n \in T!DecideRound(r)
    BY <1>1, <1>4 DEF Asked, T!Command
  <2> QED BY <2>1, <1>1, <1>4, DecideRoundSound
<1>5. CASE r.request.op = "hold"
  <2>1. table \in {"joker_poker", "jacks_or_better", "deuces_wild"} /\ n \in T!SetHolds(r)
    BY <1>1, <1>5 DEF Asked, T!Command
  <2> QED BY <2>1, <1>1, SetHoldsSound
<1> QED BY <1>1, <1>2, <1>3, <1>4, <1>5 DEF Asked

(* A request deals one round at most.                                        *)
LEMMA DealsCounted == ASSUME NEW n PROVE T!Deals(n) \in {0, 1}
  BY DEF T!Deals

(* A request stays sound when its deal is counted.                           *)
LEMMA Counted ==
  ASSUME T!NoneAssumption, NEW d \in Nat, NEW K, NEW n, n = None \/ WorkSound(n, d, K)
  PROVE  n = None \/ WorkSound(n, d + T!Deals(n), K)
<1>1. T!Deals(n) \in {0, 1} /\ d + T!Deals(n) \in Nat /\ d <= d + T!Deals(n)
  BY DealsCounted
<1>2. K \subseteq K
  OBVIOUS
<1> QED BY <1>1, <1>2, LaterSound

(* What a request does when its last document is published.                  *)
LEMMA ContinueSound ==
  ASSUME T!NoneAssumption, table \in T!AllTables, deals \in Nat, NEW d, d = deals, NEW K, NEW r,
         Resting(r, d, K), r.base = r.state, NEW m \in T!Continue(r)
  PROVE  m = None \/ WorkSound(m, d + T!Deals(m), K)
<1>1. CASE r.plan # <<>>
  <2> DEFINE u == [r EXCEPT !.undo = None]
  <2>1. m = IF r.undo # None /\ Len(r.plan) <= r.undo.until THEN u ELSE r
    BY <1>1 DEF T!Continue
  <2>2. r.undo # None => r.undo.until \in Nat
    BY DEF Resting, UndoSound
  <2>3. Len(r.plan) \in Nat
    BY LenProperties DEF Resting, PlanFits
  <2>4. m = r => r.undo = None \/ Len(r.plan) > r.undo.until
    <3>1. CASE r.undo # None /\ Len(r.plan) <= r.undo.until
      <4>1. u.undo = None
        BY DEF Resting, RequestFields
      <4> QED BY <4>1, <3>1, <2>1
    <3>2. CASE ~(r.undo # None /\ Len(r.plan) <= r.undo.until)
      BY <3>2, <2>2, <2>3
    <3> QED BY <3>1, <3>2
  <2>5. m = r => WorkSound(m, d, K)
    BY <2>4, <1>1 DEF WorkSound
  <2>6. WorkSound(u, d, K)
    <3>1. /\ DOMAIN u = RequestFields /\ u.undo = None /\ u.request = r.request
          /\ u.stage = r.stage /\ u.base = r.base /\ u.state = r.state
          /\ u.plan = r.plan /\ u.round = r.round
      BY DEF Resting, RequestFields
    <3> QED BY <3>1, <1>1 DEF Resting, WorkSound
  <2>7. WorkSound(m, d, K)
    BY <2>1, <2>5, <2>6
  <2> QED BY <2>7, Counted
<1>2. CASE r.plan = <<>> /\ r.stage # "answer"
  <2> DEFINE s == [r EXCEPT !.stage = "answer"]
             N == T!Command(s)
  <2>1. Ready(r, d)
    BY <1>2 DEF Ready, Resting
  <2>2. CASE m \in T!Recover(r)
    <3>1. Plainly(m, d, K)
      BY <2>1, <2>2, RecoverSound
    <3> QED BY <3>1, Counted DEF Plainly, Soundly
  <2>3. CASE m = None
    BY <2>3
  <2>4. CASE m # None /\ m \in N /\ m.plan # <<>>
    <3>1. /\ Ready(s, d) /\ s.stage = "answer" /\ s.request = r.request /\ s.state = r.state
      BY <2>1 DEF Ready, RequestFields
    <3>2. Answered(m, d, K) \/ (Dealt(s, m, d, K) /\ s.request.op = "start")
      BY <2>4, <3>1, CommandSound
    <3>3. CASE Answered(m, d, K)
      BY <3>3, <2>4, Counted DEF Answered
    <3>4. CASE Dealt(s, m, d, K) /\ s.request.op = "start"
      <4>1. d + 1 \notin {x.id : x \in T!Rounds(s.state)}
        <5> SUFFICES ASSUME NEW v \in T!Rounds(s.state), v.id = d + 1 PROVE FALSE
          OBVIOUS
        <5>1. v \in T!Round
          BY <3>1, RoundsAreRounds DEF Ready
        <5> QED BY <3>1, <3>4, <5>1 DEF Ready, DocSound, RoundFits, Dealt
      <4>2. T!Deals(m) = 1
        BY <4>1, <3>4, <2>4 DEF Dealt, T!Deals
      <4> QED BY <4>2, <3>4 DEF Dealt
    <3> QED BY <3>2, <3>3, <3>4
  <2>5. m \in T!Recover(r) \/ m = None \/ (m # None /\ m \in N /\ m.plan # <<>>)
    <3> HIDE DEF N
    <3>1. T!Continue(r) = IF r.stage = "repair" /\ T!Recover(r) # {} THEN T!Recover(r)
                        ELSE IF N = {} THEN {None}
                        ELSE {IF n # None /\ n.plan = <<>> THEN None ELSE n : n \in N}
      BY <1>2 DEF T!Continue, N
    <3> QED BY <3>1
  <2> QED BY <2>2, <2>3, <2>4, <2>5
<1>3. CASE r.plan = <<>> /\ r.stage = "answer"
  BY <1>3 DEF T!Continue
<1> QED BY <1>1, <1>2, <1>3

-----------------------------------------------------------------------------
(* The steps of a request                                                    *)

(* The keys of a round do not depend on its marks.                           *)
LEMMA SameKeys == ASSUME NEW x, NEW y, Marked2(x, y) PROVE T!Keys(y) = T!Keys(x)
  BY DEF Marked2, T!Keys, T!HiLoKeys, T!PaiGowKeys, T!DoubleBonusKeys, T!JokerKeys,
     T!FourCardKeys,
         T!HoldemKeys, T!TeenPattiKeys, T!MississippiKeys, T!AceyKeys, T!PlinkoKeys, T!AndarBaharKeys,
         T!CaribbeanKeys, T!JacksKeys, T!DeucesKeys

(* The round a step is about is the one of that id in the request's document. *)
LEMMA FocusIs ==
  ASSUME T!NoneAssumption, NEW d, NEW K, NEW r, WorkSound(r, d, K), Head(r.plan) # "save"
  PROVE  LET x == T!Focus(r)
         IN  /\ x \in T!Rounds(r.state) /\ x \in T!Round /\ x.id = r.round /\ r.round \in Ids(r.state)
             /\ \A y \in T!Rounds(r.state) : y.id = r.round => y = x
             /\ Head(r.plan) = "settle" => r.state.active # None /\ x = r.state.active
             /\ Head(r.plan) = r.plan[1] /\ Len(r.plan) \in Nat \ {0}
<1> DEFINE x == T!Focus(r)
<1>1. DocSound(r.state, d) /\ PlanFits(r.plan, r.state, r.round) /\ r.plan # <<>>
  BY DEF WorkSound, Resting
<1>2. Len(r.plan) \in Nat \ {0} /\ Head(r.plan) = r.plan[1]
  BY <1>1, EmptySeq, HeadTailProperties DEF PlanFits
<1>3. r.round \in Ids(r.state)
  BY <1>1, <1>2 DEF PlanFits
<1>4. x \in T!Rounds(r.state) /\ x.id = r.round
  BY <1>1, <1>3, ById DEF T!Focus
<1>5. x \in T!Round
  BY <1>1, <1>4, RoundsAreRounds
<1>6. \A y \in T!Rounds(r.state) : y.id = r.round => y = x
  BY <1>1, <1>4 DEF DocSound
<1>7. Head(r.plan) = "settle" => r.state.active # None /\ x = r.state.active
  BY <1>1, <1>2, <1>6, RoundsAreRounds DEF PlanFits
<1> QED BY <1>2, <1>3, <1>4, <1>5, <1>6, <1>7

(* A step was taken, and the request has the document t.                     *)
Stepped(r, n, t) ==
    /\ DOMAIN n = RequestFields /\ n.request = r.request /\ n.stage = r.stage
    /\ n.state = t /\ n.base \in {r.base, t} /\ n.plan = Tail(r.plan) /\ n.round = r.round
    /\ n.undo = r.undo

(* The round the request is at may have changed; not into one that is over,  *)
(* and not in its keys. It is over and paid for only if the ledger has it.   *)
OnlyIts(r, t, L) ==
    \A x \in T!Rounds(t) :
        \/ x \in T!Rounds(r.state)
        \/ /\ x.id = r.round /\ (r.undo # None /\ Terminal(x) => r.undo.key \in L)
           /\ \E z \in T!Rounds(r.state) : z.id = r.round /\ z.phase = x.phase /\ T!Keys(z) = T!Keys(x)

(* A request is sound after a step that changes only its own round.          *)
LEMMA SteppedSound ==
  ASSUME T!NoneAssumption, NEW d, NEW K, NEW L, K \subseteq L, NEW r, WorkSound(r, d, K),
         Head(r.plan) # "settle", NEW t, DocSound(t, d), Keeps(r.state, t), Ids(t) = Ids(r.state),
         r.state.active # None /\ r.state.active.id = r.round =>
             t.active # None /\ t.active.id = r.round,
         OnlyIts(r, t, L), NEW n, Stepped(r, n, t)
  PROVE  /\ Resting(n, d, L)
         /\ Head(r.plan) \notin {"save", "settle", "hold"} => WorkSound(n, d, L)
<1>1. Resting(r, d, K) /\ r.plan # <<>> /\ (r.undo # None => Len(r.plan) > r.undo.until)
  BY DEF WorkSound
<1>2. PlanFits(r.plan, r.state, r.round)
  BY <1>1 DEF Resting
<1> DEFINE p == r.plan
<1>3. /\ Len(p) \in Nat \ {0} /\ Len(Tail(p)) = Len(p) - 1 /\ Head(p) = p[1]
      /\ \A i \in 1..Len(p) - 1 : Tail(p)[i] = p[i + 1]
  BY <1>1, <1>2, TailFits
<1>4. PlanFits(Tail(p), t, r.round)
  BY <1>1, <1>2, TailFits
<1>5. Head(p) \notin {"save", "settle", "hold"} => Tail(p) # <<>>
  <2>1. p[Len(p)] \in {"save", "settle", "hold"}
    BY <1>1, <1>2 DEF PlanFits
  <2>2. Tail(p) = <<>> => Len(Tail(p)) = 0
    BY EmptySeq
  <2> QED BY <1>3, <2>1, <2>2
<1>6. DocSound(n.base, d) /\ Keeps(n.base, t)
  BY <1>1, KeepsItself, KeepsOn DEF Stepped, Resting
<1>7. ASSUME r.undo # None PROVE UndoSound(n, d, L)
  <2> DEFINE u == r.undo
  <2>1. UndoSound(r, d, K) /\ u.until \in Nat
    BY <1>1, <1>7 DEF Resting, UndoSound
  <2>2. /\ n.undo = u /\ n.plan = Tail(p) /\ n.round = r.round /\ n.state = t
        /\ n.base \in {r.base, t}
    BY DEF Stepped
  <2>3. Len(n.plan) > u.until => n.plan[Len(n.plan) - u.until] = "save"
    <3> SUFFICES ASSUME Len(Tail(p)) > u.until PROVE Tail(p)[Len(Tail(p)) - u.until] = "save"
      BY <2>2
    <3>1. Len(Tail(p)) - u.until \in 1..Len(p) - 1
      BY <1>3, <2>1
    <3>2. Tail(p)[Len(Tail(p)) - u.until] = p[(Len(Tail(p)) - u.until) + 1]
      BY <1>3, <3>1
    <3>3. (Len(Tail(p)) - u.until) + 1 = Len(p) - u.until /\ Len(p) > u.until
      BY <1>3, <2>1
    <3>4. p[Len(p) - u.until] = "save"
      BY <2>1, <3>3 DEF UndoSound
    <3> QED BY <3>2, <3>3, <3>4
  <2>4. \A x \in T!Rounds(r.base) \cup T!Rounds(r.state) :
          IF x.id = r.round THEN Terminal(x) => u.key \in L ELSE x \in T!Rounds(u.state)
    BY <2>1 DEF UndoSound
  <2>5. \A x \in T!Rounds(n.base) \cup T!Rounds(n.state) :
          IF x.id = n.round THEN Terminal(x) => u.key \in L ELSE x \in T!Rounds(u.state)
    <3> SUFFICES ASSUME NEW x \in T!Rounds(r.base) \cup T!Rounds(t)
                 PROVE  IF x.id = r.round THEN Terminal(x) => u.key \in L ELSE x \in T!Rounds(u.state)
      BY <2>2
    <3>1. CASE x \in T!Rounds(r.base) \cup T!Rounds(r.state)
      BY <3>1, <2>4
    <3>2. CASE x \in T!Rounds(t) /\ x \notin T!Rounds(r.state)
      BY <3>2, <1>7 DEF OnlyIts
    <3> QED BY <3>1, <3>2
  <2>6. \A i \in 1..Len(n.plan) : \A x \in T!Rounds(n.state) :
          n.plan[i] \in {"opening", "play"} /\ x.id = n.round /\ x.phase \in Over =>
              T!Keys(x)[n.plan[i]] = u.key
    <3> SUFFICES ASSUME NEW i \in 1..Len(p) - 1, NEW x \in T!Rounds(t),
                        p[i + 1] \in {"opening", "play"}, x.id = r.round, x.phase \in Over
                 PROVE  T!Keys(x)[p[i + 1]] = u.key
      BY <2>2, <1>3
    <3>1. i + 1 \in 1..Len(p)
      BY <1>3
    <3>2. PICK z \in T!Rounds(r.state) : z.id = r.round /\ z.phase = x.phase /\ T!Keys(z) = T!Keys(x)
      BY DEF OnlyIts
    <3>3. T!Keys(z)[p[i + 1]] = u.key
      BY <3>1, <3>2, <2>1 DEF UndoSound
    <3> QED BY <3>2, <3>3
  <2> QED BY <2>1, <2>2, <2>3, <2>5, <2>6 DEF UndoSound
<1>8. Resting(n, d, L)
  BY <1>1, <1>4, <1>6, <1>7 DEF Resting, Stepped
<1>9. ASSUME Head(p) \notin {"save", "settle", "hold"} PROVE WorkSound(n, d, L)
  <2>1. n.plan # <<>>
    BY <1>5, <1>9 DEF Stepped
  <2>2. r.undo # None => Len(Tail(p)) > r.undo.until
    <3> SUFFICES ASSUME r.undo # None, ~(Len(Tail(p)) > r.undo.until) PROVE FALSE
      OBVIOUS
    <3>1. r.undo.until \in Nat /\ p[Len(p) - r.undo.until] = "save" /\ Len(p) > r.undo.until
      BY <1>1 DEF Resting, UndoSound
    <3>2. Len(p) - r.undo.until = 1
      BY <1>3, <3>1
    <3> QED BY <1>3, <1>9, <3>1, <3>2
  <2> QED BY <1>8, <2>1, <2>2 DEF WorkSound, Stepped
<1> QED BY <1>8, <1>9

(* The round it is at is marked.                                             *)
LEMMA PutIts ==
  ASSUME T!NoneAssumption, NEW d, NEW K, NEW L, NEW r, WorkSound(r, d, K), Head(r.plan) # "save",
         NEW y, Marked2(T!Focus(r), y), r.undo # None /\ Terminal(y) => r.undo.key \in L
  PROVE  LET t == T!Put(r.state, y)
         IN  /\ DocSound(t, d) /\ Keeps(r.state, t) /\ Ids(t) = Ids(r.state)
             /\ (r.state.active # None /\ r.state.active.id = r.round =>
                    t.active # None /\ t.active.id = r.round)
             /\ OnlyIts(r, t, L)
<1> DEFINE x == T!Focus(r)
           s == r.state
           t == T!Put(s, y)
<1>1. x \in T!Rounds(s) /\ x \in T!Round /\ x.id = r.round /\ DocSound(s, d)
  BY FocusIs DEF WorkSound, Resting
<1>2. Becomes(x, y) /\ y.phase = x.phase /\ y.id = x.id /\ y \in T!Round
  BY <1>1, MarkedBecomes DEF Marked2
<1>3. Swaps(s, t, x, y, d) /\ t.active = IF x = s.active THEN y ELSE s.active
  BY <1>1, <1>2, PutSwaps
<1> HIDE DEF t
<1>4. s.active # None /\ s.active.id = r.round => t.active # None /\ t.active.id = r.round
  BY <1>1, <1>2, <1>3 DEF T!NoneAssumption
<1>5. OnlyIts(r, t, L)
  <2>1. T!Rounds(t) = (T!Rounds(s) \ {x}) \cup {y} /\ T!Keys(y) = T!Keys(x)
    BY <1>3, SameKeys DEF Swaps
  <2> QED BY <1>1, <1>2, <2>1 DEF OnlyIts
<1> QED BY <1>3, <1>4, <1>5 DEF Swaps, t

(* An exception undoes a preparation whose stake is not in the ledger.       *)
LEMMA RaisedSound ==
  ASSUME T!NoneAssumption, NEW d, NEW K, K = DOMAIN rows, NEW r, WorkSound(r, d, K),
         NEW short \in BOOLEAN
  PROVE  T!Raised(r, short) = None \/ WorkSound(T!Raised(r, short), d, K)
<1> DEFINE n == T!Raised(r, short)
<1>1. CASE ~T!Undoes(r, short)
  BY <1>1 DEF T!Raised
<1>2. CASE T!Undoes(r, short)
  <2>1. r.undo # None /\ r.undo.key \notin K
    BY <1>2 DEF T!Undoes
  <2>2. UndoSound(r, d, K) /\ Resting(r, d, K)
    BY <2>1 DEF WorkSound, Resting
  <2>3. /\ DOMAIN n = RequestFields /\ n.request = r.request /\ n.stage = "answer"
        /\ n.state = r.undo.state /\ n.base = r.base /\ n.plan = <<"save">> /\ n.undo = None
    BY <1>2, <2>2 DEF T!Raised, Resting, RequestFields
  <2> HIDE DEF n
  <2>4. DocSound(r.undo.state, d) /\ DocSound(r.base, d) /\ Asked(r.request)
    BY <2>2 DEF UndoSound, Resting
  <2>5. Keeps(r.base, r.undo.state)
    <3> SUFFICES ASSUME NEW x \in T!Rounds(r.base), Terminal(x)
                 PROVE  \E y \in r.undo.state.recent :
                          Terminal(y) /\ y.phase = x.phase /\ T!Result(y) = T!Result(x)
      BY DEF Keeps
    <3>1. x \in T!Rounds(r.undo.state)
      BY <2>1, <2>2 DEF UndoSound
    <3>2. x \in r.undo.state.recent
      BY <3>1, <2>4, RoundsAreRounds DEF Terminal
    <3> QED BY <3>2
  <2>6. PlanFits(n.plan, n.state, n.round) /\ n.plan # <<>>
    BY <2>3, SaveFits
  <2> QED BY <2>3, <2>4, <2>5, <2>6 DEF WorkSound, Resting, n
<1> QED BY <1>1, <1>2

(* A round over whose stake an exception would ask is in the ledger.         *)
LEMMA ItsKey ==
  ASSUME T!NoneAssumption, NEW d, NEW K, NEW r, WorkSound(r, d, K), r.undo # None,
         NEW x \in T!Rounds(r.state), x.id = r.round, Terminal(x)
  PROVE  r.undo.key \in K
  BY DEF WorkSound, Resting, UndoSound

Republished(n) == [n EXCEPT !.base = n.state]
Prepares(r, n, d, K) ==
    /\ DocSound(n.state, d) /\ n.base = r.base /\ Keeps(n.base, n.state)
    /\ Resting(Republished(n), d, K)
    /\ Republished(n).base = n.state /\ Republished(n).state = n.state

(* Publications: the round is marked first,                                  *)
LEMMA MarkedPrepares ==
  ASSUME T!NoneAssumption, NEW d, NEW K, NEW r, WorkSound(r, d, K), Head(r.plan) # "settle",
         NEW t, DocSound(t, d), Keeps(r.state, t), Ids(t) = Ids(r.state),
         r.state.active # None /\ r.state.active.id = r.round =>
             t.active # None /\ t.active.id = r.round,
         OnlyIts(r, t, K)
  PROVE  Prepares(r, [r EXCEPT !.state = t, !.plan = Tail(@)], d, K)
<1> DEFINE n == [r EXCEPT !.state = t, !.plan = Tail(@)]
           m == Republished(n)
<1>1. DOMAIN r = RequestFields /\ Keeps(r.base, r.state)
  BY DEF WorkSound, Resting
<1>2. /\ DOMAIN n = RequestFields /\ n.request = r.request /\ n.stage = r.stage
      /\ n.state = t /\ n.base = r.base /\ n.plan = Tail(r.plan) /\ n.round = r.round
      /\ n.undo = r.undo
  BY <1>1 DEF RequestFields
<1> HIDE DEF n
<1>3. Stepped(r, m, t) /\ m.base = t /\ m.state = t
  BY <1>2 DEF Stepped, Republished, RequestFields
<1>4. K \subseteq K
  OBVIOUS
<1> HIDE DEF m
<1>5. Resting(m, d, K)
  BY <1>3, <1>4, SteppedSound
<1>6. Keeps(n.base, n.state)
  BY <1>1, <1>2, KeepsOn
<1> QED BY <1>2, <1>3, <1>5, <1>6 DEF Prepares, m, n

(* nothing is changed,                                                       *)
LEMMA SavePrepares ==
  ASSUME T!NoneAssumption, NEW d, NEW K, NEW r, WorkSound(r, d, K), Head(r.plan) # "settle"
  PROVE  Prepares(r, [r EXCEPT !.plan = Tail(@)], d, K)
<1>1. DocSound(r.state, d) /\ DOMAIN r = RequestFields
  BY DEF WorkSound, Resting
<1>2. Keeps(r.state, r.state) /\ OnlyIts(r, r.state, K)
  BY <1>1, KeepsItself DEF OnlyIts
<1>3. Prepares(r, [r EXCEPT !.state = r.state, !.plan = Tail(@)], d, K)
  BY <1>1, <1>2, MarkedPrepares
<1>4. [r EXCEPT !.state = r.state, !.plan = Tail(@)] = [r EXCEPT !.plan = Tail(@)]
  BY <1>1 DEF RequestFields
<1> QED BY <1>3, <1>4

(* an attempt is noted,                                                      *)
LEMMA AttemptPrepares ==
  ASSUME T!NoneAssumption, NEW d, NEW K, NEW r, WorkSound(r, d, K),
         Head(r.plan) \notin {"save", "settle"}, NEW stage \in {"opening", "play", "pay"}
  PROVE  Prepares(r, T!Attempt(r, stage), d, K)
<1> DEFINE x == T!Focus(r)
           y == [x EXCEPT !.attempt = stage]
           t == T!Put(r.state, y)
<1>1. x \in T!Rounds(r.state) /\ x \in T!Round /\ x.id = r.round
  BY FocusIs
<1>2. Marked2(x, y) /\ (Terminal(y) => Terminal(x))
  BY <1>1, Marking DEF Terminal, T!Round
<1> HIDE DEF y
<1>3. r.undo # None /\ Terminal(y) => r.undo.key \in K
  BY <1>1, <1>2, ItsKey
<1>4. /\ DocSound(t, d) /\ Keeps(r.state, t) /\ Ids(t) = Ids(r.state)
      /\ (r.state.active # None /\ r.state.active.id = r.round =>
             t.active # None /\ t.active.id = r.round)
      /\ OnlyIts(r, t, K)
  BY <1>2, <1>3, PutIts
<1> HIDE DEF t
<1>5. Prepares(r, [r EXCEPT !.state = t, !.plan = Tail(@)], d, K)
  BY <1>4, MarkedPrepares
<1>6. DOMAIN r = RequestFields
  BY DEF WorkSound, Resting
<1>7. [r EXCEPT !.state = t, !.plan = Tail(@)] = T!Attempt(r, stage)
  BY <1>6 DEF RequestFields, T!Attempt, t, y
<1> QED BY <1>5, <1>7

(* cards are held,                                                           *)
LEMMA HoldPrepares ==
  ASSUME T!NoneAssumption, NEW d, NEW K, NEW r, WorkSound(r, d, K), Head(r.plan) = "hold"
  PROVE  LET x == T!Focus(r)
             t == T!Remember(T!Hold(r.state, x), r.request.action, "hold", x)
         IN  Prepares(r, [r EXCEPT !.state = t, !.plan = Tail(@)], d, K)
<1> DEFINE x == T!Focus(r)
           y == [x EXCEPT !.holds = TRUE]
           u == T!Put(r.state, y)
           t == T!Remember(u, r.request.action, "hold", x)
<1>1. x \in T!Rounds(r.state) /\ x \in T!Round /\ x.id = r.round
  BY FocusIs
<1>2. Marked2(x, y) /\ (Terminal(y) => Terminal(x))
  BY <1>1, Marking DEF Terminal, T!Round
<1> HIDE DEF y
<1>3. r.undo # None /\ Terminal(y) => r.undo.key \in K
  BY <1>1, <1>2, ItsKey
<1>4. /\ DocSound(u, d) /\ Keeps(r.state, u) /\ Ids(u) = Ids(r.state)
      /\ (r.state.active # None /\ r.state.active.id = r.round =>
             u.active # None /\ u.active.id = r.round)
      /\ OnlyIts(r, u, K)
  BY <1>2, <1>3, PutIts
<1> HIDE DEF u
<1>5. DocSound(t, d) /\ T!Rounds(t) = T!Rounds(u) /\ Ids(t) = Ids(u) /\ t.active = u.active
      /\ t.recent = u.recent
  BY <1>4, Remembered
<1>6. Keeps(r.state, t) /\ OnlyIts(r, t, K)
  BY <1>4, <1>5, KeepsSame DEF OnlyIts
<1> HIDE DEF t
<1>7. Prepares(r, [r EXCEPT !.state = t, !.plan = Tail(@)], d, K)
  BY <1>4, <1>5, <1>6, MarkedPrepares
<1> QED BY <1>7 DEF t, u, y, T!Hold

(* The round that is played out.                                             *)
LEMMA PlayedIs ==
  ASSUME T!NoneAssumption, NEW d, NEW K, NEW r, WorkSound(r, d, K), Head(r.plan) = "settle"
  PROVE  LET x == T!Focus(r)
             y == T!Played(r, x)
         IN  /\ x = r.state.active /\ y \in T!Round /\ y.id = x.id /\ y.start = x.start
             /\ y.phase = "settled" \/ y.phase = x.phase
<1> DEFINE x == T!Focus(r)
           y == T!Played(r, x)
<1>1. x \in T!Round /\ x = r.state.active
  BY FocusIs
<1>2. r.request.action \in Nat \cup {None}
  BY DEF WorkSound, Resting, Asked
<1>3. x.action \in Nat \cup {None} /\ x.pending \in Nat \cup {None} /\ x.bets \in Seq(Nat \cup {None})
  BY <1>1 DEF T!Round
<1>4. CASE table = "mississippi_stud"
  <2> DEFINE z == [x EXCEPT !.bets = Append(@, x.pending), !.pending = None, !.play = "not_ready"]
  <2>1. Append(x.bets, x.pending) \in Seq(Nat \cup {None})
    BY <1>3, AppendProperties
  <2>2. z \in T!Round /\ z.id = x.id /\ z.start = x.start /\ z.phase = x.phase
    BY <1>1, <2>1 DEF T!Round, T!Marks
  <2>3. y = IF Len(z.bets) = Streets THEN T!Settled(z, None, "play") ELSE z
    BY <1>4 DEF T!Played, T!AdvanceAfterBet
  <2> HIDE DEF z
  <2>4. LET v == T!Settled(z, None, "play")
        IN  v \in T!Round /\ v.id = z.id /\ v.start = z.start /\ v.phase = "settled"
    BY ZenonT(60), <2>2, SettledIs
  <2> HIDE DEF y
  <2>5. y \in T!Round /\ y.id = x.id /\ y.start = x.start /\ (y.phase = "settled" \/ y.phase = x.phase)
    BY <2>2, <2>3, <2>4
  <2> QED BY <1>1, <2>5 DEF y
<1>5. CASE table # "mississippi_stud"
  <2>1. PICK a \in {x.action, r.request.action} : y = T!Settled(x, a, "play")
    BY <1>5 DEF T!Played
  <2>2. a \in Nat \cup {None}
    BY <1>2, <1>3
  <2>3. LET v == T!Settled(x, a, "play")
        IN  v \in T!Round /\ v.id = x.id /\ v.start = x.start /\ v.phase = "settled"
    BY <1>1, <2>2, SettledIs
  <2> HIDE DEF y
  <2>4. y \in T!Round /\ y.id = x.id /\ y.start = x.start /\ y.phase = "settled"
    BY <2>1, <2>3
  <2> QED BY <1>1, <2>4 DEF y
<1> QED BY <1>4, <1>5

(* the round is played out.                                                  *)
LEMMA PlayOutPrepares ==
  ASSUME T!NoneAssumption, NEW d, NEW K, NEW r, WorkSound(r, d, K), Head(r.plan) = "settle"
  PROVE  Prepares(r, T!PlayOut(r), d, K)
<1> DEFINE x == T!Focus(r)
           y == T!Played(r, x)
           u == IF y.phase = "settled" THEN T!ArchiveRound(r.state, y) ELSE T!Put(r.state, y)
           t == IF table = "deuces_wild" THEN T!Remember(u, r.request.action, "decision", y) ELSE u
           p == IF y.phase # "settled" THEN Tail(r.plan)
                ELSE Tail(r.plan) \o T!Pay
           n == T!PlayOut(r)
           m == Republished(n)
<1>1. /\ x = r.state.active /\ y \in T!Round /\ y.id = x.id /\ y.start = x.start
      /\ y.phase = "settled" \/ y.phase = x.phase
  BY PlayedIs
<1>2. /\ x \in T!Rounds(r.state) /\ x \in T!Round /\ x.id = r.round /\ x.id \in Ids(r.state)
      /\ r.state.active # None /\ Head(r.plan) = r.plan[1] /\ Len(r.plan) \in Nat \ {0}
  BY FocusIs
<1>3. /\ DOMAIN r = RequestFields /\ DocSound(r.base, d) /\ DocSound(r.state, d)
      /\ Keeps(r.base, r.state) /\ PlanFits(r.plan, r.state, r.round) /\ r.plan # <<>>
      /\ r.stage \in {"repair", "command", "answer"} /\ Asked(r.request)
  BY DEF WorkSound, Resting
<1>4. x.phase \notin Over
  BY <1>1, <1>2, <1>3 DEF DocSound
<1>5. Len(r.plan) = 1 /\ Tail(r.plan) = <<>>
  <2>1. Len(r.plan) = 1
    <3>1. 1 \in 1..Len(r.plan) /\ r.plan[1] = "settle"
      BY <1>2
    <3>2. r.plan[1] = "settle" => 1 = Len(r.plan)
      BY <1>3, <3>1 DEF PlanFits
    <3> QED BY <3>1, <3>2
  <2>2. Tail(r.plan) \in Seq(Steps) /\ Len(Tail(r.plan)) = 0
    BY <2>1, <1>3, HeadTailProperties DEF PlanFits
  <2> QED BY <2>1, <2>2, EmptySeq
<1>6. r.undo = None
  <2> SUFFICES ASSUME r.undo # None PROVE FALSE
    OBVIOUS
  <2>1. r.undo.until \in Nat /\ Len(r.plan) > r.undo.until /\ r.plan[Len(r.plan) - r.undo.until] = "save"
    BY DEF WorkSound, Resting, UndoSound
  <2>2. Len(r.plan) - r.undo.until = 1
    BY <1>5, <2>1
  <2> QED BY <2>1, <2>2, <1>2
<1>7. /\ DOMAIN n = RequestFields /\ n.request = r.request /\ n.stage = r.stage
      /\ n.state = t /\ n.base = r.base /\ n.plan = p /\ n.round = r.round /\ n.undo = None
  BY <1>3, <1>6 DEF T!PlayOut, RequestFields
<1> HIDE DEF n
<1>8. /\ DOMAIN m = RequestFields /\ m.request = r.request /\ m.stage = r.stage
      /\ m.state = t /\ m.base = t /\ m.plan = p /\ m.round = r.round /\ m.undo = None
  BY <1>7 DEF Republished, RequestFields
<1> HIDE DEF m, y
<1>9. DocSound(u, d) /\ Keeps(r.state, u) /\ Ids(u) = Ids(r.state)
  <2>1. CASE y.phase = "settled"
    <3>1. Swaps(r.state, T!ArchiveRound(r.state, y), r.state.active, y, d)
      BY <2>1, <1>1, <1>2, <1>3, ArchiveSwaps DEF Over
    <3> QED BY <2>1, <3>1 DEF Swaps
  <2>2. CASE y.phase # "settled"
    <3>1. Becomes(x, y) /\ (y.phase \in Over <=> x.phase \in Over)
      BY <2>2, <1>1, <1>4 DEF Becomes, Terminal
    <3>2. Swaps(r.state, T!Put(r.state, y), x, y, d)
      BY <3>1, <1>2, <1>3, PutSwaps
    <3> QED BY <2>2, <3>2 DEF Swaps
  <2> QED BY <2>1, <2>2
<1> HIDE DEF u
<1>10. DocSound(t, d) /\ Keeps(r.state, t) /\ Ids(t) = Ids(r.state)
  BY <1>9, Remembered, KeepsSame
<1> HIDE DEF t
<1>11. PlanFits(p, t, r.round)
  <2>1. CASE y.phase # "settled"
    <3>1. PlanFits(<<>>, t, r.round)
      BY DEF PlanFits
    <3> QED BY <3>1, <2>1, <1>5
  <2>2. CASE y.phase = "settled"
    <3> DEFINE q == T!Pay
    <3>1. PlanFits(q, t, r.round)
      BY <1>2, <1>10, PartFits
    <3>2. q \in Seq(Steps)
      BY <3>1 DEF PlanFits
    <3> HIDE DEF q
    <3>3. <<>> \o q = q
      BY <3>2, ConcatEmptySeq
    <3>4. p = <<>> \o q
      BY <2>2, <1>5 DEF q
    <3> QED BY <3>1, <3>3, <3>4
  <2> QED BY <2>1, <2>2
<1> HIDE DEF p
<1>12. Keeps(t, t) /\ Keeps(r.base, t)
  BY <1>3, <1>10, KeepsItself, KeepsOn
<1>13. Resting(m, d, K)
  BY <1>3, <1>8, <1>10, <1>11, <1>12 DEF Resting
<1> QED BY <1>7, <1>8, <1>10, <1>12, <1>13 DEF Prepares, m, n

(* All of them.                                                              *)
LEMMA PreparedSound ==
  ASSUME T!NoneAssumption, NEW d, NEW K, NEW r, WorkSound(r, d, K), NEW n \in T!Prepared(r)
  PROVE  Prepares(r, n, d, K)
<1> DEFINE step == Head(r.plan)
<1>1. CASE step = "save"
  BY <1>1, SavePrepares DEF T!Prepared
<1>2. CASE step = "settle"
  BY <1>2, PlayOutPrepares DEF T!Prepared
<1>3. CASE step \in {"attemptOpening", "attemptPlay", "attemptPay"}
  <2>1. PICK stage \in {"opening", "play", "pay"} : n = T!Attempt(r, stage)
    BY <1>3 DEF T!Prepared
  <2> QED BY <1>3, <2>1, AttemptPrepares
<1>4. CASE step = "hold"
  <2> DEFINE t == T!Remember(T!Hold(r.state, T!Focus(r)), r.request.action, "hold", T!Focus(r))
  <2>1. n = [r EXCEPT !.state = t, !.plan = Tail(@)]
    BY <1>4 DEF T!Prepared
  <2> QED BY <1>4, <2>1, HoldPrepares
<1>5. CASE step \notin {"save", "settle", "attemptOpening", "attemptPlay", "attemptPay", "hold"}
  BY <1>5 DEF T!Prepared
<1> QED BY <1>1, <1>2, <1>3, <1>4, <1>5

(* A movement that is in the ledger is marked in the request's copy.         *)
LEMMA MovedSound ==
  ASSUME T!NoneAssumption, NEW d, NEW K, NEW L, K \subseteq L, NEW r, WorkSound(r, d, K),
         NEW part \in {"opening", "play", "pay"}, part = Head(r.plan),
         part # "pay" => T!Keys(T!Focus(r))[part] \in L
  PROVE  WorkSound(T!Marked(r, part), d, L)
<1> DEFINE x == T!Focus(r)
           v == CASE part = "opening" -> [x EXCEPT !.opening = "complete"]
                  [] part = "play" -> [x EXCEPT !.play = "complete"]
                  [] part = "pay" -> [x EXCEPT !.settlement = "complete"]
           y == [v EXCEPT !.attempt = None]
           t == T!Put(r.state, y)
           n == T!Marked(r, part)
<1>1. /\ x \in T!Rounds(r.state) /\ x \in T!Round /\ x.id = r.round
      /\ Head(r.plan) = r.plan[1] /\ Len(r.plan) \in Nat \ {0}
  BY FocusIs
<1>2. Marked2(x, v) /\ (part = "pay" => v.opening = x.opening /\ v.play = x.play)
  <2>1. CASE part = "opening"
    BY <1>1, <2>1, Marking
  <2>2. CASE part = "play"
    BY <1>1, <2>2, Marking
  <2>3. CASE part = "pay"
    BY <1>1, <2>3, Marking DEF T!Round
  <2> QED BY <2>1, <2>2, <2>3
<1> HIDE DEF v
<1>3. v \in T!Round
  BY <1>2 DEF Marked2
<1>4. Marked2(v, y) /\ y.opening = v.opening /\ y.play = v.play
  BY <1>3, Marking DEF T!Round
<1> HIDE DEF y
<1>5. Marked2(x, y)
  BY <1>2, <1>4, MarkedTwice
<1>6. r.undo # None /\ Terminal(y) => r.undo.key \in L
  <2> SUFFICES ASSUME r.undo # None, Terminal(y) PROVE r.undo.key \in L
    OBVIOUS
  <2>1. CASE part = "pay"
    <3>1. Terminal(x)
      BY <2>1, <1>2, <1>4, <1>5 DEF Terminal, Marked2
    <3> QED BY <3>1, <1>1, ItsKey
  <2>2. CASE part # "pay"
    <3>1. x.phase \in Over
      BY <1>5 DEF Terminal, Marked2
    <3>2. 1 \in 1..Len(r.plan) /\ r.plan[1] \in {"opening", "play"} /\ r.plan[1] = part
      BY <1>1, <2>2
    <3>3. T!Keys(x)[part] = r.undo.key
      BY <3>1, <3>2, <1>1 DEF WorkSound, Resting, UndoSound
    <3> QED BY <3>3, <2>2
  <2> QED BY <2>1, <2>2
<1>7. /\ DocSound(t, d) /\ Keeps(r.state, t) /\ Ids(t) = Ids(r.state)
      /\ (r.state.active # None /\ r.state.active.id = r.round =>
             t.active # None /\ t.active.id = r.round)
      /\ OnlyIts(r, t, L)
  BY <1>5, <1>6, PutIts
<1> HIDE DEF t
<1>8. Stepped(r, n, t)
  BY DEF Stepped, T!Marked, WorkSound, Resting, RequestFields, t, y, v
<1> HIDE DEF n
<1>9. WorkSound(n, d, L)
  BY <1>7, <1>8, SteppedSound
<1> QED BY <1>9 DEF n

-----------------------------------------------------------------------------
(* The actions                                                               *)

(* What every step of worker w keeps.                                        *)
StepSound(w) ==
    /\ table' = table /\ deals' \in Nat /\ deals <= deals' /\ DOMAIN rows \subseteq DOMAIN rows'
    /\ DocSound(doc', deals) /\ Keeps(doc, doc')
    /\ \E n : work' = [work EXCEPT ![w] = n] /\ (n = None \/ WorkSound(n, deals', DOMAIN rows'))

(* A request loads the document.                                             *)
LEMMA LoadSound ==
  ASSUME T!NoneAssumption, T!TableBounds, TableInv, NEW w \in Workers, NEW q, Asked(q), T!Load(w, q)
  PROVE  StepSound(w)
<1> DEFINE r == T!NewRequest(q)
<1>1. PICK m \in T!Continue(r) : work' = [work EXCEPT ![w] = m] /\ deals' = deals + T!Deals(m)
  BY DEF T!Load, T!GoOn
<1>2. table' = table /\ doc' = doc /\ rows' = rows
  BY DEF T!Load
<1>3. DocSound(doc, deals) /\ deals \in Nat /\ table \in T!AllTables
  BY DEF TableInv, T!TableBounds
<1>4. /\ DOMAIN r = RequestFields /\ r.request = q /\ r.stage \in {"repair", "command"}
      /\ r.state = doc /\ r.base = doc /\ r.plan = <<>> /\ r.undo = None
  BY DEF T!NewRequest, RequestFields
<1> HIDE DEF r
<1>5. Keeps(doc, doc) /\ PlanFits(r.plan, r.state, r.round)
  BY <1>3, <1>4, KeepsItself DEF PlanFits
<1>6. Resting(r, deals, DOMAIN rows)
  BY <1>3, <1>4, <1>5 DEF Resting
<1>7. m = None \/ WorkSound(m, deals + T!Deals(m), DOMAIN rows)
  BY <1>3, <1>4, <1>6, ContinueSound
<1>8. T!Deals(m) \in {0, 1}
  BY DealsCounted
<1>9. deals' \in Nat /\ deals <= deals' /\ DOMAIN rows \subseteq DOMAIN rows'
  BY <1>1, <1>2, <1>3, <1>8
<1>10. m = None \/ WorkSound(m, deals', DOMAIN rows')
  BY <1>1, <1>2, <1>7
<1>11. DocSound(doc', deals) /\ Keeps(doc, doc')
  BY <1>2, <1>3, <1>5
<1> QED BY <1>1, <1>2, <1>9, <1>10, <1>11 DEF StepSound

(* Requests of the three kinds.                                              *)
LEMMA RequestsSound ==
  ASSUME T!NoneAssumption, T!TableBounds, TableInv, NEW w \in Workers, T!Look(w) \/ T!Ask(w) \/ T!Arrange(w)
  PROVE  StepSound(w)
<1>1. CASE T!Look(w)
  <2>1. Asked(T!Request("state", None, None, None))
    BY DEF Asked, T!Request
  <2> QED BY <1>1, <2>1, LoadSound DEF T!Look
<1>2. CASE T!Ask(w)
  <2>1. PICK a \in {b \in T!Actions : b <= issued + 1} :
          \/ T!Load(w, T!Request("start", a, None, None))
          \/ /\ ~T!OneShot
             /\ \E x \in T!Rounds(doc), c \in T!DecisionChoices : T!Load(w, T!Request("decide", a, x.id, c))
          \/ /\ table = "deuces_wild"
             /\ \E x \in T!Rounds(doc) : T!Load(w, T!Request("hold", a, x.id, None))
    BY <1>2 DEF T!Ask
  <2>2. a \in Nat
    BY DEF T!Actions
  <2>3. CASE T!Load(w, T!Request("start", a, None, None))
    <3>1. Asked(T!Request("start", a, None, None))
      BY <2>2 DEF Asked, T!Request
    <3> QED BY <2>3, <3>1, LoadSound
  <2>4. ASSUME ~T!OneShot, NEW x \in T!Rounds(doc), NEW c \in T!DecisionChoices,
               T!Load(w, T!Request("decide", a, x.id, c))
        PROVE  StepSound(w)
    <3>1. Asked(T!Request("decide", a, x.id, c))
      BY <2>2, <2>4 DEF Asked, T!Request, T!DecisionChoices
    <3> QED BY <2>4, <3>1, LoadSound
  <2>5. ASSUME table = "deuces_wild", NEW x \in T!Rounds(doc), T!Load(w, T!Request("hold", a, x.id, None))
        PROVE  StepSound(w)
    <3>1. Asked(T!Request("hold", a, x.id, None))
      BY <2>2, <2>5 DEF Asked, T!Request
    <3> QED BY <2>5, <3>1, LoadSound
  <2> QED BY <2>1, <2>3, <2>4, <2>5
<1>3. CASE T!Arrange(w)
  <2>1. PICK x \in T!Rounds(doc) : T!Load(w, T!Request("hold", None, x.id, None))
    BY <1>3 DEF T!Arrange
  <2>2. Asked(T!Request("hold", None, x.id, None))
    BY <1>3 DEF Asked, T!Request, T!Arrange
  <2> QED BY <2>1, <2>2, LoadSound
<1> QED BY <1>1, <1>2, <1>3

(* The worker stays on the same document, and goes on with n.                *)
LEMMA StaysSound ==
  ASSUME TableInv, NEW w \in Workers, NEW n, work' = [work EXCEPT ![w] = n],
         n = None \/ WorkSound(n, deals, DOMAIN rows'), DOMAIN rows \subseteq DOMAIN rows',
         table' = table, doc' = doc, deals' = deals
  PROVE  StepSound(w)
<1>1. DocSound(doc, deals) /\ deals \in Nat
  BY DEF TableInv
<1>2. Keeps(doc, doc)
  BY <1>1, KeepsItself
<1>3. n = None \/ WorkSound(n, deals', DOMAIN rows')
  OBVIOUS
<1>4. DocSound(doc', deals) /\ Keeps(doc, doc')
  BY <1>1, <1>2
<1>5. deals' \in Nat /\ deals <= deals'
  BY <1>1
<1> QED BY <1>3, <1>4, <1>5 DEF StepSound

(* A call that fails.                                                        *)
LEMMA FailedSound ==
  ASSUME T!NoneAssumption, TableInv, NEW w \in Workers, work[w] # None, NEW short \in BOOLEAN,
         T!GoOn(w, T!Raised(work[w], short)), rows' = rows, table' = table, doc' = doc, deals' = deals
  PROVE  StepSound(w)
<1>1. WorkSound(work[w], deals, DOMAIN rows)
  BY DEF TableInv
<1>2. T!Raised(work[w], short) = None \/ WorkSound(T!Raised(work[w], short), deals, DOMAIN rows)
  BY <1>1, RaisedSound
<1>3. /\ work' = [work EXCEPT ![w] = T!Raised(work[w], short)] /\ DOMAIN rows \subseteq DOMAIN rows'
      /\ T!Raised(work[w], short) = None \/ WorkSound(T!Raised(work[w], short), deals, DOMAIN rows')
  BY <1>2 DEF T!GoOn
<1> QED BY <1>3, StaysSound

(* A publication that is accepted: the document is still the one the request saw. *)
LEMMA AcceptSound ==
  ASSUME T!NoneAssumption, T!TableBounds, TableInv, NEW w \in Workers, work[w] # None,
         NEW n \in T!Prepared(work[w]), T!Accept(w, work[w], n), rows' = rows, table' = table
  PROVE  StepSound(w)
<1> DEFINE r == work[w]
           K == DOMAIN rows
           m0 == Republished(n)
<1>1. WorkSound(r, deals, K) /\ deals \in Nat /\ table \in T!AllTables
  BY DEF TableInv, T!TableBounds
<1>2. /\ DocSound(n.state, deals) /\ Keeps(n.base, n.state) /\ Resting(m0, deals, K)
      /\ m0.base = n.state /\ m0.state = n.state
  BY <1>1, PreparedSound DEF Prepares
<1>3. doc' = n.state /\ doc \in {n.base, n.state}
  BY DEF T!Accept, T!Replaceable
<1>4. Keeps(n.state, n.state)
  BY <1>2, KeepsItself
<1>5. DocSound(doc', deals) /\ Keeps(doc, doc')
  BY <1>2, <1>3, <1>4
<1>6. CASE \E m \in T!Continue(m0) : T!GoOn(w, m) /\ deals' = deals + T!Deals(m)
  <2>1. PICK m \in T!Continue(m0) : work' = [work EXCEPT ![w] = m] /\ deals' = deals + T!Deals(m)
    BY <1>6 DEF T!GoOn
  <2> HIDE DEF m0
  <2>2. m = None \/ WorkSound(m, deals + T!Deals(m), K)
    BY <1>1, <1>2, ContinueSound
  <2>3. m = None \/ WorkSound(m, deals', DOMAIN rows')
    BY <2>1, <2>2
  <2>4. deals' \in Nat /\ deals <= deals'
    BY <2>1, <1>1, DealsCounted
  <2>5. DOMAIN rows \subseteq DOMAIN rows'
    OBVIOUS
  <2> QED BY <2>1, <2>3, <2>4, <2>5, <1>5 DEF StepSound
<1>7. CASE T!GoOn(w, T!Raised(r, FALSE)) /\ deals' = deals
  <2>1. T!Raised(r, FALSE) = None \/ WorkSound(T!Raised(r, FALSE), deals, K)
    BY <1>1, RaisedSound
  <2>2. T!Raised(r, FALSE) = None \/ WorkSound(T!Raised(r, FALSE), deals', DOMAIN rows')
    BY <1>7, <2>1
  <2>3. deals' \in Nat /\ deals <= deals' /\ DOMAIN rows \subseteq DOMAIN rows'
    BY <1>1, <1>7
  <2> QED BY <1>5, <1>7, <2>2, <2>3 DEF StepSound, T!GoOn
<1> QED BY <1>6, <1>7 DEF T!Accept, Republished

(* A publication, accepted or refused.                                       *)
LEMMA SaveSound ==
  ASSUME T!NoneAssumption, T!TableBounds, TableInv, NEW w \in Workers, T!Save(w)
  PROVE  StepSound(w)
<1> DEFINE r == work[w]
<1>1. r # None /\ table' = table /\ rows' = rows
  BY DEF T!Save
<1>2. CASE \E n \in T!Prepared(r) : T!Accept(w, r, n)
  BY <1>1, <1>2, AcceptSound
<1>3. CASE T!GoOn(w, T!Raised(r, FALSE)) /\ doc' = doc /\ deals' = deals
  BY <1>1, <1>3, FailedSound
<1> QED BY <1>2, <1>3 DEF T!Save, T!Refuse

(* A movement, made, found made already, or refused for want of money.       *)
LEMMA MoveSound ==
  ASSUME T!NoneAssumption, TableInv, NEW w \in Workers, T!Move(w)
  PROVE  StepSound(w)
<1> DEFINE r == work[w]
           part == Head(r.plan)
           k == T!Keys(T!Focus(r))[part]
           due == T!Outstanding(r, part)
<1>1. /\ r # None /\ part \in {"opening", "play", "pay"}
      /\ table' = table /\ doc' = doc /\ deals' = deals
  BY DEF T!Move
<1>2. WorkSound(r, deals, DOMAIN rows)
  BY <1>1 DEF TableInv
<1>3. CASE ~due /\ T!GoOn(w, T!Marked(r, part)) /\ rows' = rows
  <2>1. part # "pay" => k \in DOMAIN rows
    BY <1>3 DEF T!Outstanding
  <2>2. DOMAIN rows \subseteq DOMAIN rows
    OBVIOUS
  <2>3. WorkSound(T!Marked(r, part), deals, DOMAIN rows)
    BY <1>1, <1>2, <2>1, <2>2, MovedSound
  <2>4. WorkSound(T!Marked(r, part), deals, DOMAIN rows') /\ DOMAIN rows \subseteq DOMAIN rows'
        /\ work' = [work EXCEPT ![w] = T!Marked(r, part)]
    BY <1>3, <2>3 DEF T!GoOn
  <2> QED BY <1>1, <2>4, StaysSound
<1>4. CASE T!GoOn(w, T!Raised(r, TRUE)) /\ rows' = rows
  BY <1>1, <1>4, FailedSound
<1>5. CASE /\ rows' = [j \in DOMAIN rows \cup {k} |->
                         (IF j \in DOMAIN rows THEN rows[j] ELSE 0) + IF j = k THEN 1 ELSE 0]
           /\ T!GoOn(w, T!Marked(r, part)) \/ T!GoOn(w, None)
  <2>1. DOMAIN rows \subseteq DOMAIN rows' /\ k \in DOMAIN rows'
    BY <1>5
  <2>2. WorkSound(T!Marked(r, part), deals, DOMAIN rows')
    BY <1>1, <1>2, <2>1, MovedSound
  <2>3. PICK n \in {T!Marked(r, part), None} : work' = [work EXCEPT ![w] = n]
    BY <1>5 DEF T!GoOn
  <2>4. n = None \/ WorkSound(n, deals, DOMAIN rows')
    BY <2>2
  <2> QED BY <1>1, <2>1, <2>3, <2>4, StaysSound
<1> QED BY <1>3, <1>4, <1>5 DEF T!Move

(* A failure, or the death of a worker.                                      *)
LEMMA FailSound ==
  ASSUME T!NoneAssumption, TableInv, NEW w \in Workers, T!Fail(w)
  PROVE  StepSound(w)
<1>1. work[w] # None /\ rows' = rows /\ table' = table /\ doc' = doc /\ deals' = deals
  BY DEF T!Fail
<1>2. CASE T!GoOn(w, T!Raised(work[w], FALSE))
  BY <1>1, <1>2, FailedSound
<1>3. CASE T!GoOn(w, None)
  <2>1. work' = [work EXCEPT ![w] = None] /\ DOMAIN rows \subseteq DOMAIN rows'
    BY <1>1, <1>3 DEF T!GoOn
  <2> QED BY <1>1, <2>1, StaysSound
<1> QED BY <1>2, <1>3 DEF T!Fail

(* Every step is one of a worker.                                            *)
LEMMA NextSound ==
  ASSUME T!NoneAssumption, T!TableBounds, TableInv, T!Next
  PROVE  \E w \in Workers : StepSound(w)
<1>1. PICK w \in Workers : T!Look(w) \/ T!Ask(w) \/ T!Arrange(w) \/ T!Save(w) \/ T!Move(w) \/ T!Fail(w)
  BY DEF T!Next, T!Step
<1>2. StepSound(w)
  BY <1>1, RequestsSound, SaveSound, MoveSound, FailSound
<1> QED BY <1>2

-----------------------------------------------------------------------------
(* The theorem                                                               *)

(* The table is the same before and after a step.                            *)
LEMMA SameTable ==
  ASSUME table' = table
  PROVE  /\ \A s, d : DocSound(s, d)' <=> DocSound(s, d)
         /\ \A r, d, K : WorkSound(r, d, K)' <=> WorkSound(r, d, K)
<1>1. \A x, d : RoundFits(x, d)' <=> RoundFits(x, d)
  BY DEF RoundFits
<1>2. \A s, d : DocSound(s, d)' <=> DocSound(s, d)
  BY <1>1 DEF DocSound
<1>3. \A x : T!Keys(x)' = T!Keys(x)
  BY DEF T!Keys
<1>4. \A r, d, K : UndoSound(r, d, K)' <=> UndoSound(r, d, K)
  BY <1>2, <1>3 DEF UndoSound
<1>5. \A q : Asked(q)' <=> Asked(q)
  BY DEF Asked, T!OneShot
<1>6. \A r, d, K : Resting(r, d, K)' <=> Resting(r, d, K)
  BY <1>2, <1>4, <1>5 DEF Resting
<1> QED BY <1>2, <1>6 DEF WorkSound

(* Such a step keeps the invariant.                                          *)
LEMMA StepKeepsTables ==
  ASSUME T!NoneAssumption, TableInv, NEW w \in Workers, StepSound(w)
  PROVE  TableInv'
<1>1. PICK n : work' = [work EXCEPT ![w] = n] /\ (n = None \/ WorkSound(n, deals', DOMAIN rows'))
  BY DEF StepSound
<1>2. /\ table' = table /\ table \in Tables /\ deals \in Nat /\ deals' \in Nat /\ deals <= deals'
      /\ DOMAIN rows \subseteq DOMAIN rows' /\ DOMAIN work = Workers
  BY DEF StepSound, TableInv
<1>3. DocSound(doc', deals')
  BY <1>2, DealtMore DEF StepSound, T!NoneAssumption
<1>4. \A v \in Workers : work'[v] = None \/ WorkSound(work'[v], deals', DOMAIN rows')
  <2> SUFFICES ASSUME NEW v \in Workers
               PROVE  work'[v] = None \/ WorkSound(work'[v], deals', DOMAIN rows')
    OBVIOUS
  <2>1. CASE v = w
    BY <1>1, <1>2, <2>1
  <2>2. CASE v # w
    <3>1. work'[v] = work[v] /\ (work[v] = None \/ WorkSound(work[v], deals, DOMAIN rows))
      BY <1>1, <1>2, <2>2 DEF TableInv
    <3> QED BY <3>1, <1>2, LaterSound
  <2> QED BY <2>1, <2>2
<1>5. DOMAIN work' = Workers
  BY <1>1, <1>2
<1> QED BY <1>2, <1>3, <1>4, <1>5, SameTable DEF TableInv

(* At first there is nothing to keep.                                        *)
LEMMA InitSound == ASSUME T!TableBounds, T!Init PROVE TableInv
<1>1. DOMAIN doc = {"active", "recent", "receipts"} /\ T!Rounds(doc) = {} /\ doc.active = None /\ doc.recent = {}
  BY DEF T!Init, T!Rounds
<1>2. Ids(doc) = {}
  BY <1>1 DEF Ids
<1>3. DocSound(doc, deals)
  BY <1>1, <1>2 DEF DocSound
<1> QED BY <1>3 DEF T!Init, TableInv

(* The invariant holds throughout.                                           *)
LEMMA TablesInductive ==
  ASSUME T!NoneAssumption, T!TableBounds PROVE T!Spec => []TableInv
<1>1. T!Init => TableInv
  BY InitSound
<1>2. TableInv /\ [T!Next]_T!vars => TableInv'
  <2>1. CASE T!Next
    BY <2>1, NextSound, StepKeepsTables
  <2>2. CASE UNCHANGED T!vars
    <3> SUFFICES ASSUME TableInv PROVE TableInv'
      OBVIOUS
    <3>1. table' = table /\ doc' = doc /\ rows' = rows /\ work' = work /\ deals' = deals
      BY <2>2 DEF T!vars
    <3> QED BY <3>1, SameTable DEF TableInv
  <2> QED BY <2>1, <2>2
<1> QED BY <1>1, <1>2, PTL DEF T!Spec

(* A round that is over and whose stakes are paid stays as it was decided,   *)
(* at every table, for any number of workers, of rounds and of failures.     *)
THEOREM DecidedRoundsStay ==
  ASSUME T!NoneAssumption, T!TableBounds PROVE T!Spec => T!TerminalIsFinal
<1> DEFINE Final == \A x \in T!Rounds(doc) :
                      x.phase \in {"settled", "passed"} /\ x.opening # "pending" /\ x.play # "pending"
                      => \E y \in doc'.recent : y.phase = x.phase /\ T!Result(y) = T!Result(x)
<1>1. TableInv /\ [T!Next]_T!vars => [Final]_T!vars
  <2>1. ASSUME TableInv, T!Next PROVE Final
    <3>1. Keeps(doc, doc')
      BY <2>1, NextSound DEF StepSound
    <3> QED BY <3>1 DEF Keeps, Terminal, Over
  <2> QED BY <2>1
<1>2. T!Spec => []TableInv
  BY TablesInductive
<1> QED BY <1>1, <1>2, PTL DEF T!Spec, T!TerminalIsFinal

-----------------------------------------------------------------------------
(* Marks                                                                     *)

(* A mark says that the ledger K has the movement. A round that is not over   *)
(* has none of the marks whose keys its decision is still to give.            *)
Raising == {"four_card_poker", "casino_holdem", "teen_patti"}
Early(x) ==
    /\ ~T!OneShot
    /\ table # "deuces_wild" => x.settlement = "not_ready"
    /\ table = "acey_deucey" => x.opening = "not_ready"
    /\ table = "caribbean_stud" => x.play = "not_ready"
    /\ table \in Raising /\ x.phase = "decision" => x.play = "not_ready"
Backed(x, K) ==
    /\ x.opening = "complete" => T!Keys(x).opening \in K
    /\ x.play = "complete" => T!Keys(x).play \in K
    /\ x.settlement = "complete" /\ T!Pays(x) => T!Keys(x).pay \in K
    /\ x.phase \notin Over => Early(x)
Clear(s, K) == \A x \in T!Rounds(s) : Backed(x, K)

(* A step of a plan marks a round only when that may be marked.               *)
May(step, x) ==
    x.phase \notin Over =>
        /\ step = "pay" => table = "deuces_wild"
        /\ step = "opening" => table # "acey_deucey"
        /\ step = "play" => table # "caribbean_stud" /\ (table \in Raising => x.phase # "decision")
Late(p, s, id) ==
    \A x \in T!Rounds(s) : x.id = id => \A i \in 1..Len(p) : May(p[i], x)

(* Where a raise is played out, no command meets a round half played.         *)
NotPlaying(s) == table \in Raising /\ s.active # None => s.active.phase # "playing"

WorkMarks(r, K) ==
    /\ Clear(r.state, K) /\ Clear(r.base, K)
    /\ r.undo # None => Clear(r.undo.state, K)
    /\ Late(r.plan, r.state, r.round)
    /\ r.stage = "command" => NotPlaying(r.state)
MarksInv ==
    /\ Clear(doc, DOMAIN rows)
    /\ \A w \in Workers : work[w] = None \/ WorkMarks(work[w], DOMAIN rows)

(* The keys of a round at each table.                                        *)
LEMMA OpeningKeys ==
  ASSUME table \in T!AllTables, NEW x
  PROVE  T!Keys(x).opening =
           CASE table \in {"jacks_or_better", "deuces_wild"} -> <<x.id, "wager">>
             [] table = "acey_deucey" -> <<x.action, "wager">>
             [] table = "caribbean_stud" -> <<x.start, "ante">>
             [] OTHER -> <<x.start, "">>
<1>1. CASE table = "hi_lo"
  BY <1>1 DEF T!Keys, T!HiLoKeys
<1>2. CASE table = "pai_gow_poker"
  BY <1>2 DEF T!Keys, T!PaiGowKeys
<1>3. CASE table = "double_bonus"
  BY <1>3 DEF T!Keys, T!DoubleBonusKeys, T!PaiGowKeys
<1>4. CASE table = "joker_poker"
  BY <1>4 DEF T!Keys, T!JokerKeys, T!HiLoKeys
<1>5. CASE table = "four_card_poker"
  BY <1>5 DEF T!Keys, T!FourCardKeys
<1>6. CASE table = "casino_holdem"
  BY <1>6 DEF T!Keys, T!HoldemKeys, T!FourCardKeys
<1>7. CASE table = "teen_patti"
  BY <1>7 DEF T!Keys, T!TeenPattiKeys, T!FourCardKeys
<1>8. CASE table = "mississippi_stud"
  BY <1>8 DEF T!Keys, T!MississippiKeys
<1>9. CASE table = "acey_deucey"
  BY <1>9 DEF T!Keys, T!AceyKeys
<1>10. CASE table = "plinko"
  BY <1>10 DEF T!Keys, T!PlinkoKeys
<1>11. CASE table = "andar_bahar"
  BY <1>11 DEF T!Keys, T!AndarBaharKeys
<1>12. CASE table = "caribbean_stud"
  BY <1>12 DEF T!Keys, T!CaribbeanKeys
<1>13. CASE table = "jacks_or_better"
  BY <1>13 DEF T!Keys, T!JacksKeys
<1>14. CASE table = "deuces_wild"
  BY <1>14 DEF T!Keys, T!DeucesKeys
<1> QED BY <1>1, <1>2, <1>3, <1>4, <1>5, <1>6, <1>7, <1>8, <1>9, <1>10, <1>11, <1>12, <1>13, <1>14 DEF T!AllTables

(* The key of a raise, a call or a street depends on the decision.            *)
LEMMA PlayKeys ==
  ASSUME table \in T!AllTables, NEW x
  PROVE  T!Keys(x).play =
           CASE table \in Raising -> <<x.action, "">>
             [] table = "caribbean_stud" -> <<x.action, "call">>
             [] table = "mississippi_stud" -> <<x.pending, "">>
             [] OTHER -> None
<1>1. CASE table = "hi_lo"
  BY <1>1 DEF Raising, T!Keys, T!HiLoKeys
<1>2. CASE table = "pai_gow_poker"
  BY <1>2 DEF Raising, T!Keys, T!PaiGowKeys
<1>3. CASE table = "double_bonus"
  BY <1>3 DEF Raising, T!Keys, T!DoubleBonusKeys, T!PaiGowKeys
<1>4. CASE table = "joker_poker"
  BY <1>4 DEF Raising, T!Keys, T!JokerKeys, T!HiLoKeys
<1>5. CASE table = "four_card_poker"
  BY <1>5 DEF Raising, T!Keys, T!FourCardKeys
<1>6. CASE table = "casino_holdem"
  BY <1>6 DEF Raising, T!Keys, T!HoldemKeys, T!FourCardKeys
<1>7. CASE table = "teen_patti"
  BY <1>7 DEF Raising, T!Keys, T!TeenPattiKeys, T!FourCardKeys
<1>8. CASE table = "mississippi_stud"
  BY <1>8 DEF Raising, T!Keys, T!MississippiKeys
<1>9. CASE table = "acey_deucey"
  BY <1>9 DEF Raising, T!Keys, T!AceyKeys
<1>10. CASE table = "plinko"
  BY <1>10 DEF Raising, T!Keys, T!PlinkoKeys
<1>11. CASE table = "andar_bahar"
  BY <1>11 DEF Raising, T!Keys, T!AndarBaharKeys
<1>12. CASE table = "caribbean_stud"
  BY <1>12 DEF Raising, T!Keys, T!CaribbeanKeys
<1>13. CASE table = "jacks_or_better"
  BY <1>13 DEF Raising, T!Keys, T!JacksKeys
<1>14. CASE table = "deuces_wild"
  BY <1>14 DEF Raising, T!Keys, T!DeucesKeys
<1> QED BY <1>1, <1>2, <1>3, <1>4, <1>5, <1>6, <1>7, <1>8, <1>9, <1>10, <1>11, <1>12, <1>13, <1>14 DEF T!AllTables

(* Keys that two rounds, or one before and after a change, have in common.    *)
LEMMA SameOpening ==
  ASSUME table \in T!AllTables, NEW x, NEW y, y.id = x.id, y.start = x.start,
         table = "acey_deucey" => y.action = x.action
  PROVE  T!Keys(y).opening = T!Keys(x).opening
BY OpeningKeys

(* A round keeps that key while what it depends on stays.                     *)
LEMMA SamePlay ==
  ASSUME table \in T!AllTables, NEW x, NEW y,
         table \in Raising \cup {"caribbean_stud"} => y.action = x.action,
         table = "mississippi_stud" => y.pending = x.pending
  PROVE  T!Keys(y).play = T!Keys(x).play
<1>1. CASE table \in Raising
  <2>1. \A z : T!Keys(z).play = <<z.action, "">>
    BY <1>1, PlayKeys DEF Raising
  <2> QED BY <1>1, <2>1
<1>2. CASE table = "caribbean_stud"
  <2>1. table \notin Raising
    BY <1>2 DEF Raising
  <2>2. \A z : T!Keys(z).play = <<z.action, "call">>
    BY <1>2, <2>1, PlayKeys
  <2> QED BY <1>2, <2>2
<1>3. CASE table = "mississippi_stud"
  BY <1>3, PlayKeys DEF Raising
<1>4. CASE table \notin Raising /\ table # "caribbean_stud" /\ table # "mississippi_stud"
  <2>1. \A z : T!Keys(z).play = None
    BY <1>4, PlayKeys
  <2> QED BY <2>1
<1> QED BY <1>1, <1>2, <1>3, <1>4

(* The rounds of a document in which one was put, or archived.                *)
LEMMA PutIs ==
  ASSUME NEW d, NEW s, DocSound(s, d), NEW y, NEW z \in T!Rounds(T!Put(s, y))
  PROVE  z = y \/ (z \in T!Rounds(s) /\ z.id # y.id)
<1> DEFINE t == T!Put(s, y)
<1>1. CASE s.active # None /\ s.active.id = y.id
  <2>1. t.active = y /\ t.recent = s.recent
    BY <1>1 DEF T!Put, DocSound
  <2>2. \A v \in s.recent : v.id # y.id
    BY <1>1 DEF DocSound, T!Rounds
  <2> QED BY <2>1, <2>2 DEF T!Rounds
<1>2. CASE ~(s.active # None /\ s.active.id = y.id)
  <2>1. t.active = s.active /\ t.recent = {v \in s.recent : v.id # y.id} \cup {y}
    BY <1>2 DEF T!Put, DocSound
  <2> QED BY <2>1, <1>2 DEF T!Rounds
<1> QED BY <1>1, <1>2

(* Archiving a round adds it, and takes away the ones of its id.              *)
LEMMA ArchivedIs ==
  ASSUME NEW d, NEW s, DocSound(s, d), NEW y, NEW z \in T!Rounds(T!ArchiveRound(s, y))
  PROVE  z = y \/ (z \in T!Rounds(s) /\ z.id # y.id)
<1> DEFINE t == T!ArchiveRound(s, y)
<1>1. /\ t.active = IF s.active # None /\ s.active.id = y.id THEN None ELSE s.active
      /\ t.recent = {v \in s.recent : v.id # y.id} \cup {y}
  BY DEF T!ArchiveRound, DocSound
<1> QED BY <1>1 DEF T!Rounds

(* What is clear stays clear.                                                 *)
LEMMA PutClear ==
  ASSUME NEW d, NEW s, NEW K, DocSound(s, d), Clear(s, K), NEW y, Backed(y, K)
  PROVE  Clear(T!Put(s, y), K) /\ Clear(T!ArchiveRound(s, y), K)
<1>1. Clear(T!Put(s, y), K)
  BY PutIs DEF Clear
<1>2. Clear(T!ArchiveRound(s, y), K)
  BY ArchivedIs DEF Clear
<1> QED BY <1>1, <1>2

(* A document with fewer rounds is clear on a longer ledger.                  *)
LEMMA FewerClear ==
  ASSUME NEW s, NEW t, NEW K, NEW L, Clear(s, K), K \subseteq L, T!Rounds(t) \subseteq T!Rounds(s)
  PROVE  Clear(t, L)
  BY DEF Clear, Backed

(* A plan of harmless steps, and one for a round that is over.                *)
Uses(p, S) == \A i \in 1..Len(p) : p[i] \in S
(* Two plans of harmless steps, one after the other.                          *)
LEMMA UsesCat ==
  ASSUME NEW S, NEW p \in Seq(Steps), NEW q \in Seq(Steps), Uses(p, S), Uses(q, S)
  PROVE  Uses(p \o q, S)
<1> SUFFICES ASSUME NEW i \in 1..Len(p \o q) PROVE (p \o q)[i] \in S
  BY DEF Uses
<1>1. Len(p \o q) = Len(p) + Len(q) /\ Len(p) \in Nat /\ Len(q) \in Nat
  BY ConcatProperties, LenProperties
<1>2. CASE i <= Len(p)
  <2>1. i \in 1..Len(p) /\ (p \o q)[i] = p[i]
    BY <1>1, <1>2, ConcatProperties
  <2> QED BY <2>1 DEF Uses
<1>3. CASE ~(i <= Len(p))
  <2>1. i - Len(p) \in 1..Len(q) /\ (p \o q)[i] = q[i - Len(p)]
    BY <1>1, <1>3, ConcatProperties
  <2> QED BY <2>1 DEF Uses
<1> QED BY <1>2, <1>3

(* About a round that is over, a plan may mark anything.                      *)
LEMMA OverLate ==
  ASSUME NEW p, NEW s, NEW id, \A x \in T!Rounds(s) : x.id = id => x.phase \in Over
  PROVE  Late(p, s, id)
  BY DEF Late, May

(* A plan of steps that may be taken on the round.                            *)
LEMMA UsesLate ==
  ASSUME NEW p, NEW S, NEW s, NEW id, Uses(p, S),
         \A x \in T!Rounds(s) : x.id = id => \A step \in S : May(step, x)
  PROVE  Late(p, s, id)
  BY DEF Late, Uses

(* A save marks nothing.                                                      *)
LEMMA SaveLate == ASSUME NEW s, NEW id PROVE Late(<<"save">>, s, id)
  BY DEF Late, May

-----------------------------------------------------------------------------
(* Rounds                                                                    *)

(* Engine changes, field by field.                                            *)
LEMMA SettledFields ==
  ASSUME NEW x \in T!Round, NEW a, NEW c
  PROVE  LET y == T!Settled(x, a, c)
         IN  /\ y.id = x.id /\ y.start = x.start /\ y.opening = x.opening /\ y.play = x.play
             /\ y.pending = x.pending /\ y.bets = x.bets /\ y.wins = x.wins
             /\ y.action = a /\ y.choice = c /\ y.phase = "settled"
             /\ y.settlement = IF T!Pays(y) THEN "pending" ELSE "complete"
  BY DEF T!Settled, T!Pays, T!Round

(* A round that is over now is marked as it was.                              *)
LEMMA OverBacked ==
  ASSUME table \in T!AllTables, NEW K, NEW x, NEW y, Backed(x, K), y.phase \in Over,
         y.id = x.id, y.start = x.start,
         y.opening = "complete" => x.opening = "complete"
                                   /\ (table = "acey_deucey" => y.action = x.action),
         y.play = "complete" => /\ x.play = "complete" /\ y.pending = x.pending
                                /\ table \in Raising \cup {"caribbean_stud"} => y.action = x.action,
         y.settlement = "complete" => ~T!Pays(y)
  PROVE  Backed(y, K)
<1>1. y.opening = "complete" => T!Keys(y).opening \in K
  BY SameOpening DEF Backed
<1>2. y.play = "complete" => T!Keys(y).play \in K
  BY SamePlay DEF Backed
<1> QED BY <1>1, <1>2 DEF Backed

(* A round is settled under the key its stakes were taken by.                 *)
LEMMA SettledBacked ==
  ASSUME table \in T!AllTables, NEW K, NEW x \in T!Round, Backed(x, K), NEW a, NEW c,
         x.opening = "complete" /\ table = "acey_deucey" => a = x.action,
         x.play = "complete" /\ table \in Raising \cup {"caribbean_stud"} => a = x.action
  PROVE  Backed(T!Settled(x, a, c), K)
<1> DEFINE y == T!Settled(x, a, c)
<1>1. /\ y.id = x.id /\ y.start = x.start /\ y.opening = x.opening /\ y.play = x.play
      /\ y.pending = x.pending /\ y.action = a /\ y.phase = "settled"
      /\ y.settlement = IF T!Pays(y) THEN "pending" ELSE "complete"
  BY SettledFields
<1> HIDE DEF y
<1>2. y.settlement = "complete" => ~T!Pays(y)
  BY <1>1
<1>3. y.phase \in Over
  BY <1>1 DEF Over
<1>4. y.opening = "complete" => x.opening = "complete" /\ (table = "acey_deucey" => y.action = x.action)
  BY <1>1
<1>5. y.play = "complete" =>
        /\ x.play = "complete" /\ y.pending = x.pending
        /\ table \in Raising \cup {"caribbean_stud"} => y.action = x.action
  BY <1>1
<1>6. Backed(y, K)
  BY <1>1, <1>2, <1>3, <1>4, <1>5, OverBacked
<1> QED BY <1>6 DEF y

(* A mark is made where it may be, of what the ledger has.                    *)
LEMMA MarkBacked ==
  ASSUME NEW K, NEW x, NEW y, Backed(x, K), Marked2(x, y),
         y.opening = x.opening \/ (May("opening", x) /\ T!Keys(x).opening \in K),
         y.play = x.play \/ (May("play", x) /\ T!Keys(x).play \in K),
         y.settlement = x.settlement
           \/ (May("pay", x) /\ (T!Pays(x) => T!Keys(x).pay \in K))
  PROVE  Backed(y, K)
<1>1. T!Keys(y) = T!Keys(x) /\ (T!Pays(y) <=> T!Pays(x)) /\ y.phase = x.phase
  BY SameKeys DEF Marked2, T!Pays
<1>2. y.opening = "complete" => T!Keys(y).opening \in K
  BY <1>1 DEF Backed
<1>3. y.play = "complete" => T!Keys(y).play \in K
  BY <1>1 DEF Backed
<1>4. y.settlement = "complete" /\ T!Pays(y) => T!Keys(y).pay \in K
  BY <1>1 DEF Backed
<1>5. ASSUME y.phase \notin Over PROVE Early(y)
  <2>1. Early(x) /\ x.phase \notin Over
    BY <1>1, <1>5 DEF Backed
  <2>2. table # "deuces_wild" => y.settlement = "not_ready"
    BY <2>1 DEF Early, May
  <2>3. table = "acey_deucey" => y.opening = "not_ready"
    BY <2>1 DEF Early, May
  <2>4. table = "caribbean_stud" => y.play = "not_ready"
    BY <2>1 DEF Early, May
  <2>5. table \in Raising /\ y.phase = "decision" => y.play = "not_ready"
    BY <1>1, <2>1 DEF Early, May
  <2> QED BY <2>1, <2>2, <2>3, <2>4, <2>5 DEF Early
<1> QED BY <1>2, <1>3, <1>4, <1>5 DEF Backed

-----------------------------------------------------------------------------
(* What a request goes on with                                               *)

LEMMA GoMarks ==
  ASSUME NEW d, NEW K, NEW r, Ready(r, d), Clear(r.state, K), r.stage # "command",
         NEW t, Clear(t, K), NEW x, NEW p, Late(p, t, x.id)
  PROVE  LET n == T!Go(r, t, x, p)
         IN  /\ WorkMarks(n, K) /\ n.state = t
             /\ \A k : WorkMarks(T!Missing(n, k), K) /\ T!Missing(n, k).state = t
                      /\ T!Go(T!Missing(r, k), t, x, p) = T!Missing(n, k)
<1> DEFINE n == T!Go(r, t, x, p)
<1>1. /\ DOMAIN n = RequestFields
      /\ n.state = t /\ n.round = x.id /\ n.plan = p
      /\ n.base = r.state /\ n.undo = None /\ n.stage = r.stage
  BY DEF T!Go, Ready, RequestFields
<1>2. WorkMarks(n, K)
  BY <1>1 DEF WorkMarks
<1>3. ASSUME NEW k
      PROVE  WorkMarks(T!Missing(n, k), K) /\ T!Missing(n, k).state = t
  <2> DEFINE m == T!Missing(n, k)
  <2>1. /\ m.state = t /\ m.round = n.round /\ m.plan = n.plan /\ m.base = n.base
        /\ m.undo = n.undo /\ m.stage = n.stage
    BY <1>1 DEF T!Missing, RequestFields
  <2> HIDE DEF m, n
  <2>2. WorkMarks(m, K)
    BY <1>1, <1>2, <2>1 DEF WorkMarks
  <2> QED BY <2>1, <2>2 DEF m
<1>4. ASSUME NEW k PROVE T!Go(T!Missing(r, k), t, x, p) = T!Missing(n, k)
  BY DEF T!Go, T!Missing, Ready, RequestFields
<1> QED BY <1>1, <1>2, <1>3, <1>4

(* A repair that ends before all is repaired.                                 *)
LEMMA HandledMarks ==
  ASSUME NEW d, NEW K, NEW n, Soundly(n, d, K), WorkMarks(n, K), NotPlaying(n.state)
  PROVE  WorkMarks(T!Handled(n), K)
<1> DEFINE m == T!Handled(n)
<1>1. /\ m.state = n.state /\ m.round = n.round /\ m.plan = n.plan /\ m.base = n.base
      /\ m.undo = n.undo
  BY DEF T!Handled, Soundly, WorkSound, Resting, RequestFields
<1> QED BY <1>1 DEF WorkMarks

(* A request that will undo its decision brings back a clear document.        *)
LEMMA GuardMarks ==
  ASSUME NEW d, NEW K, NEW r, Ready(r, d), Clear(r.state, K), r.stage = "answer",
         NEW t, Clear(t, K), NEW x, NEW p, Late(p, t, x.id), NEW key, NEW from, NEW until
  PROVE  WorkMarks(T!Guarded(T!Go(r, t, x, p), key, from, until), K)
<1> DEFINE n == T!Guarded(T!Go(r, t, x, p), key, from, until)
<1>1. /\ n.state = t /\ n.round = x.id /\ n.plan = p /\ n.base = r.state
      /\ n.undo.state = r.state /\ n.stage = "answer"
  BY DEF T!Go, T!Guarded, Ready, RequestFields
<1> QED BY <1>1 DEF WorkMarks

(* The marks that are made.                                                   *)
LEMMA BackedMarks ==
  ASSUME NEW K, NEW x \in T!Round, Backed(x, K)
  PROVE  /\ \A a \in {None, "opening", "play", "pay"} : Backed([x EXCEPT !.attempt = a], K)
         /\ Backed([x EXCEPT !.holds = TRUE], K)
         /\ May("opening", x) /\ T!Keys(x).opening \in K => Backed([x EXCEPT !.opening = "complete"], K)
         /\ May("play", x) /\ T!Keys(x).play \in K => Backed([x EXCEPT !.play = "complete"], K)
         /\ May("pay", x) /\ (T!Pays(x) => T!Keys(x).pay \in K)
              => Backed([x EXCEPT !.settlement = "complete"], K)
<1>1. /\ Marked2(x, [x EXCEPT !.opening = "complete"])
      /\ Marked2(x, [x EXCEPT !.play = "complete"])
      /\ Marked2(x, [x EXCEPT !.settlement = "complete"])
      /\ \A a \in {None, "opening", "play", "pay"} : Marked2(x, [x EXCEPT !.attempt = a])
      /\ Marked2(x, [x EXCEPT !.holds = TRUE])
  BY Marking
<1>2. ASSUME NEW y, Marked2(x, y), y.opening = x.opening, y.play = x.play,
             y.settlement = x.settlement
      PROVE  Backed(y, K)
  BY <1>2, MarkBacked
<1>3. \A a \in {None, "opening", "play", "pay"} : Backed([x EXCEPT !.attempt = a], K)
  <2> SUFFICES ASSUME NEW a \in {None, "opening", "play", "pay"}
               PROVE  Backed([x EXCEPT !.attempt = a], K)
    OBVIOUS
  <2> DEFINE y == [x EXCEPT !.attempt = a]
  <2>1. y.opening = x.opening /\ y.play = x.play /\ y.settlement = x.settlement /\ Marked2(x, y)
    BY <1>1 DEF T!Round
  <2> HIDE DEF y
  <2>2. Backed(y, K)
    BY <1>2, <2>1
  <2> QED BY <2>2 DEF y
<1>4. Backed([x EXCEPT !.holds = TRUE], K)
  <2> DEFINE y == [x EXCEPT !.holds = TRUE]
  <2>1. y.opening = x.opening /\ y.play = x.play /\ y.settlement = x.settlement /\ Marked2(x, y)
    BY <1>1 DEF T!Round
  <2> HIDE DEF y
  <2>2. Backed(y, K)
    BY <1>2, <2>1
  <2> QED BY <2>2 DEF y
<1>5. ASSUME May("opening", x), T!Keys(x).opening \in K
      PROVE  Backed([x EXCEPT !.opening = "complete"], K)
  <2> DEFINE y == [x EXCEPT !.opening = "complete"]
  <2>1. y.play = x.play /\ y.settlement = x.settlement /\ Marked2(x, y)
    BY <1>1 DEF T!Round
  <2> HIDE DEF y
  <2>2. Backed(y, K)
    BY <1>5, <2>1, MarkBacked
  <2> QED BY <2>2 DEF y
<1>6. ASSUME May("play", x), T!Keys(x).play \in K
      PROVE  Backed([x EXCEPT !.play = "complete"], K)
  <2> DEFINE y == [x EXCEPT !.play = "complete"]
  <2>1. y.opening = x.opening /\ y.settlement = x.settlement /\ Marked2(x, y)
    BY <1>1 DEF T!Round
  <2> HIDE DEF y
  <2>2. Backed(y, K)
    BY <1>6, <2>1, MarkBacked
  <2> QED BY <2>2 DEF y
<1>7. ASSUME May("pay", x), T!Pays(x) => T!Keys(x).pay \in K
      PROVE  Backed([x EXCEPT !.settlement = "complete"], K)
  <2> DEFINE y == [x EXCEPT !.settlement = "complete"]
  <2>1. y.opening = x.opening /\ y.play = x.play /\ Marked2(x, y)
    BY <1>1 DEF T!Round
  <2> HIDE DEF y
  <2>2. Backed(y, K)
    BY <1>7, <2>1, MarkBacked
  <2> QED BY <2>2 DEF y
<1> QED BY <1>3, <1>4, <1>5, <1>6, <1>7

-----------------------------------------------------------------------------
(* Repairs                                                                   *)

(* A request that looks for what is to be repaired, or answers its command.   *)
Begins(r, d, K) ==
    Ready(r, d) /\ Clear(r.state, K) /\ r.stage # "command" /\ K = DOMAIN rows

(* A changed round is published, and played out.                              *)
LEMMA PutMarks ==
  ASSUME NEW d, NEW K, NEW r, Begins(r, d, K), NEW x, NEW y, Backed(y, K)
  PROVE  /\ WorkMarks(T!Go(r, T!Put(r.state, y), x, <<"save">>), K)
         /\ WorkMarks(T!Go(r, T!Put(r.state, y), x, <<"save", "settle">>), K)
<1>1. Clear(T!Put(r.state, y), K)
  BY PutClear DEF Begins, Ready
<1>2. Late(<<"save">>, T!Put(r.state, y), x.id) /\ Late(<<"save", "settle">>, T!Put(r.state, y), x.id)
  BY SaveLate DEF Late, May
<1> QED BY <1>1, <1>2, GoMarks DEF Begins

(* Fewer rounds, or the same.                                                 *)
LEMMA FewerMarks ==
  ASSUME NEW d, NEW K, NEW r, Begins(r, d, K), NEW x, NEW t, NEW p,
         T!Rounds(t) \subseteq T!Rounds(r.state), Late(p, t, x.id)
  PROVE  LET n == T!Go(r, t, x, p)
         IN  /\ WorkMarks(n, K) /\ n.state = t
             /\ \A k : WorkMarks(T!Go(T!Missing(r, k), t, x, p), K)
<1>1. Clear(t, K)
  BY FewerClear DEF Begins
<1> QED BY <1>1, GoMarks DEF Begins

(* A repair takes the pending stake, or cancels the round.                    *)
LEMMA ConfirmMarks ==
  ASSUME T!NoneAssumption, NEW d, NEW K, NEW r, Begins(r, d, K), T!OpeningPending(r.state),
         table # "deuces_wild", table # "acey_deucey"
  PROVE  WorkMarks(T!ConfirmOrCancel(r), K) /\ WorkMarks(T!ConfirmOrStop(r), K)
<1> DEFINE x == r.state.active
           n == T!ConfirmOrCancel(r)
<1>1. x # None /\ x \in T!Rounds(r.state) /\ x \in T!Round /\ Backed(x, K)
  BY RoundsAreRounds DEF T!OpeningPending, Begins, Ready, Clear
<1>2. T!Keys(x).opening \in K => WorkMarks(T!Go(r, T!Put(r.state, [x EXCEPT !.opening = "complete"]), x, <<"save">>), K)
  <2>1. May("opening", x)
    BY DEF May
  <2> QED BY <1>1, <2>1, BackedMarks, PutMarks
<1>3. \A k : WorkMarks(T!Go(T!Missing(r, k), T!CancelRound(r.state, x), x, <<"save">>), K)
  <2>1. T!Rounds(T!CancelRound(r.state, x)) \subseteq T!Rounds(r.state)
    BY <1>1, Cancelled DEF Begins, Ready
  <2> QED BY <2>1, SaveLate, FewerMarks
<1>4. WorkMarks(n, K)
  BY <1>2, <1>3 DEF T!ConfirmOrCancel, Begins
<1>5. Soundly(n, d, K)
  BY ConfirmSound DEF Begins
<1> HIDE DEF n
<1>6. n.state.active = None => WorkMarks(T!Handled(n), K)
  BY <1>4, <1>5, HandledMarks DEF NotPlaying
<1> QED BY <1>4, <1>6 DEF T!ConfirmOrStop, n

(* A repair pays a round that is over.                                        *)
LEMMA PayDueMarks ==
  ASSUME T!NoneAssumption, NEW d, NEW K, NEW r, Begins(r, d, K), NEW x \in r.state.recent, NEW p
  PROVE  WorkMarks(T!Go(r, r.state, x, p), K)
<1>1. \A y \in T!Rounds(r.state) : y.id = x.id => y.phase \in Over
  BY DEF Begins, Ready, DocSound, T!Rounds
<1> QED BY <1>1, OverLate, FewerMarks

(* The repair of each table, as it finds the document.                        *)
LEMMA HiLoRepairs ==
  ASSUME T!NoneAssumption, NEW d, NEW K, NEW r, Begins(r, d, K), table # "deuces_wild",
         table # "acey_deucey", NEW n \in T!HiLoRecover(r) \cup T!PaiGowRecover(r)
  PROVE  WorkMarks(n, K)
<1>1. \A m \in T!PayDue(r) : WorkMarks(m, K)
  BY PayDueMarks DEF T!PayDue
<1> QED BY <1>1, ConfirmMarks DEF T!HiLoRecover, T!PaiGowRecover

(* What is written to a document beside its rounds changes none of them.      *)
LEMMA Shapes ==
  ASSUME NEW d, NEW s, DocSound(s, d), NEW y
  PROVE  DOMAIN T!Put(s, y) = DOMAIN s /\ DOMAIN T!ArchiveRound(s, y) = DOMAIN s
  BY DEF T!Put, T!ArchiveRound, DocSound

(* Receipts are no rounds.                                                    *)
LEMMA OtherWrites ==
  ASSUME NEW t, DOMAIN t = {"active", "recent", "receipts"}, NEW a, NEW stage, NEW x
  PROVE  /\ T!Rounds(T!Forget(t, a)) = T!Rounds(t) /\ T!Forget(t, a).active = t.active
         /\ T!Rounds(T!Remember(t, a, stage, x)) = T!Rounds(t)
         /\ T!Remember(t, a, stage, x).active = t.active
<1>1. T!Forget(t, a).active = t.active /\ T!Forget(t, a).recent = t.recent
  BY DEF T!Forget
<1>2. /\ T!Remember(t, a, stage, x).active = t.active
      /\ T!Remember(t, a, stage, x).recent = t.recent
  BY DEF T!Remember
<1> QED BY <1>1, <1>2 DEF T!Rounds

(* So a round put or archived with it.                                        *)
LEMMA WritesClear ==
  ASSUME NEW d, NEW s, NEW K, DocSound(s, d), Clear(s, K), NEW y, Backed(y, K), NEW a, NEW stage, NEW z
  PROVE  /\ Clear(T!Forget(T!Put(s, y), a), K)
         /\ Clear(T!Remember(T!Put(s, y), a, stage, z), K)
         /\ Clear(T!Remember(T!ArchiveRound(s, y), a, stage, z), K)
         /\ Clear(T!Remember(s, a, stage, z), K)
<1>1. DOMAIN s = {"active", "recent", "receipts"}
  BY DEF DocSound
<1>2. DOMAIN T!Put(s, y) = DOMAIN s /\ DOMAIN T!ArchiveRound(s, y) = DOMAIN s
  BY Shapes
<1>3. /\ T!Rounds(T!Forget(T!Put(s, y), a)) = T!Rounds(T!Put(s, y))
      /\ T!Rounds(T!Remember(T!Put(s, y), a, stage, z)) = T!Rounds(T!Put(s, y))
      /\ T!Rounds(T!Remember(T!ArchiveRound(s, y), a, stage, z)) = T!Rounds(T!ArchiveRound(s, y))
      /\ T!Rounds(T!Remember(s, a, stage, z)) = T!Rounds(s)
  BY <1>1, <1>2, OtherWrites
<1>4. Clear(T!Put(s, y), K) /\ Clear(T!ArchiveRound(s, y), K)
  BY PutClear
<1> QED BY <1>3, <1>4 DEF Clear

(* A raise taken back leaves nothing to back.                                 *)
LEMMA ResetBacked ==
  ASSUME table \in T!AllTables, table # "acey_deucey", table # "deuces_wild",
         NEW K, NEW x \in T!Round, Backed(x, K), x.phase \notin Over
  PROVE  /\ Backed([x EXCEPT !.action = None, !.choice = None, !.phase = "decision",
                             !.play = "not_ready"], K)
         /\ Backed([x EXCEPT !.pending = None, !.play = "not_ready"], K)
<1> SUFFICES ASSUME NEW y,
               y \in {[x EXCEPT !.action = None, !.choice = None, !.phase = "decision",
                                !.play = "not_ready"],
                      [x EXCEPT !.pending = None, !.play = "not_ready"]}
             PROVE  Backed(y, K)
  OBVIOUS
<1>1. /\ y.id = x.id /\ y.start = x.start /\ y.opening = x.opening /\ y.play = "not_ready"
      /\ y.settlement = x.settlement
  BY DEF T!Round
<1>2. x.settlement = "not_ready" /\ Early(x)
  BY DEF Backed, Early
<1>3. T!Keys(y).opening = T!Keys(x).opening
  BY <1>1, SameOpening
<1>4. Early(y)
  BY <1>1, <1>2 DEF Early
<1> QED BY <1>1, <1>2, <1>3, <1>4 DEF Backed

(* A step that only publishes or plays out may be taken at any round.         *)
LEMMA SettleLate == ASSUME NEW s, NEW id PROVE Late(<<"settle">>, s, id)
  BY DEF Late, May

(* A repair that goes on with a document that is clear.                       *)
LEMMA ClearMarks ==
  ASSUME NEW d, NEW K, NEW r, Begins(r, d, K), NEW t, Clear(t, K), NEW x
  PROVE  /\ WorkMarks(T!Go(r, t, x, <<"save">>), K)
         /\ \A k : WorkMarks(T!Go(T!Missing(r, k), t, x, <<"save">>), K)
<1>1. Late(<<"save">>, t, x.id)
  BY SaveLate
<1> QED BY <1>1, GoMarks DEF Begins

(* The active round is put back as it was before its raise.                   *)
LEMMA PutActive ==
  ASSUME NEW d, NEW s, DocSound(s, d), s.active # None, NEW y, y.id = s.active.id, NEW a
  PROVE  T!Put(s, y).active = y /\ T!Forget(T!Put(s, y), a).active = y
<1>1. T!Put(s, y).active = y /\ DOMAIN T!Put(s, y) = {"active", "recent", "receipts"}
  BY DEF T!Put, DocSound
<1> QED BY <1>1, OtherWrites

(* The repair of a raise plays out what was decided.                          *)
LEMMA FourCardRepairs ==
  ASSUME T!NoneAssumption, table \in T!AllTables, table \in Raising, NEW d, NEW K, NEW r,
         Begins(r, d, K), NEW n \in T!FourCardRecover(r)
  PROVE  WorkMarks(n, K)
<1> DEFINE s == r.state
           x == s.active
<1>0. table # "deuces_wild" /\ table # "acey_deucey" /\ table # "caribbean_stud"
  BY DEF Raising
<1>1. CASE T!OpeningPending(s)
  BY <1>0, <1>1, ConfirmMarks DEF T!FourCardRecover
<1>2. CASE ~T!OpeningPending(s) /\ x # None /\ x.phase = "playing"
  <2>1. x \in T!Rounds(s) /\ x \in T!Round /\ Backed(x, K) /\ DocSound(s, d) /\ Ready(r, d)
    BY <1>2, RoundsAreRounds DEF Begins, Ready, Clear
  <2>2. WorkMarks(T!Go(r, s, x, <<"settle">>), K)
    BY SettleLate, FewerMarks
  <2>3. T!Keys(x).play \in K =>
          WorkMarks(T!Go(r, T!Put(s, [x EXCEPT !.play = "complete"]), x, <<"save">>), K)
    <3>1. May("play", x)
      BY <1>0, <1>2 DEF May
    <3> QED BY <2>1, <3>1, BackedMarks, PutMarks
  <2>4. \A k : WorkMarks(T!Handled(T!Go(T!Missing(r, k), T!ResetUncommittedPlay(s, x), x, <<"save">>)), K)
    <3> DEFINE y == [x EXCEPT !.action = None, !.choice = None, !.phase = "decision",
                              !.play = "not_ready"]
               t == T!Forget(T!Put(s, y), x.action)
               g == T!Go(r, t, x, <<"save">>)
    <3>1. Backed(y, K) /\ y.id = x.id /\ y.phase = "decision"
      <4>1. x.phase \notin Over
        BY <1>2 DEF Over
      <4>2. Backed(y, K)
        BY <1>0, <2>1, <4>1, ResetBacked
      <4>3. y.id = x.id /\ y.phase = "decision"
        BY <2>1 DEF T!Round
      <4> QED BY <4>2, <4>3
    <3>2. T!ResetUncommittedPlay(s, x) = t
      BY DEF T!ResetUncommittedPlay
    <3>3. Soundly(g, d, K)
      BY <1>0, <1>2, <2>1, <3>2, PlayReset
    <3> HIDE DEF y
    <3>4. Clear(t, K) /\ t.active = y
      BY <1>2, <2>1, <3>1, WritesClear, PutActive DEF Begins
    <3>5. NotPlaying(t)
      BY <3>1, <3>4 DEF NotPlaying
    <3> HIDE DEF t
    <3> SUFFICES ASSUME NEW k PROVE WorkMarks(T!Handled(T!Go(T!Missing(r, k), t, x, <<"save">>)), K)
      BY <3>2
    <3>6. /\ T!Go(T!Missing(r, k), t, x, <<"save">>) = T!Missing(g, k)
          /\ T!Missing(g, k).state = t
      BY <3>4, SaveLate, GoMarks DEF Begins
    <3>7. WorkMarks(T!Missing(g, k), K)
      BY <3>4, <3>6, ClearMarks
    <3>8. Soundly(T!Missing(g, k), d, K)
      BY <3>3, Wrapped
    <3> HIDE DEF g
    <3>9. WorkMarks(T!Handled(T!Missing(g, k)), K)
      BY <3>5, <3>6, <3>7, <3>8, HandledMarks
    <3> QED BY <3>6, <3>9
  <2>5. K = DOMAIN rows
    BY DEF Begins
  <2> QED BY <1>2, <2>2, <2>3, <2>4, <2>5 DEF T!FourCardRecover
<1>3. CASE ~T!OpeningPending(s) /\ ~(x # None /\ x.phase = "playing")
  <2>1. n \in T!PayDue(r)
    BY <1>3 DEF T!FourCardRecover
  <2> QED BY <2>1, PayDueMarks DEF T!PayDue
<1> QED BY <1>1, <1>2, <1>3

(* Where nothing is left to repair, no raise is half played.                  *)
LEMMA RepairedPlay ==
  ASSUME NEW r, table \in Raising, T!FourCardRecover(r) = {} PROVE NotPlaying(r.state)
  BY DEF NotPlaying, T!FourCardRecover

(* The repair of a street takes the stake that is pending.                    *)
LEMMA MississippiRepairs ==
  ASSUME T!NoneAssumption, table = "mississippi_stud", NEW d, NEW K, NEW r,
         Begins(r, d, K), NEW n \in T!MississippiRecover(r)
  PROVE  WorkMarks(n, K)
<1> DEFINE s == r.state
           x == s.active
<1>0. table \in T!AllTables /\ table \notin Raising
  BY DEF T!AllTables, Raising
<1>1. CASE T!OpeningPending(s)
  BY <1>1, ConfirmMarks DEF T!MississippiRecover
<1>2. CASE ~T!OpeningPending(s) /\ x # None /\ x.play = "pending"
  <2>1. x \in T!Rounds(s) /\ x \in T!Round /\ Backed(x, K) /\ DocSound(s, d) /\ x.phase \notin Over
    BY <1>2, RoundsAreRounds DEF Begins, Ready, Clear, DocSound
  <2>2. T!Keys(x).play \in K =>
          WorkMarks(T!Go(r, T!Put(s, [x EXCEPT !.play = "complete"]), x, <<"save", "settle">>), K)
    <3>1. May("play", x)
      BY <1>0 DEF May
    <3> QED BY <2>1, <3>1, BackedMarks, PutMarks
  <2>3. \A k : WorkMarks(T!Go(T!Missing(r, k), T!ResetUncommittedBet(s, x), x, <<"save">>), K)
    <3> DEFINE y == [x EXCEPT !.pending = None, !.play = "not_ready"]
               t == T!Forget(T!Put(s, y), x.pending)
    <3>1. Backed(y, K)
      BY <1>0, <2>1, ResetBacked
    <3>2. T!ResetUncommittedBet(s, x) = t
      BY DEF T!ResetUncommittedBet
    <3> HIDE DEF y
    <3>3. Clear(t, K)
      BY <2>1, <3>1, WritesClear DEF Begins
    <3> QED BY <3>2, <3>3, ClearMarks
  <2>4. K = DOMAIN rows
    BY DEF Begins
  <2> QED BY <1>2, <2>2, <2>3, <2>4 DEF T!MississippiRecover
<1>3. CASE ~T!OpeningPending(s) /\ ~(x # None /\ x.play = "pending")
  <2>1. n \in T!PayDue(r)
    BY <1>3 DEF T!MississippiRecover
  <2> QED BY <2>1, PayDueMarks DEF T!PayDue
<1> QED BY <1>1, <1>2, <1>3

(* A round that is over is confirmed.                                         *)
LEMMA OverConfirmed ==
  ASSUME NEW d, NEW K, NEW r, Begins(r, d, K), NEW x \in r.state.recent,
         T!Keys(x).opening \in K
  PROVE  WorkMarks(T!Go(r, T!Put(r.state, [x EXCEPT !.opening = "complete"]), x, <<"save">>), K)
<1>1. x \in T!Round /\ x.phase \in Over /\ Backed(x, K)
  BY DEF Begins, Ready, DocSound, Clear, T!Rounds
<1>2. May("opening", x)
  BY <1>1 DEF May
<1> QED BY <1>1, <1>2, BackedMarks, PutMarks

(* A hand whose wager is missing is open again, without a mark.               *)
LEMMA RestoreClear ==
  ASSUME table = "acey_deucey", NEW d, NEW K, NEW s, DocSound(s, d), Clear(s, K), s.active = None,
         NEW x \in s.recent
  PROVE  Clear(T!RestoreUncommittedPlay(s, x), K)
<1> DEFINE y == [x EXCEPT !.phase = "decision", !.action = None, !.choice = None,
                          !.opening = "not_ready", !.settlement = "not_ready"]
           u == [s EXCEPT !.recent = @ \ {x}, !.active = y]
<1>0. table \in T!AllTables /\ table \notin Raising
  BY DEF T!AllTables, Raising
<1>1. x \in T!Round /\ Backed(x, K)
  BY DEF DocSound, Clear, T!Rounds
<1>2. y.play = x.play /\ y.opening = "not_ready" /\ y.settlement = "not_ready"
  BY <1>1 DEF T!Round
<1> HIDE DEF y
<1>3. T!Keys(y).play = T!Keys(x).play
  BY <1>0, SamePlay
<1>4. Early(y)
  BY <1>0, <1>2 DEF Early, T!OneShot
<1>5. Backed(y, K)
  BY <1>1, <1>2, <1>3, <1>4 DEF Backed
<1>6. /\ DOMAIN u = {"active", "recent", "receipts"} /\ u.active = y /\ u.recent = s.recent \ {x}
  BY DEF DocSound
<1> HIDE DEF u
<1>7. Clear(u, K)
  BY <1>5, <1>6 DEF Clear, T!Rounds
<1>8. T!Rounds(T!Forget(u, x.action)) = T!Rounds(u)
  BY <1>6, OtherWrites
<1>9. T!RestoreUncommittedPlay(s, x) = T!Forget(u, x.action)
  BY DEF T!RestoreUncommittedPlay, u, y
<1> QED BY <1>7, <1>8, <1>9 DEF Clear

(* A pass or a bet that was decided is over.                                  *)
LEMMA AceyRepairs ==
  ASSUME T!NoneAssumption, table = "acey_deucey", NEW d, NEW K, NEW r,
         Begins(r, d, K), NEW n \in T!AceyRecover(r)
  PROVE  n = None \/ WorkMarks(n, K)
<1> DEFINE due == {x \in r.state.recent : x.opening = "pending"}
<1>1. CASE due = {}
  <2>1. n \in T!PayDue(r)
    BY <1>1 DEF T!AceyRecover
  <2> QED BY <2>1, PayDueMarks DEF T!PayDue
<1>2. CASE due # {}
  <2>1. PICK x \in due :
          LET k == T!Keys(x).opening
          IN n \in IF k \in DOMAIN rows
                   THEN {T!Go(r, T!Put(r.state, [x EXCEPT !.opening = "complete"]), x, <<"save">>)}
                   ELSE IF r.state.active # None THEN {None}
                   ELSE {T!Go(T!Missing(r, k), T!RestoreUncommittedPlay(r.state, x), x, <<"save">>)}
    BY <1>2 DEF T!AceyRecover
  <2>2. x \in r.state.recent /\ K = DOMAIN rows
    BY DEF Begins
  <2>3. T!Keys(x).opening \in K =>
          WorkMarks(T!Go(r, T!Put(r.state, [x EXCEPT !.opening = "complete"]), x, <<"save">>), K)
    BY <2>2, OverConfirmed
  <2>4. r.state.active = None =>
          \A k : WorkMarks(T!Go(T!Missing(r, k), T!RestoreUncommittedPlay(r.state, x), x, <<"save">>), K)
    BY <2>2, RestoreClear, ClearMarks DEF Begins, Ready
  <2> QED BY <2>1, <2>2, <2>3, <2>4
<1> QED BY <1>1, <1>2

(* Where a round is one request, all rounds of the document are over.         *)
LEMMA PlinkoRepairs ==
  ASSUME T!NoneAssumption, NEW d, NEW K, NEW r, Begins(r, d, K),
         NEW n \in T!PlinkoRecover(r) \cup T!AndarBaharRecover(r)
  PROVE  WorkMarks(n, K)
<1>1. ASSUME NEW x \in r.state.recent
      PROVE  /\ WorkMarks(T!Go(r, r.state, x, T!Pay), K) /\ WorkMarks(T!Go(r, r.state, x, T!Stake), K)
             /\ T!Keys(x).opening \in K =>
                  WorkMarks(T!Go(r, T!Put(r.state, [x EXCEPT !.opening = "complete"]), x, <<"save">>), K)
  BY OverConfirmed, PayDueMarks
<1>2. K = DOMAIN rows
  BY DEF Begins
<1>3. n \in T!PlinkoRecover(r) => WorkMarks(n, K)
  BY <1>1, <1>2 DEF T!PlinkoRecover
<1>4. n \in T!AndarBaharRecover(r) => WorkMarks(n, K)
  BY <1>1 DEF T!AndarBaharRecover, T!PayDue
<1> QED BY <1>3, <1>4

(* At Deuces Wild a plan may mark anything.                                   *)
LEMMA DeucesRepairs ==
  ASSUME T!NoneAssumption, table = "deuces_wild", NEW d, NEW K, NEW r, Begins(r, d, K),
         NEW n \in T!DeucesRecover(r)
  PROVE  WorkMarks(n, K)
<1>1. \A p, x : Late(p, r.state, x.id)
  BY DEF Late, May, Raising
<1>2. \A p, x : WorkMarks(T!Go(r, r.state, x, p), K)
  BY <1>1, FewerMarks
<1> QED BY <1>2 DEF T!DeucesRecover

(* Marked, its attempt is forgotten.                                          *)
LEMMA ForgotAttempt ==
  ASSUME NEW K, NEW x \in T!Round, Backed(x, K)
  PROVE  /\ May("opening", x) /\ T!Keys(x).opening \in K
              => Backed([x EXCEPT !.opening = "complete", !.attempt = None], K)
         /\ May("play", x) /\ T!Keys(x).play \in K
              => Backed([x EXCEPT !.play = "complete", !.attempt = None], K)
         /\ May("pay", x) /\ (T!Pays(x) => T!Keys(x).pay \in K)
              => Backed([x EXCEPT !.settlement = "complete", !.attempt = None], K)
<1>1. ASSUME NEW y \in T!Round, Backed(y, K) PROVE Backed([y EXCEPT !.attempt = None], K)
  BY <1>1, BackedMarks
<1>2. /\ [x EXCEPT !.opening = "complete"] \in T!Round
      /\ [x EXCEPT !.play = "complete"] \in T!Round
      /\ [x EXCEPT !.settlement = "complete"] \in T!Round
  BY Marking DEF Marked2
<1>3. May("opening", x) /\ T!Keys(x).opening \in K
        => Backed([x EXCEPT !.opening = "complete", !.attempt = None], K)
  <2> SUFFICES ASSUME May("opening", x), T!Keys(x).opening \in K
               PROVE  Backed([x EXCEPT !.opening = "complete", !.attempt = None], K)
    OBVIOUS
  <2>1. Backed([x EXCEPT !.opening = "complete"], K)
    BY BackedMarks
  <2> QED BY <1>1, <1>2, <2>1
<1>4. May("play", x) /\ T!Keys(x).play \in K
        => Backed([x EXCEPT !.play = "complete", !.attempt = None], K)
  <2> SUFFICES ASSUME May("play", x), T!Keys(x).play \in K
               PROVE  Backed([x EXCEPT !.play = "complete", !.attempt = None], K)
    OBVIOUS
  <2>1. Backed([x EXCEPT !.play = "complete"], K)
    BY BackedMarks
  <2> QED BY <1>1, <1>2, <2>1
<1>5. May("pay", x) /\ (T!Pays(x) => T!Keys(x).pay \in K)
        => Backed([x EXCEPT !.settlement = "complete", !.attempt = None], K)
  <2> SUFFICES ASSUME May("pay", x), T!Pays(x) => T!Keys(x).pay \in K
               PROVE  Backed([x EXCEPT !.settlement = "complete", !.attempt = None], K)
    OBVIOUS
  <2>1. Backed([x EXCEPT !.settlement = "complete"], K)
    BY BackedMarks
  <2> QED BY <1>1, <1>2, <2>1
<1> QED BY <1>3, <1>4, <1>5

(* The repair of an ante, a call and a payout.                                *)
LEMMA CaribbeanRepairs ==
  ASSUME T!NoneAssumption, table = "caribbean_stud", NEW d, NEW K, NEW r, Begins(r, d, K),
         NEW n \in T!CaribbeanRecover(r)
  PROVE  n = None \/ WorkMarks(n, K)
<1> DEFINE s == r.state
<1>1. \A x \in T!Rounds(s) : x \in T!Round /\ Backed(x, K)
  BY RoundsAreRounds DEF Begins, Ready, Clear
<1>2. K = DOMAIN rows /\ DocSound(s, d)
  BY DEF Begins, Ready
<1>3. CASE T!OpeningPending(s)
  <2> DEFINE x == s.active
  <2>1. x # None /\ x \in T!Rounds(s)
    BY <1>3 DEF T!OpeningPending, T!Rounds
  <2>2. T!Keys(x).opening \in K =>
          WorkMarks(T!Go(r, T!Put(s, [x EXCEPT !.opening = "complete", !.attempt = None]), x, <<"save">>), K)
    <3>1. May("opening", x)
      BY DEF May
    <3> QED BY <1>1, <2>1, <3>1, ForgotAttempt, PutMarks
  <2>3. WorkMarks(T!Go(r, T!CancelRound(s, x), x, <<"save">>), K)
    <3>1. T!Rounds(T!CancelRound(s, x)) \subseteq T!Rounds(s)
      BY <1>2, <2>1, Cancelled
    <3> QED BY <3>1, SaveLate, FewerMarks
  <2> QED BY <1>2, <1>3, <2>2, <2>3 DEF T!CaribbeanRecover, T!CaribbeanRecoverAnte
<1>4. CASE ~T!OpeningPending(s)
  <2>1. PICK x \in s.recent : n \in T!CaribbeanRecoverSettled(r, x)
    BY <1>4 DEF T!CaribbeanRecover
  <2>2. x \in T!Rounds(s) /\ x.phase \in Over
    BY <1>2 DEF T!Rounds, DocSound
  <2>3. May("play", x) /\ May("pay", x) /\ x \in T!Round /\ Backed(x, K)
    BY <1>1, <2>2 DEF May
  <2>4. T!Keys(x).play \in K =>
          WorkMarks(T!Go(r, T!Put(s, [x EXCEPT !.play = "complete", !.attempt = None]), x, <<"save">>), K)
    BY <2>3, ForgotAttempt, PutMarks
  <2>5. T!Keys(x).pay \in K =>
          WorkMarks(T!Go(r, T!Put(s, [x EXCEPT !.settlement = "complete", !.attempt = None]), x, <<"save">>), K)
    BY <2>3, ForgotAttempt, PutMarks
  <2> QED BY <1>2, <2>1, <2>4, <2>5 DEF T!CaribbeanRecoverSettled
<1> QED BY <1>3, <1>4

(* The repair at every table.                                                 *)
LEMMA RecoverMarks ==
  ASSUME T!NoneAssumption, table \in T!AllTables, NEW d, NEW K, NEW r, Begins(r, d, K),
         NEW n \in T!Recover(r)
  PROVE  n = None \/ WorkMarks(n, K)
<1>1. CASE table \in {"hi_lo", "double_bonus", "joker_poker", "pai_gow_poker"}
  <2>1. n \in T!HiLoRecover(r) \cup T!PaiGowRecover(r)
    BY <1>1 DEF T!Recover, T!DoubleBonusRecover, T!JokerRecover
  <2> QED BY <2>1, <1>1, HiLoRepairs
<1>2. CASE table \in Raising
  <2>1. n \in T!FourCardRecover(r)
    BY <1>2 DEF Raising, T!Recover, T!HoldemRecover, T!TeenPattiRecover
  <2> QED BY <2>1, <1>2, FourCardRepairs
<1>3. CASE table = "mississippi_stud"
  BY <1>3, MississippiRepairs DEF T!Recover
<1>4. CASE table = "acey_deucey"
  BY <1>4, AceyRepairs DEF T!Recover
<1>5. CASE table = "plinko"
  BY <1>5, PlinkoRepairs DEF T!Recover
<1>6. CASE table = "andar_bahar"
  BY <1>6, PlinkoRepairs DEF T!Recover
<1>7. CASE table = "caribbean_stud"
  BY <1>7, CaribbeanRepairs DEF T!Recover
<1>8. CASE table = "deuces_wild"
  BY <1>8, DeucesRepairs DEF T!Recover
<1>9. CASE table = "jacks_or_better"
  BY <1>9 DEF T!Recover
<1> QED BY <1>1, <1>2, <1>3, <1>4, <1>5, <1>6, <1>7, <1>8, <1>9 DEF T!AllTables, Raising

-----------------------------------------------------------------------------
(* Starts                                                                    *)

(* A new round has no mark.                                                   *)
LEMMA NewBacked ==
  ASSUME deals \in Nat, NEW d, NEW r, Starts(r, d), NEW y \in T!NewRound(r), NEW K
  PROVE  /\ y \in T!Round /\ y.phase = "decision" /\ y.opening # "complete"
         /\ y.play = "not_ready" /\ y.settlement = "not_ready"
         /\ ~T!OneShot => Backed(y, K)
<1>1. /\ y \in T!Round /\ y.phase = "decision" /\ y.opening \in {"pending", "not_ready"}
      /\ y.play = "not_ready"
  BY NewRounds
<1>2. /\ y.settlement = "not_ready"
      /\ table = "acey_deucey" => y.opening = "not_ready"
  BY DEF T!NewRound, T!CreateRound
<1>3. ~T!OneShot => Backed(y, K)
  BY <1>1, <1>2 DEF Backed, Early
<1> QED BY <1>1, <1>2, <1>3

(* It is seated, and nothing else changes.                                    *)
LEMMA SeatedClear ==
  ASSUME NEW d, NEW s, NEW K, DocSound(s, d), Clear(s, K), NEW y, Backed(y, K), NEW a, NEW stage, NEW z
  PROVE  /\ Clear([s EXCEPT !.active = y], K)
         /\ Clear(T!Remember([s EXCEPT !.active = y], a, stage, z), K)
<1> DEFINE u == [s EXCEPT !.active = y]
<1>1. DOMAIN u = {"active", "recent", "receipts"} /\ u.active = y /\ u.recent = s.recent
  BY DEF DocSound
<1> HIDE DEF u
<1>2. Clear(u, K)
  BY <1>1 DEF Clear, T!Rounds
<1>3. T!Rounds(T!Remember(u, a, stage, z)) = T!Rounds(u)
  BY <1>1, OtherWrites
<1> QED BY <1>2, <1>3 DEF Clear, u

(* The plans of the starts.                                                   *)
Staking == {"save", "opening", "attemptOpening"}
(* Before its decision a round is only staked, except at Acey-Deucey.         *)
LEMMA StakingLate ==
  ASSUME table # "acey_deucey", NEW p, Uses(p, Staking), NEW s, NEW id PROVE Late(p, s, id)
  BY DEF Late, Uses, May, Staking

(* The plans of a start only stake.                                           *)
LEMMA StakingPlans ==
  /\ Uses(T!Stake, Staking) /\ Uses(<<"save">> \o T!Stake, Staking)
  /\ Uses(<<"attemptOpening">> \o T!Stake, Staking)
  /\ Uses(<<"save">> \o (<<"attemptOpening">> \o T!Stake), Staking)
<1>1. <<"save">> \in Seq(Steps) /\ <<"attemptOpening">> \in Seq(Steps) /\ <<"opening", "save">> \in Seq(Steps)
  BY DEF Steps, Parts, Attempts
<1>2. Uses(<<"save">>, Staking) /\ Uses(<<"attemptOpening">>, Staking) /\ Uses(<<"opening", "save">>, Staking)
  <2>1. \A i \in 1..1 : i = 1
    OBVIOUS
  <2>2. \A i \in 1..2 : i = 1 \/ i = 2
    OBVIOUS
  <2> QED BY <2>1, <2>2 DEF Uses, Staking
<1> DEFINE v == <<"save">>
           a == <<"attemptOpening">>
           k == <<"opening", "save">>
<1>3. T!Stake = k
  BY DEF T!Stake
<1>4. v \in Seq(Steps) /\ a \in Seq(Steps) /\ k \in Seq(Steps)
  BY <1>1
<1>5. Uses(v, Staking) /\ Uses(a, Staking) /\ Uses(k, Staking)
  BY <1>2
<1> HIDE DEF v, a, k
<1>6. Uses(v \o k, Staking) /\ Uses(a \o k, Staking) /\ a \o k \in Seq(Steps)
  BY <1>4, <1>5, UsesCat, ConcatProperties
<1>7. Uses(v \o (a \o k), Staking)
  BY <1>4, <1>5, <1>6, UsesCat
<1> QED BY <1>3, <1>5, <1>6, <1>7 DEF v, a, k

(* A receipt is written, and the steps p follow.                              *)
LEMMA ReplyMarks ==
  ASSUME NEW d, NEW K, NEW r, Begins(r, d, K), NEW x, NEW a, NEW stage, NEW p,
         Late(p, r.state, x.id)
  PROVE  /\ WorkMarks(T!Go(r, T!Remember(r.state, a, stage, x), x, p), K)
         /\ WorkMarks(T!Go(r, r.state, x, p), K)
<1> DEFINE t == T!Remember(r.state, a, stage, x)
<1>1. T!Rounds(t) = T!Rounds(r.state)
  <2>1. DOMAIN r.state = {"active", "recent", "receipts"}
    BY DEF Begins, Ready, DocSound
  <2> QED BY <2>1, OtherWrites
<1> HIDE DEF t
<1>2. Late(p, t, x.id)
  BY <1>1 DEF Late
<1>3. WorkMarks(T!Go(r, t, x, p), K)
  BY <1>1, <1>2, FewerMarks
<1>4. WorkMarks(T!Go(r, r.state, x, p), K)
  BY FewerMarks
<1> QED BY <1>3, <1>4 DEF t

(* The usual start.                                                           *)
LEMMA PreparedMarks ==
  ASSUME deals \in Nat, table # "acey_deucey", ~T!OneShot, NEW d, NEW K, NEW r, Begins(r, d, K),
         Starts(r, d), NEW y \in T!NewRound(r),
         NEW t, t \in {T!Seated(r, y), [r.state EXCEPT !.active = y]},
         NEW plan \in {T!Stake, <<"attemptOpening">> \o T!Stake}
  PROVE  WorkMarks(T!PrepareStart(r, y, t, plan), K)
<1> DEFINE p == <<"save">> \o plan
           key == T!Keys(y).opening
           from == Len(plan)
<1>1. Backed(y, K)
  BY NewBacked
<1>2. Clear(t, K)
  BY <1>1, SeatedClear DEF T!Seated, Begins, Ready
<1>3. Uses(p, Staking)
  BY StakingPlans
<1> HIDE DEF p
<1>4. Late(p, t, y.id)
  BY <1>3, StakingLate
<1> HIDE DEF key, from
<1>5. WorkMarks(T!Guarded(T!Go(r, t, y, p), key, from, 0), K)
  BY <1>2, <1>4, GuardMarks DEF Begins, Starts
<1> QED BY <1>5 DEF T!PrepareStart, p, key, from

(* The start at each table puts a round without marks.                        *)
LEMMA HiLoStartMarks ==
  ASSUME deals \in Nat, table # "acey_deucey", ~T!OneShot, NEW d, NEW K, NEW r, Begins(r, d, K),
         Starts(r, d), NEW n \in T!HiLoStart(r) \cup T!DoubleBonusStart(r)
  PROVE  n = None \/ WorkMarks(n, K)
<1> DEFINE a == r.request.action
           x == T!RoundForStart(r.state, a)
<1>1. WorkMarks(T!Go(r, T!Remember(r.state, a, "deal", x), x, T!Stake), K)
  <2>1. Late(T!Stake, r.state, x.id)
    BY StakingPlans, StakingLate
  <2> QED BY <2>1, ReplyMarks
<1>2. \A y \in T!NewRound(r) : WorkMarks(T!PrepareStart(r, y, T!Seated(r, y), T!Stake), K)
  BY PreparedMarks
<1>3. n \in T!HiLoStart(r) => n = None \/ WorkMarks(n, K)
  BY <1>1, <1>2 DEF T!HiLoStart, T!ReplayStart
<1>4. n \in T!DoubleBonusStart(r) => n = None \/ WorkMarks(n, K)
  BY <1>1, <1>2 DEF T!DoubleBonusStart
<1> QED BY <1>3, <1>4

(* Acey-Deucey deals without a stake.                                         *)
LEMMA AceyStartMarks ==
  ASSUME deals \in Nat, table = "acey_deucey", NEW d, NEW K, NEW r, Begins(r, d, K),
         Starts(r, d), NEW n \in T!AceyDeal(r)
  PROVE  n = None \/ WorkMarks(n, K)
<1> DEFINE a == r.request.action
           x == T!RoundForStart(r.state, a)
<1>1. WorkMarks(T!Go(r, T!Remember(r.state, a, "deal", x), x, <<"save">>), K)
  <2>1. Late(<<"save">>, r.state, x.id)
    BY SaveLate
  <2> QED BY <2>1, ReplyMarks
<1>2. ASSUME NEW y \in T!NewRound(r) PROVE WorkMarks(T!Go(r, T!Seated(r, y), y, <<"save">>), K)
  <2>1. Backed(y, K)
    BY NewBacked DEF T!OneShot
  <2>2. Clear(T!Seated(r, y), K)
    BY <2>1, SeatedClear DEF T!Seated, Begins, Ready
  <2> QED BY <2>2, ClearMarks
<1> QED BY <1>1, <1>2 DEF T!AceyDeal

(* Where the round is over at once.                                           *)
LEMMA PlinkoStartMarks ==
  ASSUME T!NoneAssumption, T!OneShot, deals \in Nat, NEW d, NEW K, NEW r, Begins(r, d, K),
         Starts(r, d), NEW n \in T!PlinkoDrop(r)
  PROVE  n = None \/ WorkMarks(n, K)
<1> DEFINE s == r.state
           a == r.request.action
           x == T!RoundForStart(s, a)
           p == T!Stake \o T!Pay
<1>0. DocSound(s, d) /\ Clear(s, K) /\ r.stage = "answer" /\ Ready(r, d)
  BY DEF Begins, Starts, Ready
<1>1. WorkMarks(T!Go(r, T!Remember(s, a, "deal", x), x, p), K)
  <2>1. \A z \in T!Rounds(s) : z.phase \in Over
    BY <1>0 DEF Clear, Backed, Early
  <2>2. Late(p, s, x.id)
    BY <2>1, OverLate
  <2> QED BY <2>2, ReplyMarks
<1>2. ASSUME NEW z \in T!NewRound(r)
      PROVE  LET y == T!Settled(z, None, "play")
             IN WorkMarks(T!PrepareStart(r, y, T!Remember(T!ArchiveRound(s, y), a, "deal", y), p), K)
  <2> DEFINE y == T!Settled(z, None, "play")
             t == T!Remember(T!ArchiveRound(s, y), a, "deal", y)
             key == T!Keys(y).opening
             from == Len(p)
             v == <<"save">> \o p
  <2>1. /\ z \in T!Round /\ z.opening # "complete" /\ z.play = "not_ready"
    BY NewBacked
  <2>2. /\ y.phase = "settled" /\ y.opening # "complete" /\ y.play # "complete"
        /\ y.settlement = IF T!Pays(y) THEN "pending" ELSE "complete"
    BY <2>1, SettledFields
  <2> HIDE DEF y
  <2>3. Backed(y, K) /\ y.phase \in Over
    BY <2>2 DEF Backed, Over
  <2>4. Clear(t, K)
    BY <1>0, <2>3, WritesClear
  <2>5. \A w \in T!Rounds(t) : w.phase \in Over
    BY <2>4 DEF Clear, Backed, Early
  <2> HIDE DEF t, key, from, v, p
  <2>6. Late(v, t, y.id)
    BY <2>5, OverLate
  <2>7. WorkMarks(T!Guarded(T!Go(r, t, y, v), key, from, 0), K)
    BY <1>0, <2>4, <2>6, GuardMarks
  <2> QED BY <2>7 DEF T!PrepareStart, v, key, from, t, y
<1>3. ASSUME x = None, n # None
      PROVE  \E z \in T!NewRound(r) :
               n = T!PrepareStart(r, T!Settled(z, None, "play"),
                     T!Remember(T!ArchiveRound(s, T!Settled(z, None, "play")), a, "deal",
                              T!Settled(z, None, "play")), p)
  BY <1>3 DEF T!PlinkoDrop
<1> QED BY <1>1, <1>2, <1>3 DEF T!PlinkoDrop, T!ReplayStart

(* Caribbean Stud attempts the ante before it takes it.                       *)
LEMMA CaribbeanStartMarks ==
  ASSUME deals \in Nat, table = "caribbean_stud", NEW d, NEW K, NEW r, Begins(r, d, K),
         Starts(r, d), NEW n \in T!CaribbeanDeal(r)
  PROVE  n = None \/ WorkMarks(n, K)
<1> DEFINE a == r.request.action
           x == T!RoundForStart(r.state, a)
           p == <<"attemptOpening">> \o T!Stake
<1>0. table # "acey_deucey" /\ ~T!OneShot
  BY DEF T!OneShot
<1>1. /\ WorkMarks(T!Go(r, T!Remember(r.state, a, "deal", x), x, p), K)
      /\ WorkMarks(T!Go(r, T!Remember(r.state, a, "deal", x), x, <<>>), K)
  <2>1. Late(p, r.state, x.id)
    BY <1>0, StakingPlans, StakingLate
  <2>2. Late(<<>>, r.state, x.id)
    BY DEF Late
  <2> QED BY <2>1, <2>2, ReplyMarks
<1>2. \A y \in T!NewRound(r) : WorkMarks(T!PrepareStart(r, y, T!Seated(r, y), p), K)
  BY <1>0, PreparedMarks
<1> QED BY <1>1, <1>2 DEF T!CaribbeanDeal

(* Jacks or Better and Deuces Wild stake under the round's own id.            *)
LEMMA JacksStartMarks ==
  ASSUME deals \in Nat, table \in {"jacks_or_better", "deuces_wild"}, NEW d, NEW K, NEW r,
         Begins(r, d, K), Starts(r, d), NEW n \in T!JacksStart(r) \cup T!DeucesStart(r)
  PROVE  n = None \/ WorkMarks(n, K)
<1>0. table # "acey_deucey" /\ ~T!OneShot
  BY DEF T!OneShot
<1>1. \A x : WorkMarks(T!Go(r, r.state, x, T!Stake), K)
  <2>1. \A x : Late(T!Stake, r.state, x.id)
    BY <1>0, StakingPlans, StakingLate
  <2> QED BY <2>1, ReplyMarks
<1>2. \A y \in T!NewRound(r) :
        /\ WorkMarks(T!PrepareStart(r, y, T!Seated(r, y), T!Stake), K)
        /\ WorkMarks(T!PrepareStart(r, y, [r.state EXCEPT !.active = y], T!Stake), K)
  BY <1>0, PreparedMarks
<1>3. n \in T!JacksStart(r) => n = None \/ WorkMarks(n, K)
  BY <1>1, <1>2 DEF T!JacksStart
<1>4. n \in T!DeucesStart(r) => n = None \/ WorkMarks(n, K)
  BY <1>1, <1>2 DEF T!DeucesStart
<1> QED BY <1>3, <1>4

(* The start at every table.                                                  *)
LEMMA StartMarks ==
  ASSUME T!NoneAssumption, table \in T!AllTables, deals \in Nat, NEW d, NEW K, NEW r,
         Begins(r, d, K), Starts(r, d), NEW n \in T!Start(r)
  PROVE  n = None \/ WorkMarks(n, K)
<1>1. CASE table \in {"hi_lo", "pai_gow_poker", "joker_poker", "four_card_poker", "casino_holdem",
                      "double_bonus", "mississippi_stud", "teen_patti"}
  <2>1. n = None \/ n \in T!HiLoStart(r) \cup T!DoubleBonusStart(r)
    BY <1>1 DEF T!Start, T!PaiGowStart, T!JokerStart, T!FourCardStart, T!HoldemStart,
                T!MississippiStart, T!TeenPattiStart
  <2>2. table # "acey_deucey" /\ ~T!OneShot
    BY <1>1 DEF T!OneShot
  <2> QED BY <2>1, <2>2, HiLoStartMarks
<1>2. CASE table = "acey_deucey"
  BY <1>2, AceyStartMarks DEF T!Start
<1>3. CASE table \in {"plinko", "andar_bahar"}
  <2>1. n \in T!PlinkoDrop(r) /\ T!OneShot
    BY <1>3 DEF T!Start, T!AndarBaharPlay, T!OneShot
  <2> QED BY <2>1, PlinkoStartMarks
<1>4. CASE table = "caribbean_stud"
  BY <1>4, CaribbeanStartMarks DEF T!Start
<1>5. CASE table \in {"jacks_or_better", "deuces_wild"}
  <2>1. n \in T!JacksStart(r) \cup T!DeucesStart(r)
    BY <1>5 DEF T!Start
  <2> QED BY <2>1, <1>5, JacksStartMarks
<1> QED BY <1>1, <1>2, <1>3, <1>4, <1>5 DEF T!AllTables

-----------------------------------------------------------------------------
(* Decisions                                                                 *)

(* A request that decides, on a table where no raise is half played.          *)
Decider(r, d, K) == Begins(r, d, K) /\ Decides(r, d) /\ NotPlaying(r.state)

(* The round it wants.                                                        *)
LEMMA WantedBacked ==
  ASSUME T!NoneAssumption, NEW d, NEW K, NEW r, Decider(r, d, K), T!Wanted(r) # None
  PROVE  LET x == T!Wanted(r)
             s == r.state
         IN  /\ x \in T!Rounds(s) /\ x \in T!Round /\ Backed(x, K) /\ DocSound(s, d)
             /\ T!IsActive(s, x) => /\ x.phase \notin Over /\ x = s.active
                                    /\ table \in Raising => x.phase = "decision"
             /\ x.phase \in Over => \A p : Late(p, s, x.id)
<1> DEFINE x == T!Wanted(r)
           s == r.state
<1>1. /\ x \in T!Rounds(s) /\ x \in T!Round /\ DocSound(s, d)
      /\ T!IsActive(s, x) => s.active # None /\ x = s.active /\ x.phase \notin Over
  BY WantedIs DEF Decider
<1>2. Backed(x, K)
  BY <1>1 DEF Decider, Begins, Clear
<1>3. T!IsActive(s, x) /\ table \in Raising => x.phase = "decision"
  BY <1>1 DEF Decider, NotPlaying, T!Round, Over
<1>4. x.phase \in Over => \A p : Late(p, s, x.id)
  <2>1. \A z \in T!Rounds(s) : z.id = x.id => z = x
    BY <1>1 DEF DocSound
  <2> QED BY <2>1, OverLate
<1> QED BY <1>1, <1>2, <1>3, <1>4

(* A round that is over takes its place among the recent ones.                *)
LEMMA ArchivedMarks ==
  ASSUME NEW d, NEW K, NEW r, Decider(r, d, K), NEW y, Backed(y, K), y.phase \in Over,
         NEW x, y.id = x.id, NEW a, NEW stage, NEW z, NEW p,
         NEW t, t \in {T!ArchiveRound(r.state, y), T!Remember(T!ArchiveRound(r.state, y), a, stage, z)}
  PROVE  /\ WorkMarks(T!Go(r, t, x, p), K)
         /\ \A key, from, until : WorkMarks(T!Guarded(T!Go(r, t, x, p), key, from, until), K)
<1> DEFINE s == r.state
           u == T!ArchiveRound(s, y)
<1>1. DocSound(s, d) /\ Clear(s, K) /\ Ready(r, d) /\ r.stage = "answer"
  BY DEF Decider, Begins, Decides, Ready
<1>2. DOMAIN u = {"active", "recent", "receipts"}
  BY <1>1, Shapes DEF DocSound
<1>3. \A v \in T!Rounds(u) : v.id = y.id => v = y
  BY <1>1, ArchivedIs
<1>4. Clear(u, K)
  BY <1>1, PutClear
<1> HIDE DEF u
<1>5. T!Rounds(t) = T!Rounds(u)
  BY <1>2, OtherWrites DEF u
<1>6. Clear(t, K) /\ Late(p, t, x.id)
  <2>1. Clear(t, K)
    BY <1>4, <1>5 DEF Clear
  <2>2. \A v \in T!Rounds(t) : v.id = x.id => v.phase \in Over
    BY <1>3, <1>5
  <2> QED BY <2>1, <2>2, OverLate
<1>7. WorkMarks(T!Go(r, t, x, p), K)
  BY <1>1, <1>6, GoMarks
<1>8. \A key, from, until : WorkMarks(T!Guarded(T!Go(r, t, x, p), key, from, until), K)
  BY <1>1, <1>6, GuardMarks
<1> QED BY <1>7, <1>8

(* A round settled by its decision.                                           *)
LEMMA FinishMarks ==
  ASSUME T!NoneAssumption, table \in T!AllTables, table # "acey_deucey", NEW d, NEW K, NEW r,
         Decider(r, d, K), T!Wanted(r) # None, T!IsActive(r.state, T!Wanted(r))
  PROVE  /\ \A c : Backed(T!Settled(T!Wanted(r), r.request.action, c), K)
         /\ \A plan : WorkMarks(T!Finish(r, T!Wanted(r), plan), K)
<1> DEFINE x == T!Wanted(r)
           q == r.request
<1>1. /\ x \in T!Round /\ Backed(x, K) /\ x.phase \notin Over
      /\ table \in Raising => x.phase = "decision"
  BY WantedBacked
<1>2. table \in Raising \cup {"caribbean_stud"} => x.play # "complete"
  BY <1>1 DEF Backed, Early
<1>3. \A c : Backed(T!Settled(x, q.action, c), K)
  BY <1>1, <1>2, SettledBacked
<1>4. ASSUME NEW plan PROVE WorkMarks(T!Finish(r, x, plan), K)
  <2> DEFINE y == T!Settled(x, q.action, q.choice)
             p == <<"save">> \o plan
             t == T!Remember(T!ArchiveRound(r.state, y), q.action, "decision", x)
  <2>1. y.id = x.id /\ y.phase \in Over
    BY <1>1, SettledFields DEF Over
  <2>2. Backed(y, K)
    BY <1>3
  <2> HIDE DEF x, y, p
  <2>3. WorkMarks(T!Go(r, t, x, p), K)
    BY <2>1, <2>2, ArchivedMarks
  <2> QED BY <2>3 DEF T!Finish, t, p, y
<1> QED BY <1>3, <1>4

(* A decision that is repeated pays what it decided; a fresh one goes on.     *)
LEMMA DecideMarks ==
  ASSUME T!NoneAssumption, NEW d, NEW K, NEW r, Decider(r, d, K), NEW refused, NEW fresh,
         T!Wanted(r) # None /\ T!IsActive(r.state, T!Wanted(r)) => WorkMarks(fresh, K),
         NEW n \in T!Decide(r, refused, fresh)
  PROVE  n = None \/ WorkMarks(n, K)
<1> DEFINE x == T!Wanted(r)
           m == T!Go(r, T!Remember(r.state, r.request.action, "decision", x), x, T!Pay)
<1>1. x # None /\ x.phase = "settled" => WorkMarks(m, K)
  <2> SUFFICES ASSUME x # None, x.phase = "settled" PROVE WorkMarks(m, K)
    OBVIOUS
  <2>1. Late(T!Pay, r.state, x.id)
    BY WantedBacked DEF Over
  <2> QED BY <2>1, ReplyMarks DEF Decider
<1>2. T!Decide(r, refused, fresh) \subseteq {None}
        \cup (IF x # None /\ x.phase = "settled" THEN {m} ELSE {})
        \cup (IF x # None /\ T!IsActive(r.state, x) THEN {fresh} ELSE {})
  BY DEF T!Decide, T!Wanted
<1> HIDE DEF m, x
<1> QED BY <1>1, <1>2 DEF x

(* The last decision settles the round.                                       *)
LEMMA HiLoDecideMarks ==
  ASSUME T!NoneAssumption, table \in T!AllTables, table # "acey_deucey", NEW d, NEW K, NEW r,
         Decider(r, d, K), NEW n \in T!HiLoGuess(r) \cup T!DoubleBonusDecide(r)
  PROVE  n = None \/ WorkMarks(n, K)
<1> DEFINE x == T!Wanted(r)
<1>1. x # None /\ T!IsActive(r.state, x) => WorkMarks(T!Finish(r, x, T!Pay), K)
  BY FinishMarks
<1>2. PICK refused : n \in T!Decide(r, refused, T!Finish(r, x, T!Pay))
  BY DEF T!HiLoGuess, T!DoubleBonusDecide
<1> QED BY <1>1, <1>2, DecideMarks

(* The plan of a raise may be followed at a round that is raised.             *)
Raises == {"save", "play", "settle"}
(* A raise saves, stakes and plays out.                                       *)
LEMMA RaisePlan == Uses(<<"save">> \o T!Raise \o <<"settle">>, Raises)
<1> DEFINE v == <<"save">>
           k == <<"play", "save">>
           w == <<"settle">>
<1>1. v \in Seq(Steps) /\ k \in Seq(Steps) /\ w \in Seq(Steps)
  BY DEF Steps, Parts
<1>2. Uses(v, Raises) /\ Uses(k, Raises) /\ Uses(w, Raises)
  <2>1. \A i \in 1..1 : i = 1
    OBVIOUS
  <2>2. \A i \in 1..2 : i = 1 \/ i = 2
    OBVIOUS
  <2> QED BY <2>1, <2>2 DEF Uses, Raises
<1> HIDE DEF v, k, w
<1>3. Uses(v \o k, Raises) /\ v \o k \in Seq(Steps)
  BY <1>1, <1>2, UsesCat, ConcatProperties
<1>4. Uses((v \o k) \o w, Raises)
  BY <1>1, <1>2, <1>3, UsesCat
<1> QED BY <1>4 DEF v, k, w, T!Raise

(* A raise is marked under the action that fixed its key.                     *)
LEMMA RaiseMarks ==
  ASSUME table \in Raising \cup {"mississippi_stud"}, NEW d, NEW K, NEW r, Decider(r, d, K),
         NEW y, Backed(y, K), y.phase # "decision" \/ table = "mississippi_stud",
         NEW x, y.id = x.id, NEW a, NEW stage, NEW z, NEW key, NEW from,
         NEW t, t \in {T!Put(r.state, y), T!Remember(T!Put(r.state, y), a, stage, z)}
  PROVE  WorkMarks(T!Guarded(T!Go(r, t, x, <<"save">> \o T!Raise \o <<"settle">>), key, from, 1), K)
<1> DEFINE s == r.state
           u == T!Put(s, y)
           p == <<"save">> \o T!Raise \o <<"settle">>
<1>0. /\ table \notin {"deuces_wild", "acey_deucey", "caribbean_stud"}
      /\ table = "mississippi_stud" => table \notin Raising
  BY DEF Raising
<1>1. DocSound(s, d) /\ Clear(s, K) /\ Ready(r, d) /\ r.stage = "answer"
  BY DEF Decider, Begins, Decides, Ready
<1>2. DOMAIN u = {"active", "recent", "receipts"}
  BY <1>1, Shapes DEF DocSound
<1>3. \A v \in T!Rounds(u) : v.id = y.id => v = y
  BY <1>1, PutIs
<1>4. Clear(u, K)
  BY <1>1, PutClear
<1>5. Uses(p, Raises)
  BY RaisePlan
<1> HIDE DEF u, p
<1>6. T!Rounds(t) = T!Rounds(u)
  BY <1>2, OtherWrites DEF u
<1>7. Clear(t, K)
  BY <1>4, <1>6 DEF Clear
<1>8. \A step \in Raises : May(step, y)
  BY <1>0 DEF Raises, May
<1>9. \A v \in T!Rounds(t) : v.id = x.id => \A step \in Raises : May(step, v)
  BY <1>3, <1>6, <1>8
<1>10. Late(p, t, x.id)
  BY <1>5, <1>9, UsesLate
<1>11. WorkMarks(T!Guarded(T!Go(r, t, x, p), key, from, 1), K)
  BY <1>1, <1>7, <1>10, GuardMarks
<1> QED BY <1>11 DEF p

(* Raises and bets, not yet marked.                                           *)
LEMMA RaisedBacked ==
  ASSUME table \in T!AllTables, table \in Raising \cup {"mississippi_stud"}, NEW K,
         NEW x \in T!Round, Backed(x, K), x.phase \notin Over, NEW a
  PROVE  /\ table \in Raising => Backed(T!PreparePlay(x, a), K) /\ T!PreparePlay(x, a).phase = "playing"
         /\ T!PreparePlay(x, a).id = x.id
         /\ table = "mississippi_stud" => Backed(T!PrepareBet(x, a), K)
         /\ T!PrepareBet(x, a).id = x.id
<1>0. table \notin {"deuces_wild", "acey_deucey", "caribbean_stud"}
      /\ (table = "mississippi_stud" => table \notin Raising)
  BY DEF Raising
<1>1. Early(x)
  BY DEF Backed
<1>2. \A y \in {T!PreparePlay(x, a), T!PrepareBet(x, a)} :
        /\ y.id = x.id /\ y.start = x.start /\ y.opening = x.opening /\ y.settlement = x.settlement
        /\ y.play = "pending"
  <2> DEFINE y == T!PreparePlay(x, a)
             z == T!PrepareBet(x, a)
  <2>1. {"id", "start", "opening", "settlement", "play"} \subseteq DOMAIN x
    BY DEF T!Round
  <2>2. /\ y.id = x.id /\ y.start = x.start /\ y.opening = x.opening /\ y.settlement = x.settlement
        /\ y.play = "pending"
    BY <2>1 DEF T!PreparePlay
  <2>3. /\ z.id = x.id /\ z.start = x.start /\ z.opening = x.opening /\ z.settlement = x.settlement
        /\ z.play = "pending"
    BY <2>1 DEF T!PrepareBet
  <2> HIDE DEF y, z
  <2> QED BY <2>2, <2>3 DEF y, z
<1>3. T!PreparePlay(x, a).phase = "playing"
  BY DEF T!PreparePlay, T!Round
<1>4. \A y \in {T!PreparePlay(x, a), T!PrepareBet(x, a)} :
        T!Keys(y).opening = T!Keys(x).opening
  BY <1>0, <1>2, SameOpening
<1>5. table \in Raising => Backed(T!PreparePlay(x, a), K)
  BY <1>0, <1>1, <1>2, <1>3, <1>4 DEF Backed, Early
<1>6. table = "mississippi_stud" => Backed(T!PrepareBet(x, a), K)
  BY <1>0, <1>1, <1>2, <1>4 DEF Backed, Early
<1> QED BY <1>2, <1>3, <1>5, <1>6

(* A raise or a fold.                                                         *)
LEMMA FourCardDecideMarks ==
  ASSUME T!NoneAssumption, table \in T!AllTables, table \in Raising, NEW d, NEW K, NEW r,
         Decider(r, d, K), NEW n \in T!FourCardDecide(r) \cup T!HoldemDecide(r)
  PROVE  n = None \/ WorkMarks(n, K)
<1> DEFINE x == T!Wanted(r)
<1>0. table # "acey_deucey"
  BY DEF Raising
<1>1. x # None /\ T!IsActive(r.state, x) =>
        WorkMarks(T!Finish(r, x, T!Pay), K) /\ WorkMarks(T!Finish(r, x, <<>>), K)
  BY <1>0, FinishMarks
<1>2. x # None /\ T!IsActive(r.state, x) => WorkMarks(T!PrepareRaise(r, x), K)
  <2> SUFFICES ASSUME x # None, T!IsActive(r.state, x) PROVE WorkMarks(T!PrepareRaise(r, x), K)
    OBVIOUS
  <2> DEFINE a == r.request.action
             y == T!PreparePlay(x, a)
  <2>1. x \in T!Round /\ Backed(x, K) /\ x.phase \notin Over
    BY WantedBacked
  <2>2. Backed(y, K) /\ y.phase # "decision" /\ y.id = x.id
    BY <2>1, RaisedBacked
  <2> HIDE DEF y
  <2>3. \A key : WorkMarks(T!Guarded(T!Go(r, T!Remember(T!Put(r.state, y), a, "decision", x), x,
                                          <<"save">> \o T!Raise \o <<"settle">>), key, 3, 1), K)
    BY <2>2, RaiseMarks
  <2> QED BY <2>3 DEF T!PrepareRaise, y
<1>3. PICK fresh \in {T!Finish(r, x, T!Pay), T!Finish(r, x, <<>>), T!PrepareRaise(r, x)} :
        n \in T!Decide(r, T!Refused(r), fresh)
  <2>1. n \in T!FourCardDecide(r) => \E f \in {T!Finish(r, x, T!Pay), T!PrepareRaise(r, x)} :
                                      n \in T!Decide(r, T!Refused(r), f)
    BY DEF T!FourCardDecide
  <2>2. n \in T!HoldemDecide(r) => \E f \in {T!Finish(r, x, <<>>), T!PrepareRaise(r, x)} :
                                      n \in T!Decide(r, T!Refused(r), f)
    BY DEF T!HoldemDecide
  <2> QED BY <2>1, <2>2
<1> QED BY <1>1, <1>2, <1>3, DecideMarks

(* A street raises by the action that is pending, or folds.                   *)
LEMMA MississippiDecideMarks ==
  ASSUME T!NoneAssumption, table = "mississippi_stud", NEW d, NEW K, NEW r,
         Decider(r, d, K), NEW n \in T!MississippiDecide(r)
  PROVE  n = None \/ WorkMarks(n, K)
<1> DEFINE s == r.state
           q == r.request
           x == T!Wanted(r)
           y == T!PrepareBet(x, q.action)
           z == T!Settled(x, q.action, "fold")
           pay == T!Go(r, s, x, T!Pay)
           fold == T!Go(r, T!ArchiveRound(s, z), x, <<"save">>)
           bet == T!Guarded(T!Go(r, T!Put(s, y), x, <<"save">> \o T!Raise \o <<"settle">>),
                          T!MississippiKeys(y).play, 3, 1)
<1>0. table \in T!AllTables /\ table # "acey_deucey" /\ table # "deuces_wild"
  BY DEF T!AllTables
<1>1. x # None /\ x.settlement = "pending" => WorkMarks(pay, K)
  <2> SUFFICES ASSUME x # None, x.settlement = "pending" PROVE WorkMarks(pay, K)
    OBVIOUS
  <2>1. x.phase \in Over
    BY <1>0, WantedBacked DEF Backed, Early
  <2>2. Late(T!Pay, s, x.id)
    BY <2>1, WantedBacked
  <2> QED BY <2>2, ReplyMarks DEF Decider
<1>2. x # None /\ T!IsActive(s, x) => WorkMarks(fold, K)
  <2> SUFFICES ASSUME x # None, T!IsActive(s, x) PROVE WorkMarks(fold, K)
    OBVIOUS
  <2>1. x \in T!Round
    BY WantedBacked
  <2>2. z.id = x.id /\ z.phase \in Over
    BY <2>1, SettledFields DEF Over
  <2>3. Backed(z, K)
    BY <1>0, FinishMarks
  <2> HIDE DEF z
  <2> QED BY <2>2, <2>3, ArchivedMarks
<1>3. x # None /\ T!IsActive(s, x) => WorkMarks(bet, K)
  <2> SUFFICES ASSUME x # None, T!IsActive(s, x) PROVE WorkMarks(bet, K)
    OBVIOUS
  <2>1. x \in T!Round /\ Backed(x, K) /\ x.phase \notin Over
    BY WantedBacked
  <2>2. Backed(y, K) /\ y.id = x.id
    BY <1>0, <2>1, RaisedBacked
  <2> HIDE DEF y
  <2>3. \A key : WorkMarks(T!Guarded(T!Go(r, T!Put(s, y), x,
                                          <<"save">> \o T!Raise \o <<"settle">>), key, 3, 1), K)
    BY <2>2, RaiseMarks
  <2> QED BY <2>3
<1>4. n \in {None} \cup (IF x # None /\ x.settlement = "pending" THEN {pay} ELSE {})
        \cup (IF x # None /\ T!IsActive(s, x) THEN {fold, bet} ELSE {})
  BY DEF T!MississippiDecide
<1> HIDE DEF pay, fold, bet, x
<1> QED BY <1>1, <1>2, <1>3, <1>4 DEF x

(* Acey Deucey, whose wager is still to be taken when the hand is over.       *)
LEMMA AceyDecideMarks ==
  ASSUME T!NoneAssumption, table = "acey_deucey", NEW d, NEW K, NEW r,
         Decider(r, d, K), NEW n \in T!AceyPlay(r) \cup T!AceyPass(r)
  PROVE  n = None \/ WorkMarks(n, K)
<1> DEFINE s == r.state
           q == r.request
           x == T!Wanted(r)
           u == T!Settled(x, q.action, "play")
           y == [u EXCEPT !.opening = "pending"]
           v == T!Settled(x, q.action, "pass")
           z == [v EXCEPT !.phase = "passed", !.settlement = "not_ready"]
           again == T!Go(r, T!Remember(s, q.action, "decision", x), x, T!Stake \o T!Pay)
           passed == T!Go(r, T!Remember(s, q.action, "decision", x), x, <<"save">>)
           play == T!Guarded(T!Go(r, T!Remember(T!ArchiveRound(s, y), q.action, "decision", x), x,
                                <<"save">> \o T!Stake \o T!Pay), T!AceyKeys(y).opening, 4, 0)
           pass == T!Go(r, T!Remember(T!ArchiveRound(s, z), q.action, "decision", x), x, <<"save">>)
<1>0. table \in T!AllTables /\ table \notin Raising \cup {"caribbean_stud", "deuces_wild"}
  BY DEF T!AllTables, Raising
<1>1. x # None /\ x.phase = "settled" => WorkMarks(again, K)
  <2> SUFFICES ASSUME x # None, x.phase = "settled" PROVE WorkMarks(again, K)
    OBVIOUS
  <2>1. \A p : Late(p, s, x.id)
    BY WantedBacked DEF Over
  <2> QED BY <2>1, ReplyMarks DEF Decider
<1>2. x # None => WorkMarks(passed, K)
  <2>1. Late(<<"save">>, s, x.id)
    BY SaveLate
  <2> QED BY <2>1, ReplyMarks DEF Decider
<1>3. x # None /\ T!IsActive(s, x) =>
        /\ x \in T!Round /\ Backed(x, K) /\ x.phase \notin Over /\ x.opening # "complete"
  BY <1>0, WantedBacked DEF Backed, Early
<1>4. x # None /\ T!IsActive(s, x) => WorkMarks(play, K)
  <2> SUFFICES ASSUME x # None, T!IsActive(s, x) PROVE WorkMarks(play, K)
    OBVIOUS
  <2>1. /\ u.id = x.id /\ u.start = x.start /\ u.play = x.play /\ u.pending = x.pending
        /\ u.phase = "settled" /\ u.settlement = IF T!Pays(u) THEN "pending" ELSE "complete"
    BY <1>3, SettledFields
  <2>2. u \in T!Round
    <3>1. q.action \in Nat \cup {None}
      BY DEF Decider, Decides, Ready, Asked
    <3> QED BY <1>3, <3>1, SettledIs
  <2> HIDE DEF u
  <2>3. /\ y.id = x.id /\ y.start = x.start /\ y.play = x.play /\ y.pending = x.pending
        /\ y.phase = "settled" /\ y.settlement = u.settlement /\ y.wins = u.wins
        /\ y.choice = u.choice /\ y.opening = "pending"
    BY <2>1, <2>2 DEF T!Round
  <2>4. y.settlement = "complete" => ~T!Pays(y)
    BY <2>1, <2>3 DEF T!Pays
  <2> HIDE DEF y
  <2>5. Backed(y, K) /\ y.phase \in Over
    <3>1. y.phase \in Over
      BY <2>3 DEF Over
    <3> QED BY <1>0, <1>3, <2>3, <2>4, <3>1, OverBacked
  <2>6. \A p, key, from, until :
          WorkMarks(T!Guarded(T!Go(r, T!Remember(T!ArchiveRound(s, y), q.action, "decision", x), x, p),
                            key, from, until), K)
    BY <2>3, <2>5, ArchivedMarks
  <2> QED BY <2>6
<1>5. x # None /\ T!IsActive(s, x) => WorkMarks(pass, K)
  <2> SUFFICES ASSUME x # None, T!IsActive(s, x) PROVE WorkMarks(pass, K)
    OBVIOUS
  <2>1. /\ v.id = x.id /\ v.start = x.start /\ v.play = x.play /\ v.pending = x.pending
        /\ v.opening = x.opening
    BY <1>3, SettledFields
  <2>2. v \in T!Round
    <3>1. q.action \in Nat \cup {None}
      BY DEF Decider, Decides, Ready, Asked
    <3> QED BY <1>3, <3>1, SettledIs
  <2> HIDE DEF v
  <2>3. /\ z.id = x.id /\ z.start = x.start /\ z.play = x.play /\ z.pending = x.pending
        /\ z.phase = "passed" /\ z.settlement = "not_ready" /\ z.opening = x.opening
    BY <2>1, <2>2 DEF T!Round
  <2> HIDE DEF z
  <2>4. Backed(z, K) /\ z.phase \in Over
    <3>1. z.phase \in Over
      BY <2>3 DEF Over
    <3> QED BY <1>0, <1>3, <2>3, <3>1, OverBacked
  <2> QED BY <2>3, <2>4, ArchivedMarks
<1>6. n \in {None} \cup (IF x # None THEN {passed} ELSE {})
        \cup (IF x # None /\ x.phase = "settled" THEN {again} ELSE {})
        \cup (IF x # None /\ T!IsActive(s, x) THEN {play, pass} ELSE {})
  BY DEF T!AceyPlay, T!AceyPass
<1> HIDE DEF again, passed, play, pass, x
<1> QED BY <1>1, <1>2, <1>4, <1>5, <1>6 DEF x

(* Caribbean Stud.                                                            *)
LEMMA CaribbeanDecideMarks ==
  ASSUME T!NoneAssumption, table = "caribbean_stud", NEW d, NEW K, NEW r,
         Decider(r, d, K), NEW n \in T!CaribbeanCall(r) \cup T!CaribbeanFold(r)
  PROVE  n = None \/ WorkMarks(n, K)
<1> DEFINE s == r.state
           q == r.request
           x == T!Wanted(r)
           u == T!Settled(x, q.action, "play")
           y == [u EXCEPT !.play = "pending", !.attempt = "play"]
           plan == T!CaribbeanEnsureCall(y)
           again == T!Go(r, T!Remember(s, q.action, "decision", x), x, T!CaribbeanEnsureCall(x))
           folded == T!Go(r, T!Remember(s, q.action, "decision", x), x, <<"save">>)
           call == T!Guarded(T!Go(r, T!Remember(T!ArchiveRound(s, y), q.action, "decision", x), x,
                                <<"save">> \o plan), T!CaribbeanKeys(y).play, Len(plan), 0)
           fold == T!Finish(r, x, <<>>)
<1>0. table \in T!AllTables /\ table \notin Raising \cup {"acey_deucey", "deuces_wild"}
  BY DEF T!AllTables, Raising
<1>1. x # None /\ x.phase = "settled" => WorkMarks(again, K) /\ WorkMarks(folded, K)
  <2> SUFFICES ASSUME x # None, x.phase = "settled" PROVE WorkMarks(again, K) /\ WorkMarks(folded, K)
    OBVIOUS
  <2>1. \A p : Late(p, s, x.id)
    BY WantedBacked DEF Over
  <2> QED BY <2>1, ReplyMarks DEF Decider
<1>2. x # None /\ T!IsActive(s, x) => WorkMarks(fold, K)
  BY <1>0, FinishMarks
<1>3. x # None /\ T!IsActive(s, x) => WorkMarks(call, K)
  <2> SUFFICES ASSUME x # None, T!IsActive(s, x) PROVE WorkMarks(call, K)
    OBVIOUS
  <2>0. x \in T!Round /\ Backed(x, K)
    BY WantedBacked
  <2>1. /\ u.id = x.id /\ u.start = x.start /\ u.opening = x.opening
        /\ u.phase = "settled" /\ u.settlement = IF T!Pays(u) THEN "pending" ELSE "complete"
    BY <2>0, SettledFields
  <2>2. u \in T!Round
    <3>1. q.action \in Nat \cup {None}
      BY DEF Decider, Decides, Ready, Asked
    <3> QED BY <2>0, <3>1, SettledIs
  <2> HIDE DEF u
  <2>3. /\ y.id = x.id /\ y.start = x.start /\ y.opening = x.opening /\ y.play = "pending"
        /\ y.phase = "settled" /\ y.settlement = u.settlement /\ y.wins = u.wins
        /\ y.choice = u.choice
    BY <2>1, <2>2 DEF T!Round
  <2>4. y.settlement = "complete" => ~T!Pays(y)
    BY <2>1, <2>3 DEF T!Pays
  <2> HIDE DEF y
  <2>5. Backed(y, K) /\ y.phase \in Over
    <3>1. y.phase \in Over
      BY <2>3 DEF Over
    <3> QED BY <1>0, <2>0, <2>3, <2>4, <3>1, OverBacked
  <2>6. \A p, key, from, until :
          WorkMarks(T!Guarded(T!Go(r, T!Remember(T!ArchiveRound(s, y), q.action, "decision", x), x, p),
                            key, from, until), K)
    BY <2>3, <2>5, ArchivedMarks
  <2> QED BY <2>6
<1>4. n \in {None} \cup (IF x # None /\ x.phase = "settled" THEN {again, folded} ELSE {})
        \cup (IF x # None /\ T!IsActive(s, x) THEN {call, fold} ELSE {})
  BY DEF T!CaribbeanCall, T!CaribbeanFold
<1> HIDE DEF again, folded, call, fold, x
<1> QED BY <1>1, <1>2, <1>3, <1>4 DEF x

(* Jacks or Better, which binds the draw to its action first.                 *)
LEMMA JacksDecideMarks ==
  ASSUME T!NoneAssumption, table = "jacks_or_better", NEW d, NEW K, NEW r,
         Decider(r, d, K), NEW n \in T!JacksDraw(r)
  PROVE  n = None \/ WorkMarks(n, K)
<1> DEFINE s == r.state
           a == r.request.action
           x == T!Wanted(r)
           y == [x EXCEPT !.action = a]
           pay == T!Go(r, s, x, T!Pay)
           draw == T!Go(r, T!Put(s, y), x, <<"save", "settle">>)
<1>0. /\ table \in T!AllTables
      /\ table \notin Raising \cup {"caribbean_stud", "acey_deucey", "deuces_wild", "mississippi_stud"}
  BY DEF T!AllTables, Raising
<1>1. x # None /\ x.phase = "settled" => WorkMarks(pay, K)
  <2> SUFFICES ASSUME x # None, x.phase = "settled" PROVE WorkMarks(pay, K)
    OBVIOUS
  <2>1. \A p : Late(p, s, x.id)
    BY WantedBacked DEF Over
  <2> QED BY <2>1, ReplyMarks DEF Decider
<1>2. x # None /\ T!IsActive(s, x) => WorkMarks(draw, K)
  <2> SUFFICES ASSUME x # None, T!IsActive(s, x) PROVE WorkMarks(draw, K)
    OBVIOUS
  <2>1. x \in T!Round /\ Backed(x, K) /\ x.phase \notin Over
    BY WantedBacked
  <2>2. /\ y.id = x.id /\ y.start = x.start /\ y.opening = x.opening /\ y.play = x.play
        /\ y.settlement = x.settlement /\ y.phase = x.phase
    BY <2>1 DEF T!Round
  <2> HIDE DEF y
  <2>3. T!Keys(y).opening = T!Keys(x).opening /\ T!Keys(y).play = T!Keys(x).play
    BY <1>0, <2>2, SameOpening, SamePlay
  <2>4. Backed(y, K)
    BY <1>0, <2>1, <2>2, <2>3 DEF Backed, Early
  <2> QED BY <2>4, PutMarks DEF Decider
<1>3. n \in {None} \cup (IF x # None /\ x.phase = "settled" THEN {pay} ELSE {})
        \cup (IF x # None /\ T!IsActive(s, x) THEN {draw} ELSE {})
  BY DEF T!JacksDraw
<1> HIDE DEF pay, draw, x
<1> QED BY <1>1, <1>2, <1>3 DEF x

(* Deuces Wild, where every mark may be made at any time.                     *)
LEMMA DeucesReplies ==
  ASSUME table = "deuces_wild", NEW d, NEW K, NEW r, Begins(r, d, K), NEW x, NEW a, NEW stage, NEW p
  PROVE  /\ WorkMarks(T!Go(r, T!Remember(r.state, a, stage, x), x, p), K)
         /\ WorkMarks(T!Go(r, r.state, x, p), K)
<1>1. Late(p, r.state, x.id)
  BY DEF Late, May, Raising
<1> QED BY <1>1, ReplyMarks

(* A draw or a hold at Deuces Wild.                                           *)
LEMMA DeucesDecideMarks ==
  ASSUME table = "deuces_wild", NEW d, NEW K, NEW r, Begins(r, d, K),
         NEW n \in T!DeucesDraw(r) \cup T!DeucesSetHolds(r)
  PROVE  n = None \/ WorkMarks(n, K)
<1> DEFINE x == T!Wanted(r)
<1>1. \A a, stage, p : /\ WorkMarks(T!Go(r, T!Remember(r.state, a, stage, x), x, p), K)
                       /\ WorkMarks(T!Go(r, r.state, x, p), K)
  BY DeucesReplies
<1> HIDE DEF x
<1>2. n \in T!DeucesDraw(r) => n = None \/ WorkMarks(n, K)
  BY <1>1 DEF T!DeucesDraw, x
<1>3. n \in T!DeucesSetHolds(r) => n = None \/ WorkMarks(n, K)
  BY <1>1 DEF T!DeucesSetHolds, x
<1> QED BY <1>2, <1>3

(* The decision at every table that has one.                                  *)
LEMMA DecideRoundMarks ==
  ASSUME T!NoneAssumption, table \in T!AllTables, ~T!OneShot, NEW d, NEW K, NEW r,
         Decider(r, d, K), NEW n \in T!DecideRound(r)
  PROVE  n = None \/ WorkMarks(n, K)
<1>1. CASE table \in {"hi_lo", "pai_gow_poker", "double_bonus", "joker_poker"}
  <2>1. n \in T!HiLoGuess(r) \cup T!DoubleBonusDecide(r)
    BY <1>1 DEF T!DecideRound, T!PaiGowDecide, T!JokerDraw
  <2> QED BY <2>1, <1>1, HiLoDecideMarks
<1>2. CASE table \in Raising
  <2>1. n \in T!FourCardDecide(r) \cup T!HoldemDecide(r)
    BY <1>2 DEF Raising, T!DecideRound, T!TeenPattiDecide
  <2> QED BY <2>1, <1>2, FourCardDecideMarks
<1>3. CASE table = "mississippi_stud"
  BY <1>3, MississippiDecideMarks DEF T!DecideRound
<1>4. CASE table = "acey_deucey"
  <2>1. n \in T!AceyPlay(r) \cup T!AceyPass(r)
    BY <1>4 DEF T!DecideRound
  <2> QED BY <2>1, <1>4, AceyDecideMarks
<1>5. CASE table = "caribbean_stud"
  <2>1. n \in T!CaribbeanCall(r) \cup T!CaribbeanFold(r)
    BY <1>5 DEF T!DecideRound
  <2> QED BY <2>1, <1>5, CaribbeanDecideMarks
<1>6. CASE table = "jacks_or_better"
  BY <1>6, JacksDecideMarks DEF T!DecideRound
<1>7. CASE table = "deuces_wild"
  BY <1>7, DeucesDecideMarks DEF T!DecideRound, Decider
<1> QED BY <1>1, <1>2, <1>3, <1>4, <1>5, <1>6, <1>7 DEF T!AllTables, T!OneShot, Raising

(* Cards that are held mark nothing.                                          *)
LEMMA SetHoldsMarks ==
  ASSUME T!NoneAssumption, NEW d, NEW K, NEW r, Begins(r, d, K),
         table \in {"joker_poker", "jacks_or_better", "deuces_wild"}, NEW n \in T!SetHolds(r)
  PROVE  n = None \/ WorkMarks(n, K)
<1>1. CASE table = "deuces_wild"
  BY <1>1, DeucesDecideMarks DEF T!SetHolds
<1>2. CASE table \in {"joker_poker", "jacks_or_better"}
  <2> DEFINE s == r.state
             x == s.active
             held == T!Go(r, T!Hold(s, x), x, <<"save">>)
  <2>1. n \in T!JokerSetHolds(r) \cup T!JacksSetHolds(r)
    BY <1>2 DEF T!SetHolds
  <2>2. x # None => WorkMarks(held, K)
    <3>1. x # None => x \in T!Round /\ Backed(x, K)
      BY RoundsAreRounds DEF Begins, Ready, Clear
    <3>2. x # None => Backed([x EXCEPT !.holds = TRUE], K)
      BY <3>1, BackedMarks
    <3> QED BY <3>2, PutMarks DEF T!Hold
  <2>3. n \in {None} \cup (IF x # None THEN {held} ELSE {})
    BY <2>1 DEF T!JokerSetHolds, T!JacksSetHolds
  <2> HIDE DEF held
  <2> QED BY <2>2, <2>3
<1> QED BY <1>1, <1>2

(* A command: a look, a start or a decision.                                  *)
LEMMA CommandMarks ==
  ASSUME T!NoneAssumption, table \in T!AllTables, deals \in Nat, NEW d, NEW K, NEW r,
         Begins(r, d, K), r.stage = "answer", NotPlaying(r.state), NEW n \in T!Command(r)
  PROVE  n = None \/ WorkMarks(n, K)
<1>1. Decider(r, d, K) /\ Asked(r.request)
  BY DEF Decider, Decides, Begins, Ready
<1>2. CASE r.request.op = "state"
  BY <1>2 DEF T!Command
<1>3. CASE r.request.op = "start"
  <2>1. Starts(r, d) /\ n \in T!Start(r)
    BY <1>3 DEF Starts, T!Command, Begins
  <2> QED BY <2>1, StartMarks
<1>4. CASE r.request.op = "decide"
  <2>1. ~T!OneShot /\ n \in T!DecideRound(r)
    BY <1>1, <1>4 DEF Asked, T!Command
  <2> QED BY <2>1, <1>1, DecideRoundMarks
<1>5. CASE r.request.op = "hold"
  <2>1. table \in {"joker_poker", "jacks_or_better", "deuces_wild"} /\ n \in T!SetHolds(r)
    BY <1>1, <1>5 DEF Asked, T!Command
  <2> QED BY <2>1, SetHoldsMarks
<1> QED BY <1>1, <1>2, <1>3, <1>4, <1>5 DEF Asked

-----------------------------------------------------------------------------
(* What a request goes on with when it has published, or begins.             *)

LEMMA ContinueMarks ==
  ASSUME T!NoneAssumption, table \in T!AllTables, deals \in Nat, NEW d, NEW K, K = DOMAIN rows, NEW r,
         Resting(r, d, K), WorkMarks(r, K), r.base = r.state, NEW m \in T!Continue(r)
  PROVE  m = None \/ WorkMarks(m, K)
<1>1. CASE r.plan # <<>>
  <2> DEFINE u == [r EXCEPT !.undo = None]
  <2>1. m = r \/ m = u
    BY <1>1 DEF T!Continue
  <2>2. /\ u.undo = None /\ u.stage = r.stage /\ u.base = r.base /\ u.state = r.state
        /\ u.plan = r.plan /\ u.round = r.round
    BY DEF Resting, RequestFields
  <2>3. WorkMarks(u, K)
    BY <2>2 DEF WorkMarks
  <2> QED BY <2>1, <2>3
<1>2. CASE r.plan = <<>> /\ r.stage # "answer"
  <2> DEFINE s == [r EXCEPT !.stage = "answer"]
             N == T!Command(s)
  <2>1. Ready(r, d) /\ Clear(r.state, K)
    BY <1>2 DEF Ready, Resting, WorkMarks
  <2>2. ASSUME r.stage = "repair", m \in T!Recover(r) PROVE m = None \/ WorkMarks(m, K)
    <3>1. Begins(r, d, K)
      BY <2>1, <2>2 DEF Begins
    <3> QED BY <3>1, <2>2, RecoverMarks
  <2>3. ASSUME r.stage = "repair" => T!Recover(r) = {}, m \in N PROVE m = None \/ WorkMarks(m, K)
    <3>1. /\ Ready(s, d) /\ s.stage = "answer" /\ s.state = r.state
      BY <2>1 DEF Ready, RequestFields
    <3>2. Begins(s, d, K)
      BY <2>1, <3>1 DEF Begins
    <3>3. NotPlaying(r.state)
      <4>1. CASE r.stage = "command"
        BY <4>1 DEF WorkMarks
      <4>2. CASE r.stage = "repair" /\ table \in Raising
        <5>1. T!FourCardRecover(r) = {}
          BY <2>3, <4>2 DEF Raising, T!Recover, T!HoldemRecover, T!TeenPattiRecover
        <5> QED BY <4>2, <5>1, RepairedPlay
      <4>3. CASE table \notin Raising
        BY <4>3 DEF NotPlaying
      <4> QED BY <1>2, <2>1, <4>1, <4>2, <4>3 DEF Ready
    <3> HIDE DEF s
    <3> QED BY <2>3, <3>1, <3>2, <3>3, CommandMarks
  <2>4. \/ m = None
        \/ r.stage = "repair" /\ m \in T!Recover(r)
        \/ (r.stage = "repair" => T!Recover(r) = {}) /\ m \in N
    <3> HIDE DEF N
    <3>1. T!Continue(r) = IF r.stage = "repair" /\ T!Recover(r) # {} THEN T!Recover(r)
                        ELSE IF N = {} THEN {None}
                        ELSE {IF n # None /\ n.plan = <<>> THEN None ELSE n : n \in N}
      BY <1>2 DEF T!Continue, N
    <3> QED BY <3>1
  <2> QED BY <2>2, <2>3, <2>4
<1>3. CASE r.plan = <<>> /\ r.stage = "answer"
  BY <1>3 DEF T!Continue
<1> QED BY <1>1, <1>2, <1>3

-----------------------------------------------------------------------------
(* The steps of a request                                                    *)

(* What other workers add to the ledger leaves the marks backed.              *)
LEMMA LaterMarks ==
  ASSUME NEW K, NEW L, K \subseteq L, NEW r, WorkMarks(r, K)
  PROVE  WorkMarks(r, L)
<1>1. \A s : Clear(s, K) => Clear(s, L)
  BY FewerClear
<1> QED BY <1>1 DEF WorkMarks

(* The steps that are left may be taken at the round as it is now.            *)
LEMMA TailLate ==
  ASSUME NEW d, NEW K, NEW r, WorkSound(r, d, K), Late(r.plan, r.state, r.round), NEW t,
         \A z \in T!Rounds(t) : z.id = r.round =>
             z.phase \in Over \/ \E x \in T!Rounds(r.state) : x.id = r.round /\ x.phase = z.phase
  PROVE  Late(Tail(r.plan), t, r.round)
<1> DEFINE p == r.plan
<1>1. p \in Seq(Steps) /\ p # <<>>
  BY DEF WorkSound, Resting, PlanFits
<1>2. Len(Tail(p)) = Len(p) - 1 /\ Len(p) \in Nat /\ \A i \in 1..Len(p) - 1 : Tail(p)[i] = p[i + 1]
  BY <1>1, HeadTailProperties, LenProperties
<1> SUFFICES ASSUME NEW z \in T!Rounds(t), z.id = r.round, NEW i \in 1..Len(Tail(p))
             PROVE  May(Tail(p)[i], z)
  BY DEF Late
<1>3. i + 1 \in 1..Len(p) /\ Tail(p)[i] = p[i + 1]
  BY <1>2
<1>4. CASE z.phase \in Over
  BY <1>4 DEF May
<1>5. ASSUME NEW x \in T!Rounds(r.state), x.id = r.round, x.phase = z.phase PROVE May(Tail(p)[i], z)
  <2>1. May(p[i + 1], x)
    BY <1>3, <1>5 DEF Late
  <2> QED BY <1>3, <1>5, <2>1 DEF May
<1> QED BY <1>4, <1>5

(* A step was taken, and the request has the document t.                      *)
LEMMA SteppedMarks ==
  ASSUME NEW d, NEW K, NEW L, K \subseteq L, NEW r, WorkSound(r, d, K), WorkMarks(r, K),
         NEW t, Clear(t, L), r.stage = "command" => NotPlaying(t),
         \A z \in T!Rounds(t) : z.id = r.round =>
             z.phase \in Over \/ \E x \in T!Rounds(r.state) : x.id = r.round /\ x.phase = z.phase,
         NEW n, Stepped(r, n, t)
  PROVE  WorkMarks(n, L)
<1>1. Late(Tail(r.plan), t, r.round)
  BY TailLate DEF WorkMarks
<1>2. Clear(r.base, L) /\ (r.undo # None => Clear(r.undo.state, L))
  BY LaterMarks DEF WorkMarks
<1> QED BY <1>1, <1>2 DEF WorkMarks, Stepped

(* The round it is at is marked.                                              *)
LEMMA PutStep ==
  ASSUME T!NoneAssumption, NEW d, NEW K, NEW L, K \subseteq L, NEW r, WorkSound(r, d, K),
         WorkMarks(r, K), Head(r.plan) # "save", NEW y, Marked2(T!Focus(r), y), Backed(y, L),
         NEW t, t = T!Put(r.state, y) \/ \E a, stage, z : t = T!Remember(T!Put(r.state, y), a, stage, z),
         NEW n, Stepped(r, n, t)
  PROVE  WorkMarks(n, L)
<1> DEFINE x == T!Focus(r)
           s == r.state
           u == T!Put(s, y)
<1>1. /\ x \in T!Rounds(s) /\ x \in T!Round /\ x.id = r.round /\ DocSound(s, d)
      /\ \A z \in T!Rounds(s) : z.id = r.round => z = x
  BY FocusIs DEF WorkSound, Resting
<1>2. y.id = x.id /\ y.phase = x.phase
  BY DEF Marked2
<1>3. Clear(s, L)
  BY FewerClear DEF WorkMarks
<1>4. DOMAIN u = {"active", "recent", "receipts"}
  BY <1>1, Shapes DEF DocSound
<1>5. Clear(u, L) /\ \A z \in T!Rounds(u) : z.id = r.round => z = y
  <2>1. Clear(u, L)
    BY <1>1, <1>3, PutClear
  <2>2. \A z \in T!Rounds(u) : z.id = r.round => z = y
    BY <1>1, <1>2, PutIs
  <2> QED BY <2>1, <2>2
<1>6. NotPlaying(s) => NotPlaying(u)
  <2>1. u.active = s.active \/ (s.active # None /\ s.active.id = x.id /\ u.active = y)
    BY <1>1, <1>2 DEF T!Put, DocSound
  <2>2. s.active # None /\ s.active.id = x.id => s.active = x
    BY <1>1, RoundsAreRounds
  <2> QED BY <1>2, <2>1, <2>2 DEF NotPlaying
<1> HIDE DEF u
<1>7. T!Rounds(t) = T!Rounds(u) /\ t.active = u.active
  BY <1>4, OtherWrites DEF u
<1>8. Clear(t, L) /\ (NotPlaying(s) => NotPlaying(t))
  BY <1>5, <1>6, <1>7 DEF Clear, NotPlaying
<1>9. \A z \in T!Rounds(t) : z.id = r.round =>
          z.phase \in Over \/ \E v \in T!Rounds(s) : v.id = r.round /\ v.phase = z.phase
  BY <1>1, <1>2, <1>5, <1>7
<1>10. r.stage = "command" => NotPlaying(t)
  BY <1>8 DEF WorkMarks
<1> HIDE DEF x
<1> QED BY <1>8, <1>9, <1>10, SteppedMarks

(* An exception.                                                              *)
LEMMA RaisedMarks ==
  ASSUME NEW d, NEW K, NEW r, WorkSound(r, d, K), WorkMarks(r, K), NEW short
  PROVE  T!Raised(r, short) = None \/ WorkMarks(T!Raised(r, short), K)
<1> DEFINE n == T!Raised(r, short)
<1>1. CASE ~T!Undoes(r, short)
  BY <1>1 DEF T!Raised
<1>2. CASE T!Undoes(r, short)
  <2>1. r.undo # None
    BY <1>2 DEF T!Undoes
  <2>2. /\ n.stage = "answer" /\ n.state = r.undo.state /\ n.base = r.base
        /\ n.plan = <<"save">> /\ n.undo = None
    BY <1>2 DEF T!Raised, WorkSound, Resting, RequestFields
  <2> HIDE DEF n
  <2>3. Late(n.plan, n.state, n.round)
    BY <2>2, SaveLate
  <2>4. WorkMarks(n, K)
    BY <2>1, <2>2, <2>3 DEF WorkMarks
  <2> QED BY <2>4 DEF n
<1> QED BY <1>1, <1>2

(* What is published: the document with the round as it was, *)
LEMMA SavedMarks ==
  ASSUME NEW d, NEW K, NEW r, WorkSound(r, d, K), WorkMarks(r, K)
  PROVE  /\ WorkMarks(Republished([r EXCEPT !.plan = Tail(@)]), K)
         /\ Clear([r EXCEPT !.plan = Tail(@)].state, K)
<1> DEFINE n == [r EXCEPT !.plan = Tail(@)]
           m == Republished(n)
<1>1. DOMAIN r = RequestFields
  BY DEF WorkSound, Resting
<1>2. n.state = r.state /\ Stepped(r, m, r.state)
  BY <1>1 DEF Stepped, Republished, RequestFields
<1>3. K \subseteq K
  OBVIOUS
<1> HIDE DEF m, n
<1>4. WorkMarks(m, K)
  BY <1>2, <1>3, SteppedMarks DEF WorkMarks
<1> QED BY <1>2, <1>4 DEF WorkMarks, m, n

(* with an attempt noted, or cards held,                                      *)
LEMMA NotedMarks ==
  ASSUME T!NoneAssumption, NEW d, NEW K, NEW r, WorkSound(r, d, K), WorkMarks(r, K),
         Head(r.plan) # "save", NEW y, Marked2(T!Focus(r), y), Backed(y, K),
         NEW t, t = T!Put(r.state, y) \/ \E a, stage, z : t = T!Remember(T!Put(r.state, y), a, stage, z)
  PROVE  /\ WorkMarks(Republished([r EXCEPT !.state = t, !.plan = Tail(@)]), K)
         /\ Clear([r EXCEPT !.state = t, !.plan = Tail(@)].state, K)
<1> DEFINE n == [r EXCEPT !.state = t, !.plan = Tail(@)]
           m == Republished(n)
<1>1. DOMAIN r = RequestFields
  BY DEF WorkSound, Resting
<1>2. n.state = t /\ m.state = t /\ Stepped(r, m, t)
  BY <1>1 DEF Stepped, Republished, RequestFields
<1>3. K \subseteq K
  OBVIOUS
<1> HIDE DEF m, n
<1>4. WorkMarks(m, K)
  BY <1>2, <1>3, PutStep
<1> QED BY <1>2, <1>4 DEF WorkMarks, m, n

(* or with the round played out.                                              *)
LEMMA PlayedBacked ==
  ASSUME T!NoneAssumption, table \in T!AllTables, NEW d, NEW K, NEW r, WorkSound(r, d, K),
         WorkMarks(r, K), Head(r.plan) = "settle"
  PROVE  Backed(T!Played(r, T!Focus(r)), K)
<1> DEFINE x == T!Focus(r)
           y == T!Played(r, x)
<1>1. /\ x \in T!Rounds(r.state) /\ x \in T!Round /\ r.state.active # None /\ x = r.state.active
      /\ DocSound(r.state, d)
  BY FocusIs DEF WorkSound, Resting
<1>2. Backed(x, K) /\ x.phase \notin Over
  BY <1>1 DEF WorkMarks, Clear, DocSound
<1>3. Early(x)
  BY <1>2 DEF Backed
<1> HIDE DEF x
<1>4. CASE table = "mississippi_stud"
  <2> DEFINE z == [x EXCEPT !.bets = Append(@, x.pending), !.pending = None, !.play = "not_ready"]
  <2>0. table \notin Raising /\ table \notin {"acey_deucey", "deuces_wild", "caribbean_stud"}
    BY <1>4 DEF Raising
  <2>1. Append(x.bets, x.pending) \in Seq(Nat \cup {None})
    BY <1>1, AppendProperties DEF T!Round
  <2>2. /\ z \in T!Round /\ z.id = x.id /\ z.start = x.start /\ z.opening = x.opening
        /\ z.play = "not_ready" /\ z.settlement = x.settlement
    BY <1>1, <2>1 DEF T!Round, T!Marks
  <2>3. y = IF Len(z.bets) = Streets THEN T!Settled(z, None, "play") ELSE z
    BY <1>4 DEF T!Played, T!AdvanceAfterBet
  <2> HIDE DEF z
  <2>4. T!Keys(z).opening = T!Keys(x).opening
    BY <2>0, <2>2, SameOpening
  <2>5. Backed(z, K)
    BY <1>2, <1>3, <2>0, <2>2, <2>4 DEF Backed, Early
  <2>6. Backed(T!Settled(z, None, "play"), K)
    BY <2>0, <2>2, <2>5, SettledBacked
  <2> HIDE DEF y
  <2>7. Backed(y, K)
    BY <2>3, <2>5, <2>6
  <2> QED BY <2>7 DEF y, x
<1>5. CASE table = "deuces_wild"
  <2>1. table \notin Raising \cup {"caribbean_stud", "acey_deucey"}
    BY <1>5 DEF Raising
  <2>2. Backed(T!Settled(x, r.request.action, "play"), K)
    BY <1>1, <1>2, <2>1, SettledBacked
  <2> QED BY <1>5, <2>2 DEF T!Played, x
<1>6. CASE table \notin {"mississippi_stud", "deuces_wild"}
  <2>1. Backed(T!Settled(x, x.action, "play"), K)
    BY <1>1, <1>2, SettledBacked
  <2> QED BY <1>6, <2>1 DEF T!Played, x
<1> QED BY <1>4, <1>5, <1>6

(* A round is played out when its raise has been taken.                       *)
LEMMA PlayOutMarks ==
  ASSUME T!NoneAssumption, table \in T!AllTables, NEW d, NEW K, NEW r, WorkSound(r, d, K),
         WorkMarks(r, K), Head(r.plan) = "settle"
  PROVE  WorkMarks(Republished(T!PlayOut(r)), K) /\ Clear(T!PlayOut(r).state, K)
<1> DEFINE x == T!Focus(r)
           y == T!Played(r, x)
           s == r.state
           u == IF y.phase = "settled" THEN T!ArchiveRound(s, y) ELSE T!Put(s, y)
           t == IF table = "deuces_wild" THEN T!Remember(u, r.request.action, "decision", y) ELSE u
           p == IF y.phase # "settled" THEN Tail(r.plan)
                ELSE Tail(r.plan) \o T!Pay
           n == T!PlayOut(r)
           m == Republished(n)
<1>1. /\ x = s.active /\ s.active # None /\ x \in T!Rounds(s) /\ x.id = r.round
      /\ y.id = x.id /\ (y.phase = "settled" \/ y.phase = x.phase)
  BY FocusIs, PlayedIs
<1>2. /\ DOMAIN r = RequestFields /\ DocSound(s, d) /\ PlanFits(r.plan, s, r.round)
      /\ Head(r.plan) = r.plan[1] /\ Len(r.plan) \in Nat \ {0}
  BY FocusIs DEF WorkSound, Resting
<1>3. Tail(r.plan) = <<>>
  <2>1. 1 \in 1..Len(r.plan) /\ r.plan[1] = "settle"
    BY <1>2
  <2>2. Len(r.plan) = 1
    BY <1>2, <2>1 DEF PlanFits
  <2>3. Tail(r.plan) \in Seq(Steps) /\ Len(Tail(r.plan)) = 0
    BY <2>2, <1>2, HeadTailProperties, EmptySeq DEF PlanFits
  <2> QED BY <2>3, EmptySeq
<1>4. Backed(y, K) /\ Clear(s, K)
  BY PlayedBacked DEF WorkMarks
<1>5. /\ n.state = t /\ m.state = t /\ m.base = t /\ m.plan = p /\ m.round = r.round
      /\ m.undo = r.undo /\ m.stage = r.stage
  BY <1>2 DEF T!PlayOut, Republished, RequestFields
<1> HIDE DEF m, n, y
<1>6. /\ Clear(u, K) /\ DOMAIN u = {"active", "recent", "receipts"}
      /\ \A z \in T!Rounds(u) : z.id = y.id => z = y
      /\ table \in Raising /\ y.phase = "settled" => u.active = None
  <2>1. CASE y.phase = "settled"
    <3>1. Clear(u, K) /\ \A z \in T!Rounds(u) : z.id = y.id => z = y
      BY <1>2, <1>4, <2>1, PutClear, ArchivedIs
    <3>2. DOMAIN u = {"active", "recent", "receipts"}
      BY <1>2, <2>1, Shapes DEF DocSound
    <3>3. u.active = None
      BY <1>1, <1>2, <2>1 DEF T!ArchiveRound, DocSound
    <3> QED BY <3>1, <3>2, <3>3
  <2>2. CASE y.phase # "settled"
    <3>1. Clear(u, K) /\ \A z \in T!Rounds(u) : z.id = y.id => z = y
      BY <1>2, <1>4, <2>2, PutClear, PutIs
    <3>2. DOMAIN u = {"active", "recent", "receipts"}
      BY <1>2, <2>2, Shapes DEF DocSound
    <3> QED BY <3>1, <3>2, <2>2
  <2> QED BY <2>1, <2>2
<1> HIDE DEF u
<1>7. T!Rounds(t) = T!Rounds(u) /\ t.active = u.active
  BY <1>6, OtherWrites
<1>8. Clear(t, K) /\ \A z \in T!Rounds(t) : z.id = r.round => z = y
  BY <1>1, <1>6, <1>7 DEF Clear
<1>9. table \in Raising => y.phase = "settled"
  <2>1. \A a : T!Settled(x, a, "play").phase = "settled"
    BY FocusIs, SettledFields
  <2> QED BY <2>1 DEF Raising, y, T!Played
<1>10. NotPlaying(t)
  BY <1>6, <1>7, <1>9 DEF NotPlaying
<1> HIDE DEF t
<1>11. Late(p, t, r.round)
  <2>1. CASE y.phase = "settled"
    BY <1>8, <2>1, OverLate DEF Over
  <2>2. CASE y.phase # "settled"
    <3>1. p = <<>>
      BY <1>3, <2>2
    <3>2. Late(<<>>, t, r.round)
      BY DEF Late
    <3> HIDE DEF p
    <3> QED BY <3>1, <3>2
  <2> QED BY <2>1, <2>2
<1> HIDE DEF p
<1>12. r.undo # None => Clear(r.undo.state, K)
  BY DEF WorkMarks
<1>13. WorkMarks(m, K)
  BY <1>5, <1>8, <1>10, <1>11, <1>12 DEF WorkMarks
<1> QED BY <1>5, <1>8, <1>13 DEF m, n

(* All of them.                                                               *)
LEMMA PublishedMarks ==
  ASSUME T!NoneAssumption, table \in T!AllTables, NEW d, NEW K, NEW r, WorkSound(r, d, K),
         WorkMarks(r, K), NEW n \in T!Prepared(r)
  PROVE  WorkMarks(Republished(n), K) /\ Clear(n.state, K)
<1> DEFINE step == Head(r.plan)
           x == T!Focus(r)
<1>1. CASE step = "save"
  BY <1>1, SavedMarks DEF T!Prepared
<1>2. CASE step = "settle"
  BY <1>2, PlayOutMarks DEF T!Prepared
<1>3. ASSUME step # "save" PROVE x \in T!Round /\ Backed(x, K)
  BY <1>3, FocusIs DEF WorkMarks, Clear
<1>4. CASE step \in {"attemptOpening", "attemptPlay", "attemptPay"}
  <2>1. PICK stage \in {"opening", "play", "pay"} : n = T!Attempt(r, stage)
    BY <1>4 DEF T!Prepared
  <2> DEFINE y == [x EXCEPT !.attempt = stage]
             t == T!Put(r.state, y)
  <2>2. Marked2(x, y) /\ Backed(y, K)
    BY <1>3, <1>4, Marking, BackedMarks
  <2> HIDE DEF y
  <2>3. /\ WorkMarks(Republished([r EXCEPT !.state = t, !.plan = Tail(@)]), K)
        /\ Clear([r EXCEPT !.state = t, !.plan = Tail(@)].state, K)
    BY <1>4, <2>2, NotedMarks
  <2>4. DOMAIN r = RequestFields
    BY DEF WorkSound, Resting
  <2>5. n = [r EXCEPT !.state = t, !.plan = Tail(@)]
    BY <2>1, <2>4 DEF RequestFields, T!Attempt, y
  <2> QED BY <2>3, <2>5
<1>5. CASE step = "hold"
  <2> DEFINE y == [x EXCEPT !.holds = TRUE]
             t == T!Remember(T!Put(r.state, y), r.request.action, "hold", x)
  <2>1. n = [r EXCEPT !.state = t, !.plan = Tail(@)]
    <3>1. n = [r EXCEPT !.state = T!Remember(T!Hold(@, x), r.request.action, "hold", x), !.plan = Tail(@)]
      BY <1>5 DEF T!Prepared
    <3> QED BY <3>1 DEF T!Hold
  <2>2. Marked2(x, y) /\ Backed(y, K)
    BY <1>3, <1>5, Marking, BackedMarks
  <2> HIDE DEF y
  <2>3. /\ WorkMarks(Republished([r EXCEPT !.state = t, !.plan = Tail(@)]), K)
        /\ Clear([r EXCEPT !.state = t, !.plan = Tail(@)].state, K)
    BY <1>5, <2>2, NotedMarks
  <2> QED BY <2>1, <2>3
<1>6. CASE step \notin {"save", "settle", "attemptOpening", "attemptPlay", "attemptPay", "hold"}
  BY <1>6 DEF T!Prepared
<1> QED BY <1>1, <1>2, <1>4, <1>5, <1>6

(* A movement that is in the ledger is marked in the request's copy.          *)
LEMMA MovedMarks ==
  ASSUME T!NoneAssumption, NEW d, NEW K, NEW L, K \subseteq L, NEW r, WorkSound(r, d, K),
         WorkMarks(r, K), NEW part \in {"opening", "play", "pay"}, part = Head(r.plan),
         (part = "pay" => T!Pays(T!Focus(r))) => T!Keys(T!Focus(r))[part] \in L
  PROVE  WorkMarks(T!Marked(r, part), L)
<1> DEFINE x == T!Focus(r)
           v == CASE part = "opening" -> [x EXCEPT !.opening = "complete"]
                  [] part = "play" -> [x EXCEPT !.play = "complete"]
                  [] part = "pay" -> [x EXCEPT !.settlement = "complete"]
           y == [v EXCEPT !.attempt = None]
           t == T!Put(r.state, y)
           n == T!Marked(r, part)
<1>1. /\ x \in T!Rounds(r.state) /\ x \in T!Round /\ x.id = r.round
      /\ Head(r.plan) = r.plan[1] /\ Len(r.plan) \in Nat \ {0}
  BY FocusIs
<1>2. Backed(x, L)
  <2>1. Clear(r.state, L)
    BY FewerClear DEF WorkMarks
  <2> QED BY <1>1, <2>1 DEF Clear
<1>3. May(part, x)
  <2>1. 1 \in 1..Len(r.plan) /\ r.plan[1] = part
    BY <1>1
  <2> QED BY <1>1, <2>1 DEF WorkMarks, Late
<1>4. Marked2(x, v) /\ v \in T!Round
  <2>1. Marked2(x, v)
    BY <1>1, Marking
  <2> QED BY <2>1 DEF Marked2
<1>5. Backed(v, L)
  <2>1. CASE part = "opening"
    BY <1>1, <1>2, <1>3, <2>1, BackedMarks
  <2>2. CASE part = "play"
    BY <1>1, <1>2, <1>3, <2>2, BackedMarks
  <2>3. CASE part = "pay"
    BY <1>1, <1>2, <1>3, <2>3, BackedMarks
  <2> QED BY <2>1, <2>2, <2>3
<1> HIDE DEF v
<1>6. Marked2(v, y) /\ Backed(y, L)
  BY <1>4, <1>5, Marking, BackedMarks
<1> HIDE DEF y
<1>7. Marked2(x, y)
  BY <1>4, <1>6, MarkedTwice
<1> HIDE DEF t
<1>8. Stepped(r, n, t)
  BY DEF Stepped, T!Marked, WorkSound, Resting, RequestFields, t, y, v
<1> HIDE DEF n
<1>9. WorkMarks(n, L)
  BY <1>2, <1>6, <1>7, <1>8, PutStep DEF t
<1> QED BY <1>9 DEF n

-----------------------------------------------------------------------------
(* The actions                                                               *)

(* What every step of worker w keeps.                                         *)
StepMarks(w) ==
    /\ Clear(doc', DOMAIN rows')
    /\ \E n : work' = [work EXCEPT ![w] = n] /\ (n = None \/ WorkMarks(n, DOMAIN rows'))

(* A request loads the document.                                              *)
LEMMA LoadMarks ==
  ASSUME T!NoneAssumption, T!TableBounds, TableInv, MarksInv, NEW w \in Workers, NEW q, Asked(q),
         T!Load(w, q)
  PROVE  StepMarks(w)
<1> DEFINE r == T!NewRequest(q)
           K == DOMAIN rows
<1>1. PICK m \in T!Continue(r) : work' = [work EXCEPT ![w] = m]
  BY DEF T!Load, T!GoOn
<1>2. doc' = doc /\ rows' = rows
  BY DEF T!Load
<1>3. DocSound(doc, deals) /\ deals \in Nat /\ table \in T!AllTables /\ Clear(doc, K)
  BY DEF TableInv, T!TableBounds, MarksInv
<1>4. /\ DOMAIN r = RequestFields /\ r.request = q /\ r.stage \in {"repair", "command"}
      /\ r.state = doc /\ r.base = doc /\ r.plan = <<>> /\ r.undo = None
      /\ r.stage = "command" => table \notin Raising
  BY DEF T!NewRequest, RequestFields, T!Repairs, Raising
<1> HIDE DEF r
<1>5. Keeps(doc, doc) /\ PlanFits(r.plan, r.state, r.round) /\ Late(r.plan, r.state, r.round)
  BY <1>3, <1>4, KeepsItself DEF PlanFits, Late
<1>6. Resting(r, deals, K)
  BY <1>3, <1>4, <1>5 DEF Resting
<1>7. WorkMarks(r, K)
  BY <1>3, <1>4, <1>5 DEF WorkMarks, NotPlaying
<1>8. m = None \/ WorkMarks(m, K)
  BY <1>3, <1>4, <1>6, <1>7, ContinueMarks
<1> QED BY <1>1, <1>2, <1>3, <1>8 DEF StepMarks

(* Requests of the three kinds.                                               *)
LEMMA RequestsMarks ==
  ASSUME T!NoneAssumption, T!TableBounds, TableInv, MarksInv, NEW w \in Workers,
         T!Look(w) \/ T!Ask(w) \/ T!Arrange(w)
  PROVE  StepMarks(w)
<1>1. CASE T!Look(w)
  <2>1. Asked(T!Request("state", None, None, None))
    BY DEF Asked, T!Request
  <2> QED BY <1>1, <2>1, LoadMarks DEF T!Look
<1>2. CASE T!Ask(w)
  <2>1. PICK a \in {b \in T!Actions : b <= issued + 1} :
          \/ T!Load(w, T!Request("start", a, None, None))
          \/ /\ ~T!OneShot
             /\ \E x \in T!Rounds(doc), c \in T!DecisionChoices : T!Load(w, T!Request("decide", a, x.id, c))
          \/ /\ table = "deuces_wild"
             /\ \E x \in T!Rounds(doc) : T!Load(w, T!Request("hold", a, x.id, None))
    BY <1>2 DEF T!Ask
  <2>2. a \in Nat
    BY DEF T!Actions
  <2>3. CASE T!Load(w, T!Request("start", a, None, None))
    <3>1. Asked(T!Request("start", a, None, None))
      BY <2>2 DEF Asked, T!Request
    <3> QED BY <2>3, <3>1, LoadMarks
  <2>4. ASSUME ~T!OneShot, NEW x \in T!Rounds(doc), NEW c \in T!DecisionChoices,
               T!Load(w, T!Request("decide", a, x.id, c))
        PROVE  StepMarks(w)
    <3>1. Asked(T!Request("decide", a, x.id, c))
      BY <2>2, <2>4 DEF Asked, T!Request, T!DecisionChoices
    <3> QED BY <2>4, <3>1, LoadMarks
  <2>5. ASSUME table = "deuces_wild", NEW x \in T!Rounds(doc), T!Load(w, T!Request("hold", a, x.id, None))
        PROVE  StepMarks(w)
    <3>1. Asked(T!Request("hold", a, x.id, None))
      BY <2>2, <2>5 DEF Asked, T!Request
    <3> QED BY <2>5, <3>1, LoadMarks
  <2> QED BY <2>1, <2>3, <2>4, <2>5
<1>3. CASE T!Arrange(w)
  <2>1. PICK x \in T!Rounds(doc) : T!Load(w, T!Request("hold", None, x.id, None))
    BY <1>3 DEF T!Arrange
  <2>2. Asked(T!Request("hold", None, x.id, None))
    BY <1>3 DEF Asked, T!Request, T!Arrange
  <2> QED BY <2>1, <2>2, LoadMarks
<1> QED BY <1>1, <1>2, <1>3

(* A worker goes on, and the document stays.                                  *)
LEMMA StaysMarks ==
  ASSUME MarksInv, NEW w \in Workers, NEW n, work' = [work EXCEPT ![w] = n],
         n = None \/ WorkMarks(n, DOMAIN rows'), DOMAIN rows \subseteq DOMAIN rows', doc' = doc
  PROVE  StepMarks(w)
<1>1. Clear(doc, DOMAIN rows')
  BY FewerClear DEF MarksInv
<1> QED BY <1>1 DEF StepMarks

(* A call that fails.                                                         *)
LEMMA FailedMarks ==
  ASSUME TableInv, MarksInv, NEW w \in Workers, work[w] # None, NEW short,
         T!GoOn(w, T!Raised(work[w], short)), rows' = rows, doc' = doc
  PROVE  StepMarks(w)
<1>1. WorkSound(work[w], deals, DOMAIN rows) /\ WorkMarks(work[w], DOMAIN rows)
  BY DEF TableInv, MarksInv
<1>2. T!Raised(work[w], short) = None \/ WorkMarks(T!Raised(work[w], short), DOMAIN rows)
  BY <1>1, RaisedMarks
<1>3. /\ work' = [work EXCEPT ![w] = T!Raised(work[w], short)] /\ DOMAIN rows \subseteq DOMAIN rows'
      /\ T!Raised(work[w], short) = None \/ WorkMarks(T!Raised(work[w], short), DOMAIN rows')
  BY <1>2 DEF T!GoOn
<1> QED BY <1>3, StaysMarks

(* A publication, accepted or refused.                                        *)
LEMMA SaveMarks ==
  ASSUME T!NoneAssumption, T!TableBounds, TableInv, MarksInv, NEW w \in Workers, T!Save(w)
  PROVE  StepMarks(w)
<1> DEFINE r == work[w]
           K == DOMAIN rows
<1>1. r # None /\ rows' = rows
  BY DEF T!Save
<1>2. CASE \E n \in T!Prepared(r) : T!Accept(w, r, n)
  <2>1. PICK n \in T!Prepared(r) : T!Accept(w, r, n)
    BY <1>2
  <2> DEFINE m0 == Republished(n)
  <2>2. WorkSound(r, deals, K) /\ WorkMarks(r, K) /\ deals \in Nat /\ table \in T!AllTables
    BY <1>1 DEF TableInv, MarksInv, T!TableBounds
  <2>3. Resting(m0, deals, K) /\ m0.base = n.state /\ m0.state = n.state
    BY <2>2, PreparedSound DEF Prepares
  <2>4. WorkMarks(m0, K) /\ Clear(n.state, K)
    BY <2>2, PublishedMarks
  <2>5. doc' = n.state
    BY <2>1 DEF T!Accept
  <2>6. CASE \E m \in T!Continue(m0) : T!GoOn(w, m)
    <3>1. PICK m \in T!Continue(m0) : work' = [work EXCEPT ![w] = m]
      BY <2>6 DEF T!GoOn
    <3> HIDE DEF m0
    <3>2. m = None \/ WorkMarks(m, K)
      BY <2>2, <2>3, <2>4, ContinueMarks
    <3> QED BY <1>1, <2>4, <2>5, <3>1, <3>2 DEF StepMarks
  <2>7. CASE T!GoOn(w, T!Raised(r, FALSE))
    <3>1. T!Raised(r, FALSE) = None \/ WorkMarks(T!Raised(r, FALSE), K)
      BY <2>2, RaisedMarks
    <3> QED BY <1>1, <2>4, <2>5, <2>7, <3>1 DEF StepMarks, T!GoOn
  <2> QED BY <2>1, <2>6, <2>7 DEF T!Accept, Republished
<1>3. CASE T!GoOn(w, T!Raised(r, FALSE)) /\ doc' = doc
  BY <1>1, <1>3, FailedMarks
<1> QED BY <1>2, <1>3 DEF T!Save, T!Refuse

(* A movement, made, found made already, or refused for want of money.        *)
LEMMA MoveMarks ==
  ASSUME T!NoneAssumption, TableInv, MarksInv, NEW w \in Workers, T!Move(w)
  PROVE  StepMarks(w)
<1> DEFINE r == work[w]
           part == Head(r.plan)
           k == T!Keys(T!Focus(r))[part]
           due == T!Outstanding(r, part)
<1>1. r # None /\ part \in {"opening", "play", "pay"} /\ doc' = doc
  BY DEF T!Move
<1>2. WorkSound(r, deals, DOMAIN rows) /\ WorkMarks(r, DOMAIN rows)
  BY <1>1 DEF TableInv, MarksInv
<1>3. CASE ~due /\ T!GoOn(w, T!Marked(r, part)) /\ rows' = rows
  <2>1. (part = "pay" => T!Pays(T!Focus(r))) => k \in DOMAIN rows
    BY <1>3 DEF T!Outstanding
  <2>2. DOMAIN rows \subseteq DOMAIN rows
    OBVIOUS
  <2>3. WorkMarks(T!Marked(r, part), DOMAIN rows)
    BY <1>1, <1>2, <2>1, <2>2, MovedMarks
  <2>4. WorkMarks(T!Marked(r, part), DOMAIN rows') /\ DOMAIN rows \subseteq DOMAIN rows'
        /\ work' = [work EXCEPT ![w] = T!Marked(r, part)]
    BY <1>3, <2>3 DEF T!GoOn
  <2> QED BY <1>1, <2>4, StaysMarks
<1>4. CASE T!GoOn(w, T!Raised(r, TRUE)) /\ rows' = rows
  BY <1>1, <1>4, FailedMarks
<1>5. CASE /\ rows' = [j \in DOMAIN rows \cup {k} |->
                         (IF j \in DOMAIN rows THEN rows[j] ELSE 0) + IF j = k THEN 1 ELSE 0]
           /\ T!GoOn(w, T!Marked(r, part)) \/ T!GoOn(w, None)
  <2>1. DOMAIN rows \subseteq DOMAIN rows' /\ k \in DOMAIN rows'
    BY <1>5
  <2>2. WorkMarks(T!Marked(r, part), DOMAIN rows')
    BY <1>1, <1>2, <2>1, MovedMarks
  <2>3. PICK n \in {T!Marked(r, part), None} : work' = [work EXCEPT ![w] = n]
    BY <1>5 DEF T!GoOn
  <2>4. n = None \/ WorkMarks(n, DOMAIN rows')
    BY <2>2
  <2> QED BY <1>1, <2>1, <2>3, <2>4, StaysMarks
<1> QED BY <1>3, <1>4, <1>5 DEF T!Move

(* A failure, or the death of a worker.                                       *)
LEMMA FailMarks ==
  ASSUME TableInv, MarksInv, NEW w \in Workers, T!Fail(w)
  PROVE  StepMarks(w)
<1>1. work[w] # None /\ rows' = rows /\ doc' = doc
  BY DEF T!Fail
<1>2. CASE T!GoOn(w, T!Raised(work[w], FALSE))
  BY <1>1, <1>2, FailedMarks
<1>3. CASE T!GoOn(w, None)
  <2>1. work' = [work EXCEPT ![w] = None] /\ DOMAIN rows \subseteq DOMAIN rows'
    BY <1>1, <1>3 DEF T!GoOn
  <2> QED BY <1>1, <2>1, StaysMarks
<1> QED BY <1>2, <1>3 DEF T!Fail

(* The table is the same before and after a step.                             *)
LEMMA SameMarks ==
  ASSUME table' = table
  PROVE  /\ \A s, K : Clear(s, K)' <=> Clear(s, K)
         /\ \A r, K : WorkMarks(r, K)' <=> WorkMarks(r, K)
<1>1. \A x : T!Keys(x)' = T!Keys(x)
  BY DEF T!Keys
<1>2. \A x : (T!Pays(x)' <=> T!Pays(x)) /\ (Early(x)' <=> Early(x))
  BY DEF T!Pays, Early, T!OneShot
<1>3. \A x, K : Backed(x, K)' <=> Backed(x, K)
  BY <1>1, <1>2 DEF Backed
<1>4. \A s, K : Clear(s, K)' <=> Clear(s, K)
  BY <1>3 DEF Clear
<1>5. \A p, s, id : Late(p, s, id)' <=> Late(p, s, id)
  BY DEF Late, May
<1>6. \A s : NotPlaying(s)' <=> NotPlaying(s)
  BY DEF NotPlaying
<1> QED BY <1>4, <1>5, <1>6 DEF WorkMarks

(* Every step keeps the marks backed.                                         *)
LEMMA NextMarks ==
  ASSUME T!NoneAssumption, T!TableBounds, TableInv, MarksInv, T!Next
  PROVE  MarksInv'
<1>1. PICK w \in Workers : T!Look(w) \/ T!Ask(w) \/ T!Arrange(w) \/ T!Save(w) \/ T!Move(w) \/ T!Fail(w)
  BY DEF T!Next, T!Step
<1>2. StepMarks(w)
  BY <1>1, RequestsMarks, SaveMarks, MoveMarks, FailMarks
<1>3. table' = table /\ DOMAIN rows \subseteq DOMAIN rows'
  <2>1. PICK v \in Workers : StepSound(v)
    BY NextSound
  <2> QED BY <2>1 DEF StepSound
<1>4. PICK n : work' = [work EXCEPT ![w] = n] /\ (n = None \/ WorkMarks(n, DOMAIN rows'))
  BY <1>2 DEF StepMarks
<1>5. DOMAIN work = Workers
  BY DEF TableInv
<1>6. \A v \in Workers : work'[v] = None \/ WorkMarks(work'[v], DOMAIN rows')
  <2> SUFFICES ASSUME NEW v \in Workers
               PROVE  work'[v] = None \/ WorkMarks(work'[v], DOMAIN rows')
    OBVIOUS
  <2>1. CASE v = w
    BY <1>4, <1>5, <2>1
  <2>2. CASE v # w
    <3>1. work'[v] = work[v] /\ (work[v] = None \/ WorkMarks(work[v], DOMAIN rows))
      BY <1>4, <1>5, <2>2 DEF MarksInv
    <3> QED BY <3>1, <1>3, LaterMarks
  <2> QED BY <2>1, <2>2
<1>7. Clear(doc', DOMAIN rows')
  BY <1>2 DEF StepMarks
<1> QED BY <1>3, <1>6, <1>7, SameMarks DEF MarksInv

(* What a document marks as taken or paid is in the ledger, at every table,   *)
(* for any number of workers, of rounds and of failures.                      *)
THEOREM MarksMatchLedger ==
  ASSUME T!NoneAssumption, T!TableBounds PROVE T!Spec => []T!MarksAreBacked
<1>1. T!Init => MarksInv
  <2>1. T!Init => T!Rounds(doc) = {}
    BY DEF T!Init, T!Rounds
  <2> QED BY <2>1 DEF T!Init, MarksInv, Clear
<1>2. TableInv /\ MarksInv /\ [T!Next]_T!vars => MarksInv'
  <2>1. CASE T!Next
    BY <2>1, NextMarks
  <2>2. CASE UNCHANGED T!vars
    <3> SUFFICES ASSUME MarksInv PROVE MarksInv'
      BY <2>2
    <3>1. table' = table /\ doc' = doc /\ rows' = rows /\ work' = work
      BY <2>2 DEF T!vars
    <3> QED BY <3>1, SameMarks DEF MarksInv
  <2> QED BY <2>1, <2>2
<1>3. MarksInv => T!MarksAreBacked
  BY DEF MarksInv, Clear, Backed, T!MarksAreBacked
<1>4. T!Spec => []TableInv
  BY TablesInductive
<1> QED BY <1>1, <1>2, <1>3, <1>4, PTL DEF T!Spec
=============================================================================
