-------------------------------- MODULE SimpleWager --------------------------------
(* One player's rounds of a wager-and-settle game: SimpleWagerGame.play of         *)
(* casino/core/simple_game.py over the keyed ledger of casino/core/settlement.py.  *)
(*                                                                                 *)
(* A round is named by its request.  It takes the stake and the fresh entropy      *)
(* under the round's wager key, pays the return under its settlement key, and      *)
(* publishes itself among the game's recent rounds.  Nothing but the keys ties     *)
(* these steps together: a worker can die between any two, and the client sends    *)
(* the request again, to any process.  The player lock is local to a process, so   *)
(* a worker here is a process and plays one round of the player at a time.         *)
(*                                                                                 *)
(* Entropy is abstracted to the multiple of the stake it pays.  Each ledger and    *)
(* each state update is one step: JsonLedger shows that a keyed movement is.  Games *)
(* that hook into the round (the lifecycle of Slots) are left out.                 *)
EXTENDS Integers, Sequences, FiniteSets, Functions

CONSTANTS Rounds,         \* request ids, each the name of one round
          Workers,        \* processes
          Stakes,         \* what a request may wager
          Multiples,      \* what entropy may pay, as a multiple of the stake
          Opening,        \* the wallet before the first round
          RecentLimit,    \* recent_round_limit of the game's state
          MaxCrashes,     \* bound on workers that die
          None            \* no event, no task

ASSUME WagerAssumption == /\ Stakes \subseteq Nat \ {0}
                          /\ Multiples \subseteq Nat
                          /\ Opening \in Nat
                          /\ RecentLimit \in Nat \ {0}
                          /\ MaxCrashes \in Nat

\* The committed wager of a round: its fingerprint (the stake) and its entropy.
Proof == [stake : Stakes, multiple : Multiples]

ASSUME NoneAssumption == None \notin Nat /\ None \notin Proof

Result == [round : Rounds, stake : Stakes, multiple : Multiples]

Steps == {"load", "wager", "settle", "publish"}

VARIABLES wallet,         \* the player's balance
          wagers,         \* the wager row of each round, with its proof
          settlements,    \* the settlement row of each round
          recent,         \* recent_rounds of the game's state, newest first
          play,           \* the round each worker is in, and its next step
          answers,        \* results told to clients
          crashes         \* workers that died so far

wagerVars == <<wallet, wagers, settlements, recent, play, answers, crashes>>

WagerInit == /\ wallet = Opening
             /\ wagers = [r \in Rounds |-> None]
             /\ settlements = [r \in Rounds |-> None]
             /\ recent = <<>>
             /\ play = [w \in Workers |-> None]
             /\ answers = {}
             /\ crashes = 0

\* The worker stands at the given step of its round.
At(w, step) == play[w] # None /\ play[w].step = step

Goto(w, step) == play' = [play EXCEPT ![w].step = step]
Leave(w) == play' = [play EXCEPT ![w] = None]

-----------------------------------------------------------------------------------

\* A request reaches the game: the client names the round and the stake.
Request(w) == \E r \in Rounds, s \in Stakes :
  /\ play[w] = None
  /\ play' = [play EXCEPT ![w] = [round |-> r, stake |-> s, step |-> "load", multiple |-> None]]
  /\ UNCHANGED <<wallet, wagers, settlements, recent, answers, crashes>>

\* _find_round
Published(r) == {i \in DOMAIN recent : recent[i].round = r}

Tell(result) == answers' = answers \union {result}

\* play, before the wager: a round still among the recent ones is answered from
\* there, or refused when its fingerprint differs.
Load(w) ==
  /\ At(w, "load")
  /\ \/ /\ Published(play[w].round) = {}
        /\ Goto(w, "wager")
        /\ UNCHANGED answers
     \/ \E i \in Published(play[w].round) :
          /\ Leave(w)
          /\ IF recent[i].stake = play[w].stake THEN Tell(recent[i]) ELSE UNCHANGED answers
  /\ UNCHANGED <<wallet, wagers, settlements, recent, crashes>>

CoversStake(stake) == wallet >= stake

\* apply_action_once proposes fresh entropy; under a committed key the provider
\* refuses the changed details, and find_action returns the committed event.
ProposedProof(r, proposed) == proposed
CommittedProof(r, proposed) == IF wagers[r] = None THEN proposed ELSE wagers[r]

\* Nothing is paid for a round that lost.
PublishAtOnce(multiple) == "publish"
AfterWager(multiple) == IF multiple = 0 THEN "publish" ELSE "settle"

\* The keyed debit of the stake.
Wager(w) == \E m \in Multiples :
  LET p == play[w]
      proof == CommittedProof(p.round, [stake |-> p.stake, multiple |-> m])
  IN  /\ At(w, "wager")
      /\ \/ /\ wagers[p.round] = None
            /\ CoversStake(p.stake)
            /\ wallet' = wallet - p.stake
            /\ wagers' = [wagers EXCEPT ![p.round] = proof]
         \/ /\ wagers[p.round] # None
            /\ wagers[p.round].stake = p.stake
            /\ UNCHANGED <<wallet, wagers>>
      /\ play' = [play EXCEPT ![w] = [p EXCEPT !.step = AfterWager(proof.multiple),
                                              !.multiple = proof.multiple]]
      /\ UNCHANGED <<settlements, recent, answers, crashes>>

\* The wallet is short of the stake, or the round was committed with another one.
WagerRefused(w) ==
  LET p == play[w]
  IN  /\ At(w, "wager")
      /\ IF wagers[p.round] = None THEN ~CoversStake(p.stake) ELSE wagers[p.round].stake # p.stake
      /\ Leave(w)
      /\ UNCHANGED <<wallet, wagers, settlements, recent, answers, crashes>>

NeverSettled(r) == FALSE
Settled(r) == settlements[r] # None

\* The keyed credit of the return.
Settle(w) ==
  LET p == play[w]
      return == p.stake * p.multiple
  IN  /\ At(w, "settle")
      /\ IF Settled(p.round)
           THEN UNCHANGED <<wallet, settlements>>
           ELSE /\ wallet' = wallet + return
                /\ settlements' = [settlements EXCEPT ![p.round] = return]
      /\ Goto(w, "publish")
      /\ UNCHANGED <<wagers, recent, answers, crashes>>

\* _publish_round in the state's update: a round already there must be this one,
\* a new one is put in front and the oldest falls out; then play answers.
Publish(w) ==
  LET p == play[w]
      result == [round |-> p.round, stake |-> p.stake, multiple |-> p.multiple]
      grown == <<result>> \o recent
  IN  /\ At(w, "publish")
      /\ IF Published(p.round) = {}
           THEN recent' = SubSeq(grown, 1, IF Len(grown) < RecentLimit THEN Len(grown)
                                                                     ELSE RecentLimit)
           ELSE UNCHANGED recent
      /\ IF \A i \in Published(p.round) : recent[i] = result THEN Tell(result)
                                                             ELSE UNCHANGED answers
      /\ Leave(w)
      /\ UNCHANGED <<wallet, wagers, settlements, crashes>>

\* The worker dies in the middle of the round.
DieInPlay(w) == /\ play[w] # None
                /\ crashes < MaxCrashes
                /\ crashes' = crashes + 1
                /\ Leave(w)
                /\ UNCHANGED <<wallet, wagers, settlements, recent, answers>>

PlayStep(w) == Load(w) \/ Wager(w) \/ WagerRefused(w) \/ Settle(w) \/ Publish(w)

-----------------------------------------------------------------------------------
(* Properties *)

WagerTypeOK == /\ wallet \in Nat
               /\ wagers \in [Rounds -> Proof \union {None}]
               /\ settlements \in [Rounds -> Nat \union {None}]
               /\ recent \in Seq(Result) /\ Len(recent) <= RecentLimit
               /\ play \in [Workers -> {None} \union
                     [round : Rounds, stake : Stakes, step : Steps,
                      multiple : Multiples \union {None}]]
               /\ answers \subseteq Result
               /\ crashes \in 0 .. MaxCrashes

\* Every answer under one request tells the same round, though each attempt draws
\* its own entropy: after a crash, in two processes at a time, and after the round
\* fell out of the recent ones.
\* (simple_game.py play, settlement.py apply_action_once)
OneOutcome == \A a, b \in answers : a.round = b.round => a = b

\* A round anyone can see was paid for and paid out as it says.
\* (simple_game.py play and _publish_round)
Paid(result) == /\ wagers[result.round] = [stake |-> result.stake, multiple |-> result.multiple]
                /\ result.multiple # 0 =>
                     settlements[result.round] = result.stake * result.multiple
PublishedIsPaid == /\ \A i \in DOMAIN recent : Paid(recent[i])
                   /\ \A a \in answers : Paid(a)

\* What the player's rounds took from the wallet and returned to it.
Committed == {r \in Rounds : wagers[r] # None}
Staked == SumFunction([r \in Committed |-> wagers[r].stake])
PaidOut == {r \in Committed : settlements[r] # None}
Returned == SumFunction([r \in PaidOut |-> wagers[r].stake * wagers[r].multiple])
===============================================================================
