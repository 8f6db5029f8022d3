-------------------------------- MODULE GuestTrial --------------------------------
(* The end of a guest's trial: casino/core/auth.py end_guest_trial and            *)
(* expire_overdue_guests, and casino/core/guest_conversion.py convert, while      *)
(* the guest's last requests are still being served (SimpleWager).                *)
(*                                                                                *)
(* Teardown and conversion are long: each step is a transaction on another        *)
(* document (users, sessions, autoplay, players, the ledger, analytics), other    *)
(* requests run between them, and the process can die there.  What ties them      *)
(* together is the guest's status in the users document.  A trial is torn down    *)
(* by its guest, or by expire_overdue_guests, which every new trial and every     *)
(* assisted conversion calls first and which retries a trial left in "ending".    *)
(*                                                                                *)
(* One guest and one account that may adopt its player; the terminal debit is     *)
(* keyed by the trial.  Left out: the wording of reasons, and a conversion to a   *)
(* second e-mail address, which is refused.                                       *)
EXTENDS SimpleWager

VARIABLES status,         \* status of the guest in the users document
          account,        \* an account owns the guest's player
          session,        \* the guest's session rows are there and active
          autoplay,       \* the player has a running autoplay session
          terminal,       \* amount of the GUEST_TRIAL_END row, None before it
          player,         \* status of the player
          analytics,      \* how the trial's analytics row ended
          task            \* the teardown or conversion each worker is in

guestVars == <<status, account, session, autoplay, terminal, player, analytics, task>>
vars == <<wagerVars, guestVars>>

TeardownSteps == {"claim", "balance", "sessions", "autoplay", "debit", "check", "player",
                  "analytics", "finalize"}
ConversionSteps == {"bind", "complete", "revoke", "close"}

Init == /\ WagerInit
        /\ status = "active"
        /\ account = FALSE
        /\ session = TRUE
        /\ autoplay = TRUE
        /\ terminal = None
        /\ player = "active"
        /\ analytics = "open"
        /\ task = [w \in Workers |-> None]

Free(w) == play[w] = None /\ task[w] = None
Doing(w, step) == task[w] # None /\ task[w].step = step
Proceed(w, step) == task' = [task EXCEPT ![w].step = step]
Stop(w) == task' = [task EXCEPT ![w] = None]
Begin(w, step) == task' = [task EXCEPT ![w] = [step |-> step, balance |-> None]]

-----------------------------------------------------------------------------------
(* Rounds, while somebody may play: the router authenticates and counts the       *)
(* request before it reaches the game, and asks no more.                          *)

AcceptRequest(w) == /\ Free(w)
                    /\ account \/ (session /\ status = "active")
                    /\ Request(w)
                    /\ UNCHANGED guestVars

InPlay(w) == PlayStep(w) /\ UNCHANGED guestVars

-----------------------------------------------------------------------------------
(* Teardown *)

\* end_guest_trial is called: by the guest, by an expired request, or by
\* expire_overdue_guests, whose list of overdue guests may be old.
StartTeardown(w) == /\ Free(w)
                    /\ Begin(w, "claim")
                    /\ UNCHANGED <<wagerVars, status, account, session, autoplay, terminal,
                                   player, analytics>>

MayClaimOnce == status = "active" /\ ~account
MayClaim == status \in {"active", "ending"} /\ ~account

\* _claim_guest_teardown
Claim(w) == /\ Doing(w, "claim")
            /\ IF MayClaim
                 THEN status' = "ending" /\ Proceed(w, "balance")
                 ELSE UNCHANGED status /\ Stop(w)
            /\ UNCHANGED <<wagerVars, account, session, autoplay, terminal, player, analytics>>

\* The balance is read before the sessions end; a failed read leaves it unknown.
ReadBalance(w) == \E b \in {wallet, None} :
  /\ Doing(w, "balance")
  /\ b = None => crashes < MaxCrashes
  /\ crashes' = IF b = None THEN crashes + 1 ELSE crashes
  /\ task' = [task EXCEPT ![w] = [step |-> "sessions", balance |-> b]]
  /\ UNCHANGED <<wallet, wagers, settlements, recent, play, answers,
                 status, account, session, autoplay, terminal, player, analytics>>

DeleteSessions(w) == /\ Doing(w, "sessions")
                     /\ session' = FALSE
                     /\ Proceed(w, "autoplay")
                     /\ UNCHANGED <<wagerVars, status, account, autoplay, terminal, player,
                                    analytics>>

StopAutoplay(w) == /\ Doing(w, "autoplay")
                   /\ autoplay' = FALSE
                   /\ Proceed(w, "debit")
                   /\ UNCHANGED <<wagerVars, status, account, session, terminal, player,
                                  analytics>>

\* debit_once of the balance read above, under the trial's key.  The key refuses
\* another amount than the committed one, and the wallet may have shrunk.
Debit(w) ==
  LET b == task[w].balance
  IN  /\ Doing(w, "debit")
      /\ \/ /\ b \in {None, 0} \/ terminal = b
            /\ Proceed(w, "check")
            /\ UNCHANGED <<wallet, terminal>>
         \/ /\ b \notin {None, 0}
            /\ terminal = None
            /\ wallet >= b
            /\ wallet' = wallet - b
            /\ terminal' = b
            /\ Proceed(w, "check")
         \/ /\ b \notin {None, 0, terminal}
            /\ terminal = None => wallet < b
            /\ Stop(w)
            /\ UNCHANGED <<wallet, terminal>>
      /\ UNCHANGED <<wagers, settlements, recent, play, answers, crashes,
                     status, account, session, autoplay, player, analytics>>

\* A wallet that is not empty now "requires operator recovery".
Check(w) == /\ Doing(w, "check")
            /\ IF wallet = 0 THEN Proceed(w, "player") ELSE Stop(w)
            /\ UNCHANGED <<wagerVars, status, account, session, autoplay, terminal, player,
                           analytics>>

EndPlayer(w) == /\ Doing(w, "player")
                /\ player' = "ended"
                /\ Proceed(w, "analytics")
                /\ UNCHANGED <<wagerVars, status, account, session, autoplay, terminal,
                               analytics>>

\* record_ended: the first end of a trial is kept.
EndedAs(reason) == analytics' = IF analytics = "open" THEN reason ELSE analytics

RecordEnded(w) == /\ Doing(w, "analytics")
                  /\ EndedAs("ended")
                  /\ Proceed(w, "finalize")
                  /\ UNCHANGED <<wagerVars, status, account, session, autoplay, terminal, player>>

\* _finalize_guest_teardown
Finalize(w) == /\ Doing(w, "finalize")
               /\ IF status = "ending" /\ ~account THEN status' = "ended" ELSE UNCHANGED status
               /\ Stop(w)
               /\ UNCHANGED <<wagerVars, account, session, autoplay, terminal, player, analytics>>

-----------------------------------------------------------------------------------
(* Conversion *)

\* convert, up to its first write: a converted guest is only completed again, an
\* active one, or one an account already owns, goes on.
StartConversion(w) ==
  /\ Free(w)
  /\ \/ status = "converted" /\ Begin(w, "revoke")
     \/ status = "active" /\ Begin(w, IF account THEN "complete" ELSE "bind")
  /\ UNCHANGED <<wagerVars, status, account, session, autoplay, terminal, player, analytics>>

MayAdoptEnding == ~account
MayAdopt == ~account /\ status = "active"

\* create_user with the guest's player: the users document is asked again.  A
\* refusal goes on only when an account of this e-mail has the player by now.
Bind(w) == /\ Doing(w, "bind")
           /\ IF MayAdopt \/ account THEN Proceed(w, "complete") ELSE Stop(w)
           /\ account' = (account \/ MayAdopt)
           /\ UNCHANGED <<wagerVars, status, session, autoplay, terminal, player, analytics>>

\* _complete_conversion
Complete(w) == /\ Doing(w, "complete")
               /\ status' = "converted"
               /\ Proceed(w, "revoke")
               /\ UNCHANGED <<wagerVars, account, session, autoplay, terminal, player, analytics>>

RevokeSessions(w) == /\ Doing(w, "revoke")
                     /\ session' = FALSE
                     /\ Proceed(w, "close")
                     /\ UNCHANGED <<wagerVars, status, account, autoplay, terminal, player,
                                    analytics>>

\* _close_conversion_analytics
CloseAnalytics(w) == /\ Doing(w, "close")
                     /\ EndedAs("converted")
                     /\ Stop(w)
                     /\ UNCHANGED <<wagerVars, status, account, session, autoplay, terminal,
                                    player>>

-----------------------------------------------------------------------------------

\* The worker dies, or a provider call of its task raises.
DieInTask(w) == /\ task[w] # None
                /\ crashes < MaxCrashes
                /\ crashes' = crashes + 1
                /\ Stop(w)
                /\ UNCHANGED <<wallet, wagers, settlements, recent, play, answers,
                               status, account, session, autoplay, terminal, player, analytics>>

TaskStep(w) == \/ Claim(w) \/ ReadBalance(w) \/ DeleteSessions(w) \/ StopAutoplay(w)
               \/ Debit(w) \/ Check(w) \/ EndPlayer(w) \/ RecordEnded(w) \/ Finalize(w)
               \/ Bind(w) \/ Complete(w) \/ RevokeSessions(w) \/ CloseAnalytics(w)

Next == \E w \in Workers : \/ AcceptRequest(w) \/ InPlay(w) \/ (DieInPlay(w) /\ UNCHANGED guestVars)
                           \/ StartTeardown(w) \/ StartConversion(w) \/ TaskStep(w)
                           \/ DieInTask(w)

Spec == Init /\ [][Next]_vars

\* Threads run on, and expire_overdue_guests is called again and again.
Fairness == /\ \A w \in Workers : WF_vars(InPlay(w)) /\ WF_vars(TaskStep(w))
            /\ WF_vars(\E w \in Workers : status = "ending" /\ StartTeardown(w))

FairSpec == Spec /\ Fairness

-----------------------------------------------------------------------------------
(* Properties *)

\* Every variable stays in its set; the wallet is never negative.
TypeOK == /\ WagerTypeOK
          /\ status \in {"active", "ending", "ended", "converted"}
          /\ {account, session, autoplay} \subseteq BOOLEAN
          /\ terminal \in Nat \union {None}
          /\ player \in {"active", "ended"}
          /\ analytics \in {"open", "ended", "converted"}
          /\ task \in [Workers -> {None} \union [step : TeardownSteps \union ConversionSteps,
                                                 balance : Nat \union {None}]]

\* The wallet is what the rounds and the terminal debit left in it: no retry takes
\* a stake or pays a return twice, and the trial's end is debited once.
\* (settlement.py apply_action_once, auth.py end_guest_trial)
WalletMatchesRounds ==
  wallet + Staked + (IF terminal = None THEN 0 ELSE terminal) = Opening + Returned

\* A player an account adopted keeps its money and its status, whatever teardown
\* was decided before: a trial is ended or adopted, never both.
\* (auth.py _claim_guest_teardown and create_user, guest_conversion.py convert)
AdoptedIsSpared == account => /\ status \in {"active", "converted"}
                              /\ terminal = None
                              /\ player = "active"
                              /\ analytics # "ended"

\* A claimed teardown ends the trial, through interrupted and repeated attempts,
\* unless a return was paid after the terminal debit.
\* (auth.py end_guest_trial and expire_overdue_guests)
TeardownEndsOrIsLate == status = "ending" ~> \/ status = "ended"
                                             \/ terminal # None /\ wallet # 0
===============================================================================
