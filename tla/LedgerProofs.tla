----------------------------- MODULE LedgerProofs -----------------------------
(***************************************************************************)
(* What JsonLedger guarantees for every set of players, keys and amounts,   *)
(* every checkpoint threshold and every number of events and failures; and  *)
(* what Blackjack makes of a ledger that moves the money of a key once, for *)
(* every set of workers, table rules, deals and failures.                   *)
(***************************************************************************)
EXTENDS JsonLedger, FiniteSetTheorems, SequenceTheorems, NaturalsInduction, WellFoundedInduction, TLAPS

(* A committed event sits under its own identity, does what it says to the   *)
(* balance it found, and never below zero.                                   *)
EventsSound ==
    /\ \A i \in Identity : event[i] # None =>
          /\ <<event[i].player, event[i].key>> = i
          /\ event[i].id \in 1..lastId
          /\ event[i].before \in Nat
          /\ event[i].after \in Nat
          /\ event[i].after = event[i].before + event[i].amount
    /\ \A i \in Identity : form[i] = "absent" <=> event[i] = None

(* Ids of rows have been given out. *)
RowsSound == \A n \in 1..Len(ledger) : ledger[n].id \in 1..lastId

(* Where an operation stands tells what is pending and projected. *)
StepSound ==
    /\ pc # "idle" => req \in Request
    /\ pc \in {"compact", "publish", "answer", "plainRow"} => Pending = {}
    /\ pc = "row" => \A i \in Pending : /\ ~Recorded(event[i])
                                        /\ balance[event[i].player] = event[i].after
    /\ pc = "mark" => \A i \in Pending : Recorded(event[i])
    /\ pc = "plainRow" => /\ cur \in Event
                          /\ cur.key = None
                          /\ cur.id \in 1..lastId
                          /\ ~Recorded(cur)

(* A pending action whose row is there has moved its wallet already. *)
MovedWhenRecorded ==
    \A i \in Pending :
        Recorded(event[i]) => balance[event[i].player] = event[i].after

(* The inductive invariant. *)
IInv ==
    /\ TypeOK
    /\ EventsSound
    /\ RowsSound
    /\ StepSound
    /\ MovedWhenRecorded
    /\ RecoveryNeverDiverges
    /\ ExactlyOneRow
    /\ AnswersAreDurable

(* Appending a row keeps the rows before it and adds it last. *)
LEMMA AppendRow ==
    ASSUME NEW s \in Seq(Event), NEW e \in Event
    PROVE  /\ Append(s, e) \in Seq(Event)
           /\ Len(s) \in Nat
           /\ Len(Append(s, e)) = Len(s) + 1
           /\ \A n \in 1..Len(s) : Append(s, e)[n] = s[n] /\ s[n] \in Event
           /\ Append(s, e)[Len(s) + 1] = e
OBVIOUS

(* An event built for a request from a sound state is an event. *)
LEMMA NewEventType ==
    ASSUME TypeOK, req \in Request, NEW key \in Keys \cup {None}
    PROVE  /\ NewEvent(key) \in Event
           /\ NewEvent(key).id = lastId + 1
           /\ NewEvent(key).player = req.player
           /\ NewEvent(key).key = key
           /\ NewEvent(key).amount = req.amount
           /\ NewEvent(key).before = balance[req.player]
           /\ NewEvent(key).after = balance[req.player] + req.amount
           /\ req.player \in Players
           /\ req.amount \in Int
<1>1. req.player \in Players /\ req.amount \in Int
  <2>1. req.amount \in Amounts \cup {0} /\ req.player \in Players
    BY DEF Request
  <2>2. Amounts \cup {0} \subseteq Int
    BY AmountsAssumption DEF AmountsAssumption
  <2>. QED BY <2>1, <2>2
<1>2. balance[req.player] \in Int /\ lastId + 1 \in Nat
  BY <1>1 DEF TypeOK
<1>3. balance[req.player] + req.amount \in Int
  BY <1>1, <1>2
<1>. QED BY <1>1, <1>2, <1>3 DEF NewEvent, Event

LEMMA InitIInv == Init => IInv
<1> SUFFICES ASSUME Init PROVE IInv
  OBVIOUS
<1>1. TypeOK
  BY OpeningAssumption DEF OpeningAssumption, Init, TypeOK, Forms, Steps
<1>2. EventsSound /\ RowsSound /\ StepSound
  BY NoneAssumption DEF NoneAssumption, Init, EventsSound, RowsSound, StepSound, Pending
<1>3. MovedWhenRecorded /\ RecoveryNeverDiverges
  BY DEF Init, MovedWhenRecorded, RecoveryNeverDiverges, Pending
<1>4. ExactlyOneRow /\ AnswersAreDurable
  BY DEF Init, ExactlyOneRow, AnswersAreDurable
<1>. QED BY <1>1, <1>2, <1>3, <1>4 DEF IInv

(* Steps that write nothing durable but, at most, residue beside the journal.*)
LEMMA QuietSteps ==
    ASSUME IInv, UNCHANGED <<balance, ledger, event, form, lastId>>,
           TypeOK', pc' # "idle" => req' \in Request,
           pc' \in {"idle", "recover"} \/ (pc' \in {"compact", "publish", "answer"} /\ Pending = {}),
           acked' = acked
    PROVE  IInv'
<1> USE DEF IInv
<1>1. EventsSound' /\ RowsSound'
  BY DEF EventsSound, RowsSound
<1>2. StepSound'
  BY DEF StepSound, Pending
<1>3. MovedWhenRecorded' /\ RecoveryNeverDiverges'
  BY DEF MovedWhenRecorded, RecoveryNeverDiverges, Pending, Recorded
<1>4. ExactlyOneRow' /\ AnswersAreDurable'
  BY DEF ExactlyOneRow, AnswersAreDurable, Recorded
<1>. QED BY <1>1, <1>2, <1>3, <1>4

(* An identity that is pending has its event, and is the only one.           *)
LEMMA PendingEvent ==
    ASSUME IInv, NEW i \in Pending
    PROVE  /\ i \in Identity
           /\ Pending = {i}
           /\ event[i] \in Event
           /\ event[i] # None
           /\ event[i].player \in Players
           /\ event[i].player = i[1]
           /\ event[i].before \in Nat
           /\ event[i].after \in Nat
           /\ event[i].id \in 1..lastId
           /\ <<event[i].player, event[i].key>> = i
           /\ event[i].key # None
<1>1. i \in Identity /\ form[i] = "commit"
  BY DEF Pending
<1>2. event[i] # None /\ event[i] \in Event
  BY <1>1 DEF IInv, TypeOK, EventsSound
<1>3. Pending = {i}
  BY DEF IInv, RecoveryNeverDiverges
<1>4. event[i].player \in Players
  BY <1>2 DEF Event
<1>5. <<event[i].player, event[i].key>> = i
  BY <1>1, <1>2 DEF IInv, EventsSound
<1>6. event[i].key # None
  BY <1>1, <1>5, NoneAssumption DEF Identity, NoneAssumption
<1>. QED BY <1>1, <1>2, <1>3, <1>4, <1>5, <1>6 DEF IInv, EventsSound

LEMMA ProjectWalletIInv == ASSUME IInv, ProjectWallet PROVE IInv'
<1>1. PICK i \in Identity :
        /\ Oldest(i)
        /\ \/ /\ Recorded(event[i])
              /\ pc' = "mark"
              /\ UNCHANGED balance
           \/ /\ ~Recorded(event[i])
              /\ balance' = [balance EXCEPT ![event[i].player] = event[i].after]
              /\ pc' = "row"
  BY DEF ProjectWallet, ProvenProjected, ProjectedBalance
<1>2. i \in Pending
  BY <1>1 DEF Oldest
<1>3. /\ Pending = {i} /\ event[i].player \in Players
      /\ event[i].after \in Nat
  BY <1>2, PendingEvent
<1>4. /\ UNCHANGED <<ledger, event, form, blocked, req, cur, grown, lastId,
                     failures, acked, cut>>
      /\ pc = "recover"
  BY DEF ProjectWallet, history
<1>5. TypeOK'
  BY <1>1, <1>3, <1>4 DEF IInv, TypeOK, Steps
<1>6. EventsSound' /\ RowsSound'
  BY <1>4 DEF IInv, EventsSound, RowsSound
<1>7. ExactlyOneRow' /\ AnswersAreDurable'
  BY <1>4 DEF IInv, ExactlyOneRow, AnswersAreDurable, Recorded
<1>8. Pending' = {i} /\ event'[i] = event[i] /\ (Recorded(event[i]))' = Recorded(event[i])
  BY <1>3, <1>4 DEF Pending, Recorded
<1>9. CASE Recorded(event[i]) /\ pc' = "mark" /\ UNCHANGED balance
  <2>1. StepSound'
    BY <1>4, <1>8, <1>9 DEF IInv, StepSound
  <2>2. MovedWhenRecorded' /\ RecoveryNeverDiverges'
    BY <1>3, <1>4, <1>8, <1>9 DEF IInv, MovedWhenRecorded, RecoveryNeverDiverges
  <2>. QED BY <1>5, <1>6, <1>7, <2>1, <2>2 DEF IInv
<1>10. CASE /\ ~Recorded(event[i])
            /\ balance' = [balance EXCEPT ![event[i].player] = event[i].after]
            /\ pc' = "row"
  <2>1. balance'[event[i].player] = event[i].after
    BY <1>3, <1>10 DEF IInv, TypeOK
  <2>2. StepSound'
    BY <1>4, <1>8, <1>10, <2>1 DEF IInv, StepSound
  <2>3. MovedWhenRecorded' /\ RecoveryNeverDiverges'
    BY <1>8, <1>10, <2>1 DEF MovedWhenRecorded, RecoveryNeverDiverges
  <2>. QED BY <1>5, <1>6, <1>7, <2>2, <2>3 DEF IInv
<1>. QED BY <1>1, <1>9, <1>10

LEMMA MarkProjectedIInv == ASSUME IInv, MarkProjected PROVE IInv'
<1>1. PICK i \in Identity : Oldest(i) /\ form' = [form EXCEPT ![i] = "project"]
  BY DEF MarkProjected
<1>2. i \in Pending
  BY <1>1 DEF Oldest
<1>3. Pending = {i} /\ event[i] # None /\ i \in Identity
  BY <1>2, PendingEvent
<1>4. /\ UNCHANGED <<balance, ledger, event, blocked, req, cur, lastId,
                     failures, acked, cut>>
      /\ pc = "mark" /\ pc' = "recover" /\ grown' = grown + 1
  BY DEF MarkProjected, history
<1>5. \A j \in Identity : form'[j] = IF j = i THEN "project" ELSE form[j]
  BY <1>1, <1>3 DEF IInv, TypeOK
<1>6. TypeOK'
  BY <1>1, <1>4 DEF IInv, TypeOK, Steps, Forms
<1>7. EventsSound' /\ RowsSound'
  BY <1>3, <1>4, <1>5 DEF IInv, EventsSound, RowsSound
<1>8. Pending' = {}
  BY <1>3, <1>5 DEF Pending
<1>9. StepSound' /\ MovedWhenRecorded' /\ RecoveryNeverDiverges'
  BY <1>4, <1>8 DEF IInv, StepSound, MovedWhenRecorded, RecoveryNeverDiverges
<1>10. Recorded(event[i])
  BY <1>2, <1>4 DEF IInv, StepSound
<1>11. ExactlyOneRow' /\ AnswersAreDurable'
  BY <1>4, <1>5, <1>10 DEF IInv, ExactlyOneRow, AnswersAreDurable, Recorded
<1>. QED BY <1>6, <1>7, <1>9, <1>11 DEF IInv

LEMMA CompactPublishIInv == ASSUME IInv, CompactPublish PROVE IInv'
<1>1. /\ UNCHANGED <<balance, ledger, event, req, cur, lastId, failures, acked, cut>>
      /\ pc = "publish" /\ pc' = "answer" /\ grown' = 0 /\ blocked' = "no"
      /\ form' = [i \in Identity |->
                     IF form[i] = "project" THEN "settled" ELSE form[i]]
  BY DEF CompactPublish, history
<1>2. TypeOK'
  BY <1>1 DEF IInv, TypeOK, Steps, Forms
<1>3. Pending = {}
  BY <1>1 DEF IInv, StepSound
<1>4. Pending' = {}
  BY <1>1, <1>3 DEF Pending
<1>5. EventsSound' /\ RowsSound'
  BY <1>1 DEF IInv, EventsSound, RowsSound
<1>6. StepSound' /\ MovedWhenRecorded' /\ RecoveryNeverDiverges'
  BY <1>1, <1>4 DEF IInv, StepSound, MovedWhenRecorded, RecoveryNeverDiverges
<1>7. ExactlyOneRow' /\ AnswersAreDurable'
  BY <1>1 DEF IInv, ExactlyOneRow, AnswersAreDurable, Recorded
<1>. QED BY <1>2, <1>5, <1>6, <1>7 DEF IInv

LEMMA ProjectRowIInv == ASSUME IInv, ProjectRow PROVE IInv'
<1>1. PICK i \in Identity : Oldest(i) /\ ledger' = Append(ledger, event[i])
  BY DEF ProjectRow
<1>2. i \in Pending
  BY <1>1 DEF Oldest
<1>3. /\ Pending = {i} /\ event[i] \in Event /\ event[i].key # None
      /\ event[i].id \in 1..lastId /\ <<event[i].player, event[i].key>> = i
  BY <1>2, PendingEvent
<1>4. /\ UNCHANGED <<balance, event, form, blocked, req, cur, grown, lastId,
                     failures, acked, cut>>
      /\ pc = "row" /\ pc' = "mark"
  BY DEF ProjectRow, history
<1>5. ledger \in Seq(Event)
  BY DEF IInv, TypeOK
<1>6. /\ ledger' \in Seq(Event) /\ Len(ledger) \in Nat
      /\ Len(ledger') = Len(ledger) + 1
      /\ \A n \in 1..Len(ledger) : ledger'[n] = ledger[n]
      /\ ledger'[Len(ledger) + 1] = event[i]
  BY <1>1, <1>3, <1>5, AppendRow
<1>7. TypeOK'
  BY <1>4, <1>6 DEF IInv, TypeOK, Steps
<1>8. EventsSound'
  BY <1>4 DEF IInv, EventsSound
<1>9. RowsSound'
  BY <1>3, <1>4, <1>6 DEF IInv, RowsSound
<1>10. \A e : Recorded(e) => Recorded(e)'
  <2>1. SUFFICES ASSUME NEW n \in 1..Len(ledger)
        PROVE  n \in 1..Len(ledger') /\ ledger'[n].id = ledger[n].id
    BY DEF Recorded
  <2>. QED BY <1>6
<1>11. (Recorded(event[i]))'
  BY <1>4, <1>6 DEF Recorded
<1>12. ~Recorded(event[i]) /\ balance[event[i].player] = event[i].after
  BY <1>2, <1>4 DEF IInv, StepSound
<1>13. Pending' = {i} /\ event' = event
  BY <1>3, <1>4 DEF Pending
<1>14. StepSound' /\ MovedWhenRecorded' /\ RecoveryNeverDiverges'
  BY <1>3, <1>4, <1>11, <1>12, <1>13
  DEF IInv, StepSound, MovedWhenRecorded, RecoveryNeverDiverges
<1>15. ExactlyOneRow'
  <2>1. ASSUME NEW m \in 1..Len(ledger'), NEW n \in 1..Len(ledger'),
               ledger'[m].id = ledger'[n].id
        PROVE  m = n
    BY <1>6, <1>12, <2>1 DEF IInv, ExactlyOneRow, Recorded
  <2>2. ASSUME NEW n \in 1..Len(ledger'), ledger'[n].key # None
        PROVE  event'[<<ledger'[n].player, ledger'[n].key>>] = ledger'[n]
    BY <1>3, <1>4, <1>6, <2>2 DEF IInv, ExactlyOneRow
  <2>3. \A j \in Identity : form'[j] \in {"project", "settled"} => Recorded(event[j])'
    BY <1>4, <1>10 DEF IInv, ExactlyOneRow
  <2>. QED BY <2>1, <2>2, <2>3 DEF ExactlyOneRow
<1>16. AnswersAreDurable'
  BY <1>4, <1>10 DEF IInv, AnswersAreDurable
<1>. QED BY <1>7, <1>8, <1>9, <1>14, <1>15, <1>16 DEF IInv

LEMMA CommitActionIInv == ASSUME IInv, CommitAction PROVE IInv'
<1> DEFINE i == <<req.player, req.key>>
           e == NewEvent(req.key)
<1>1. /\ UNCHANGED <<balance, ledger, blocked, req, failures, acked, cut>>
      /\ pc = "answer" /\ pc' = "recover"
      /\ req.kind = "once" /\ event[i] = None
      /\ balance[req.player] + req.amount >= 0
      /\ event' = [event EXCEPT ![i] = e]
      /\ form' = [form EXCEPT ![i] = "commit"]
      /\ cur' = e /\ lastId' = lastId + 1 /\ grown' = grown + 1
  BY DEF CommitAction, MayCommit, NewAction, EnoughFunds, Committed, history
<1>2. req \in Request /\ Pending = {}
  BY <1>1 DEF IInv, StepSound
<1>3. req.key \in Keys /\ req.player \in Players
  BY <1>1, <1>2 DEF Request
<1>4. i \in Identity
  BY <1>3 DEF Identity
<1>5. /\ e \in Event /\ e.id = lastId + 1 /\ e.player = req.player
      /\ e.key = req.key /\ e.amount = req.amount
      /\ e.before = balance[req.player]
      /\ e.after = balance[req.player] + req.amount
      /\ req.amount \in Int
  BY <1>2, <1>3, NewEventType DEF IInv
<1>6. e.before \in Nat /\ e.after \in Nat /\ lastId \in Nat
  BY <1>1, <1>3, <1>5 DEF IInv, TypeOK
<1>7. /\ \A j \in Identity : event'[j] = IF j = i THEN e ELSE event[j]
      /\ \A j \in Identity : form'[j] = IF j = i THEN "commit" ELSE form[j]
  BY <1>1, <1>4 DEF IInv, TypeOK
<1>8. TypeOK'
  <2> HIDE DEF i, e
  <2>1. event' \in [Identity -> Event \cup {None}]
    BY <1>1, <1>4, <1>5 DEF IInv, TypeOK
  <2>2. form' \in [Identity -> Forms]
    BY <1>1, <1>4 DEF IInv, TypeOK, Forms
  <2>3. grown' \in Nat /\ lastId' \in Nat /\ cur' \in Event \cup {None}
    BY <1>1, <1>5 DEF IInv, TypeOK
  <2>. QED BY <1>1, <2>1, <2>2, <2>3 DEF IInv, TypeOK, Steps
<1>9. e # None
  BY <1>5, NoneAssumption DEF NoneAssumption
<1>10. EventsSound'
  <2>1. ASSUME NEW j \in Identity, event'[j] # None
        PROVE  /\ <<event'[j].player, event'[j].key>> = j
               /\ event'[j].id \in 1..lastId'
               /\ event'[j].before \in Nat
               /\ event'[j].after \in Nat
               /\ event'[j].after = event'[j].before + event'[j].amount
    <3>1. CASE j = i
      BY <1>1, <1>5, <1>6, <1>7, <3>1
    <3>2. CASE j # i
      BY <1>1, <1>6, <1>7, <2>1, <3>2 DEF IInv, EventsSound
    <3>. QED BY <3>1, <3>2
  <2>2. \A j \in Identity : form'[j] = "absent" <=> event'[j] = None
    BY <1>7, <1>9 DEF IInv, EventsSound
  <2>. QED BY <2>1, <2>2 DEF EventsSound
<1>11. RowsSound'
  BY <1>1, <1>6 DEF IInv, RowsSound
<1>12. Pending' = {i} /\ event'[i] = e
  BY <1>2, <1>4, <1>7 DEF Pending
<1>13. ~Recorded(e)
  BY <1>5, <1>6 DEF IInv, RowsSound, Recorded
<1>14. StepSound' /\ MovedWhenRecorded' /\ RecoveryNeverDiverges'
  BY <1>1, <1>2, <1>5, <1>12, <1>13
  DEF StepSound, MovedWhenRecorded, RecoveryNeverDiverges, Recorded
<1>15. ExactlyOneRow'
  <2>1. ASSUME NEW n \in 1..Len(ledger), ledger[n].key # None
        PROVE  event'[<<ledger[n].player, ledger[n].key>>] = ledger[n]
    <3>1. ledger[n] \in Event
      BY DEF IInv, TypeOK
    <3>2. <<ledger[n].player, ledger[n].key>> \in Identity
      BY <2>1, <3>1 DEF Event, Identity
    <3>3. event[<<ledger[n].player, ledger[n].key>>] = ledger[n]
      BY <2>1 DEF IInv, ExactlyOneRow
    <3>4. <<ledger[n].player, ledger[n].key>> # i
      BY <1>1, <3>1, <3>3, NoneAssumption DEF NoneAssumption
    <3>. QED BY <1>7, <3>2, <3>3, <3>4
  <2>2. \A j \in Identity : form'[j] \in {"project", "settled"} => Recorded(event[j])'
    BY <1>1, <1>7 DEF IInv, ExactlyOneRow, Recorded
  <2>. QED BY <1>1, <2>1, <2>2 DEF IInv, ExactlyOneRow
<1>16. AnswersAreDurable'
  <2>1. ASSUME NEW a \in acked PROVE event'[<<a.player, a.key>>] = a /\ Recorded(a)'
    <3>1. event[<<a.player, a.key>>] = a /\ Recorded(a) /\ a \in Event
      BY DEF IInv, AnswersAreDurable, TypeOK
    <3>2. <<a.player, a.key>> # i
      BY <1>1, <3>1, NoneAssumption DEF NoneAssumption
    <3>. QED BY <1>1, <3>1, <3>2 DEF Recorded, IInv, TypeOK
  <2>. QED BY <1>1, <2>1 DEF AnswersAreDurable
<1>. QED BY <1>8, <1>10, <1>11, <1>14, <1>15, <1>16 DEF IInv

LEMMA AnswerEventIInv == ASSUME IInv, AnswerEvent PROVE IInv'
<1> DEFINE i == <<req.player, req.key>>
<1>1. /\ UNCHANGED <<balance, ledger, event, form, blocked, grown, lastId,
                     failures, cut>>
      /\ pc = "answer" /\ pc' = "idle" /\ req' = NoRequest /\ cur' = None
      /\ req.kind \in {"once", "find"} /\ event[i] # None
      /\ acked' = acked \cup {event[i]}
  BY DEF AnswerEvent, Committed, Return, durable
<1>2. req \in Request /\ Pending = {}
  BY <1>1 DEF IInv, StepSound
<1>3. i \in Identity
  BY <1>1, <1>2 DEF Request, Identity
<1>4. event[i] \in Event
  BY <1>1, <1>3 DEF IInv, TypeOK
<1>5. TypeOK'
  BY <1>1, <1>4 DEF IInv, TypeOK, Steps
<1>6. EventsSound' /\ RowsSound' /\ StepSound'
  BY <1>1 DEF IInv, EventsSound, RowsSound, StepSound
<1>7. MovedWhenRecorded' /\ RecoveryNeverDiverges' /\ ExactlyOneRow'
  BY <1>1 DEF IInv, MovedWhenRecorded, RecoveryNeverDiverges, ExactlyOneRow,
              Recorded, Pending
<1>8. AnswersAreDurable'
  <2>1. form[i] \in {"project", "settled"}
    BY <1>1, <1>2, <1>3 DEF IInv, TypeOK, EventsSound, Forms, Pending
  <2>2. Recorded(event[i])
    BY <1>3, <2>1 DEF IInv, ExactlyOneRow
  <2>3. event[<<event[i].player, event[i].key>>] = event[i]
    BY <1>1, <1>3 DEF IInv, EventsSound
  <2>. QED BY <1>1, <2>2, <2>3 DEF IInv, AnswersAreDurable, Recorded
<1>. QED BY <1>5, <1>6, <1>7, <1>8 DEF IInv

LEMMA PlainSaveIInv == ASSUME IInv, PlainSave PROVE IInv'
<1> DEFINE e == NewEvent(None)
<1>1. /\ UNCHANGED <<ledger, event, form, blocked, req, grown, failures,
                     acked, cut>>
      /\ pc = "answer" /\ pc' = "plainRow"
      /\ balance[req.player] + req.amount >= 0
      /\ balance' = [balance EXCEPT ![req.player] = @ + req.amount]
      /\ cur' = e /\ lastId' = lastId + 1
  BY DEF PlainSave, EnoughFunds, history
<1>2. req \in Request /\ Pending = {}
  BY <1>1 DEF IInv, StepSound
<1>3. /\ e \in Event /\ e.id = lastId + 1 /\ e.key = None
      /\ req.player \in Players /\ req.amount \in Int
  BY <1>2, NewEventType DEF IInv
<1>4. lastId \in Nat /\ balance[req.player] + req.amount \in Nat
  BY <1>1, <1>3 DEF IInv, TypeOK
<1>5. TypeOK'
  <2> HIDE DEF e
  <2>1. balance' \in [Players -> Nat]
    BY <1>1, <1>3, <1>4 DEF IInv, TypeOK
  <2>. QED BY <1>1, <1>3, <1>4, <2>1 DEF IInv, TypeOK, Steps
<1>6. EventsSound' /\ RowsSound'
  BY <1>1, <1>4 DEF IInv, EventsSound, RowsSound
<1>7. Pending' = {}
  BY <1>1, <1>2 DEF Pending
<1>8. ~Recorded(e)
  BY <1>3, <1>4 DEF IInv, RowsSound, Recorded
<1>9. StepSound' /\ MovedWhenRecorded' /\ RecoveryNeverDiverges'
  BY <1>1, <1>2, <1>3, <1>4, <1>7, <1>8
  DEF StepSound, MovedWhenRecorded, RecoveryNeverDiverges, Recorded
<1>10. ExactlyOneRow' /\ AnswersAreDurable'
  BY <1>1 DEF IInv, ExactlyOneRow, AnswersAreDurable, Recorded
<1>. QED BY <1>5, <1>6, <1>9, <1>10 DEF IInv

LEMMA PlainRowIInv == ASSUME IInv, PlainRow PROVE IInv'
<1>1. /\ UNCHANGED <<balance, event, form, blocked, grown, lastId, failures,
                     acked, cut>>
      /\ pc = "plainRow" /\ pc' = "idle" /\ req' = NoRequest /\ cur' = None
      /\ ledger' = Append(ledger, cur)
  BY DEF PlainRow, Return, history
<1>2. /\ cur \in Event /\ cur.key = None /\ cur.id \in 1..lastId
      /\ ~Recorded(cur) /\ Pending = {}
  BY <1>1 DEF IInv, StepSound
<1>3. ledger \in Seq(Event)
  BY DEF IInv, TypeOK
<1>4. /\ ledger' \in Seq(Event) /\ Len(ledger) \in Nat
      /\ Len(ledger') = Len(ledger) + 1
      /\ \A n \in 1..Len(ledger) : ledger'[n] = ledger[n]
      /\ ledger'[Len(ledger) + 1] = cur
  BY <1>1, <1>2, <1>3, AppendRow
<1>5. TypeOK'
  BY <1>1, <1>4 DEF IInv, TypeOK, Steps
<1>6. EventsSound' /\ RowsSound'
  BY <1>1, <1>2, <1>4 DEF IInv, EventsSound, RowsSound
<1>7. Pending' = {}
  BY <1>1, <1>2 DEF Pending
<1>8. StepSound' /\ MovedWhenRecorded' /\ RecoveryNeverDiverges'
  BY <1>1, <1>7 DEF StepSound, MovedWhenRecorded, RecoveryNeverDiverges
<1>9. \A e : Recorded(e) => Recorded(e)'
  <2>1. SUFFICES ASSUME NEW n \in 1..Len(ledger)
        PROVE  n \in 1..Len(ledger') /\ ledger'[n].id = ledger[n].id
    BY DEF Recorded
  <2>. QED BY <1>4
<1>10. ExactlyOneRow'
  <2>1. ASSUME NEW m \in 1..Len(ledger'), NEW n \in 1..Len(ledger'),
               ledger'[m].id = ledger'[n].id
        PROVE  m = n
    BY <1>2, <1>4, <2>1 DEF IInv, ExactlyOneRow, Recorded
  <2>2. ASSUME NEW n \in 1..Len(ledger'), ledger'[n].key # None
        PROVE  event'[<<ledger'[n].player, ledger'[n].key>>] = ledger'[n]
    BY <1>1, <1>2, <1>4, <2>2 DEF IInv, ExactlyOneRow
  <2>3. \A j \in Identity : form'[j] \in {"project", "settled"} => Recorded(event[j])'
    BY <1>1, <1>9 DEF IInv, ExactlyOneRow
  <2>. QED BY <2>1, <2>2, <2>3 DEF ExactlyOneRow
<1>11. AnswersAreDurable'
  BY <1>1, <1>9 DEF IInv, AnswersAreDurable
<1>. QED BY <1>5, <1>6, <1>8, <1>10, <1>11 DEF IInv

(* Every step preserves the inductive invariant.                             *)
LEMMA NextIInv == IInv /\ [Next]_vars => IInv'
<1> SUFFICES ASSUME IInv, [Next]_vars PROVE IInv'
  OBVIOUS
<1> USE DEF durable, history
<1>1. ASSUME NEW r \in Request, Start(r) PROVE IInv'
  <2>1. TypeOK'
    BY <1>1 DEF IInv, TypeOK, Start, Steps
  <2>. QED BY <1>1, <2>1, QuietSteps DEF Start
<1>2. CASE ProjectWallet
  BY <1>2, ProjectWalletIInv
<1>3. CASE ProjectRow
  BY <1>3, ProjectRowIInv
<1>4. CASE MarkProjected
  BY <1>4, MarkProjectedIInv
<1>5. CASE Drained
  <2>1. TypeOK'
    BY <1>5 DEF IInv, TypeOK, Drained, Steps
  <2>2. req \in Request
    BY <1>5 DEF Drained, IInv, StepSound
  <2>. QED BY <1>5, <2>1, <2>2, QuietSteps DEF Drained, NothingPending
<1>6. CASE CompactWrite
  <2>1. TypeOK'
    BY <1>6 DEF IInv, TypeOK, CompactWrite, Steps
  <2>2. req \in Request /\ Pending = {}
    BY <1>6 DEF CompactWrite, IInv, StepSound
  <2>. QED BY <1>6, <2>1, <2>2, QuietSteps DEF CompactWrite
<1>7. CASE CompactPublish
  BY <1>7, CompactPublishIInv
<1>8. CASE CommitAction
  BY <1>8, CommitActionIInv
<1>9. CASE AnswerEvent
  BY <1>9, AnswerEventIInv
<1>10. CASE Refuse
  <2>1. TypeOK'
    BY <1>10 DEF IInv, TypeOK, Refuse, Return, Steps
  <2>. QED BY <1>10, <2>1, QuietSteps DEF Refuse, Return
<1>11. CASE PlainSave
  BY <1>11, PlainSaveIInv
<1>12. CASE PlainRow
  BY <1>12, PlainRowIInv
<1>13. CASE Crash \/ WriteFails \/ TearJournal
  <2>1. Die /\ grown' \in Nat /\ blocked' \in {"no", "temporary", "torn"}
    BY <1>13 DEF Crash, WriteFails, TearJournal, IInv, TypeOK
  <2>2. cut' \subseteq Players
    BY <2>1 DEF Die, IInv, StepSound, TypeOK, Event
  <2>3. TypeOK'
    BY <2>1, <2>2 DEF Die, Return, IInv, TypeOK, Steps
  <2>. QED BY <2>1, <2>3, QuietSteps DEF Die, Return
<1>14. CASE UNCHANGED vars
  BY <1>14 DEF vars, IInv, TypeOK, EventsSound, RowsSound, StepSound,
               MovedWhenRecorded, RecoveryNeverDiverges, ExactlyOneRow,
               AnswersAreDurable, Pending, Recorded
<1>. QED BY <1>1, <1>2, <1>3, <1>4, <1>5, <1>6, <1>7, <1>8, <1>9, <1>10,
            <1>11, <1>12, <1>13, <1>14 DEF Next, Step

LEMMA Invariance == Spec => []IInv
BY InitIInv, NextIInv, PTL DEF Spec

(* Every reachable state is well typed: in particular no stored balance of   *)
(* players.json is ever below zero.                                          *)
THEOREM TypeCorrect == Spec => []TypeOK
BY Invariance, PTL DEF IInv

(* A committed action has exactly one ledger row once projected, and no row  *)
(* is ever written twice, however often projection is cut short and redone.  *)
THEOREM ProjectsExactlyOnce == Spec => []ExactlyOneRow
BY Invariance, PTL DEF IInv

(* Recovery always finds the wallet of the one pending action before or      *)
(* after its movement: the divergence refusal is unreachable.                *)
THEOREM RecoveryAlwaysPossible == Spec => []RecoveryNeverDiverges
BY Invariance, PTL DEF IInv

(* What a caller was answered stays the committed event and stays recorded.  *)
THEOREM AnswersSurvive == Spec => []AnswersAreDurable
BY Invariance, PTL DEF IInv

------------------------------------------------------------------------------
(* The books of a wallet that no unkeyed movement cut: the last row says what *)
(* the balance was before a movement still without its row, and else what the *)
(* balance is.                                                                *)
Unrowed(p) == \E i \in Pending : i[1] = p /\ ~Recorded(event[i])

BooksInv ==
    /\ pc = "plainRow" => balance[cur.player] = cur.after
    /\ \A p \in Players \ cut :
          /\ \A i \in Pending :
                i[1] = p /\ ~Recorded(event[i]) => Books(ledger, p, event[i].before)
          /\ pc = "plainRow" /\ cur.player = p => Books(ledger, p, cur.before)
          /\ ~Unrowed(p) /\ ~(pc = "plainRow" /\ cur.player = p)
                => Books(ledger, p, balance[p])

(* A row becomes the last word on its own player and on no other.            *)
LEMMA BooksAppend ==
    ASSUME NEW s \in Seq(Event), NEW e \in Event
    PROVE  /\ Books(Append(s, e), e.player, e.after)
           /\ \A p, b : p # e.player /\ Books(s, p, b) => Books(Append(s, e), p, b)
<1> DEFINE t == Append(s, e)
<1>1. /\ Len(s) \in Nat /\ Len(t) = Len(s) + 1
      /\ \A n \in 1..Len(s) : t[n] = s[n]
      /\ t[Len(s) + 1] = e
  BY AppendRow
<1> HIDE DEF t
<1>2. Books(t, e.player, e.after)
  BY <1>1 DEF Books
<1>3. ASSUME NEW p, NEW b, p # e.player, Books(s, p, b) PROVE Books(t, p, b)
  <2>1. CASE \E n \in 1..Len(s) :
                /\ s[n].player = p
                /\ s[n].after = b
                /\ \A k \in (n + 1)..Len(s) : s[k].player # p
    <3>1. PICK n \in 1..Len(s) :
                /\ s[n].player = p
                /\ s[n].after = b
                /\ \A k \in (n + 1)..Len(s) : s[k].player # p
      BY <2>1
    <3>2. \A k \in (n + 1)..Len(t) : t[k].player # p
      BY <1>1, <1>3, <3>1
    <3>. QED BY <1>1, <3>1, <3>2 DEF Books
  <2>2. CASE (\A n \in 1..Len(s) : s[n].player # p) /\ b = Opening
    <3>1. \A n \in 1..Len(t) : t[n].player # p
      BY <1>1, <1>3, <2>2
    <3>. QED BY <2>2, <3>1 DEF Books
  <2>. QED BY <1>3, <2>1, <2>2 DEF Books
<1>. QED BY <1>2, <1>3 DEF t

LEMMA InitBooks == Init => BooksInv
BY DEF Init, BooksInv, Books, Pending, Unrowed

LEMMA NextBooks == IInv /\ IInv' /\ BooksInv /\ [Next]_vars => BooksInv'
<1> SUFFICES ASSUME IInv, IInv', BooksInv, [Next]_vars PROVE BooksInv'
  OBVIOUS
<1>1. CASE UNCHANGED <<balance, ledger, event, form>> /\ pc # "plainRow"
           /\ pc' # "plainRow" /\ UNCHANGED cut
  BY <1>1 DEF BooksInv, Books, Pending, Recorded, Unrowed
<1>2. ASSUME NEW r \in Request, Start(r) PROVE BooksInv'
  BY <1>1, <1>2 DEF Start, durable, history
<1>3. CASE Drained \/ CompactWrite \/ AnswerEvent \/ Refuse
  BY <1>1, <1>3 DEF Drained, CompactWrite, AnswerEvent, Refuse, Return,
                    durable, history
<1>4. CASE ProjectWallet
  <2>1. PICK i \in Identity :
          /\ Oldest(i)
          /\ \/ UNCHANGED balance
             \/ /\ ~Recorded(event[i])
                /\ balance' = [balance EXCEPT ![event[i].player] = event[i].after]
    BY <1>4 DEF ProjectWallet, ProvenProjected, ProjectedBalance
  <2>2. /\ i \in Pending /\ Pending = {i} /\ event[i].player = i[1]
    BY <2>1, PendingEvent DEF Oldest
  <2>3. /\ UNCHANGED <<ledger, event, form, cur, cut>>
        /\ pc # "plainRow" /\ pc' # "plainRow"
    BY <1>4 DEF ProjectWallet, history
  <2>4. CASE UNCHANGED balance
    BY <1>1, <2>3, <2>4
  <2>5. CASE /\ ~Recorded(event[i])
             /\ balance' = [balance EXCEPT ![event[i].player] = event[i].after]
    <3>1. \A p \in Players : p # i[1] => balance'[p] = balance[p]
      BY <2>2, <2>5 DEF IInv, TypeOK
    <3>2. Unrowed(i[1])' /\ \A p : Unrowed(p) <=> Unrowed(p)'
      BY <2>2, <2>3, <2>5 DEF Unrowed, Pending, Recorded
    <3>. QED BY <2>3, <3>1, <3>2 DEF BooksInv, Books, Pending, Recorded
  <2>. QED BY <2>1, <2>4, <2>5
<1>5. CASE ProjectRow
  <2>1. PICK i \in Identity : Oldest(i) /\ ledger' = Append(ledger, event[i])
    BY <1>5 DEF ProjectRow
  <2>2. /\ i \in Pending /\ Pending = {i} /\ event[i] \in Event
        /\ event[i].player = i[1]
    BY <2>1, PendingEvent DEF Oldest
  <2>3. /\ UNCHANGED <<balance, event, form, cut>> /\ pc = "row" /\ pc' = "mark"
    BY <1>5 DEF ProjectRow, history
  <2>4. balance[event[i].player] = event[i].after
    BY <2>2, <2>3 DEF IInv, StepSound
  <2>5. ledger \in Seq(Event)
    BY DEF IInv, TypeOK
  <2>6. /\ Books(ledger', i[1], event[i].after)
        /\ \A p, b : p # i[1] /\ Books(ledger, p, b) => Books(ledger', p, b)
    BY <2>1, <2>2, <2>5, BooksAppend
  <2>7. \A p : ~Unrowed(p)'
    BY <2>2, <2>3 DEF IInv, StepSound, Unrowed, Pending
  <2>8. \A p : p # i[1] => ~Unrowed(p)
    BY <2>2 DEF Unrowed
  <2>9. ASSUME NEW p \in Players \ cut PROVE Books(ledger', p, balance'[p])
    <3>1. CASE p = i[1]
      BY <2>2, <2>3, <2>4, <2>6, <3>1
    <3>2. CASE p # i[1]
      BY <2>3, <2>6, <2>8, <3>2 DEF BooksInv
    <3>. QED BY <3>1, <3>2
  <2>. QED BY <2>3, <2>7, <2>9 DEF BooksInv, Unrowed
<1>6. CASE MarkProjected
  <2>1. /\ UNCHANGED <<balance, ledger, event, cut>>
        /\ pc = "mark" /\ pc' = "recover"
    BY <1>6 DEF MarkProjected, history
  <2>2. \A p : ~Unrowed(p)
    BY <2>1 DEF IInv, StepSound, Unrowed
  <2>3. \A p \in Players \ cut : Books(ledger, p, balance[p])
    BY <2>1, <2>2 DEF BooksInv
  <2>4. Pending' \subseteq Pending
    BY <1>6 DEF MarkProjected, Pending, IInv, TypeOK
  <2>5. \A i \in Pending' : (Recorded(event[i]))'
    BY <2>1, <2>4 DEF IInv, StepSound, Recorded
  <2>. QED BY <2>1, <2>3, <2>5 DEF BooksInv, Books
<1>7. CASE CompactPublish
  <2>1. /\ UNCHANGED <<balance, ledger, event, cut>>
        /\ pc = "publish" /\ pc' = "answer"
    BY <1>7 DEF CompactPublish, history
  <2>2. Pending = {} /\ Pending' = {}
    BY <2>1 DEF IInv, StepSound
  <2>. QED BY <2>1, <2>2 DEF BooksInv, Books, Unrowed
<1>8. CASE CommitAction
  <2> DEFINE i == <<req.player, req.key>>
  <2>1. /\ UNCHANGED <<balance, ledger, cut>> /\ pc = "answer" /\ pc' = "recover"
        /\ event' = [event EXCEPT ![i] = NewEvent(req.key)]
        /\ form' = [form EXCEPT ![i] = "commit"]
        /\ req.kind = "once"
    BY <1>8 DEF CommitAction, MayCommit, NewAction, history
  <2>2. req \in Request /\ Pending = {}
    BY <2>1 DEF IInv, StepSound
  <2>3. req.key \in Keys /\ i \in Identity
    BY <2>1, <2>2 DEF Request, Identity
  <2>4. NewEvent(req.key).before = balance[req.player]
    BY <2>2, <2>3, NewEventType DEF IInv
  <2>5. Pending' = {i} /\ event'[i] = NewEvent(req.key) /\ i[1] = req.player
    BY <2>1, <2>2, <2>3 DEF Pending, IInv, TypeOK
  <2>6. \A p \in Players \ cut : Books(ledger, p, balance[p])
    BY <2>1, <2>2 DEF BooksInv, Unrowed
  <2>7. \A p \in Players \ cut : Books(ledger, p, balance[p])'
    BY <2>1, <2>6 DEF Books
  <2>8. ASSUME NEW p \in Players \ cut, p = i[1] PROVE Books(ledger', p, event'[i].before)
    BY <2>1, <2>4, <2>5, <2>6, <2>8
  <2>. QED BY <2>1, <2>5, <2>7, <2>8 DEF BooksInv
<1>9. CASE PlainSave
  <2>1. /\ UNCHANGED <<ledger, event, form, cut>> /\ pc = "answer" /\ pc' = "plainRow"
        /\ balance' = [balance EXCEPT ![req.player] = @ + req.amount]
        /\ cur' = NewEvent(None)
    BY <1>9 DEF PlainSave, history
  <2>2. req \in Request /\ Pending = {} /\ Pending' = {}
    BY <2>1 DEF IInv, StepSound
  <2>3. /\ cur'.player = req.player /\ cur'.before = balance[req.player]
        /\ cur'.after = balance[req.player] + req.amount
        /\ req.player \in Players
    BY <2>1, <2>2, NewEventType DEF IInv
  <2>4. /\ balance'[req.player] = balance[req.player] + req.amount
        /\ \A p \in Players : p # req.player => balance'[p] = balance[p]
    BY <2>1, <2>3 DEF IInv, TypeOK
  <2>5. \A p \in Players \ cut : Books(ledger, p, balance[p])
    BY <2>1, <2>2 DEF BooksInv, Unrowed
  <2>. QED BY <2>1, <2>2, <2>3, <2>4, <2>5 DEF BooksInv, Books
<1>10. CASE PlainRow
  <2>1. /\ UNCHANGED <<balance, event, form, cut>> /\ pc = "plainRow" /\ pc' = "idle"
        /\ ledger' = Append(ledger, cur)
    BY <1>10 DEF PlainRow, Return, history
  <2>2. Pending = {} /\ Pending' = {} /\ cur \in Event
    BY <2>1 DEF IInv, StepSound, Pending
  <2>3. ledger \in Seq(Event)
    BY DEF IInv, TypeOK
  <2>4. /\ Books(ledger', cur.player, cur.after)
        /\ \A p, b : p # cur.player /\ Books(ledger, p, b) => Books(ledger', p, b)
    BY <2>1, <2>2, <2>3, BooksAppend
  <2>5. ASSUME NEW p \in Players \ cut PROVE Books(ledger', p, balance'[p])
    <3>1. CASE p = cur.player
      BY <2>1, <2>4, <3>1 DEF BooksInv
    <3>2. CASE p # cur.player
      BY <2>1, <2>2, <2>4, <3>2 DEF BooksInv, Unrowed
    <3>. QED BY <3>1, <3>2
  <2>. QED BY <2>1, <2>2, <2>5 DEF BooksInv
<1>11. CASE Crash \/ WriteFails \/ TearJournal
  <2>1. /\ UNCHANGED <<balance, ledger, event, form>> /\ pc' = "idle"
        /\ cut' = IF pc = "plainRow" THEN cut \cup {cur.player} ELSE cut
    BY <1>11 DEF Crash, WriteFails, TearJournal, Die, Return
  <2>. QED BY <2>1 DEF BooksInv, Books, Pending, Recorded, Unrowed
<1>12. CASE UNCHANGED vars
  BY <1>12 DEF vars, BooksInv, Books, Pending, Recorded, Unrowed
<1>. QED BY <1>2, <1>3, <1>4, <1>5, <1>6, <1>7, <1>8, <1>9, <1>10, <1>11,
            <1>12 DEF Next, Step

(* Whatever was cut of keyed movements, the ledger accounts for the wallet:  *)
(* only an unkeyed movement cut between its two writes can unbalance it.     *)
THEOREM LedgerAccounts == Spec => []LedgerAccountsForWallets
<1>1. BooksInv => LedgerAccountsForWallets
  BY DEF BooksInv, LedgerAccountsForWallets, Unrowed
<1>. QED BY <1>1, InitBooks, NextBooks, Invariance, PTL DEF Spec

------------------------------------------------------------------------------
(* The refinement mapping in its two cases: nothing pending, or one action.  *)
LEMMA WalletQuiet == ASSUME TypeOK, Pending = {} PROVE Wallet = balance
BY DEF Wallet, TypeOK

LEMMA WalletPending ==
    ASSUME IInv, NEW i \in Pending
    PROVE  Wallet = [balance EXCEPT ![event[i].player] = event[i].after]
<1>1. Pending = {i} /\ event[i].player = i[1] /\ i[1] \in Players
  BY PendingEvent
<1>2. Wallet = [p \in Players |-> IF p = i[1] THEN event[i].after ELSE balance[p]]
  BY <1>1 DEF Wallet
<1>3. [balance EXCEPT ![i[1]] = event[i].after]
        = [p \in Players |-> IF p = i[1] THEN event[i].after ELSE balance[p]]
  BY <1>1 DEF IInv, TypeOK
<1>. QED BY <1>1, <1>2, <1>3

LEMMA InitRefines == Init => Promise!Init
BY WalletQuiet, InitIInv 
DEF Init, IInv, Pending, Promise!Init, Promise!Identity, Identity

(* The commit point of a keyed movement is its journal record; an unkeyed    *)
(* movement takes effect with its wallet write; projection, checkpoints and  *)
(* failures are stuttering steps.                                            *)
LEMMA StepRefines == IInv /\ IInv' /\ [Next]_vars => [Promise!Next]_(Promise!vars)
<1> SUFFICES ASSUME IInv, IInv', [Next]_vars PROVE [Promise!Next]_(Promise!vars)
  OBVIOUS
<1>1. CASE UNCHANGED <<balance, event, form, acked>>
  BY <1>1 DEF Promise!vars, Wallet, Pending
<1>2. CASE ProjectWallet
  <2>1. PICK i \in Identity :
          /\ Oldest(i)
          /\ \/ UNCHANGED balance
             \/ balance' = [balance EXCEPT ![event[i].player] = event[i].after]
    BY <1>2 DEF ProjectWallet, ProjectedBalance
  <2>2. i \in Pending /\ event[i].player \in Players
    BY <2>1, PendingEvent DEF Oldest
  <2>3. UNCHANGED <<event, form, acked>> /\ Pending' = Pending
    BY <1>2 DEF ProjectWallet, history, Pending
  <2>4. CASE UNCHANGED balance
    BY <1>1, <2>3, <2>4
  <2>5. CASE balance' = [balance EXCEPT ![event[i].player] = event[i].after]
    <3>1. \A p \in Players : Wallet'[p] = Wallet[p]
      <4>1. /\ \A p \in Players : balance'[p] = IF p = event[i].player
                                               THEN event[i].after ELSE balance[p]
            /\ Pending = {i} /\ event[i].player = i[1]
        BY <2>2, <2>5, PendingEvent DEF IInv, TypeOK
      <4>. QED BY <2>3, <4>1 DEF Wallet
    <3>2. Wallet' = Wallet
      BY <3>1 DEF Wallet
    <3>. QED BY <2>3, <3>2 DEF Promise!vars
  <2>. QED BY <2>1, <2>4, <2>5
<1>3. CASE MarkProjected
  <2>1. PICK i \in Identity : Oldest(i) /\ form' = [form EXCEPT ![i] = "project"]
    BY <1>3 DEF MarkProjected
  <2>2. i \in Pending /\ Pending = {i} /\ event[i].player \in Players
    BY <2>1, PendingEvent DEF Oldest
  <2>3. UNCHANGED <<balance, event, acked>> /\ pc = "mark"
    BY <1>3 DEF MarkProjected, history
  <2>4. balance[event[i].player] = event[i].after
    BY <2>2, <2>3 DEF IInv, StepSound, MovedWhenRecorded
  <2>5. Wallet = balance
    BY <2>2, <2>4, WalletPending DEF IInv, TypeOK
  <2>6. Pending' = {}
    BY <2>1, <2>2 DEF Pending, IInv, TypeOK
  <2>7. Wallet' = balance'
    BY <2>6 DEF Wallet, IInv, TypeOK
  <2>. QED BY <2>3, <2>5, <2>7 DEF Promise!vars
<1>4. CASE CompactPublish
  <2>1. UNCHANGED <<balance, event, acked>> /\ pc = "publish" /\ pc' = "answer"
    BY <1>4 DEF CompactPublish, history
  <2>2. Pending = {} /\ Pending' = {}
    BY <2>1 DEF IInv, StepSound
  <2>. QED BY <2>1, <2>2 DEF Wallet, Promise!vars
<1>5. CASE CommitAction
  <2> DEFINE i == <<req.player, req.key>>
  <2>1. /\ UNCHANGED <<balance, acked>> /\ pc = "answer"
        /\ req.kind = "once" /\ event[i] = None
        /\ event' = [event EXCEPT ![i] = NewEvent(req.key)]
        /\ form' = [form EXCEPT ![i] = "commit"]
    BY <1>5 DEF CommitAction, MayCommit, NewAction, Committed, history
  <2>2. req \in Request /\ Pending = {}
    BY <2>1 DEF IInv, StepSound
  <2>3. req.key \in Keys /\ req.player \in Players /\ i \in Identity
    BY <2>1, <2>2 DEF Request, Identity
  <2>4. /\ event'[i] = NewEvent(req.key) /\ i \in Pending'
    BY <2>1, <2>3 DEF Pending, IInv, TypeOK
  <2>5. /\ event'[i] \in Event
        /\ <<event'[i].player, event'[i].key>> = i
        /\ event'[i].before = balance[event'[i].player]
        /\ event'[i].after = event'[i].before + event'[i].amount
        /\ event'[i].player = req.player
    BY <2>2, <2>3, <2>4, NewEventType DEF IInv
  <2>6. event'[i].after >= 0
    BY <2>3, <2>4, <2>5, NoneAssumption DEF NoneAssumption, IInv, EventsSound
  <2>7. Wallet = balance
    BY <2>2, WalletQuiet DEF IInv
  <2>8. Pending' = {i} /\ i[1] = event'[i].player
    BY <2>1, <2>2, <2>3, <2>5 DEF Pending, IInv, TypeOK
  <2>9. Wallet' = [balance EXCEPT ![event'[i].player] = event'[i].after]
    <3> DEFINE q == event'[i].player
               a == event'[i].after
    <3>1. Wallet' = [p \in Players |-> IF p = q THEN a ELSE balance[p]]
      <4> HIDE DEF i
      <4>. QED BY <2>1, <2>8 DEF Wallet
    <3>2. q \in Players
      BY <2>3, <2>5
    <3>3. [balance EXCEPT ![q] = a] = [p \in Players |-> IF p = q THEN a ELSE balance[p]]
      <4> HIDE DEF q, a
      <4>. QED BY <3>2 DEF IInv, TypeOK
    <3>. QED BY <3>1, <3>3
  <2>10. event' = [event EXCEPT ![i] = event'[i]]
    BY <2>1, <2>4
  <2>11. Promise!Commit(i)
    <3> HIDE DEF i
    <3>. QED BY <2>1, <2>5, <2>6, <2>7, <2>9, <2>10
         DEF Promise!Commit, Promise!Event, Event
  <2>. QED BY <2>3, <2>11 DEF Promise!Next, Promise!Identity, Identity
<1>6. CASE AnswerEvent
  <2> DEFINE i == <<req.player, req.key>>
  <2>1. /\ UNCHANGED <<balance, event, form>> /\ pc = "answer"
        /\ req.kind \in {"once", "find"} /\ event[i] # None
        /\ acked' = acked \cup {event[i]}
    BY <1>6 DEF AnswerEvent, Committed, durable
  <2>2. i \in Identity
    BY <2>1 DEF IInv, StepSound, Request, Identity
  <2>3. Promise!Answer(i)
    BY <2>1 DEF Promise!Answer, Wallet, Pending
  <2>. QED BY <2>2, <2>3 DEF Promise!Next, Promise!Identity, Identity
<1>7. CASE PlainSave
  <2>1. /\ UNCHANGED <<event, form, acked>> /\ pc = "answer" /\ pc' = "plainRow"
        /\ req.kind = "plain" /\ balance[req.player] + req.amount >= 0
        /\ balance' = [balance EXCEPT ![req.player] = @ + req.amount]
    BY <1>7 DEF PlainSave, EnoughFunds, history
  <2>2. /\ req \in Request /\ Pending = {} /\ Pending' = {}
    BY <2>1 DEF IInv, StepSound
  <2>3. Wallet = balance /\ Wallet' = balance'
    BY <2>2 DEF Wallet, IInv, TypeOK
  <2>4. req.player \in Players /\ req.amount \in Amounts
    BY <2>1, <2>2 DEF Request
  <2>5. Promise!Move(req.player, req.amount)
    BY <2>1, <2>3 DEF Promise!Move
  <2>. QED BY <2>4, <2>5 DEF Promise!Next
<1>8. CASE \/ \E r \in Request : Start(r)
           \/ ProjectRow \/ Drained \/ CompactWrite \/ Refuse \/ PlainRow
           \/ Crash \/ WriteFails \/ TearJournal
  <2>1. UNCHANGED <<balance, event, form, acked>>
    BY <1>8 DEF Start, ProjectRow, Drained, CompactWrite, Refuse, PlainRow,
                Crash, WriteFails, TearJournal, Die, durable, history
  <2>. QED BY <1>1, <2>1
<1>9. CASE UNCHANGED vars
  BY <1>1, <1>9 DEF vars
<1>. QED BY <1>2, <1>3, <1>4, <1>5, <1>6, <1>7, <1>8, <1>9 DEF Next, Step

(* The JSON provider implements the abstract exactly-once ledger.            *)
THEOREM Refinement == Spec => ImplementsPromise
BY InitRefines, StepRefines, Invariance, PTL DEF Spec, ImplementsPromise, Promise!Spec

-----------------------------------------------------------------------------
(***************************************************************************)
(* Blackjack: the requests of one player on the table, with the ledger's    *)
(* keyed movement as the step ApplyOnce of its model.                       *)
(***************************************************************************)
CONSTANTS Workers, Wager, OpeningBalance, InsuranceAmounts, RuleSets, Deals, Halves, Results,
          MaxRounds, MaxIds
VARIABLES doc, rows, wallet, claims, work, ids, contested, reopened

B == INSTANCE Blackjack WITH Opening <- OpeningBalance

(* What holds of every round the table or a marker shows, of a hand in it, and *)
(* of a round in the player's turn whether or not a hand is left to play.     *)
HandFits(x, h, n) ==
    /\ h.id <= n /\ h.bet >= Wager
    /\ h.cards = "natural" /\ h.outcome # None => h.payout_due > 0 \/ Wager = 1
    /\ h.outcome = "even_money" => x.even_money
    /\ x.status = "player_turn" => ~h.credited
HandIds(x) == {x.hands[i].id : i \in DOMAIN x.hands}
OwnIds(x) == \A i, j \in DOMAIN x.hands : i # j => x.hands[i].id # x.hands[j].id
Sorted(x, n) ==
    /\ x \in B!Rounds /\ x.hands # <<>> /\ x.id <= n
    /\ \A i \in DOMAIN x.hands : HandFits(x, x.hands[i], n)
    /\ OwnIds(x)
    /\ x.status # "player_turn" /\ x.hands[1].cards = "natural" => x.hands[1].outcome # None
    /\ x.status = "player_turn" => ~x.even_money
RoundOk(x, n) == Sorted(x, n) /\ (x.status = "player_turn" => B!Active(x) # {})

(* What a move makes of a round in the player's turn.                         *)
MovedFrom(x, y, n) ==
    /\ RoundOk(y, n) /\ y.id = x.id /\ ~y.even_money /\ y.status # "settled"
    /\ \A i \in DOMAIN y.hands : ~y.hands[i].credited
    /\ HandIds(x) \subseteq HandIds(y)

LEMMA LeastIsOne ==
  ASSUME NEW S, S \subseteq Nat, S # {}
  PROVE  B!First(S) \in S /\ \A j \in S : B!First(S) <= j
<1>1. \E r \in S : \A q \in S : r <= q
  <2> DEFINE Less == {p \in Nat \X Nat : p[1] < p[2]}
  <2>1. IsWellFoundedOn(Less, Nat)
    <3>1. Less = OpToRel(<, Nat)
      BY DEF OpToRel
    <3> QED BY <3>1, NatLessThanWellFounded
  <2>2. PICK r \in S : \A q \in S : <<q, r>> \notin Less
    BY <2>1, WFMin
  <2>3. ASSUME NEW q \in S PROVE r <= q
    <3>1. <<q, r>>[1] = q /\ <<q, r>>[2] = r /\ <<q, r>> \in Nat \X Nat
      OBVIOUS
    <3>2. ~(q < r)
      BY <2>2, <3>1
    <3> QED BY <3>2
  <2> QED BY <2>3
<1> QED BY <1>1 DEF B!First

LEMMA SortedParts ==
  ASSUME NEW x, NEW n, Sorted(x, n)
  PROVE  /\ x.id \in B!Ids /\ x.status \in {"player_turn", "settled_pending_credit", "settled"}
         /\ x.ace \in BOOLEAN /\ x.even_money \in BOOLEAN
         /\ x.insurance \in InsuranceAmounts \cup {0}
         /\ x.hands \in Seq(B!Hands) /\ Len(x.hands) \in Nat \ {0} /\ DOMAIN x.hands = 1..Len(x.hands)
         /\ 1 \in DOMAIN x.hands
         /\ DOMAIN x = {"id", "status", "ace", "even_money", "insurance", "hands"}
         /\ \A i \in DOMAIN x.hands : x.hands[i] \in B!Hands
<1>1. x \in B!Rounds /\ x.hands # <<>>
  BY DEF Sorted
<1>2. /\ x.id \in B!Ids /\ x.status \in {"player_turn", "settled_pending_credit", "settled"}
      /\ x.ace \in BOOLEAN /\ x.even_money \in BOOLEAN
      /\ x.insurance \in InsuranceAmounts \cup {0} /\ x.hands \in Seq(B!Hands)
      /\ DOMAIN x = {"id", "status", "ace", "even_money", "insurance", "hands"}
  BY <1>1 DEF B!Rounds
<1>3. Len(x.hands) \in Nat \ {0} /\ DOMAIN x.hands = 1..Len(x.hands)
  BY <1>1, <1>2
<1> QED BY <1>2, <1>3

(* A round whose hands are replaced, and what else of it changes.             *)
LEMMA Redone ==
  ASSUME NEW x \in B!Rounds, NEW hands \in Seq(B!Hands),
         NEW status \in {"player_turn", "settled_pending_credit", "settled"}, NEW even \in BOOLEAN
  PROVE  LET y == [x EXCEPT !.hands = hands, !.status = status, !.even_money = even]
         IN  /\ y \in B!Rounds /\ y.id = x.id /\ y.ace = x.ace /\ y.insurance = x.insurance
             /\ y.hands = hands /\ y.status = status /\ y.even_money = even
  BY DEF B!Rounds

(* What deciding a hand leaves of it.                                         *)
DecidedAs(d, h, o, due) ==
    /\ d \in B!Hands /\ d.id = h.id /\ d.bet = h.bet /\ d.cards = h.cards
    /\ ~d.active /\ d.outcome = o /\ d.payout_due = due /\ (d.credited <=> h.credited)

LEMMA DecidedHand ==
  ASSUME NEW h \in B!Hands, NEW o \in B!Outcomes, NEW due \in Nat, NEW d, d = B!Decided(h, o, due)
  PROVE  /\ d \in B!Hands /\ d.id = h.id /\ d.bet = h.bet /\ d.cards = h.cards
         /\ ~d.active /\ d.outcome = o /\ d.payout_due = due /\ (d.credited <=> h.credited)
  BY DEF B!Decided, B!Hands

LEMMA DecidedIsAs ==
  ASSUME NEW h, NEW o, NEW due, h \in B!Hands, o \in B!Outcomes, due \in Nat
  PROVE  DecidedAs(B!Decided(h, o, due), h, o, due)
BY DecidedHand DEF DecidedAs

(* A hand of a round in the player's turn.                                    *)
Playable(h, n) ==
    /\ h \in B!Hands /\ h.id <= n /\ h.bet >= Wager /\ ~h.credited /\ h.outcome # "even_money"
    /\ h.cards = "natural" /\ h.outcome # None => h.payout_due > 0 \/ Wager = 1

Rehand(x, hands) == [x EXCEPT !.hands = hands]
PlayableAll(hands, k) ==
    /\ hands \in Seq(B!Hands) /\ hands # <<>>
    /\ \A i \in DOMAIN hands : Playable(hands[i], k)
    /\ \A i, j \in DOMAIN hands : i # j => hands[i].id # hands[j].id

LEMMA CurrentIsOne ==
  ASSUME NEW x, NEW n, Sorted(x, n), B!Active(x) # {}
  PROVE  /\ B!Current(x) \in DOMAIN x.hands /\ x.hands[B!Current(x)].active
         /\ \A j \in B!Active(x) : B!Current(x) <= j
<1>1. B!Active(x) \subseteq Nat
  BY SortedParts DEF B!Active
<1>2. B!First(B!Active(x)) \in B!Active(x) /\ \A j \in B!Active(x) : B!First(B!Active(x)) <= j
  BY <1>1, LeastIsOne
<1> QED BY <1>2 DEF B!Active, B!Current

LEMMA PlayableHands ==
  ASSUME NEW x, NEW n, Sorted(x, n), x.status = "player_turn", NEW i \in DOMAIN x.hands
  PROVE  Playable(x.hands[i], n)
<1>1. x.hands[i] \in B!Hands
  BY SortedParts
<1>2. HandFits(x, x.hands[i], n) /\ ~x.even_money
  BY DEF Sorted
<1> QED BY <1>1, <1>2 DEF Playable, HandFits

(* A round in the player's turn with other hands of different names.          *)
LEMMA Rehanded ==
  ASSUME NEW x, NEW n, NEW k, NEW hands, NEW y, Sorted(x, n), x.status = "player_turn",
         n \in Nat, k \in Nat, n <= k,
         PlayableAll(hands, k), y = Rehand(x, hands)
  PROVE  /\ Sorted(y, k) /\ y.status = "player_turn" /\ y.id = x.id /\ y.hands = hands
         /\ y.insurance = x.insurance /\ y.ace = x.ace /\ ~y.even_money
<1>1. x \in B!Rounds /\ x.id <= n /\ x.id \in Nat /\ ~x.even_money
  BY SortedParts DEF Sorted, B!Ids
<1>2. /\ y \in B!Rounds /\ y.id = x.id /\ y.ace = x.ace /\ y.insurance = x.insurance
      /\ y.hands = hands /\ y.status = "player_turn" /\ ~y.even_money
  BY <1>1 DEF B!Rounds, PlayableAll, Rehand
<1>3. y.id <= k
  BY <1>1, <1>2
<1>4. \A i \in DOMAIN y.hands : HandFits(y, y.hands[i], k)
  BY <1>2 DEF Playable, PlayableAll, HandFits
<1>5. OwnIds(y) /\ y.hands # <<>>
  BY <1>2 DEF OwnIds, PlayableAll
<1>6. Sorted(y, k)
  BY <1>2, <1>3, <1>4, <1>5 DEF Sorted
<1> QED BY <1>2, <1>6

LEMMA Played ==
  ASSUME NEW x, NEW n \in Nat, Sorted(x, n), x.status = "player_turn", B!Active(x) # {},
         NEW h, Playable(h, n), h.id = x.hands[B!Current(x)].id
  PROVE  LET y == B!Play(x, h)
         IN  /\ Sorted(y, n) /\ y.status = "player_turn" /\ y.id = x.id
             /\ HandIds(y) = HandIds(x) /\ (h.active => B!Active(y) # {})
<1> DEFINE c == B!Current(x)
           hands == [x.hands EXCEPT ![c] = h]
           y == B!Play(x, h)
<1>1. c \in DOMAIN x.hands
  BY CurrentIsOne
<1>2. x.hands \in Seq(B!Hands) /\ h \in B!Hands
  BY SortedParts DEF Playable
<1>3. /\ DOMAIN hands = DOMAIN x.hands /\ hands[c] = h
      /\ \A i \in DOMAIN x.hands : i # c => hands[i] = x.hands[i]
  BY <1>1
<1>4. hands \in Seq(B!Hands)
  BY <1>2, <1>1
<1>5. hands # <<>>
  BY <1>1, <1>3
<1>6. y = Rehand(x, hands)
  BY SortedParts DEF B!Play, Rehand
<1> HIDE DEF hands, y, c
<1>7. \A i \in DOMAIN hands : hands[i].id = x.hands[i].id
  BY <1>3 DEF c
<1>8. \A i \in DOMAIN hands : Playable(hands[i], n)
  BY <1>3, PlayableHands
<1>9. \A i, j \in DOMAIN hands : i # j => hands[i].id # hands[j].id
  BY <1>3, <1>7 DEF Sorted, OwnIds
<1>10. /\ Sorted(y, n) /\ y.status = "player_turn" /\ y.id = x.id /\ y.hands = hands
  <2>1. n <= n
    OBVIOUS
  <2>2. PlayableAll(hands, n)
    BY <1>4, <1>5, <1>8, <1>9 DEF PlayableAll
  <2> QED BY <2>1, <2>2, <1>6, Rehanded
<1>11. HandIds(y) = HandIds(x)
  BY <1>3, <1>7, <1>10 DEF HandIds
<1>12. h.active => c \in B!Active(y)
  BY <1>1, <1>3, <1>10 DEF B!Active
<1> QED BY <1>10, <1>11, <1>12 DEF y

(* The hand that is compared with the dealer's.                               *)
Comparable(rules, h, result, n) ==
    /\ rules \in RuleSets /\ result \in Results /\ Playable(h, n)
    /\ result = "loss" => h.cards # "natural"

LEMMA ComparedHand ==
  ASSUME NEW rules, NEW n, NEW h, NEW result, NEW d, B!TableAssumption, B!NoneAssumption,
         Comparable(rules, h, result, n), d = B!Compared(rules, h, result)
  PROVE  Playable(d, n) /\ d.id = h.id /\ ~d.active /\ d.outcome # None
<1>   /\ rules \in RuleSets /\ result \in Results /\ Playable(h, n)
      /\ result = "loss" => h.cards # "natural"
  BY DEF Comparable
<1>1. h \in B!Hands /\ h.bet \in Nat /\ h.bet >= Wager /\ Wager \in Nat \ {0} /\ h.bet > 0
  BY DEF Playable, B!Hands, B!TableAssumption
<1>2. result \in {"win", "push", "loss"}
  BY DEF B!TableAssumption
<1>3. None \notin B!Outcomes
  BY DEF B!NoneAssumption
<1>4. CASE h.outcome # None
  <2>1. d = [h EXCEPT !.active = FALSE]
    BY <1>4 DEF B!Compared
  <2>2. /\ d \in B!Hands /\ d.id = h.id /\ d.bet = h.bet /\ d.cards = h.cards
        /\ ~d.active /\ d.outcome = h.outcome /\ d.payout_due = h.payout_due
        /\ d.credited = h.credited
    BY <1>1, <2>1 DEF B!Hands
  <2> QED BY <2>2, <1>4 DEF Playable
<1>5. CASE h.outcome = None
  <2>1. \E o \in B!Outcomes \ {"even_money"}, due \in Nat :
           d = B!Decided(h, o, due) /\ (h.cards = "natural" => due > 0)
    <3>1. CASE h.cards = "natural" /\ h.split_from = None
      <4>1. d = B!Decided(h, "blackjack", B!NaturalReturn(rules, h.bet))
        BY <1>5, <3>1 DEF B!Compared
      <4>2. B!NaturalReturn(rules, h.bet) \in Nat /\ B!NaturalReturn(rules, h.bet) > 0
        <5>1. rules.blackjack_payout \in Nat
          BY DEF B!TableAssumption
        <5>2. h.bet * rules.blackjack_payout \in Nat
          BY <1>1, <5>1
        <5>3. (h.bet * rules.blackjack_payout) \div 100 \in Nat
          BY <5>2
        <5> QED BY <1>1, <5>3 DEF B!NaturalReturn
      <4> QED BY <4>1, <4>2 DEF B!Outcomes
    <3>2. CASE ~(h.cards = "natural" /\ h.split_from = None) /\ result = "win"
      <4>1. d = B!Decided(h, "win", 2 * h.bet)
        BY <1>5, <3>2 DEF B!Compared
      <4> QED BY <4>1, <1>1 DEF B!Outcomes
    <3>3. CASE ~(h.cards = "natural" /\ h.split_from = None) /\ result = "push"
      <4>1. d = B!Decided(h, "push", h.bet)
        BY <1>5, <3>3 DEF B!Compared
      <4> QED BY <4>1, <1>1 DEF B!Outcomes
    <3>4. CASE ~(h.cards = "natural" /\ h.split_from = None) /\ result = "loss"
      <4>1. d = B!Decided(h, "loss", 0)
        BY <1>5, <3>4 DEF B!Compared
      <4> QED BY <4>1, <3>4 DEF B!Outcomes
    <3> QED BY <1>2, <3>1, <3>2, <3>3, <3>4
  <2>2. PICK o \in B!Outcomes \ {"even_money"} : \E due \in Nat :
           d = B!Decided(h, o, due) /\ (h.cards = "natural" => due > 0)
    BY <2>1
  <2>3. PICK due \in Nat : d = B!Decided(h, o, due) /\ (h.cards = "natural" => due > 0)
    BY <2>2
  <2>4. /\ d \in B!Hands /\ d.id = h.id /\ d.bet = h.bet /\ d.cards = h.cards
        /\ ~d.active /\ d.outcome = o /\ d.payout_due = due /\ (d.credited <=> h.credited)
    <3>1. o \in B!Outcomes
      BY <2>2
    <3>2. h \in B!Hands /\ d = B!Decided(h, o, due)
      BY <1>1, <2>3
    <3>3. DecidedAs(B!Decided(h, o, due), h, o, due)
      BY <3>1, <3>2, DecidedIsAs
    <3>4. DecidedAs(d, h, o, due)
      BY <3>2, <3>3
    <3> QED BY <3>4 DEF DecidedAs
  <2>5. /\ d \in B!Hands /\ d.id <= n /\ d.bet >= Wager /\ ~d.credited /\ d.outcome # "even_money"
        /\ d.outcome # None
    BY <1>1, <1>3, <2>2, <2>4 DEF Playable
  <2>6. d.cards = "natural" => d.payout_due > 0
    BY <2>3, <2>4
  <2> QED BY <2>4, <2>5, <2>6 DEF Playable
<1> QED BY <1>4, <1>5

(* A round whose turn is over goes to the dealer; one with a hand to play     *)
(* stays as it is.                                                            *)
LEMMA Advanced ==
  ASSUME B!TableAssumption, B!NoneAssumption, NEW rules \in RuleSets, NEW n \in Nat,
         NEW z, Sorted(z, n), z.status = "player_turn", NEW y \in B!Advance(rules, z)
  PROVE  MovedFrom(z, y, n) /\ HandIds(y) = HandIds(z)
<1>0. \A i \in DOMAIN z.hands : Playable(z.hands[i], n)
  BY PlayableHands
<1>0a. ~z.even_money
  BY DEF Sorted
<1>1. CASE B!Active(z) # {}
  <2>1. y = z
    BY <1>1 DEF B!Advance
  <2> QED BY <2>1, <1>0, <1>0a, <1>1 DEF MovedFrom, RoundOk, Playable
<1>2. CASE B!Active(z) = {}
  <2>1. y \in B!DealerPlay(rules, z)
    BY <1>2 DEF B!Advance
  <2>2. PICK r \in [DOMAIN z.hands -> Results] :
          /\ \A i \in DOMAIN z.hands : r[i] = "loss" => z.hands[i].cards # "natural"
          /\ y = [z EXCEPT !.status = "settled_pending_credit",
                           !.hands = [i \in DOMAIN z.hands |-> B!Compared(rules, z.hands[i], r[i])]]
    BY <2>1 DEF B!DealerPlay
  <2> DEFINE hands == [i \in DOMAIN z.hands |-> B!Compared(rules, z.hands[i], r[i])]
  <2>3. \A i \in DOMAIN z.hands :
           /\ Playable(hands[i], n) /\ hands[i].id = z.hands[i].id /\ hands[i].outcome # None
    <3>1. TAKE i \in DOMAIN z.hands
    <3>2. r[i] \in Results /\ (r[i] = "loss" => z.hands[i].cards # "natural") /\ Playable(z.hands[i], n)
      BY <2>2, <1>0
    <3>3. hands[i] = B!Compared(rules, z.hands[i], r[i])
      OBVIOUS
    <3>4. ASSUME NEW h, NEW q, NEW d, h = z.hands[i], q = r[i], d = B!Compared(rules, h, q)
          PROVE  Playable(d, n) /\ d.id = h.id /\ d.outcome # None
      <4>1. q \in Results /\ Playable(h, n) /\ (q = "loss" => h.cards # "natural")
        BY <3>2, <3>4
      <4>2. Comparable(rules, h, q, n) /\ d = B!Compared(rules, h, q)
        BY <3>4, <4>1 DEF Comparable
      <4> QED BY <4>2, ComparedHand
    <3> HIDE DEF hands
    <3> QED BY <3>3, <3>4
  <2>4. /\ z.hands \in Seq(B!Hands) /\ Len(z.hands) \in Nat \ {0} /\ DOMAIN z.hands = 1..Len(z.hands)
        /\ 1 \in DOMAIN z.hands /\ z.even_money \in BOOLEAN /\ z \in B!Rounds /\ z.id <= n
    BY SortedParts DEF Sorted
  <2>5. hands \in Seq(B!Hands) /\ DOMAIN hands = DOMAIN z.hands /\ hands # <<>>
    <3>1. DOMAIN hands = 1..Len(z.hands)
      BY <2>4
    <3>2. hands = [i \in 1..Len(z.hands) |-> hands[i]]
      BY <2>4
    <3> HIDE DEF hands
    <3>3. \A i \in 1..Len(z.hands) : hands[i] \in B!Hands
      BY <2>3, <2>4 DEF Playable
    <3>4. hands \in Seq(B!Hands)
      <4> DEFINE e(i) == hands[i]
      <4>1. \A i \in 1..Len(z.hands) : e(i) \in B!Hands
        BY <3>3
      <4>2. hands = [i \in 1..Len(z.hands) |-> e(i)]
        BY <3>2
      <4> HIDE DEF e
      <4> QED BY <2>4, <4>1, <4>2
    <3> QED BY <2>4, <3>1, <3>4
  <2>6. /\ y \in B!Rounds /\ y.id = z.id /\ y.hands = hands
        /\ y.status = "settled_pending_credit" /\ ~y.even_money
    <3> HIDE DEF hands
    <3> QED BY <2>2, <2>4, <2>5, <1>0a DEF B!Rounds, hands
  <2> HIDE DEF hands
  <2>7. \A i \in DOMAIN y.hands : HandFits(y, y.hands[i], n) /\ ~y.hands[i].credited
    BY <2>3, <2>5, <2>6 DEF Playable, HandFits
  <2>8. OwnIds(y)
    BY <2>3, <2>5, <2>6 DEF OwnIds, Sorted
  <2>9. HandIds(y) = HandIds(z)
    <3>1. DOMAIN y.hands = DOMAIN z.hands /\ \A i \in DOMAIN z.hands : y.hands[i].id = z.hands[i].id
      BY <2>3, <2>5, <2>6
    <3> QED BY <3>1 DEF HandIds
  <2>10. Sorted(y, n)
    BY <2>3, <2>4, <2>5, <2>6, <2>7, <2>8 DEF Sorted
  <2> QED BY <2>6, <2>7, <2>9, <2>10 DEF MovedFrom, RoundOk
<1> QED BY <1>1, <1>2

(* A move that plays the current hand.                                        *)
LEMMA MovedOn ==
  ASSUME NEW rules \in RuleSets, NEW n \in Nat, NEW x, NEW h, NEW y,
         B!TableAssumption, B!NoneAssumption,
         RoundOk(x, n), x.status = "player_turn", Playable(h, n), h.id = x.hands[B!Current(x)].id,
         y \in B!Advance(rules, B!Play(x, h)) \/ (h.active /\ y = B!Play(x, h))
  PROVE  MovedFrom(x, y, n) /\ HandIds(y) = HandIds(x)
<1> DEFINE z == B!Play(x, h)
<1>1. Sorted(x, n) /\ B!Active(x) # {}
  BY DEF RoundOk
<1>2. /\ Sorted(z, n) /\ z.status = "player_turn" /\ z.id = x.id
      /\ HandIds(z) = HandIds(x) /\ (h.active => B!Active(z) # {})
  BY <1>1, Played
<1> HIDE DEF z
<1>3. y \in B!Advance(rules, z)
  <2>1. CASE h.active /\ y = z
    BY <2>1, <1>2 DEF B!Advance
  <2> QED BY <2>1 DEF z
<1>4. MovedFrom(z, y, n) /\ HandIds(y) = HandIds(z)
  BY <1>2, <1>3, Advanced
<1> QED BY <1>2, <1>4 DEF MovedFrom

LEMMA DecidedPlayable ==
  ASSUME NEW n, NEW hand, Playable(hand, n), NEW o \in B!Outcomes \ {"even_money"}, NEW due \in Nat,
         due > 0 \/ Wager = 1 \/ hand.cards # "natural", NEW h, h = B!Decided(hand, o, due)
  PROVE  Playable(h, n) /\ h.id = hand.id
<1>1. o \in B!Outcomes /\ hand \in B!Hands
  BY DEF Playable
<1>2. /\ h \in B!Hands /\ h.id = hand.id /\ h.bet = hand.bet /\ h.cards = hand.cards
      /\ h.outcome = o /\ h.payout_due = due /\ (h.credited <=> hand.credited)
  BY <1>1, DecidedHand
<1> QED BY <1>2 DEF Playable

LEMMA DrawnHand ==
  ASSUME B!NoneAssumption, NEW n, NEW hand, Playable(hand, n), NEW h \in B!Drawn(hand)
  PROVE  Playable(h, n) /\ h.id = hand.id /\ h.bet = hand.bet
<1> DEFINE m == [hand EXCEPT !.cards = "more"]
<1>1. /\ m \in B!Hands /\ m.id = hand.id /\ m.bet = hand.bet /\ m.cards = "more"
      /\ m.outcome = hand.outcome /\ (m.credited <=> hand.credited)
  BY DEF Playable, B!Hands
<1> HIDE DEF m
<1>2. Playable(m, n)
  BY <1>1 DEF Playable
<1>3. h = m \/ h = B!Decided(m, "bust", 0)
  BY DEF B!Drawn, m
<1>4. CASE h = B!Decided(m, "bust", 0)
  <2>1. "bust" \in B!Outcomes /\ 0 \in Nat
    BY DEF B!Outcomes
  <2>2. /\ h \in B!Hands /\ h.id = m.id /\ h.bet = m.bet /\ h.cards = m.cards
        /\ h.outcome = "bust" /\ (h.credited <=> m.credited)
    BY <1>1, <1>4, <2>1, DecidedHand
  <2> QED BY <2>2, <1>1 DEF Playable
<1> QED BY <1>1, <1>2, <1>3, <1>4

LEMMA SurrenderedHand ==
  ASSUME B!TableAssumption, NEW n, NEW hand, Playable(hand, n),
         NEW h, h = B!Decided(hand, "surrender", hand.bet \div 2)
  PROVE  Playable(h, n) /\ h.id = hand.id
<1>1. hand \in B!Hands /\ hand.bet \in Nat /\ hand.bet >= Wager /\ Wager \in Nat \ {0}
  BY DEF Playable, B!Hands, B!TableAssumption
<1>2. PICK p \in Nat : p = hand.bet \div 2 /\ (p > 0 \/ Wager = 1)
  BY <1>1
<1>3. "surrender" \in B!Outcomes \ {"even_money"} /\ h = B!Decided(hand, "surrender", p)
  BY <1>2 DEF B!Outcomes
<1> QED BY <1>2, <1>3, DecidedPlayable

(* The moves without cost.                                                    *)
LEMMA Moves ==
  ASSUME NEW rules \in RuleSets, NEW n \in Nat, NEW x, NEW y,
         B!TableAssumption, B!NoneAssumption, RoundOk(x, n), x.status = "player_turn",
         y \in B!Hit(rules, x) \/ y \in B!Stand(rules, x) \/ y \in B!Surrender(rules, x)
  PROVE  MovedFrom(x, y, n) /\ HandIds(y) = HandIds(x)
<1> DEFINE hand == x.hands[B!Current(x)]
<1>1. Sorted(x, n) /\ B!Active(x) # {}
  BY DEF RoundOk
<1>2. B!Current(x) \in DOMAIN x.hands
  BY <1>1, CurrentIsOne
<1>3. Playable(hand, n) /\ hand \in B!Hands
  BY <1>1, <1>2, PlayableHands DEF Playable
<1>4. CASE y \in B!Hit(rules, x)
  <2>1. PICK h \in B!Drawn(hand) :
           y \in (IF h.active THEN {B!Play(x, h)} ELSE B!Advance(rules, B!Play(x, h)))
    BY <1>4 DEF B!Hit
  <2>2. Playable(h, n) /\ h.id = hand.id
    BY <1>3, <2>1, DrawnHand
  <2>3. y \in B!Advance(rules, B!Play(x, h)) \/ (h.active /\ y = B!Play(x, h))
    BY <2>1
  <2> QED BY <2>2, <2>3, MovedOn
<1>5. CASE y \in B!Stand(rules, x)
  <2> DEFINE h == [hand EXCEPT !.active = FALSE]
  <2>1. y \in B!Advance(rules, B!Play(x, h))
    BY <1>5 DEF B!Stand
  <2>2. /\ h \in B!Hands /\ h.id = hand.id /\ h.bet = hand.bet /\ h.cards = hand.cards
        /\ h.outcome = hand.outcome /\ h.payout_due = hand.payout_due
        /\ (h.credited <=> hand.credited)
    BY <1>3 DEF B!Hands
  <2> HIDE DEF h
  <2>3. Playable(h, n)
    BY <1>3, <2>2 DEF Playable
  <2> QED BY <2>1, <2>2, <2>3, MovedOn
<1>6. CASE y \in B!Surrender(rules, x)
  <2> DEFINE h == B!Decided(hand, "surrender", hand.bet \div 2)
  <2>1. y \in B!Advance(rules, B!Play(x, h))
    BY <1>6 DEF B!Surrender
  <2>2. Playable(h, n) /\ h.id = hand.id
    BY <1>3, SurrenderedHand
  <2> HIDE DEF h
  <2> QED BY <2>1, <2>2, MovedOn
<1> QED BY <1>4, <1>5, <1>6

LEMMA DoubleMoves ==
  ASSUME NEW rules \in RuleSets, NEW n \in Nat, NEW x, NEW y,
         B!TableAssumption, B!NoneAssumption, RoundOk(x, n), x.status = "player_turn",
         y \in B!DoubleDown(rules, x)
  PROVE  MovedFrom(x, y, n) /\ HandIds(y) = HandIds(x)
<1> DEFINE hand == x.hands[B!Current(x)]
<1>1. Sorted(x, n) /\ B!Active(x) # {}
  BY DEF RoundOk
<1>2. B!Current(x) \in DOMAIN x.hands
  BY <1>1, CurrentIsOne
<1>3. Playable(hand, n) /\ hand \in B!Hands
  BY <1>1, <1>2, PlayableHands DEF Playable
<1>4. PICK d \in B!Drawn(hand) :
         y \in B!Advance(rules, B!Play(x, [d EXCEPT !.bet = 2 * @, !.active = FALSE]))
  BY DEF B!DoubleDown
<1> DEFINE h == [d EXCEPT !.bet = 2 * @, !.active = FALSE]
<1>5. Playable(d, n) /\ d.id = hand.id
  BY <1>3, <1>4, DrawnHand
<1>6. d \in B!Hands /\ d.bet \in Nat /\ d.bet >= Wager /\ Wager \in Nat
  BY <1>5 DEF Playable, B!Hands, B!TableAssumption
<1>7. 2 * d.bet \in Nat /\ 2 * d.bet >= Wager
  BY <1>6
<1>8. /\ h \in B!Hands /\ h.id = d.id /\ h.bet = 2 * d.bet /\ h.cards = d.cards
      /\ h.outcome = d.outcome /\ h.payout_due = d.payout_due /\ (h.credited <=> d.credited)
  BY <1>6, <1>7 DEF B!Hands
<1> HIDE DEF h
<1>9. Playable(h, n)
  BY <1>5, <1>7, <1>8 DEF Playable
<1>10. y \in B!Advance(rules, B!Play(x, h))
  BY <1>4 DEF h
<1> QED BY <1>5, <1>8, <1>9, <1>10, MovedOn

LEMMA HandFields ==
  ASSUME NEW id \in B!Ids, NEW bet \in Nat, NEW cards \in B!TwoCards, NEW from \in B!Ids \cup {None},
         NEW on \in BOOLEAN
  PROVE  [id |-> id, bet |-> bet, cards |-> cards, split_from |-> from, active |-> on,
          outcome |-> None, payout_due |-> 0, credited |-> FALSE] \in B!Hands
<1>1. cards \in B!TwoCards \cup {"more"}
  OBVIOUS
<1>2. None \in B!Outcomes \cup {None} /\ 0 \in Nat /\ FALSE \in BOOLEAN
  OBVIOUS
<1> HIDE DEF B!TwoCards, B!Outcomes
<1> QED BY <1>1, <1>2 DEF B!Hands

(* The opening hand of a round, and the halves of a split hand.               *)
LEMMA NewHand ==
  ASSUME B!NoneAssumption, NEW id \in B!Ids, NEW bet \in Nat, NEW cards \in B!TwoCards, NEW from \in B!Ids \cup {None},
         NEW n \in Nat, NEW on \in BOOLEAN, NEW h, bet >= Wager, id <= n,
         h = [id |-> id, bet |-> bet, cards |-> cards, split_from |-> from, active |-> on,
              outcome |-> None, payout_due |-> 0, credited |-> FALSE]
  PROVE  Playable(h, n) /\ h.id = id /\ h.outcome = None /\ (h.active <=> on) /\ h.cards = cards
<1>2. h \in B!Hands
  BY HandFields
<1>3. /\ h.id = id /\ h.bet = bet /\ h.outcome = None /\ (h.active <=> on) /\ ~h.credited
      /\ h.cards = cards
  OBVIOUS
<1>4. None # "even_money"
  BY DEF B!NoneAssumption, B!Outcomes
<1> QED BY <1>2, <1>3, <1>4 DEF Playable

(* The round a deal opens.                                                    *)
LEMMA DealtRound ==
  ASSUME NEW rules \in RuleSets, NEW id \in B!Ids, NEW y \in B!Dealt(rules, id),
         B!TableAssumption, B!NoneAssumption
  PROVE  /\ RoundOk(y, id) /\ y.id = id /\ ~y.even_money /\ y.status # "settled"
         /\ \A i \in DOMAIN y.hands : ~y.hands[i].credited
         /\ HandIds(y) = {id}
<1>1. PICK d \in Deals :
         y = B!AutoBlackjacks(rules,
               [id |-> id, status |-> "player_turn", ace |-> d.ace, even_money |-> FALSE,
                insurance |-> 0, hands |-> <<B!Hand(id, Wager, d.cards, None)>>], d.dealer_blackjack)
  BY DEF B!Dealt
<1> DEFINE h == B!Hand(id, Wager, d.cards, None)
           x == [id |-> id, status |-> "player_turn", ace |-> d.ace, even_money |-> FALSE,
                 insurance |-> 0, hands |-> <<h>>]
<1>2. /\ d.cards \in B!TwoCards /\ d.ace \in BOOLEAN /\ d.dealer_blackjack \in BOOLEAN
      /\ Wager \in Nat \ {0} /\ Wager > 0 /\ Wager >= Wager /\ id \in Nat /\ id <= id
  BY DEF B!TableAssumption, B!Ids
<1>3. Playable(h, id) /\ h.id = id /\ h.outcome = None /\ h.active /\ h.cards = d.cards /\ h.bet = Wager
  <2>1. /\ h = [id |-> id, bet |-> Wager, cards |-> d.cards, split_from |-> None, active |-> TRUE,
                outcome |-> None, payout_due |-> 0, credited |-> FALSE]
        /\ h.bet = Wager
    BY DEF B!Hand
  <2> HIDE DEF h
  <2>2. PICK from \in B!Ids \cup {None}, on \in BOOLEAN : from = None /\ on = TRUE
    OBVIOUS
  <2>3. h = [id |-> id, bet |-> Wager, cards |-> d.cards, split_from |-> from, active |-> on,
             outcome |-> None, payout_due |-> 0, credited |-> FALSE]
    BY <2>1, <2>2
  <2>4. Playable(h, id) /\ h.id = id /\ h.outcome = None /\ (h.active <=> on) /\ h.cards = d.cards
    BY <1>2, <2>3, NewHand
  <2> QED BY <2>1, <2>2, <2>4
<1>4. /\ x.id = id /\ x.status = "player_turn" /\ x.ace = d.ace /\ ~x.even_money /\ x.hands = <<h>>
      /\ x.hands[1] = h
  OBVIOUS
<1>5. h \in B!Hands
  BY <1>3 DEF Playable
<1> HIDE DEF h
<1>6. x \in B!Rounds
  BY <1>2, <1>5 DEF B!Rounds
<1> HIDE DEF x
<1>7. y = x \/ \E o \in B!Outcomes \ {"even_money"}, due \in Nat :
                /\ y = [x EXCEPT !.hands = <<B!Decided(h, o, due)>>, !.status = "settled_pending_credit"]
                /\ h.cards = "natural" => due > 0
  <2> DEFINE natural == h.cards = "natural"
             due == IF natural /\ d.dealer_blackjack THEN h.bet
                    ELSE IF natural THEN B!NaturalReturn(rules, h.bet) ELSE 0
             o == IF natural /\ d.dealer_blackjack THEN "push"
                  ELSE IF natural THEN "blackjack" ELSE "dealer_blackjack"
  <2>1. y = B!AutoBlackjacks(rules, x, d.dealer_blackjack)
    BY <1>1 DEF x, h
  <2>2. CASE ~(d.dealer_blackjack \/ (natural /\ ~x.ace))
    BY <1>4, <2>1, <2>2 DEF B!AutoBlackjacks
  <2>3. CASE d.dealer_blackjack \/ (natural /\ ~x.ace)
    <3>1. y = [x EXCEPT !.hands = <<B!Decided(h, o, due)>>, !.status = "settled_pending_credit"]
      <4>1. CASE natural /\ d.dealer_blackjack
        BY <1>4, <2>1, <2>3, <4>1 DEF B!AutoBlackjacks
      <4>2. CASE natural /\ ~d.dealer_blackjack
        BY <1>4, <2>1, <2>3, <4>2 DEF B!AutoBlackjacks
      <4>3. CASE ~natural
        BY <1>4, <2>1, <2>3, <4>3 DEF B!AutoBlackjacks
      <4> QED BY <4>1, <4>2, <4>3
    <3>2. B!NaturalReturn(rules, h.bet) \in Nat /\ B!NaturalReturn(rules, h.bet) > 0
      <4>1. rules.blackjack_payout \in Nat
        BY DEF B!TableAssumption
      <4>2. h.bet * rules.blackjack_payout \in Nat
        BY <1>2, <1>3, <4>1
      <4>3. (h.bet * rules.blackjack_payout) \div 100 \in Nat
        BY <4>2
      <4> QED BY <1>2, <1>3, <4>3 DEF B!NaturalReturn
    <3>3. due \in Nat /\ (natural => due > 0)
      BY <1>2, <1>3, <3>2
    <3>4. o \in B!Outcomes \ {"even_money"}
      BY DEF B!Outcomes
    <3> HIDE DEF due, o
    <3> QED BY <3>1, <3>3, <3>4
  <2> QED BY <2>2, <2>3
<1>8. CASE y = x
  <2>1. B!Active(y) # {}
    BY <1>3, <1>4, <1>8 DEF B!Active
  <2>2. HandIds(y) = {id}
    BY <1>3, <1>4, <1>8 DEF HandIds
  <2>3. \A i \in DOMAIN y.hands : HandFits(y, y.hands[i], id) /\ ~y.hands[i].credited
    BY <1>3, <1>4, <1>8 DEF Playable, HandFits
  <2>4. OwnIds(y) /\ y.hands # <<>>
    BY <1>4, <1>8 DEF OwnIds
  <2>5. Sorted(y, id)
    BY <1>2, <1>4, <1>6, <1>8, <2>3, <2>4 DEF Sorted
  <2> QED BY <1>4, <1>8, <2>1, <2>2, <2>3, <2>5 DEF RoundOk
<1>9. CASE \E o \in B!Outcomes \ {"even_money"}, due \in Nat :
              /\ y = [x EXCEPT !.hands = <<B!Decided(h, o, due)>>, !.status = "settled_pending_credit"]
              /\ h.cards = "natural" => due > 0
  <2>1. PICK o \in B!Outcomes \ {"even_money"}, due \in Nat :
              /\ y = [x EXCEPT !.hands = <<B!Decided(h, o, due)>>, !.status = "settled_pending_credit"]
              /\ h.cards = "natural" => due > 0
    BY <1>9
  <2> DEFINE g == B!Decided(h, o, due)
  <2>2. g.outcome = o /\ g.payout_due = due /\ g.cards = h.cards /\ o # None
    <3>1. h \in B!Hands
      BY <1>5
    <3> QED BY <3>1 DEF B!Decided, B!Hands, B!NoneAssumption
  <2>3. Playable(g, id) /\ g.id = id /\ g \in B!Hands
    <3>1. due > 0 \/ Wager = 1 \/ h.cards # "natural"
      BY <2>1
    <3>2. Playable(g, id) /\ g.id = h.id
      <4>1. ASSUME NEW f, f = B!Decided(h, o, due) PROVE Playable(f, id) /\ f.id = h.id
        BY <1>3, <3>1, <4>1, DecidedPlayable
      <4> QED BY <4>1
    <3> QED BY <1>3, <3>2 DEF Playable
  <2> HIDE DEF g
  <2>4. /\ y \in B!Rounds /\ y.id = id /\ y.hands = <<g>> /\ y.status = "settled_pending_credit"
        /\ ~y.even_money
    <3>1. <<g>> \in Seq(B!Hands) /\ y = [x EXCEPT !.hands = <<g>>, !.status = "settled_pending_credit"]
      BY <2>1, <2>3 DEF g
    <3> QED BY <1>4, <1>6, <3>1 DEF B!Rounds
  <2>5. y.hands[1] = g /\ DOMAIN y.hands = {1} /\ y.hands # <<>>
    BY <2>4
  <2>6. HandIds(y) = {id}
    BY <2>3, <2>5 DEF HandIds
  <2>7. \A i \in DOMAIN y.hands : HandFits(y, y.hands[i], id) /\ ~y.hands[i].credited
    BY <2>3, <2>4, <2>5 DEF Playable, HandFits
  <2>8. OwnIds(y)
    BY <2>5 DEF OwnIds
  <2>9. Sorted(y, id)
    BY <1>2, <2>2, <2>4, <2>5, <2>7, <2>8 DEF Sorted
  <2> QED BY <2>4, <2>6, <2>7, <2>9 DEF RoundOk
<1> QED BY <1>7, <1>8, <1>9

(* Two hands in the place of one.                                             *)
Splice(s, i, a, b) == SubSeq(s, 1, i - 1) \o <<a, b>> \o SubSeq(s, i + 1, Len(s))

(* The hands t of a round whose hand i was replaced by two.                   *)
SplicedAs(t, S, s, i, a, b) ==
    /\ t \in Seq(S) /\ DOMAIN t = 1..(Len(s) + 1)
    /\ t[i] = a /\ t[i + 1] = b
    /\ \A j \in DOMAIN t : j < i => t[j] = s[j]
    /\ \A j \in DOMAIN t : j > i + 1 => t[j] = s[j - 1]

LEMMA Spliced ==
  ASSUME NEW S, NEW s, NEW i, NEW a, NEW b, NEW t,
         s \in Seq(S), i \in DOMAIN s, a \in S, b \in S, t = Splice(s, i, a, b)
  PROVE  /\ t \in Seq(S) /\ DOMAIN t = 1..(Len(s) + 1)
         /\ t[i] = a /\ t[i + 1] = b
         /\ \A j \in DOMAIN t : j < i => t[j] = s[j]
         /\ \A j \in DOMAIN t : j > i + 1 => t[j] = s[j - 1]
<1>0. PICK N \in Nat : N = Len(s)
  OBVIOUS
<1>1. /\ Len(s) = N /\ N \in Nat /\ i \in 1..N /\ i \in Nat /\ i >= 1 /\ i <= N
      /\ \A j \in 1..N : s[j] \in S
  BY <1>0
<1> DEFINE l == SubSeq(s, 1, i - 1)
           m == <<a, b>>
           r == SubSeq(s, i + 1, N)
<1>2. l \in Seq(S) /\ Len(l) = i - 1 /\ \A j \in 1..(i - 1) : l[j] = s[j]
  <2>1. \A j \in 1..(i - 1) : s[j] \in S
    BY <1>1
  <2> QED BY <1>1, <2>1, SubSeqProperties
<1>3. r \in Seq(S) /\ Len(r) = N - i /\ \A j \in 1..(N - i) : r[j] = s[i + j]
  <2>1. (\A j \in (i + 1)..N : s[j] \in S) /\ i + 1 \in Int /\ N \in Int
    BY <1>1
  <2>2. /\ r \in Seq(S) /\ Len(r) = IF i + 1 <= N THEN N - (i + 1) + 1 ELSE 0
        /\ \A j \in 1..(N - (i + 1) + 1) : r[j] = s[(i + 1) + j - 1]
    BY <2>1, SubSeqProperties
  <2>3. N - (i + 1) + 1 = N - i /\ (i + 1 <= N \/ N - i = 0)
    BY <1>1
  <2>4. Len(r) = N - i
    BY <2>2, <2>3
  <2>5. ASSUME NEW j \in 1..(N - i) PROVE r[j] = s[i + j]
    <3>1. (i + 1) + j - 1 = i + j
      BY <1>1
    <3>2. j \in 1..(N - (i + 1) + 1)
      BY <2>3
    <3> HIDE DEF r
    <3> QED BY <2>2, <3>1, <3>2
  <2> HIDE DEF r
  <2> QED BY <2>2, <2>4, <2>5
<1>4. m \in Seq(S) /\ Len(m) = 2 /\ m[1] = a /\ m[2] = b
  OBVIOUS
<1>5. t = (l \o m) \o r
  BY <1>1 DEF Splice
<1> HIDE DEF l, m, r
<1> DEFINE lm == l \o m
<1>6. /\ lm \in Seq(S) /\ Len(lm) = i + 1
      /\ \A j \in 1..(i + 1) : lm[j] = IF j <= i - 1 THEN l[j] ELSE m[j - (i - 1)]
  <2>1. /\ l \o m \in Seq(S) /\ Len(l \o m) = Len(l) + Len(m)
        /\ \A j \in 1..Len(l) + Len(m) : (l \o m)[j] = IF j <= Len(l) THEN l[j] ELSE m[j - Len(l)]
    BY <1>2, <1>4, ConcatProperties
  <2>2. i \in Nat /\ Len(l) + Len(m) = i + 1
    BY <1>1, <1>2, <1>4
  <2> QED BY <1>2, <2>1, <2>2
<1>7. t = lm \o r
  BY <1>5
<1> HIDE DEF lm
<1>8. /\ t \in Seq(S) /\ Len(t) = N + 1
      /\ \A j \in 1..(N + 1) : t[j] = IF j <= i + 1 THEN lm[j] ELSE r[j - (i + 1)]
  <2>1. /\ lm \o r \in Seq(S) /\ Len(lm \o r) = Len(lm) + Len(r)
        /\ \A j \in 1..Len(lm) + Len(r) :
              (lm \o r)[j] = IF j <= Len(lm) THEN lm[j] ELSE r[j - Len(lm)]
    BY <1>3, <1>6, ConcatProperties
  <2>2. i \in Nat /\ Len(lm) + Len(r) = N + 1
    BY <1>1, <1>3, <1>6
  <2> QED BY <1>6, <1>7, <2>1, <2>2
<1>9. DOMAIN t = 1..(N + 1)
  BY <1>1, <1>8
<1>10. t[i] = a /\ t[i + 1] = b
  BY <1>1, <1>4, <1>6, <1>8
<1>11. ASSUME NEW j \in DOMAIN t, j < i PROVE t[j] = s[j]
  BY <1>1, <1>2, <1>6, <1>8, <1>9, <1>11
<1>12. ASSUME NEW j \in DOMAIN t, j > i + 1 PROVE t[j] = s[j - 1]
  <2>1. t[j] = r[j - (i + 1)] /\ j - (i + 1) \in 1..(N - i) /\ i + (j - (i + 1)) = j - 1
    <3>1. j \in 1..(N + 1) /\ ~(j <= i + 1)
      BY <1>1, <1>9, <1>12
    <3>2. t[j] = r[j - (i + 1)]
      BY <1>8, <3>1
    <3>3. j - (i + 1) \in 1..(N - i) /\ i + (j - (i + 1)) = j - 1
      <4>1. j \in Int /\ i \in Int /\ N \in Int /\ j <= N + 1 /\ j > i + 1
        BY <1>1, <3>1
      <4> QED BY <4>1
    <3> QED BY <3>2, <3>3
  <2> QED BY <1>3, <2>1
<1> QED BY <1>1, <1>8, <1>9, <1>10, <1>11, <1>12

LEMMA SplicedIsAs ==
  ASSUME NEW S, NEW s, NEW i, NEW a, NEW b,
         s \in Seq(S), i \in DOMAIN s, a \in S, b \in S
  PROVE  SplicedAs(Splice(s, i, a, b), S, s, i, a, b)
BY Spliced DEF SplicedAs

(* One half of a split hand.                                                  *)
HalfOf(rules, hand, name, c) ==
    LET h == B!Hand(name, hand.bet, c, hand.id)
    IN IF hand.cards = "aces" /\ rules.split_aces_one_card
       THEN [h EXCEPT !.active = FALSE] ELSE h

LEMMA HalfHand ==
  ASSUME B!TableAssumption, B!NoneAssumption, NEW n \in Nat, NEW hand, Playable(hand, n),
         NEW rules, NEW name \in B!Ids, NEW k \in Nat, name <= k, NEW c \in B!TwoCards
  PROVE  Playable(HalfOf(rules, hand, name, c), k) /\ HalfOf(rules, hand, name, c).id = name
<1> DEFINE h == HalfOf(rules, hand, name, c)
<1>1. hand.id \in B!Ids \cup {None} /\ hand.bet \in Nat /\ hand.bet >= Wager
  BY DEF Playable, B!Hands
<1>2. PICK e \in BOOLEAN :
         h = [id |-> name, bet |-> hand.bet, cards |-> c, split_from |-> hand.id, active |-> e,
              outcome |-> None, payout_due |-> 0, credited |-> FALSE]
  <2> DEFINE p == B!Hand(name, hand.bet, c, hand.id)
             q == [p EXCEPT !.active = FALSE]
  <2>1. h = p \/ h = q
    BY DEF HalfOf
  <2>2. q = [id |-> name, bet |-> hand.bet, cards |-> c, split_from |-> hand.id, active |-> FALSE,
             outcome |-> None, payout_due |-> 0, credited |-> FALSE]
    <3>1. ASSUME NEW bet, NEW from, NEW g, g = [B!Hand(name, bet, c, from) EXCEPT !.active = FALSE]
          PROVE  g = [id |-> name, bet |-> bet, cards |-> c, split_from |-> from, active |-> FALSE,
                      outcome |-> None, payout_due |-> 0, credited |-> FALSE]
      BY <3>1 DEF B!Hand
    <3> QED BY <3>1
  <2>3. p = [id |-> name, bet |-> hand.bet, cards |-> c, split_from |-> hand.id, active |-> TRUE,
             outcome |-> None, payout_due |-> 0, credited |-> FALSE]
    BY DEF B!Hand
  <2> HIDE DEF h, p, q
  <2> QED BY <2>1, <2>2, <2>3
<1> HIDE DEF h
<1>4. Playable(h, k) /\ h.id = name
  BY <1>1, <1>2, NewHand
<1> QED BY <1>4 DEF h

(* A split takes one new name.                                                *)
LEMMA SplitMoves ==
  ASSUME NEW rules \in RuleSets, NEW n \in Nat, NEW id \in B!Ids, NEW x, NEW y,
         B!TableAssumption, B!NoneAssumption, RoundOk(x, n), x.status = "player_turn", n < id,
         y \in B!Split(rules, x, id)
  PROVE  MovedFrom(x, y, id) /\ HandIds(y) = HandIds(x) \cup {id}
<1> DEFINE i == B!Current(x)
           hand == x.hands[i]
           L == Len(x.hands)
<1>1. Sorted(x, n) /\ B!Active(x) # {} /\ id \in Nat /\ n <= id
  BY DEF RoundOk, B!Ids
<1>2. i \in DOMAIN x.hands
  BY <1>1, CurrentIsOne
<1>3. x.hands \in Seq(B!Hands) /\ L \in Nat \ {0} /\ DOMAIN x.hands = 1..L /\ i \in 1..L
  BY <1>1, <1>2, SortedParts
<1>4. Playable(hand, n) /\ hand \in B!Hands
  BY <1>1, <1>2, PlayableHands DEF Playable
<1>5. /\ hand.id \in B!Ids /\ hand.id \in Nat /\ hand.bet \in Nat /\ hand.id <= n /\ hand.id <= id
      /\ hand.bet >= Wager
  BY <1>1, <1>4 DEF Playable, B!Hands, B!Ids
<1> DEFINE A(c) == B!Advance(rules, [x EXCEPT !.hands =
                       SubSeq(@, 1, i - 1) \o <<HalfOf(rules, hand, hand.id, c[1]),
                                                HalfOf(rules, hand, id, c[2])>>
                                          \o SubSeq(@, i + 1, Len(@))])
<1>6. PICK c \in Halves \X Halves : y \in A(c)
  <2> DEFINE cards == Halves \ {IF hand.cards = "aces" THEN "pair" ELSE "aces"}
  <2>1. y \in UNION {A(c) : c \in cards \X cards}
    BY DEF B!Split, HalfOf
  <2>2. cards \X cards \subseteq Halves \X Halves
    OBVIOUS
  <2> HIDE DEF A, cards
  <2> QED BY <2>1, <2>2
<1> DEFINE a == HalfOf(rules, hand, hand.id, c[1])
           b == HalfOf(rules, hand, id, c[2])
           s == Splice(x.hands, i, a, b)
           z == [x EXCEPT !.hands = s]
<1>7. c[1] \in B!TwoCards /\ c[2] \in B!TwoCards /\ id <= id
  BY <1>1, <1>6 DEF B!TableAssumption
<1>8. Playable(a, id) /\ a.id = hand.id
  <2> HIDE DEF hand
  <2> QED BY <1>1, <1>4, <1>5, <1>7, HalfHand
<1>9. Playable(b, id) /\ b.id = id
  <2> HIDE DEF hand
  <2> QED BY <1>1, <1>4, <1>7, HalfHand
<1>10. y \in B!Advance(rules, z)
  BY <1>6 DEF Splice
<1> HIDE DEF A, a, b
<1>11. a \in B!Hands /\ b \in B!Hands
  BY <1>8, <1>9 DEF Playable
<1>12. /\ s \in Seq(B!Hands) /\ DOMAIN s = 1..(L + 1) /\ s[i] = a /\ s[i + 1] = b
       /\ \A j \in DOMAIN s : j < i => s[j] = x.hands[j]
       /\ \A j \in DOMAIN s : j > i + 1 => s[j] = x.hands[j - 1]
  <2>1. s = Splice(x.hands, i, a, b)
    OBVIOUS
  <2> HIDE DEF s, i
  <2>2. PICK hs, N : hs = x.hands /\ N = Len(hs)
    OBVIOUS
  <2>3. hs \in Seq(B!Hands) /\ i \in DOMAIN hs /\ s = Splice(hs, i, a, b)
    BY <1>2, <1>3, <2>1, <2>2
  <2>4. /\ s \in Seq(B!Hands) /\ DOMAIN s = 1..(N + 1) /\ s[i] = a /\ s[i + 1] = b
        /\ \A j \in DOMAIN s : j < i => s[j] = hs[j]
        /\ \A j \in DOMAIN s : j > i + 1 => s[j] = hs[j - 1]
    <3>1. SplicedAs(Splice(hs, i, a, b), B!Hands, hs, i, a, b)
      BY <1>11, <2>3, SplicedIsAs
    <3>2. SplicedAs(s, B!Hands, hs, i, a, b)
      BY <2>3, <3>1
    <3> QED BY <2>2, <3>2 DEF SplicedAs
  <2> QED BY <2>2, <2>4
<1>13. z = Rehand(x, s)
  BY DEF Rehand
<1> HIDE DEF s, z, i, L
<1> DEFINE old(j) == IF j <= i THEN j ELSE j - 1
<1>14. ASSUME NEW j \in DOMAIN s, j # i + 1
       PROVE  /\ old(j) \in DOMAIN x.hands /\ (s[j] = x.hands[old(j)] \/ (s[j] = a /\ old(j) = i))
              /\ old(j) # i \/ j = i
  <2>1. j \in Nat /\ i \in Nat /\ L \in Nat /\ j >= 1 /\ j <= L + 1 /\ i <= L /\ i >= 1
    BY <1>3, <1>12
  <2>2. CASE j < i
    BY <1>3, <1>12, <2>1, <2>2
  <2>3. CASE j = i
    BY <1>3, <1>12, <2>1, <2>3
  <2>4. CASE j > i + 1
    BY <1>3, <1>12, <2>1, <2>4
  <2> QED BY <1>14, <2>1, <2>2, <2>3, <2>4
<1>15. \A j \in DOMAIN s : Playable(s[j], id)
  <2>1. TAKE j \in DOMAIN s
  <2>2. \A k \in DOMAIN x.hands : Playable(x.hands[k], id)
    <3>1. ASSUME NEW k \in DOMAIN x.hands
          PROVE  Playable(x.hands[k], n) /\ x.hands[k].id \in Nat
      <4>1. Playable(x.hands[k], n)
        BY <1>1, PlayableHands
      <4> QED BY <4>1 DEF Playable, B!Hands, B!Ids
    <3> QED BY <1>1, <3>1 DEF Playable
  <2> HIDE DEF old
  <2> QED BY <1>8, <1>9, <1>12, <1>14, <2>2
<1>16. \A j \in DOMAIN s : j # i + 1 => s[j].id = x.hands[old(j)].id /\ old(j) \in DOMAIN x.hands
  <2> HIDE DEF old
  <2> QED BY <1>8, <1>14 DEF hand
<1>17. \A k \in DOMAIN x.hands : x.hands[k].id # id /\ x.hands[k].id <= n
  BY <1>1 DEF Sorted, HandFits
<1>18. ASSUME NEW j \in DOMAIN s, NEW k \in DOMAIN s, j # k PROVE s[j].id # s[k].id
  <2>1. CASE j = i + 1 \/ k = i + 1
    <3> HIDE DEF old
    <3> QED BY <1>9, <1>12, <1>16, <1>17, <1>18, <2>1
  <2>2. CASE j # i + 1 /\ k # i + 1
    <3>1. old(j) # old(k)
      <4>1. j \in Nat /\ k \in Nat /\ i \in Nat
        BY <1>3, <1>12
      <4> QED BY <1>18, <2>2, <4>1
    <3> HIDE DEF old
    <3> QED BY <1>1, <1>16, <2>2, <3>1 DEF Sorted, OwnIds
  <2> QED BY <2>1, <2>2
<1>19. s # <<>>
  BY <1>3, <1>12
<1>20. PlayableAll(s, id)
  BY <1>12, <1>15, <1>18, <1>19 DEF PlayableAll
<1>21. Sorted(z, id) /\ z.status = "player_turn" /\ z.id = x.id /\ z.hands = s
  <2> HIDE DEF hand, old
  <2>1. Sorted(x, n) /\ x.status = "player_turn" /\ n \in Nat /\ id \in Nat /\ n <= id
    BY <1>1
  <2> QED BY <2>1, <1>13, <1>20, Rehanded
<1>22. HandIds(z) = HandIds(x) \cup {id}
  <2>1. ASSUME NEW j \in DOMAIN s PROVE s[j].id \in HandIds(x) \cup {id}
    <3> HIDE DEF old
    <3> QED BY <1>9, <1>12, <1>16 DEF HandIds
  <2>2. id \in HandIds(z)
    <3>1. i + 1 \in DOMAIN s
      BY <1>3, <1>12
    <3> QED BY <1>9, <1>12, <1>21, <3>1 DEF HandIds
  <2>3. ASSUME NEW k \in DOMAIN x.hands PROVE x.hands[k].id \in HandIds(z)
    <3> DEFINE j == IF k <= i THEN k ELSE k + 1
    <3>1. j \in DOMAIN s /\ j # i + 1 /\ old(j) = k
      BY <1>3, <1>12
    <3> HIDE DEF j, old
    <3> QED BY <1>16, <1>21, <3>1 DEF HandIds
  <2> QED BY <1>21, <2>1, <2>2, <2>3 DEF HandIds
<1>23. MovedFrom(z, y, id) /\ HandIds(y) = HandIds(z)
  BY <1>1, <1>10, <1>21, Advanced
<1> QED BY <1>21, <1>22, <1>23 DEF MovedFrom

LEMMA InsuredRound ==
  ASSUME NEW n \in Nat, NEW x, NEW y, NEW amount, RoundOk(x, n), x.status = "player_turn",
         amount \in InsuranceAmounts, y = [x EXCEPT !.insurance = amount]
  PROVE  MovedFrom(x, y, n) /\ HandIds(y) = HandIds(x)
<1>1. x \in B!Rounds /\ Sorted(x, n) /\ ~x.even_money
  BY DEF RoundOk, Sorted
<1>2. /\ y \in B!Rounds /\ y.id = x.id /\ y.hands = x.hands /\ y.status = x.status
      /\ (y.even_money <=> x.even_money)
  BY <1>1 DEF B!Rounds
<1>3. \A i \in DOMAIN x.hands : HandFits(x, x.hands[i], n) /\ ~x.hands[i].credited
  BY <1>1 DEF Sorted, HandFits
<1>4. \A i \in DOMAIN y.hands : HandFits(y, y.hands[i], n) /\ ~y.hands[i].credited
  BY <1>2, <1>3 DEF HandFits
<1>5. OwnIds(y) /\ y.hands # <<>> /\ y.id <= n
  BY <1>1, <1>2 DEF OwnIds, Sorted
<1>6. Sorted(y, n)
  BY <1>1, <1>2, <1>4, <1>5 DEF Sorted
<1>7. B!Active(y) # {} /\ HandIds(y) = HandIds(x)
  BY <1>2 DEF RoundOk, B!Active, HandIds
<1> QED BY <1>1, <1>2, <1>4, <1>6, <1>7 DEF MovedFrom, RoundOk

(* Even money decides the first hand and leaves the others.                   *)
LEMMA EvenMoneyRound ==
  ASSUME NEW n \in Nat, NEW x, NEW y, B!TableAssumption, B!NoneAssumption, RoundOk(x, n), B!CanTakeEvenMoney(x),
         y = B!EvenMoney(x)
  PROVE  /\ RoundOk(y, n) /\ y.id = x.id /\ y.status = "settled_pending_credit" /\ y.even_money
         /\ HandIds(y) = HandIds(x) /\ DOMAIN y.hands = DOMAIN x.hands /\ 1 \in DOMAIN x.hands
         /\ \A i \in DOMAIN x.hands : /\ y.hands[i].id = x.hands[i].id
                                      /\ y.hands[i].credited <=> x.hands[i].credited
         /\ y.hands[1].outcome = "even_money" /\ y.hands[1].payout_due > 0
         /\ y.hands[1].payout_due \in Nat
<1> DEFINE h == B!Decided(x.hands[1], "even_money", 2 * x.hands[1].bet)
           hands == [x.hands EXCEPT ![1] = h]
<1>1. /\ x \in B!Rounds /\ Sorted(x, n) /\ x.hands \in Seq(B!Hands) /\ x.hands # <<>> /\ x.id <= n
      /\ 1 \in DOMAIN x.hands /\ x.hands[1] \in B!Hands /\ Len(x.hands) \in Nat
      /\ DOMAIN x.hands = 1..Len(x.hands)
  BY SortedParts DEF RoundOk, Sorted
<1>2. /\ x.hands[1].bet \in Nat /\ x.hands[1].bet >= Wager /\ x.hands[1].id <= n
      /\ Wager \in Nat \ {0}
  BY <1>1 DEF B!Hands, Sorted, HandFits, B!TableAssumption
<1>3. 2 * x.hands[1].bet \in Nat /\ 2 * x.hands[1].bet > 0
  BY <1>2
<1>4. /\ h \in B!Hands /\ h.id = x.hands[1].id /\ h.bet = x.hands[1].bet /\ h.cards = x.hands[1].cards
      /\ h.outcome = "even_money" /\ h.payout_due = 2 * x.hands[1].bet
      /\ (h.credited <=> x.hands[1].credited)
  <2>1. ASSUME NEW g, NEW due, NEW o, NEW d, d \in B!Hands, due \in Nat, o = "even_money",
               g = B!Decided(d, o, due)
        PROVE  /\ g \in B!Hands /\ g.id = d.id /\ g.bet = d.bet /\ g.cards = d.cards
               /\ g.outcome = o /\ g.payout_due = due /\ (g.credited <=> d.credited)
    <3>1. o \in B!Outcomes
      BY <2>1 DEF B!Outcomes
    <3> QED BY <2>1, <3>1, DecidedHand
  <2> QED BY <1>1, <1>3, <2>1
<1>5. /\ y \in B!Rounds /\ y.id = x.id /\ y.hands = hands /\ y.even_money
      /\ y.status = "settled_pending_credit"
  <2>1. hands \in Seq(B!Hands)
    BY <1>1, <1>4
  <2>2. y = [x EXCEPT !.hands = hands, !.even_money = TRUE, !.status = "settled_pending_credit"]
    BY <1>1 DEF B!EvenMoney, B!Rounds
  <2> HIDE DEF hands
  <2> QED BY <1>1, <2>1, <2>2 DEF B!Rounds
<1>6. /\ DOMAIN hands = DOMAIN x.hands /\ hands[1] = h
      /\ \A i \in DOMAIN x.hands : i # 1 => hands[i] = x.hands[i]
  BY <1>1
<1> HIDE DEF h, hands
<1>7. \A i \in DOMAIN x.hands : /\ hands[i].id = x.hands[i].id
                                /\ hands[i].credited <=> x.hands[i].credited
  BY <1>4, <1>6
<1>8. HandIds(y) = HandIds(x)
  BY <1>5, <1>6, <1>7 DEF HandIds
<1>9. OwnIds(y) /\ y.hands # <<>>
  BY <1>1, <1>5, <1>6, <1>7 DEF OwnIds, Sorted
<1>10. \A i \in DOMAIN y.hands : HandFits(y, y.hands[i], n)
  <2>1. ASSUME NEW i \in DOMAIN x.hands, i # 1 PROVE HandFits(y, y.hands[i], n)
    <3>1. y.hands[i] = x.hands[i] /\ HandFits(x, x.hands[i], n)
      BY <1>1, <1>5, <1>6, <2>1 DEF Sorted
    <3> QED BY <1>5, <3>1 DEF HandFits
  <2>2. HandFits(y, y.hands[1], n)
    BY <1>2, <1>3, <1>4, <1>5, <1>6 DEF HandFits
  <2> QED BY <1>5, <1>6, <2>1, <2>2
<1>11. y.hands[1].outcome = "even_money" /\ None # "even_money"
  BY <1>4, <1>5, <1>6 DEF B!NoneAssumption, B!Outcomes
<1>12. Sorted(y, n)
  BY <1>1, <1>5, <1>9, <1>10, <1>11 DEF Sorted
<1>13. y.hands[1].payout_due = 2 * x.hands[1].bet
  BY <1>4, <1>5, <1>6
<1> QED BY <1>1, <1>3, <1>5, <1>6, <1>7, <1>8, <1>11, <1>12, <1>13 DEF RoundOk

-----------------------------------------------------------------------------
(* The document, a marker, a request and the ledger, of names up to n.        *)
MarkerIs(m, n) ==
    /\ m \in B!Markers
    /\ RoundOk(m.after, n) /\ m.after.status # "settled" /\ ~m.after.even_money
    /\ \A i \in DOMAIN m.after.hands : ~m.after.hands[i].credited
    /\ m.before # None =>
          /\ RoundOk(m.before, n) /\ m.before.id = m.after.id /\ m.before.status = "player_turn"
          /\ HandIds(m.before) \subseteq HandIds(m.after)
    /\ m.movement.key[2] # "settlement"
    /\ m.movement.row.round = m.after.id /\ m.movement.row.amount < 0

MarkerPcs == {"settle", "complete", "classify", "rollback"}
Requests ==
    [pc : MarkerPcs \cup {"act", "pay"}, moved : BOOLEAN, todo : SUBSET B!Ids,
     marker : B!Markers \cup {None}, absent : BOOLEAN, round : B!Rounds \cup {None}, paid : Nat]
RequestIs(x, n) ==
    x # None =>
       /\ x \in Requests
       /\ x.pc \in MarkerPcs => MarkerIs(x.marker, n)
       /\ x.pc = "pay" => RoundOk(x.round, n) /\ x.round.status = "settled_pending_credit"

BoardIs(R, n) ==
    /\ DOMAIN R \subseteq B!Ids
    /\ \A r \in DOMAIN R : R[r].id = r /\ RoundOk(R[r], n)

DocIs(d, n) ==
    /\ DOMAIN d = {"rules", "rounds", "pending"}
    /\ d.rules \in RuleSets
    /\ BoardIs(d.rounds, n)
    /\ d.pending # None => MarkerIs(d.pending, n) /\ d.pending.after.id \in DOMAIN d.rounds

LedgerIs ==
    /\ DOMAIN rows \subseteq B!Ids \X B!Kinds
    /\ \A k \in DOMAIN rows : rows[k] \in B!Rows
    /\ wallet \in Nat /\ claims \in [B!Ids -> Nat]

WorkIs(n) == DOMAIN work = Workers /\ \A w \in Workers : RequestIs(work[w], n)

TableTypes ==
    /\ ids \in Nat /\ ids <= MaxIds
    /\ DocIs(doc, ids) /\ LedgerIs /\ WorkIs(ids)

LEMMA StillOk ==
  ASSUME NEW n, NEW k, NEW x, n \in Nat, k \in Nat, n <= k, RoundOk(x, n)
  PROVE  RoundOk(x, k)
<1>1. Sorted(x, n) /\ x.id <= n /\ x.id \in Nat
  BY SortedParts DEF RoundOk, Sorted, B!Ids
<1>2. \A i \in DOMAIN x.hands : x.hands[i].id <= n /\ x.hands[i].id \in Nat
  BY <1>1, SortedParts DEF Sorted, HandFits, B!Hands, B!Ids
<1>3. x.id <= k
  BY <1>1
<1>4. \A i \in DOMAIN x.hands : x.hands[i].id <= k
  BY <1>2
<1>5. \A i \in DOMAIN x.hands : HandFits(x, x.hands[i], k)
  BY <1>1, <1>4 DEF Sorted, HandFits
<1> QED BY <1>1, <1>3, <1>5 DEF RoundOk, Sorted

LEMMA StillFits ==
  ASSUME NEW n, NEW k, n \in Nat, k \in Nat, n <= k
  PROVE  /\ \A x : RoundOk(x, n) => RoundOk(x, k)
         /\ \A m : MarkerIs(m, n) => MarkerIs(m, k)
         /\ \A x : RequestIs(x, n) => RequestIs(x, k)
         /\ \A R : BoardIs(R, n) => BoardIs(R, k)
         /\ WorkIs(n) => WorkIs(k)
<1>1. \A x : RoundOk(x, n) => RoundOk(x, k)
  BY StillOk
<1>2. \A m : MarkerIs(m, n) => MarkerIs(m, k)
  BY <1>1 DEF MarkerIs
<1>3. \A x : RequestIs(x, n) => RequestIs(x, k)
  BY <1>1, <1>2 DEF RequestIs
<1>4. \A R : BoardIs(R, n) => BoardIs(R, k)
  BY <1>1 DEF BoardIs
<1> QED BY <1>1, <1>2, <1>3, <1>4 DEF WorkIs

LEMMA WorkerGoesOn ==
  ASSUME NEW n, NEW w, NEW next, w \in Workers, WorkIs(n), RequestIs(next, n),
         work' = [work EXCEPT ![w] = next]
  PROVE  /\ WorkIs(n)' /\ work'[w] = next
         /\ \A v \in Workers : v # w => work'[v] = work[v]
<1>1. DOMAIN work' = Workers /\ work'[w] = next /\ \A v \in Workers : v # w => work'[v] = work[v]
  BY DEF WorkIs
<1>2. \A v \in Workers : RequestIs(work'[v], n)
  BY <1>1 DEF WorkIs
<1> QED BY <1>1, <1>2 DEF WorkIs

(* Worker w goes on with another request, and the others stay.                *)
GoesOn(n, w, next) ==
    /\ WorkIs(n)' /\ work'[w] = next
    /\ \A v \in Workers : v # w => work'[v] = work[v]

LEMMA WorkerIsOn ==
  ASSUME NEW n, NEW w, NEW next, w \in Workers, WorkIs(n), RequestIs(next, n),
         work' = [work EXCEPT ![w] = next]
  PROVE  GoesOn(n, w, next)
BY WorkerGoesOn DEF GoesOn

LEMMA RequestFields ==
  ASSUME NEW x, NEW moved, NEW t, NEW m, NEW absent, NEW r, NEW paid, NEW place,
         moved \in BOOLEAN, t \in SUBSET B!Ids, m \in B!Markers \cup {None},
         absent \in BOOLEAN, r \in B!Rounds \cup {None}, paid \in Nat,
         place \in MarkerPcs \cup {"act", "pay"},
         x = [pc |-> place, moved |-> moved, todo |-> t, marker |-> m, absent |-> absent, round |-> r,
              paid |-> paid]
  PROVE  x \in Requests /\ x.pc = place
BY DEF Requests

LEMMA ActingRequest ==
  ASSUME NEW n, NEW x, NEW moved, NEW todo, moved \in BOOLEAN, todo \in SUBSET B!Ids,
         x = B!Request("act", moved, todo)
  PROVE  x \in Requests /\ x.pc = "act" /\ RequestIs(x, n)
<1>1. PICK no \in BOOLEAN, m \in B!Markers \cup {None}, r \in B!Rounds \cup {None},
         paid \in Nat, place \in MarkerPcs \cup {"act", "pay"} :
         /\ place = "act"
         /\ x = [pc |-> place, moved |-> moved, todo |-> todo, marker |-> m, absent |-> no, round |-> r,
                 paid |-> paid]
  BY DEF B!Request
<1>2. x \in Requests /\ x.pc = "act"
  BY <1>1, RequestFields
<1> QED BY <1>2 DEF RequestIs, MarkerPcs

(* The request settles a marker.                                              *)
LEMMA SettlingRequest ==
  ASSUME NEW moved, NEW m, NEW n, NEW x, moved \in BOOLEAN, MarkerIs(m, n), x = B!SettlePrepared(moved, m)
  PROVE  /\ RequestIs(x, n) /\ x.pc = "settle" /\ x.marker = m /\ (x.moved <=> moved) /\ x \in Requests
         /\ ~x.absent
<1> DEFINE q == B!Request("settle", moved, {})
<1>1. m \in B!Markers
  BY DEF MarkerIs
<1>2. x = [pc |-> "settle", moved |-> moved, todo |-> {}, marker |-> m, absent |-> FALSE,
           round |-> None, paid |-> 0]
  BY DEF B!SettlePrepared, B!Request
<1>3. {} \in SUBSET B!Ids /\ None \in B!Rounds \cup {None} /\ m \in B!Markers \cup {None}
  BY <1>1
<1>4. x \in Requests
  BY <1>2, <1>3 DEF Requests, MarkerPcs
<1>5. x.pc = "settle" /\ x.marker = m /\ (x.moved <=> moved) /\ ~x.absent
  BY <1>2
<1> QED BY <1>4, <1>5 DEF RequestIs, MarkerPcs

(* The request pays the first of the decided rounds it has to finish.         *)
LEMMA FinishingRequest ==
  ASSUME NEW moved, NEW todo, NEW R, NEW n, NEW x, moved \in BOOLEAN, todo \in SUBSET B!Ids,
         BoardIs(R, n), x = B!FinishIfNeeded(moved, todo, R)
  PROVE  /\ RequestIs(x, n)
         /\ \/ x = None
            \/ x \in Requests /\ x.pc = "act"
            \/ /\ x \in Requests /\ x.pc = "pay" /\ x.paid = 0
               /\ x.round.id \in todo \cap DOMAIN R /\ x.round = R[x.round.id]
               /\ x.round.status = "settled_pending_credit" /\ RoundOk(x.round, n)
               /\ x.todo = {q \in todo : q > x.round.id}
               /\ \A q \in todo \cap DOMAIN R :
                     R[q].status = "settled_pending_credit" => x.round.id <= q
<1> DEFINE due == {r \in todo \cap DOMAIN R : R[r].status = "settled_pending_credit"}
           r == B!First(due)
<1>1. CASE due # {}
  <2>1. due \subseteq Nat
    BY DEF BoardIs, B!Ids
  <2>2. r \in due /\ \A q \in due : r <= q
    BY <1>1, <2>1, LeastIsOne
  <2>3. x = [B!Request("pay", moved, {q \in todo : q > r}) EXCEPT !.round = R[r]]
    BY <1>1 DEF B!FinishIfNeeded
  <2> HIDE DEF r
  <2>4. /\ RoundOk(R[r], n) /\ R[r].id = r /\ R[r] \in B!Rounds /\ R[r].status = "settled_pending_credit"
        /\ r \in todo \cap DOMAIN R
    BY <2>2 DEF BoardIs, RoundOk, Sorted
  <2>5. x = [pc |-> "pay", moved |-> moved, todo |-> {q \in todo : q > r}, marker |-> None,
             absent |-> FALSE, round |-> R[r], paid |-> 0]
    BY <2>3 DEF B!Request
  <2>6. {q \in todo : q > r} \in SUBSET B!Ids /\ None \in B!Markers \cup {None}
    OBVIOUS
  <2>7. x \in Requests
    BY <2>4, <2>5, <2>6 DEF Requests, MarkerPcs
  <2>8. x.pc = "pay" /\ x.paid = 0 /\ x.round = R[r] /\ x.todo = {q \in todo : q > r}
    BY <2>5
  <2> QED BY <2>2, <2>4, <2>7, <2>8 DEF RequestIs, MarkerPcs
<1>2. CASE due = {} /\ moved
  BY <1>2 DEF B!FinishIfNeeded, RequestIs
<1>3. CASE due = {} /\ ~moved
  <2>1. PICK f \in BOOLEAN, e \in SUBSET B!Ids : x = B!Request("act", f, e)
    BY <1>3 DEF B!FinishIfNeeded
  <2> QED BY <2>1, ActingRequest
<1> QED BY <1>1, <1>2, <1>3

-----------------------------------------------------------------------------
(* The parts of a step.                                                       *)
LEMMA BoardTakesRound ==
  ASSUME NEW n, NEW R, NEW x, NEW S, BoardIs(R, n), RoundOk(x, n), x.id \in DOMAIN R,
         S = [R EXCEPT ![x.id] = x]
  PROVE  /\ BoardIs(S, n) /\ DOMAIN S = DOMAIN R /\ S[x.id] = x
         /\ \A r \in DOMAIN R : r # x.id => S[r] = R[r]
<1>1. DOMAIN S = DOMAIN R /\ S[x.id] = x /\ \A r \in DOMAIN R : r # x.id => S[r] = R[r]
  OBVIOUS
<1> QED BY <1>1 DEF BoardIs

DocWith(d, x) == [d EXCEPT !.rounds[x.id] = x]

LEMMA DocTakesRound ==
  ASSUME NEW n, NEW d, NEW x, NEW e, DocIs(d, n), RoundOk(x, n), x.id \in DOMAIN d.rounds,
         d.pending = None, e = DocWith(d, x)
  PROVE  /\ DocIs(e, n) /\ e.pending = None /\ e.rules = d.rules
         /\ e.rounds = [d.rounds EXCEPT ![x.id] = x]
<1>1. /\ DOMAIN e = DOMAIN d /\ e.pending = None /\ e.rules = d.rules
      /\ e.rounds = [d.rounds EXCEPT ![x.id] = x]
  BY DEF DocIs, DocWith
<1>2. BoardIs(e.rounds, n)
  BY <1>1, BoardTakesRound DEF DocIs
<1> QED BY <1>1, <1>2 DEF DocIs

LEMMA BoardIds ==
  ASSUME NEW n, NEW R, BoardIs(R, n)
  PROVE  DOMAIN R \in SUBSET B!Ids
BY DEF BoardIs

LEMMA LedgerStays ==
  ASSUME LedgerIs, rows' = rows, wallet' = wallet, claims' = claims
  PROVE  LedgerIs'
BY DEF LedgerIs

(* A movement in the ledger, and what the request that makes it goes on with. *)
AppliedOnce(n, w, movement, next, raised) ==
    /\ LedgerIs' /\ WorkIs(n)'
    /\ doc' = doc /\ claims' = claims /\ ids' = ids /\ contested' = contested /\ reopened' = reopened
    /\ \/ rows' = rows
       \/ /\ movement.key \notin DOMAIN rows /\ DOMAIN rows' = DOMAIN rows \cup {movement.key}
          /\ rows'[movement.key] = movement.row
          /\ \A k \in DOMAIN rows : rows'[k] = rows[k]
    /\ \/ work' = [work EXCEPT ![w] = raised]
       \/ /\ movement.key \in DOMAIN rows' /\ rows'[movement.key] = movement.row
          /\ work' = [work EXCEPT ![w] = next]

LEMMA MovementApplied ==
  ASSUME NEW n, NEW w, NEW movement, NEW next, NEW raised, w \in Workers, WorkIs(n), LedgerIs,
         movement.key \in B!Ids \X B!Kinds, movement.row \in B!Rows,
         RequestIs(next, n), RequestIs(raised, n), B!ApplyOnce(w, movement, next, raised)
  PROVE  AppliedOnce(n, w, movement, next, raised)
<1> DEFINE key == movement.key
           row == movement.row
<1>1. doc' = doc /\ claims' = claims /\ ids' = ids /\ contested' = contested /\ reopened' = reopened
  BY DEF B!ApplyOnce
<1>2. \/ rows' = rows /\ wallet' = wallet
      \/ /\ key \notin DOMAIN rows /\ wallet + row.amount >= 0
         /\ rows' = B!With(rows, key, row) /\ wallet' = wallet + row.amount
  BY DEF B!ApplyOnce
<1>3. \/ work' = [work EXCEPT ![w] = raised]
      \/ key \in DOMAIN rows' /\ rows'[key] = row /\ work' = [work EXCEPT ![w] = next]
  BY DEF B!ApplyOnce
<1> HIDE DEF key, row
<1>4. WorkIs(n)'
  BY <1>3, WorkerGoesOn
<1>5. \/ rows' = rows
      \/ /\ key \notin DOMAIN rows /\ DOMAIN rows' = DOMAIN rows \cup {key} /\ rows'[key] = row
         /\ \A k \in DOMAIN rows : rows'[k] = rows[k]
  <2>1. CASE key \notin DOMAIN rows /\ rows' = B!With(rows, key, row)
    <3>1. DOMAIN rows' = DOMAIN rows \cup {key} /\ rows'[key] = row
      BY <2>1 DEF B!With
    <3>2. ASSUME NEW k \in DOMAIN rows PROVE rows'[k] = rows[k]
      BY <2>1, <3>2 DEF B!With
    <3> QED BY <2>1, <3>1, <3>2
  <2> QED BY <1>2, <2>1
<1>6. wallet' \in Nat
  <2>1. row.amount \in Int /\ wallet \in Nat
    BY DEF LedgerIs, B!Rows, row
  <2> QED BY <1>2, <2>1
<1>7. DOMAIN rows' \subseteq B!Ids \X B!Kinds /\ \A k \in DOMAIN rows' : rows'[k] \in B!Rows
  BY <1>5 DEF LedgerIs, key, row
<1>8. LedgerIs'
  BY <1>1, <1>6, <1>7 DEF LedgerIs
<1> QED BY <1>1, <1>3, <1>4, <1>5, <1>8 DEF key, row, AppliedOnce

-----------------------------------------------------------------------------
(* Each action keeps the types.                                               *)
LEMMA LoadTyped ==
  ASSUME NEW w, w \in Workers, TableTypes, B!LoadMutationState(w)
  PROVE  TableTypes'
<1> DEFINE next == IF doc.pending # None THEN B!SettlePrepared(FALSE, doc.pending)
                   ELSE B!FinishIfNeeded(FALSE, DOMAIN doc.rounds, doc.rounds)
<1>1. /\ work' = [work EXCEPT ![w] = next] /\ doc' = doc /\ ids' = ids
      /\ rows' = rows /\ wallet' = wallet /\ claims' = claims
  BY DEF B!LoadMutationState
<1>2. RequestIs(next, ids)
  <2>1. CASE doc.pending # None
    <3>1. PICK f \in BOOLEAN : next = B!SettlePrepared(f, doc.pending)
      BY <2>1
    <3>2. MarkerIs(doc.pending, ids)
      BY <2>1 DEF TableTypes, DocIs
    <3> HIDE DEF next
    <3> QED BY <3>1, <3>2, SettlingRequest
  <2>2. CASE doc.pending = None
    <3>1. PICK f \in BOOLEAN : next = B!FinishIfNeeded(f, DOMAIN doc.rounds, doc.rounds)
      BY <2>2
    <3>2. BoardIs(doc.rounds, ids)
      BY DEF TableTypes, DocIs
    <3> HIDE DEF next
    <3> QED BY <3>1, <3>2, FinishingRequest, BoardIds
  <2> QED BY <2>1, <2>2
<1> HIDE DEF next
<1>3. WorkIs(ids)' /\ LedgerIs'
  <2>1. WorkIs(ids)
    BY DEF TableTypes
  <2>2. ASSUME NEW n, n = ids PROVE WorkIs(n)'
    BY <1>1, <1>2, <2>1, <2>2, WorkerGoesOn
  <2> QED BY <1>1, <2>2, LedgerStays DEF TableTypes, WorkIs
<1> QED BY <1>1, <1>3 DEF TableTypes

(* A request that finishes rounds holds no marker.                             *)
LEMMA FinishingIdles ==
  ASSUME NEW moved, NEW todo, NEW R, NEW x, x = B!FinishIfNeeded(moved, todo, R)
  PROVE  x = None \/ x.pc \notin MarkerPcs
<1> DEFINE due == {r \in todo \cap DOMAIN R : R[r].status = "settled_pending_credit"}
           r == B!First(due)
<1>1. CASE due # {}
  <2>1. x = [B!Request("pay", moved, {q \in todo : q > r}) EXCEPT !.round = R[r]]
    BY <1>1 DEF B!FinishIfNeeded
  <2> HIDE DEF r
  <2>2. x.pc = "pay"
    BY <2>1 DEF B!Request
  <2> QED BY <2>2 DEF MarkerPcs
<1>2. CASE due = {}
  <2>1. x = None \/ x = B!Request("act", FALSE, {})
    BY <1>2 DEF B!FinishIfNeeded
  <2>2. x = None \/ x.pc = "act"
    BY <2>1 DEF B!Request
  <2> QED BY <2>2 DEF MarkerPcs
<1> QED BY <1>1, <1>2

(* The types before a step and after it, the names drawn being a constant.    *)
LEMMA TypesNow ==
  ASSUME TableTypes
  PROVE  \E n \in Nat : n = ids /\ n <= MaxIds /\ DocIs(doc, n) /\ LedgerIs /\ WorkIs(n)
BY DEF TableTypes

LEMMA TypesNext ==
  ASSUME NEW n, n \in Nat, n <= MaxIds, ids' = n, DocIs(doc', n), LedgerIs', WorkIs(n)'
  PROVE  TableTypes'
<1>1. DocIs(doc, ids)'
  BY DEF DocIs
<1>2. WorkIs(ids)'
  BY DEF WorkIs
<1> QED BY <1>1, <1>2 DEF TableTypes

(* What a transition without cost makes of the round.                         *)
Costless(rules, x, y) ==
    \/ /\ B!InTurn(x)
       /\ y \in B!Hit(rules, x) \cup B!Stand(rules, x) \cup
                (IF B!CanSurrender(rules, x) THEN B!Surrender(rules, x) ELSE {})
    \/ B!CanTakeEvenMoney(x) /\ y = B!EvenMoney(x)

LEMMA CommittedRound ==
  ASSUME NEW n, NEW w, NEW r, NEW x, B!TableAssumption, B!NoneAssumption, n \in Nat,
         DocIs(doc, n), r \in DOMAIN doc.rounds, x = doc.rounds[r],
         NEW y,
         Costless(doc.rules, x, y)
  PROVE  RoundOk(y, n) /\ y.id = r /\ HandIds(y) = HandIds(x) /\ x.id = r /\ RoundOk(x, n)
<1>1. RoundOk(x, n) /\ x.id = r /\ doc.rules \in RuleSets
  BY DEF DocIs, BoardIs
<1>2. CASE /\ B!InTurn(x)
           /\ y \in B!Hit(doc.rules, x) \cup B!Stand(doc.rules, x) \cup
                     (IF B!CanSurrender(doc.rules, x) THEN B!Surrender(doc.rules, x) ELSE {})
  <2>1. /\ x.status = "player_turn"
        /\ y \in B!Hit(doc.rules, x) \/ y \in B!Stand(doc.rules, x) \/ y \in B!Surrender(doc.rules, x)
    BY <1>2 DEF B!InTurn
  <2>2. MovedFrom(x, y, n) /\ HandIds(y) = HandIds(x)
    BY <1>1, <2>1, Moves
  <2> QED BY <1>1, <2>2 DEF MovedFrom
<1>3. CASE B!CanTakeEvenMoney(x) /\ y = B!EvenMoney(x)
  BY <1>1, <1>3, EvenMoneyRound
<1> QED BY <1>1, <1>2, <1>3 DEF Costless

LEMMA CommitTyped ==
  ASSUME NEW w, w \in Workers, B!TableAssumption, B!NoneAssumption, TableTypes,
         B!CommitRoundTransition(w)
  PROVE  TableTypes'
<1>1. PICK n \in Nat : n = ids /\ n <= MaxIds /\ DocIs(doc, n) /\ LedgerIs /\ WorkIs(n)
  BY TypesNow
<1>2. /\ doc.pending = None /\ rows' = rows /\ wallet' = wallet /\ claims' = claims /\ ids' = ids
  BY DEF B!CommitRoundTransition
<1>3. PICK r \in DOMAIN doc.rounds : \E y :
         /\ \/ /\ B!InTurn(doc.rounds[r])
               /\ y \in B!Hit(doc.rules, doc.rounds[r]) \cup B!Stand(doc.rules, doc.rounds[r]) \cup
                     (IF B!CanSurrender(doc.rules, doc.rounds[r])
                      THEN B!Surrender(doc.rules, doc.rounds[r]) ELSE {})
            \/ B!CanTakeEvenMoney(doc.rounds[r]) /\ y = B!EvenMoney(doc.rounds[r])
         /\ B!Commit(w, y)
  BY DEF B!CommitRoundTransition
<1>4. PICK y : /\ \/ /\ B!InTurn(doc.rounds[r])
                     /\ y \in B!Hit(doc.rules, doc.rounds[r]) \cup B!Stand(doc.rules, doc.rounds[r]) \cup
                           (IF B!CanSurrender(doc.rules, doc.rounds[r])
                            THEN B!Surrender(doc.rules, doc.rounds[r]) ELSE {})
                  \/ B!CanTakeEvenMoney(doc.rounds[r]) /\ y = B!EvenMoney(doc.rounds[r])
               /\ B!Commit(w, y)
  BY <1>3
<1>5. RoundOk(y, n) /\ y.id = r
  <2>1. Costless(doc.rules, doc.rounds[r], y)
    BY <1>4 DEF Costless
  <2> QED BY <1>1, <1>3, <2>1, CommittedRound
<1>6. doc' = DocWith(doc, y)
  BY <1>4 DEF B!Commit, DocWith
<1>7. DocIs(doc', n)
  BY <1>1, <1>2, <1>3, <1>5, <1>6, DocTakesRound
<1>8. WorkIs(n)'
  <2>1. PICK t \in BOOLEAN, Tried \in SUBSET B!Ids :
           work' = [work EXCEPT ![w] = B!FinishIfNeeded(t, Tried, doc'.rounds)]
    <3>1. {y.id} \in SUBSET B!Ids
      BY <1>1, <1>3, <1>5 DEF DocIs, BoardIs
    <3> QED BY <1>4, <3>1 DEF B!Commit
  <2>2. BoardIs(doc'.rounds, n)
    BY <1>7 DEF DocIs
  <2>3. RequestIs(B!FinishIfNeeded(t, Tried, doc'.rounds), n)
    BY <2>2, FinishingRequest
  <2> QED BY <1>1, <2>1, <2>3, WorkerGoesOn
<1> QED BY <1>1, <1>2, <1>7, <1>8, LedgerStays, TypesNext

(* A round the table has prepared: dealt, or moved.                           *)
Dealing(before, after, m, n) ==
    /\ before = None /\ B!NoActiveRound /\ m = n + 1 /\ after.id = m /\ HandIds(after) = {m}
Moving(before, after, m, n) ==
    /\ after.id \in DOMAIN doc.rounds /\ before = doc.rounds[after.id]
    /\ before.status = "player_turn" /\ MovedFrom(before, after, m)
    /\ \/ m = n /\ HandIds(after) = HandIds(before)
       \/ m = n + 1 /\ HandIds(after) = HandIds(before) \cup {m}

(* The deal or the move it is, and what it costs.                             *)
Asked(rules, m, before, after, id, kind, amount) ==
    \/ /\ kind = "wager" /\ id = m /\ amount = Wager
       /\ after \in B!Dealt(rules, m) /\ rules \in RuleSets /\ m \in B!Ids
    \/ /\ kind = "double" /\ B!CanDouble(rules, before) /\ after \in B!DoubleDown(rules, before)
       /\ id = before.hands[B!Current(before)].id /\ amount = before.hands[B!Current(before)].bet
    \/ /\ kind = "split" /\ B!CanSplit(rules, before) /\ after \in B!Split(rules, before, m)
       /\ id = before.hands[B!Current(before)].id /\ amount = before.hands[B!Current(before)].bet
       /\ rules \in RuleSets /\ m \in B!Ids
    \/ /\ kind = "insurance" /\ B!CanInsure(before, amount) /\ amount \in InsuranceAmounts
       /\ after = [before EXCEPT !.insurance = amount] /\ id = before.id

Prepared(w, n, m, before, after, id, kind, amount) ==
    /\ n \in Nat /\ m \in Nat /\ n <= m
    /\ Asked(doc.rules, m, before, after, id, kind, amount)
    /\ kind = "wager" <=> Dealing(before, after, m, n)
    /\ kind = "split" => n < m
    /\ B!Prepare(w, before, after, id, kind, amount)
    /\ id \in B!Ids /\ kind \in B!Kinds \ {"settlement"} /\ amount \in Nat \ {0}
    /\ RoundOk(after, m) /\ ~after.even_money /\ after.status # "settled"
    /\ \A i \in DOMAIN after.hands : ~after.hands[i].credited
    /\ Dealing(before, after, m, n) \/ Moving(before, after, m, n)

LEMMA PreparedRound ==
  ASSUME NEW w, w \in Workers, B!TableAssumption, B!NoneAssumption, TableTypes,
         B!PrepareMoneyTransition(w)
  PROVE  \E n, m, before, after, id, kind, amount :
            n = ids /\ m = ids' /\ m <= MaxIds /\ Prepared(w, n, m, before, after, id, kind, amount)
<1>1. PICK n \in Nat : n = ids /\ n <= MaxIds /\ DocIs(doc, n) /\ LedgerIs /\ WorkIs(n)
  BY TypesNow
<1>2. MaxIds \in Nat /\ Wager \in Nat \ {0} /\ doc.rules \in RuleSets /\ BoardIs(doc.rounds, n)
  BY <1>1 DEF B!TableAssumption, DocIs
<1>3. CASE /\ B!NoActiveRound /\ ids < MaxIds /\ ids' = ids + 1
           /\ \E new \in B!Dealt(doc.rules, ids') : B!Prepare(w, None, new, ids', "wager", Wager)
  <2>1. PICK m \in Nat : m = ids' /\ m = n + 1 /\ m <= MaxIds /\ n <= m /\ m \in B!Ids
    BY <1>1, <1>2, <1>3 DEF B!Ids
  <2>2. PICK new \in B!Dealt(doc.rules, m) : B!Prepare(w, None, new, m, "wager", Wager)
    BY <1>3, <2>1
  <2>3. /\ RoundOk(new, m) /\ new.id = m /\ ~new.even_money /\ new.status # "settled"
        /\ \A i \in DOMAIN new.hands : ~new.hands[i].credited
        /\ HandIds(new) = {m}
    BY <1>2, <2>1, <2>2, DealtRound
  <2>4. Dealing(None, new, m, n) /\ "wager" \in B!Kinds \ {"settlement"}
    BY <1>3, <2>1, <2>3 DEF Dealing, B!Kinds
  <2>5. Wager \in Nat \ {0} /\ n \in Nat
    BY <1>2
  <2>6. Asked(doc.rules, m, None, new, m, "wager", Wager)
    BY <1>2, <2>1, <2>2 DEF Asked
  <2>7. Prepared(w, n, m, None, new, m, "wager", Wager)
    BY <2>1, <2>2, <2>3, <2>4, <2>5, <2>6 DEF Prepared
  <2> QED BY <1>1, <2>1, <2>7
<1>4. CASE \E r \in DOMAIN doc.rounds :
             LET round == doc.rounds[r]
                 hand  == round.hands[B!Current(round)]
             IN /\ B!InTurn(round)
                /\ \/ /\ B!CanDouble(doc.rules, round)
                      /\ \E new \in B!DoubleDown(doc.rules, round) :
                            B!Prepare(w, round, new, hand.id, "double", hand.bet)
                      /\ UNCHANGED ids
                   \/ /\ B!CanSplit(doc.rules, round) /\ ids < MaxIds
                      /\ ids' = ids + 1
                      /\ \E new \in B!Split(doc.rules, round, ids') :
                            B!Prepare(w, round, new, hand.id, "split", hand.bet)
                   \/ /\ \E amount \in InsuranceAmounts :
                            /\ B!CanInsure(round, amount)
                            /\ B!Prepare(w, round, [round EXCEPT !.insurance = amount],
                                         r, "insurance", amount)
                      /\ UNCHANGED ids
  <2>1. PICK r \in DOMAIN doc.rounds :
             LET round == doc.rounds[r]
                 hand  == round.hands[B!Current(round)]
             IN /\ B!InTurn(round)
                /\ \/ /\ B!CanDouble(doc.rules, round)
                      /\ \E new \in B!DoubleDown(doc.rules, round) :
                            B!Prepare(w, round, new, hand.id, "double", hand.bet)
                      /\ ids' = ids
                   \/ /\ B!CanSplit(doc.rules, round) /\ ids < MaxIds /\ ids' = ids + 1
                      /\ \E new \in B!Split(doc.rules, round, ids') :
                            B!Prepare(w, round, new, hand.id, "split", hand.bet)
                   \/ /\ \E amount \in InsuranceAmounts :
                            /\ B!CanInsure(round, amount)
                            /\ B!Prepare(w, round, [round EXCEPT !.insurance = amount],
                                         r, "insurance", amount)
                      /\ ids' = ids
    BY <1>4
  <2> DEFINE x == doc.rounds[r]
             hand == x.hands[B!Current(x)]
  <2>2. RoundOk(x, n) /\ x.id = r /\ x.status = "player_turn" /\ x # None /\ r \in B!Ids
    BY <1>2, <2>1 DEF BoardIs, RoundOk, Sorted, B!InTurn, B!NoneAssumption
  <2>3. Playable(hand, n) /\ hand \in B!Hands
    <3>1. B!Current(x) \in DOMAIN x.hands
      BY <2>2, CurrentIsOne DEF RoundOk
    <3> QED BY <2>2, <3>1, PlayableHands DEF RoundOk, Playable
  <2>4. hand.id \in B!Ids /\ hand.bet \in Nat \ {0}
    BY <1>2, <2>3 DEF Playable, B!Hands
  <2>5. CASE /\ B!CanDouble(doc.rules, x)
             /\ \E new \in B!DoubleDown(doc.rules, x) :
                   B!Prepare(w, x, new, hand.id, "double", hand.bet)
             /\ ids' = ids
    <3>1. PICK new \in B!DoubleDown(doc.rules, x) : B!Prepare(w, x, new, hand.id, "double", hand.bet)
      BY <2>5
    <3>2. Asked(doc.rules, n, x, new, hand.id, "double", hand.bet)
      BY <2>5, <3>1 DEF Asked
    <3> HIDE DEF x, hand
    <3>3. MovedFrom(x, new, n) /\ HandIds(new) = HandIds(x)
      BY <1>2, <2>2, <3>1, DoubleMoves
    <3>4. Moving(x, new, n, n) /\ "double" \in B!Kinds \ {"settlement"} /\ n <= n
      BY <2>1, <2>2, <3>3 DEF Moving, MovedFrom, B!Kinds, x
    <3>5. Prepared(w, n, n, x, new, hand.id, "double", hand.bet)
      BY <2>2, <2>4, <3>1, <3>3, <3>4, <3>2 DEF MovedFrom, Prepared, Dealing
    <3> QED BY <1>1, <2>5, <3>5
  <2>6. CASE /\ B!CanSplit(doc.rules, x) /\ ids < MaxIds /\ ids' = ids + 1
             /\ \E new \in B!Split(doc.rules, x, ids') :
                   B!Prepare(w, x, new, hand.id, "split", hand.bet)
    <3>1. PICK m \in Nat : m = ids' /\ m = n + 1 /\ m <= MaxIds /\ n <= m /\ m \in B!Ids /\ n < m
      BY <1>1, <1>2, <2>6 DEF B!Ids
    <3>2. PICK new \in B!Split(doc.rules, x, m) : B!Prepare(w, x, new, hand.id, "split", hand.bet)
      BY <2>6, <3>1
    <3>3. Asked(doc.rules, m, x, new, hand.id, "split", hand.bet)
      BY <1>2, <2>6, <3>1, <3>2 DEF Asked
    <3> HIDE DEF x, hand
    <3>4. MovedFrom(x, new, m) /\ HandIds(new) = HandIds(x) \cup {m}
      BY <1>2, <2>2, <3>1, <3>2, SplitMoves
    <3>5. Moving(x, new, m, n) /\ "split" \in B!Kinds \ {"settlement"}
      BY <2>1, <2>2, <3>1, <3>4 DEF Moving, MovedFrom, B!Kinds, x
    <3>6. Prepared(w, n, m, x, new, hand.id, "split", hand.bet)
      BY <2>2, <2>4, <3>1, <3>2, <3>4, <3>5, <3>3 DEF MovedFrom, Prepared, Dealing
    <3> QED BY <1>1, <3>1, <3>6
  <2>7. CASE /\ \E amount \in InsuranceAmounts :
                   /\ B!CanInsure(x, amount)
                   /\ B!Prepare(w, x, [x EXCEPT !.insurance = amount], r, "insurance", amount)
             /\ ids' = ids
    <3>1. PICK amount, new :
             /\ amount \in InsuranceAmounts /\ B!CanInsure(x, amount)
             /\ new = [x EXCEPT !.insurance = amount] /\ B!Prepare(w, x, new, r, "insurance", amount)
      BY <2>7
    <3>2. Asked(doc.rules, n, x, new, r, "insurance", amount)
      BY <2>2, <3>1 DEF Asked
    <3> HIDE DEF x
    <3>3. MovedFrom(x, new, n) /\ HandIds(new) = HandIds(x)
      BY <2>2, <3>1, InsuredRound
    <3>4. Moving(x, new, n, n) /\ "insurance" \in B!Kinds \ {"settlement"} /\ n <= n
      BY <2>1, <2>2, <3>3 DEF Moving, MovedFrom, B!Kinds, x
    <3>5. amount \in Nat \ {0}
      BY <3>1 DEF B!TableAssumption
    <3>6. r \in B!Ids
      BY <2>2
    <3>7. Prepared(w, n, n, x, new, r, "insurance", amount)
      BY <2>2, <3>1, <3>3, <3>4, <3>5, <3>6, <3>2 DEF MovedFrom, Prepared, Dealing
    <3> QED BY <1>1, <2>7, <3>7
  <2> QED BY <2>1, <2>5, <2>6, <2>7
<1> QED BY <1>3, <1>4 DEF B!PrepareMoneyTransition

(* The marker of a prepared round, the document that shows it, and the        *)
(* request that settles it.                                                   *)
LEMMA PreparedState ==
  ASSUME NEW w, NEW n, NEW m, NEW before, NEW after, NEW id, NEW kind, NEW amount,
         w \in Workers, B!NoneAssumption, DocIs(doc, n), WorkIs(n),
         Prepared(w, n, m, before, after, id, kind, amount)
  PROVE  /\ DocIs(doc', m) /\ WorkIs(m)'
         /\ doc'.pending # None /\ MarkerIs(doc'.pending, m) /\ after.id \in B!Ids
         /\ doc'.pending.before = before /\ doc'.pending.after = after
         /\ doc'.pending.movement.key = <<id, kind>> /\ doc'.pending.movement.row.amount = -amount
         /\ doc'.rounds = B!With(doc.rounds, after.id, after) /\ doc'.rules = doc.rules
         /\ RequestIs(work'[w], m) /\ work'[w] \in Requests
         /\ work'[w].pc = "settle" /\ work'[w].marker = doc'.pending
         /\ \A v \in Workers : v # w => work'[v] = work[v]
<1>   /\ n \in Nat /\ m \in Nat /\ n <= m
      /\ B!Prepare(w, before, after, id, kind, amount)
      /\ id \in B!Ids /\ kind \in B!Kinds \ {"settlement"} /\ amount \in Nat \ {0}
      /\ RoundOk(after, m) /\ ~after.even_money /\ after.status # "settled"
      /\ \A i \in DOMAIN after.hands : ~after.hands[i].credited
      /\ Dealing(before, after, m, n) \/ Moving(before, after, m, n)
  BY DEF Prepared
<1> DEFINE movement == B!Movement(after.id, id, kind, -amount, None)
           marker == [before |-> before, after |-> after, movement |-> movement]
<1>1. after \in B!Rounds /\ after.id \in B!Ids
  BY DEF RoundOk, Sorted, B!Rounds
<1>2. /\ before \in B!Rounds \cup {None}
      /\ before # None => /\ RoundOk(before, m) /\ before.id = after.id /\ before.status = "player_turn"
                          /\ HandIds(before) \subseteq HandIds(after)
  <2>1. CASE Moving(before, after, m, n)
    <3>1. RoundOk(before, n) /\ before.id = after.id
      BY <2>1 DEF Moving, DocIs, BoardIs
    <3>2. RoundOk(before, m) /\ before \in B!Rounds
      BY <3>1, StillOk DEF RoundOk, Sorted
    <3> QED BY <2>1, <3>1, <3>2 DEF Moving
  <2> QED BY <2>1 DEF Dealing
<1>3. /\ movement.key = <<id, kind>> /\ movement.key \in B!Ids \X B!Kinds /\ movement.key[2] = kind
      /\ movement.row = [round |-> after.id, amount |-> -amount, outcome |-> None]
      /\ movement = [key |-> movement.key, row |-> movement.row]
  BY DEF B!Movement
<1>4. movement.row \in B!Rows /\ movement.row.round = after.id /\ movement.row.amount < 0
  <2>1. -amount \in Int /\ -amount < 0 /\ None \in B!Outcomes \cup {None}
    OBVIOUS
  <2> HIDE DEF movement
  <2> QED BY <1>1, <1>3, <2>1 DEF B!Rows
<1> HIDE DEF movement
<1>5. marker.before = before /\ marker.after = after /\ marker.movement = movement
  OBVIOUS
<1>6. marker \in B!Markers
  BY <1>1, <1>2, <1>3, <1>4 DEF B!Markers
<1>7. /\ doc' = [doc EXCEPT !.rounds = B!With(@, after.id, after), !.pending = marker]
      /\ work' = [work EXCEPT ![w] = B!SettlePrepared(TRUE, marker)]
  BY DEF B!Prepare, movement
<1> HIDE DEF marker
<1>8. MarkerIs(marker, m) /\ marker # None
  BY <1>2, <1>3, <1>4, <1>5, <1>6 DEF MarkerIs, B!NoneAssumption
<1>9. /\ DOMAIN doc' = DOMAIN doc /\ doc'.rules = doc.rules /\ doc'.pending = marker
      /\ doc'.rounds = B!With(doc.rounds, after.id, after)
  BY <1>7 DEF DocIs
<1>10. BoardIs(doc'.rounds, m) /\ after.id \in DOMAIN doc'.rounds
  <2> DEFINE R == doc.rounds
             S == doc'.rounds
  <2>1. BoardIs(R, m)
    BY StillFits DEF DocIs
  <2>2. DOMAIN S = DOMAIN R \cup {after.id} /\ S[after.id] = after
    BY <1>9 DEF B!With
  <2>3. ASSUME NEW r \in DOMAIN R, r # after.id PROVE S[r] = R[r]
    BY <1>9, <2>3 DEF B!With
  <2> HIDE DEF R, S
  <2>4. BoardIs(S, m)
    BY <1>1, <2>1, <2>2, <2>3 DEF BoardIs
  <2> QED BY <2>2, <2>4 DEF S
<1>11. DocIs(doc', m)
  BY <1>5, <1>8, <1>9, <1>10 DEF DocIs
<1>12. PICK t \in BOOLEAN : work' = [work EXCEPT ![w] = B!SettlePrepared(t, marker)]
  BY <1>7
<1>13. PICK next : /\ next = B!SettlePrepared(t, marker) /\ RequestIs(next, m) /\ next.pc = "settle"
                   /\ next.marker = marker /\ next \in Requests
  BY <1>8, SettlingRequest
<1>14. WorkIs(m)
  BY StillFits
<1>15. /\ WorkIs(m)' /\ work'[w] = next /\ \A v \in Workers : v # w => work'[v] = work[v]
  <2>1. RequestIs(next, m) /\ work' = [work EXCEPT ![w] = next]
    BY <1>12, <1>13
  <2>2. GoesOn(m, w, next)
    BY <1>14, <2>1, WorkerIsOn
  <2> QED BY <2>2 DEF GoesOn
<1> QED BY <1>1, <1>3, <1>5, <1>8, <1>9, <1>11, <1>13, <1>15

LEMMA PrepareTyped ==
  ASSUME NEW w, w \in Workers, B!TableAssumption, B!NoneAssumption, TableTypes,
         B!PrepareMoneyTransition(w)
  PROVE  TableTypes'
<1>0. PICK n, m, before, after, id, kind, amount :
            n = ids /\ m = ids' /\ m <= MaxIds /\ Prepared(w, n, m, before, after, id, kind, amount)
  BY PreparedRound
<1>1. n \in Nat /\ m \in Nat /\ n = ids /\ m = ids' /\ n <= m /\ m <= MaxIds
  BY <1>0 DEF Prepared
<1>2. DocIs(doc, n) /\ WorkIs(n) /\ LedgerIs
  BY <1>1 DEF TableTypes
<1>3. DocIs(doc', m) /\ WorkIs(m)'
  BY <1>0, <1>2, PreparedState
<1>4. rows' = rows /\ wallet' = wallet /\ claims' = claims
  BY DEF B!PrepareMoneyTransition
<1> QED BY <1>1, <1>2, <1>3, <1>4, LedgerStays, TypesNext

(* A request that changes its place, or has paid one hand more.               *)
Placed(x, place) == [x EXCEPT !.pc = place]

LEMMA RequestEdits ==
  ASSUME NEW x, NEW n, NEW place, NEW y, x # None, RequestIs(x, n), x.pc \in MarkerPcs, place \in MarkerPcs,
         y = Placed(x, place)
  PROVE  /\ RequestIs(y, n) /\ y \in Requests /\ y.pc = place /\ y.marker = x.marker
         /\ (y.absent <=> x.absent) /\ (y.moved <=> x.moved)
<1>1. x \in Requests /\ MarkerIs(x.marker, n)
  BY DEF RequestIs
<1>2. /\ y \in Requests /\ y.pc = place /\ y.marker = x.marker
      /\ (y.absent <=> x.absent) /\ (y.moved <=> x.moved)
  BY <1>1 DEF Requests, Placed
<1> QED BY <1>1, <1>2 DEF RequestIs, MarkerPcs

LEMMA RequestGivesUp ==
  ASSUME NEW x, NEW n, NEW y, x # None, RequestIs(x, n), x.pc \in MarkerPcs,
         y = [x EXCEPT !.pc = "rollback", !.absent = TRUE]
  PROVE  RequestIs(y, n) /\ y \in Requests /\ y.pc = "rollback" /\ y.marker = x.marker /\ y.absent
<1>1. x \in Requests /\ MarkerIs(x.marker, n)
  BY DEF RequestIs
<1>2. y \in Requests /\ y.pc = "rollback" /\ y.marker = x.marker /\ y.absent
  BY <1>1 DEF Requests, MarkerPcs
<1> QED BY <1>1, <1>2 DEF RequestIs, MarkerPcs

LEMMA PaidOneMore ==
  ASSUME NEW x, NEW n, NEW i, NEW y, x # None, RequestIs(x, n), x.pc = "pay", i \in Nat,
         y = [x EXCEPT !.paid = i]
  PROVE  /\ RequestIs(y, n) /\ y \in Requests /\ y.pc = "pay" /\ y.paid = i /\ y.round = x.round
         /\ y.todo = x.todo
<1>1. x \in Requests /\ RoundOk(x.round, n) /\ x.round.status = "settled_pending_credit"
  BY DEF RequestIs
<1>2. /\ y \in Requests /\ y.pc = "pay" /\ y.paid = i /\ y.round = x.round /\ y.todo = x.todo
  BY <1>1 DEF Requests
<1> QED BY <1>1, <1>2 DEF RequestIs, MarkerPcs

LEMMA IdleRequest ==
  ASSUME NEW n
  PROVE  RequestIs(None, n)
BY DEF RequestIs

LEMMA SettingsTyped ==
  ASSUME NEW w, w \in Workers, TableTypes, B!UpdateTableSettings(w) \/ B!Refuse(w)
  PROVE  TableTypes'
<1>1. PICK n \in Nat : n = ids /\ n <= MaxIds /\ DocIs(doc, n) /\ LedgerIs /\ WorkIs(n)
  BY TypesNow
<1>2. /\ work' = [work EXCEPT ![w] = None] /\ rows' = rows /\ wallet' = wallet /\ claims' = claims
      /\ ids' = ids
  BY DEF B!UpdateTableSettings, B!Refuse
<1>3. doc' = doc \/ \E rules \in RuleSets : doc' = [doc EXCEPT !.rules = rules]
  BY DEF B!UpdateTableSettings, B!Refuse
<1>4. DocIs(doc', n)
  BY <1>1, <1>3 DEF DocIs
<1>5. WorkIs(n)'
  BY <1>1, <1>2, IdleRequest, WorkerGoesOn
<1> QED BY <1>1, <1>2, <1>4, <1>5, LedgerStays, TypesNext

(* The request a worker has at a place of its program.                        *)
LEMMA RequestAt ==
  ASSUME NEW w, NEW n, NEW place, w \in Workers, WorkIs(n), B!At(w, place)
  PROVE  /\ work[w] # None /\ work[w].pc = place /\ RequestIs(work[w], n) /\ work[w] \in Requests
         /\ place \in MarkerPcs => MarkerIs(work[w].marker, n)
         /\ place = "pay" => RoundOk(work[w].round, n) /\ work[w].round.status = "settled_pending_credit"
BY DEF B!At, WorkIs, RequestIs

LEMMA MarkerMovement ==
  ASSUME NEW m, NEW n, MarkerIs(m, n)
  PROVE  /\ m.movement.key \in B!Ids \X B!Kinds /\ m.movement.row \in B!Rows
         /\ m.after \in B!Rounds /\ m.before \in B!Rounds \cup {None} /\ m.after.id \in B!Ids
BY DEF MarkerIs, B!Markers, B!Rounds

(* The debit of a marker, in the ledger.                                      *)
DebitStep(n, w, m, next, raised) ==
    /\ work[w] # None /\ work[w].pc = "settle" /\ work[w].marker = m /\ MarkerIs(m, n)
    /\ LedgerIs' /\ WorkIs(n)'
    /\ doc' = doc /\ claims' = claims /\ ids' = ids /\ contested' = contested
    /\ reopened' = reopened
    /\ \/ rows' = rows
       \/ /\ m.movement.key \notin DOMAIN rows
          /\ DOMAIN rows' = DOMAIN rows \cup {m.movement.key}
          /\ rows'[m.movement.key] = m.movement.row
          /\ \A k \in DOMAIN rows : rows'[k] = rows[k]
    /\ \/ work' = [work EXCEPT ![w] = raised]
       \/ /\ m.movement.key \in DOMAIN rows' /\ rows'[m.movement.key] = m.movement.row
          /\ work' = [work EXCEPT ![w] = next]
    /\ next \in Requests /\ next.pc = "complete" /\ next.marker = m
    /\ raised \in Requests /\ raised.pc = "classify" /\ raised.marker = m

LEMMA DebitApplied ==
  ASSUME NEW n, NEW w, w \in Workers, DocIs(doc, n), WorkIs(n), LedgerIs, B!SettlePreparedAction(w)
  PROVE  \E m, next, raised : DebitStep(n, w, m, next, raised)
<1> DEFINE x == work[w]
           m == x.marker
<1>1. B!At(w, "settle") /\ B!ApplyOnce(w, m.movement, [x EXCEPT !.pc = "complete"], B!Classifying(w))
  BY DEF B!SettlePreparedAction
<1>2. /\ x # None /\ x.pc = "settle" /\ x.pc \in MarkerPcs /\ RequestIs(x, n) /\ MarkerIs(m, n)
  BY <1>1, RequestAt DEF MarkerPcs
<1>3. PICK next, raised :
        /\ next = Placed(x, "complete") /\ raised = Placed(x, "classify")
        /\ B!ApplyOnce(w, m.movement, next, raised)
  BY <1>1 DEF B!Classifying, Placed
<1> HIDE DEF x
<1>4. /\ RequestIs(next, n) /\ next \in Requests /\ next.pc = "complete" /\ next.marker = m
      /\ RequestIs(raised, n) /\ raised \in Requests /\ raised.pc = "classify" /\ raised.marker = m
  <2>1. "complete" \in MarkerPcs /\ "classify" \in MarkerPcs
    BY DEF MarkerPcs
  <2> QED BY <1>2, <1>3, <2>1, RequestEdits
<1> HIDE DEF m
<1>5. m.movement.key \in B!Ids \X B!Kinds /\ m.movement.row \in B!Rows
  BY <1>2, MarkerMovement
<1>6. AppliedOnce(n, w, m.movement, next, raised)
  <2> DEFINE mv == m.movement
  <2>1. /\ B!ApplyOnce(w, mv, next, raised) /\ mv.key \in B!Ids \X B!Kinds /\ mv.row \in B!Rows
        /\ RequestIs(next, n) /\ RequestIs(raised, n)
    BY <1>3, <1>4, <1>5
  <2> HIDE DEF mv
  <2>2. AppliedOnce(n, w, mv, next, raised)
    BY <2>1, MovementApplied
  <2> QED BY <2>2 DEF mv
<1>7. work[w] # None /\ work[w].pc = "settle" /\ work[w].marker = m
  BY <1>2 DEF x, m
<1>8. DebitStep(n, w, m, next, raised)
  BY <1>2, <1>4, <1>6, <1>7 DEF DebitStep, AppliedOnce
<1> QED BY <1>8

LEMMA SettleTyped ==
  ASSUME NEW w, w \in Workers, TableTypes, B!SettlePreparedAction(w)
  PROVE  TableTypes'
<1>1. PICK n \in Nat : n = ids /\ n <= MaxIds /\ DocIs(doc, n) /\ LedgerIs /\ WorkIs(n)
  BY TypesNow
<1>2. LedgerIs' /\ WorkIs(n)' /\ doc' = doc /\ ids' = ids
  BY <1>1, DebitApplied DEF DebitStep
<1> QED BY <1>1, <1>2, TypesNext

(* The marker is released.                                                    *)
LEMMA CompleteStep ==
  ASSUME NEW n, NEW w, w \in Workers, B!NoneAssumption, DocIs(doc, n), WorkIs(n), B!Complete(w)
  PROVE  /\ DocIs(doc', n) /\ WorkIs(n)' /\ doc'.rounds = doc.rounds
         /\ doc' = doc \/ (doc'.pending = None /\ doc.pending \in {None, work[w].marker})
         /\ work[w] # None /\ work[w].pc = "complete" /\ MarkerIs(work[w].marker, n)
         /\ \/ work' = [work EXCEPT ![w] = None]
            \/ \E t \in BOOLEAN, Tried \in SUBSET B!Ids :
                  /\ work' = [work EXCEPT ![w] = B!FinishIfNeeded(t, Tried, doc'.rounds)]
                  /\ Tried = {work[w].marker.after.id} \/ Tried = DOMAIN doc.rounds
                  /\ doc'.pending = None /\ doc.pending \in {None, work[w].marker}
<1>1. /\ work[w] # None /\ work[w].pc = "complete" /\ MarkerIs(work[w].marker, n)
      /\ work[w] \in Requests
  <2>1. B!At(w, "complete")
    BY DEF B!Complete
  <2> QED BY <2>1, RequestAt DEF MarkerPcs
<1> DEFINE m == work[w].marker
<1>2. CASE UNCHANGED doc /\ work' = [work EXCEPT ![w] = None]
  <2>1. WorkIs(n)'
    BY <1>2, IdleRequest, WorkerGoesOn
  <2>2. doc' = doc
    BY <1>2
  <2> QED BY <1>1, <1>2, <2>1, <2>2
<1>3. CASE /\ doc.pending \in {None, m} /\ doc' = [doc EXCEPT !.pending = None]
           /\ work' = [work EXCEPT ![w] = B!Continue(w, doc'.rounds)]
  <2>1. doc'.rounds = doc.rounds /\ doc'.pending = None /\ doc'.rules = doc.rules /\ DOMAIN doc' = DOMAIN doc
    BY <1>3 DEF DocIs
  <2>2. DocIs(doc', n) /\ BoardIs(doc'.rounds, n)
    BY <2>1 DEF DocIs
  <2>3. PICK t \in BOOLEAN, Tried \in SUBSET B!Ids :
           /\ work' = [work EXCEPT ![w] = B!FinishIfNeeded(t, Tried, doc'.rounds)]
           /\ Tried = {m.after.id} \/ Tried = DOMAIN doc.rounds
    <3>1. {m.after.id} \in SUBSET B!Ids
      BY <1>1, MarkerMovement
    <3>2. DOMAIN doc'.rounds \in SUBSET B!Ids
      BY <2>2, BoardIds
    <3> QED BY <1>3, <2>1, <3>1, <3>2 DEF B!Continue
  <2>4. RequestIs(B!FinishIfNeeded(t, Tried, doc'.rounds), n)
    BY <2>2, FinishingRequest
  <2>5. WorkIs(n)'
    BY <2>3, <2>4, WorkerGoesOn
  <2> QED BY <1>1, <1>3, <2>1, <2>2, <2>3, <2>5
<1> QED BY <1>2, <1>3 DEF B!Complete

LEMMA CompleteTyped ==
  ASSUME NEW w, w \in Workers, B!NoneAssumption, TableTypes, B!Complete(w)
  PROVE  TableTypes'
<1>1. PICK n \in Nat : n = ids /\ n <= MaxIds /\ DocIs(doc, n) /\ LedgerIs /\ WorkIs(n)
  BY TypesNow
<1>2. DocIs(doc', n) /\ WorkIs(n)'
  BY <1>1, CompleteStep
<1>3. rows' = rows /\ wallet' = wallet /\ claims' = claims /\ ids' = ids
  BY DEF B!Complete
<1> QED BY <1>1, <1>2, <1>3, LedgerStays, TypesNext

LEMMA ClassifyStep ==
  ASSUME NEW n, NEW w, w \in Workers, WorkIs(n), B!Classify(w)
  PROVE  /\ WorkIs(n)' /\ work[w] # None /\ work[w].pc = "classify" /\ MarkerIs(work[w].marker, n)
         /\ \/ work' = [work EXCEPT ![w] = None]
            \/ /\ work[w].marker.movement.key \notin DOMAIN rows
               /\ \E y : /\ work' = [work EXCEPT ![w] = y] /\ y \in Requests /\ y.pc = "rollback"
                         /\ y.marker = work[w].marker /\ y.absent /\ RequestIs(y, n)
<1> DEFINE x == work[w]
           y == [x EXCEPT !.pc = "rollback", !.absent = TRUE]
<1>1. /\ x # None /\ x.pc = "classify" /\ MarkerIs(x.marker, n) /\ RequestIs(x, n) /\ x.pc \in MarkerPcs
  <2>1. B!At(w, "classify")
    BY DEF B!Classify
  <2> QED BY <2>1, RequestAt DEF MarkerPcs
<1>2. \/ work' = [work EXCEPT ![w] = None]
      \/ x.marker.movement.key \notin DOMAIN rows /\ work' = [work EXCEPT ![w] = y]
  BY DEF B!Classify
<1>3. RequestIs(y, n) /\ y \in Requests /\ y.pc = "rollback" /\ y.marker = x.marker /\ y.absent
  <2> HIDE DEF x
  <2> QED BY <1>1, RequestGivesUp
<1> HIDE DEF y
<1>4. WorkIs(n)'
  BY <1>2, <1>3, IdleRequest, WorkerGoesOn
<1> QED BY <1>1, <1>2, <1>3, <1>4

LEMMA ClassifyTyped ==
  ASSUME NEW w, w \in Workers, TableTypes, B!Classify(w)
  PROVE  TableTypes'
<1>1. PICK n \in Nat : n = ids /\ n <= MaxIds /\ DocIs(doc, n) /\ LedgerIs /\ WorkIs(n)
  BY TypesNow
<1>2. WorkIs(n)'
  BY <1>1, ClassifyStep
<1>3. rows' = rows /\ wallet' = wallet /\ claims' = claims /\ ids' = ids /\ doc' = doc
  BY DEF B!Classify
<1>4. DocIs(doc', n)
  BY <1>1, <1>3
<1> QED BY <1>1, <1>2, <1>3, <1>4, LedgerStays, TypesNext

(* The round before the marker is put back, or the one it dealt taken away.   *)
LEMMA RollbackStep ==
  ASSUME NEW n, NEW w, w \in Workers, B!NoneAssumption, DocIs(doc, n), WorkIs(n),
         B!RollbackPreparedAction(w)
  PROVE  /\ DocIs(doc', n) /\ WorkIs(n)' /\ work' = [work EXCEPT ![w] = None]
         /\ work[w] # None /\ work[w].pc = "rollback" /\ MarkerIs(work[w].marker, n)
         /\ \/ doc' = doc /\ contested' = contested
            \/ /\ doc.pending = work[w].marker /\ doc.rounds[doc.pending.after.id] = doc.pending.after
               /\ doc'.pending = None
               /\ \/ /\ doc.pending.before = None
                     /\ DOMAIN doc'.rounds = DOMAIN doc.rounds \ {doc.pending.after.id}
                  \/ /\ doc.pending.before # None /\ DOMAIN doc'.rounds = DOMAIN doc.rounds
                     /\ doc'.rounds[doc.pending.after.id] = doc.pending.before
               /\ \A r \in DOMAIN doc'.rounds : r # doc.pending.after.id => doc'.rounds[r] = doc.rounds[r]
               /\ contested' = IF B!Contested(w, work[w].marker)
                               THEN contested \cup {doc.pending.after.id} ELSE contested
<1>1. work[w] # None /\ work[w].pc = "rollback" /\ MarkerIs(work[w].marker, n)
  <2>1. B!At(w, "rollback")
    BY DEF B!RollbackPreparedAction
  <2> QED BY <2>1, RequestAt DEF MarkerPcs
<1>2. work' = [work EXCEPT ![w] = None]
  BY DEF B!RollbackPreparedAction
<1>3. WorkIs(n)'
  BY <1>2, IdleRequest, WorkerGoesOn
<1> DEFINE m == work[w].marker
           id == m.after.id
           S == doc'.rounds
<1>4. CASE UNCHANGED <<doc, contested>>
  <2>1. doc' = doc /\ contested' = contested
    BY <1>4
  <2> QED BY <1>1, <1>2, <1>3, <2>1
<1>5. CASE /\ doc.pending = m /\ doc.rounds[id] = m.after
           /\ doc' = [doc EXCEPT !.pending = None,
                     !.rounds = IF m.before = None THEN [r \in DOMAIN @ \ {id} |-> @[r]]
                                ELSE [@ EXCEPT ![id] = m.before]]
           /\ contested' = IF B!Contested(w, m) THEN contested \cup {id} ELSE contested
  <2>1. /\ DOMAIN doc' = DOMAIN doc /\ doc'.pending = None /\ doc'.rules = doc.rules
        /\ S = IF m.before = None THEN [r \in DOMAIN doc.rounds \ {id} |-> doc.rounds[r]]
                            ELSE [doc.rounds EXCEPT ![id] = m.before]
    BY <1>5 DEF DocIs
  <2>2. /\ id \in DOMAIN doc.rounds /\ BoardIs(doc.rounds, n)
        /\ m.before # None => RoundOk(m.before, n) /\ m.before.id = id
    <3>1. m # None
      BY <1>1, <1>5 DEF B!NoneAssumption, MarkerIs, DocIs
    <3> QED BY <1>1, <1>5, <3>1 DEF DocIs, MarkerIs
  <2>3. /\ \/ m.before = None /\ DOMAIN S = DOMAIN doc.rounds \ {id}
           \/ m.before # None /\ DOMAIN S = DOMAIN doc.rounds /\ S[id] = m.before
        /\ \A r \in DOMAIN S : r # id => S[r] = doc.rounds[r]
    BY <2>1, <2>2
  <2> HIDE DEF S
  <2>4. BoardIs(S, n)
    BY <2>2, <2>3 DEF BoardIs
  <2>5. DocIs(doc', n)
    BY <2>1, <2>4 DEF DocIs, S
  <2> QED BY <1>1, <1>2, <1>3, <1>5, <2>1, <2>3, <2>5 DEF S
<1> QED BY <1>4, <1>5 DEF B!RollbackPreparedAction

LEMMA RollbackTyped ==
  ASSUME NEW w, w \in Workers, B!NoneAssumption, TableTypes, B!RollbackPreparedAction(w)
  PROVE  TableTypes'
<1>1. PICK n \in Nat : n = ids /\ n <= MaxIds /\ DocIs(doc, n) /\ LedgerIs /\ WorkIs(n)
  BY TypesNow
<1>2. DocIs(doc', n) /\ WorkIs(n)'
  BY <1>1, RollbackStep
<1>3. rows' = rows /\ wallet' = wallet /\ claims' = claims /\ ids' = ids
  BY DEF B!RollbackPreparedAction
<1> QED BY <1>1, <1>2, <1>3, LedgerStays, TypesNext

(* A hand is paid: the first one not paid yet.                                *)
Paying(n, w, i, s, next) ==
    /\ work[w] # None /\ work[w].pc = "pay" /\ RoundOk(work[w].round, n)
    /\ work[w].round.status = "settled_pending_credit"
    /\ s = B!Settlement(work[w].round, work[w].round.hands[i])
    /\ i \in DOMAIN work[w].round.hands /\ i > work[w].paid /\ work[w].round.hands[i].payout_due > 0
    /\ \A j \in DOMAIN work[w].round.hands :
          j > work[w].paid /\ work[w].round.hands[j].payout_due > 0 => i <= j
    /\ next \in Requests /\ next.pc = "pay" /\ next.paid = i /\ next.round = work[w].round
    /\ next.todo = work[w].todo
PayStep(n, w, i, s, next) ==
    /\ Paying(n, w, i, s, next)
    /\ LedgerIs' /\ WorkIs(n)'
    /\ doc' = doc /\ claims' = claims /\ ids' = ids /\ contested' = contested
    /\ reopened' = reopened
    /\ \/ rows' = rows
       \/ /\ s.key \notin DOMAIN rows /\ DOMAIN rows' = DOMAIN rows \cup {s.key}
          /\ rows'[s.key] = s.row /\ \A k \in DOMAIN rows : rows'[k] = rows[k]
    /\ \/ work' = [work EXCEPT ![w] = None]
       \/ s.key \in DOMAIN rows' /\ rows'[s.key] = s.row /\ work' = [work EXCEPT ![w] = next]

LEMMA SettlementFits ==
  ASSUME NEW x, NEW n, NEW i, NEW s, RoundOk(x, n), i \in DOMAIN x.hands, s = B!Settlement(x, x.hands[i])
  PROVE  /\ s.key = <<x.hands[i].id, "settlement">> /\ s.key \in B!Ids \X B!Kinds
         /\ s.row = [round |-> x.id, amount |-> x.hands[i].payout_due, outcome |-> x.hands[i].outcome]
         /\ s.row.round = x.id /\ s.row.outcome = x.hands[i].outcome /\ s.key[2] = "settlement"
         /\ s.row \in B!Rows /\ s = [key |-> s.key, row |-> s.row]
<1>1. /\ x.id \in B!Ids /\ x.hands[i] \in B!Hands
  BY SortedParts DEF RoundOk
<1>2. /\ x.hands[i].id \in B!Ids /\ x.hands[i].payout_due \in Int
      /\ x.hands[i].outcome \in B!Outcomes \cup {None}
  BY <1>1 DEF B!Hands
<1>3. /\ s.key = <<x.hands[i].id, "settlement">>
      /\ s.row = [round |-> x.id, amount |-> x.hands[i].payout_due, outcome |-> x.hands[i].outcome]
      /\ s = [key |-> s.key, row |-> s.row]
  BY DEF B!Settlement, B!Movement
<1>4. s.row \in B!Rows
  BY <1>1, <1>2, <1>3 DEF B!Rows
<1>5. s.key \in B!Ids \X B!Kinds
  BY <1>2, <1>3 DEF B!Kinds
<1> QED BY <1>3, <1>4, <1>5

LEMMA HandPaid ==
  ASSUME NEW n, NEW w, w \in Workers, WorkIs(n), LedgerIs, B!PayHand(w)
  PROVE  \E i, s, next : PayStep(n, w, i, s, next)
<1> DEFINE x == work[w]
           i == B!First(B!Unpaid(w))
           s == B!Settlement(x.round, x.round.hands[i])
           next == [x EXCEPT !.paid = i]
<1>1. /\ x # None /\ x.pc = "pay" /\ RequestIs(x, n) /\ x \in Requests
      /\ RoundOk(x.round, n) /\ x.round.status = "settled_pending_credit"
  <2>1. B!At(w, "pay")
    BY DEF B!PayHand
  <2> QED BY <2>1, RequestAt
<1>2. B!Unpaid(w) # {} /\ B!ApplyOnce(w, s, next, None)
  BY DEF B!PayHand
<1>3. i \in B!Unpaid(w) /\ (\A j \in B!Unpaid(w) : i <= j) /\ i \in Nat
  <2>1. B!Unpaid(w) \subseteq Nat
    BY <1>1, SortedParts DEF B!Unpaid, RoundOk
  <2> QED BY <1>2, <2>1, LeastIsOne
<1> HIDE DEF i
<1>4. /\ i \in DOMAIN x.round.hands /\ i > x.paid /\ x.round.hands[i].payout_due > 0
      /\ \A j \in DOMAIN x.round.hands : j > x.paid /\ x.round.hands[j].payout_due > 0 => i <= j
  BY <1>3 DEF B!Unpaid
<1>5. /\ RequestIs(next, n) /\ next \in Requests /\ next.pc = "pay" /\ next.paid = i
      /\ next.round = x.round /\ next.todo = x.todo
  <2> HIDE DEF x
  <2> QED BY <1>1, <1>3, PaidOneMore
<1> HIDE DEF next, s
<1>6. s.key \in B!Ids \X B!Kinds /\ s.row \in B!Rows
  <2>1. \E y : y = x.round /\ RoundOk(y, n) /\ i \in DOMAIN y.hands /\ s = B!Settlement(y, y.hands[i])
    BY <1>1, <1>4 DEF s
  <2> QED BY <2>1, SettlementFits
<1>7. Paying(n, w, i, s, next)
  BY <1>1, <1>4, <1>5 DEF Paying, s
<1>8. PayStep(n, w, i, s, next)
  <2>1. RequestIs(None, n)
    BY IdleRequest
  <2>2. AppliedOnce(n, w, s, next, None)
    BY <1>2, <1>5, <1>6, <2>1, MovementApplied
  <2> QED BY <1>7, <2>2 DEF PayStep, AppliedOnce
<1> QED BY <1>8

LEMMA PayTyped ==
  ASSUME NEW w, w \in Workers, TableTypes, B!PayHand(w)
  PROVE  TableTypes'
<1>1. PICK n \in Nat : n = ids /\ n <= MaxIds /\ DocIs(doc, n) /\ LedgerIs /\ WorkIs(n)
  BY TypesNow
<1>2. LedgerIs' /\ WorkIs(n)' /\ doc' = doc /\ ids' = ids
  BY <1>1, HandPaid DEF PayStep
<1> QED BY <1>1, <1>2, TypesNext

(* A round compared without what the terminal publication changes.            *)
Alike(a, b) ==
    /\ a.id = b.id /\ (a.even_money <=> b.even_money) /\ DOMAIN a.hands = DOMAIN b.hands
    /\ \A i \in DOMAIN a.hands :
          /\ a.hands[i].id = b.hands[i].id /\ a.hands[i].outcome = b.hands[i].outcome
          /\ a.hands[i].payout_due = b.hands[i].payout_due /\ a.hands[i].cards = b.hands[i].cards

LEMMA Uncredited ==
  ASSUME NEW a, NEW s, NEW n, Sorted(a, n), s = B!SettlementShape(a)
  PROVE  /\ Alike(a, s) /\ (s.even_money <=> a.even_money)
<1>1. /\ a \in B!Rounds /\ a.hands \in Seq(B!Hands)
      /\ \A i \in DOMAIN a.hands : a.hands[i] \in B!Hands
  BY SortedParts DEF Sorted
<1> DEFINE hands == [i \in DOMAIN a.hands |-> [a.hands[i] EXCEPT !.credited = FALSE]]
<1>2. /\ s.id = a.id /\ (s.even_money <=> a.even_money) /\ s.hands = hands
  BY <1>1 DEF B!SettlementShape, B!Rounds
<1>3. DOMAIN hands = DOMAIN a.hands
  OBVIOUS
<1>4. ASSUME NEW i \in DOMAIN a.hands
      PROVE  /\ hands[i].id = a.hands[i].id /\ hands[i].outcome = a.hands[i].outcome
             /\ hands[i].payout_due = a.hands[i].payout_due /\ hands[i].cards = a.hands[i].cards
  <2>1. hands[i] = [a.hands[i] EXCEPT !.credited = FALSE] /\ a.hands[i] \in B!Hands
    BY <1>1
  <2> HIDE DEF hands
  <2> QED BY <2>1 DEF B!Hands
<1> HIDE DEF hands
<1> QED BY <1>2, <1>3, <1>4 DEF Alike

LEMMA SameShape ==
  ASSUME NEW a, NEW b, NEW n, Sorted(a, n), Sorted(b, n), B!SettlementShape(a) = B!SettlementShape(b)
  PROVE  Alike(a, b)
<1>1. Alike(a, B!SettlementShape(a)) /\ Alike(b, B!SettlementShape(b))
  BY Uncredited
<1>2. \A p, q, r : Alike(p, r) /\ Alike(q, r) => Alike(p, q)
  BY DEF Alike
<1> QED BY <1>1, <1>2

(* The terminal state of a round, all of whose returns are paid.              *)
(* A round that plays on without cost.                                        *)
SteadyHand(h, k) ==
    /\ k.id = h.id /\ k.bet = h.bet /\ k.split_from = h.split_from
    /\ k.cards \in {h.cards, "more"}
Steady(x, y) ==
    /\ y.id = x.id /\ y.insurance = x.insurance /\ DOMAIN y.hands = DOMAIN x.hands
    /\ \A i \in DOMAIN x.hands : SteadyHand(x.hands[i], y.hands[i])

LEMMA SettledRound ==
  ASSUME NEW n, NEW a, NEW b, NEW s, RoundOk(a, n), RoundOk(b, n), b.status = "settled_pending_credit",
         Alike(a, b),
         s = [a EXCEPT !.status = "settled", !.hands = [i \in DOMAIN @ |-> [@[i] EXCEPT !.credited = TRUE]]]
  PROVE  /\ RoundOk(s, n) /\ Alike(s, a) /\ Steady(a, s) /\ s.status = "settled"
         /\ \A i \in DOMAIN s.hands : s.hands[i].credited
<1>1. /\ a \in B!Rounds /\ a.hands \in Seq(B!Hands) /\ a.hands # <<>> /\ Len(a.hands) \in Nat
      /\ DOMAIN a.hands = 1..Len(a.hands) /\ 1 \in DOMAIN a.hands
      /\ (\A i \in DOMAIN a.hands : a.hands[i] \in B!Hands) /\ a.id <= n
  BY SortedParts DEF Sorted, RoundOk
<1> DEFINE hands == [i \in DOMAIN a.hands |-> [a.hands[i] EXCEPT !.credited = TRUE]]
<1>2. DOMAIN hands = DOMAIN a.hands
  OBVIOUS
<1>3. ASSUME NEW i \in DOMAIN a.hands
      PROVE  /\ hands[i].id = a.hands[i].id /\ hands[i].outcome = a.hands[i].outcome
             /\ hands[i].payout_due = a.hands[i].payout_due /\ hands[i].cards = a.hands[i].cards
             /\ hands[i].bet = a.hands[i].bet /\ hands[i].split_from = a.hands[i].split_from
             /\ hands[i] \in B!Hands /\ hands[i].credited
  <2>1. hands[i] = [a.hands[i] EXCEPT !.credited = TRUE] /\ a.hands[i] \in B!Hands
    BY <1>1
  <2> HIDE DEF hands
  <2> QED BY <2>1 DEF B!Hands
<1>4. hands \in Seq(B!Hands) /\ hands # <<>>
  <2>1. hands = [i \in 1..Len(a.hands) |-> hands[i]]
    BY <1>1
  <2> HIDE DEF hands
  <2>2. \A i \in 1..Len(a.hands) : hands[i] \in B!Hands
    BY <1>1, <1>3
  <2>3. hands \in Seq(B!Hands)
    <3> DEFINE e(i) == hands[i]
    <3>1. (\A i \in 1..Len(a.hands) : e(i) \in B!Hands) /\ hands = [i \in 1..Len(a.hands) |-> e(i)]
      BY <2>1, <2>2
    <3> HIDE DEF e
    <3> QED BY <1>1, <3>1
  <2> QED BY <1>1, <1>2, <2>3
<1>5. s = [a EXCEPT !.status = "settled", !.hands = hands]
  BY <1>1 DEF B!Rounds
<1> HIDE DEF hands
<1>6. /\ s \in B!Rounds /\ s.id = a.id /\ (s.even_money <=> a.even_money) /\ s.hands = hands
      /\ s.status = "settled" /\ s.insurance = a.insurance
  BY <1>1, <1>4, <1>5 DEF B!Rounds
<1>7. Alike(s, a) /\ Steady(a, s)
  BY <1>2, <1>3, <1>6 DEF Alike, Steady, SteadyHand
<1>8. \A i \in DOMAIN s.hands : HandFits(s, s.hands[i], n) /\ s.hands[i].credited
  <2>1. \A i \in DOMAIN a.hands : HandFits(a, a.hands[i], n)
    BY DEF RoundOk, Sorted
  <2> QED BY <1>2, <1>3, <1>6, <2>1 DEF HandFits
<1>9. OwnIds(s)
  BY <1>2, <1>3, <1>6 DEF OwnIds, Sorted, RoundOk
<1>10. s.hands[1].cards = "natural" => s.hands[1].outcome # None
  BY <1>1, <1>2, <1>3, <1>6 DEF Alike, RoundOk, Sorted
<1>11. Sorted(s, n)
  BY <1>1, <1>4, <1>6, <1>8, <1>9, <1>10 DEF Sorted
<1> QED BY <1>6, <1>7, <1>8, <1>11 DEF RoundOk

Finalizing(n, w, r, s) ==
    /\ r = work[w].round.id /\ r \in DOMAIN doc.rounds
    /\ B!SettlementShape(doc.rounds[r]) = B!SettlementShape(work[w].round)
    /\ Alike(doc.rounds[r], work[w].round)
    /\ RoundOk(doc.rounds[r], n) /\ doc.rounds[r].id = r
    /\ RoundOk(s, n) /\ Alike(s, doc.rounds[r]) /\ Steady(doc.rounds[r], s) /\ s.status = "settled"
    /\ \A i \in DOMAIN s.hands : s.hands[i].credited
    /\ doc'.pending = doc.pending /\ DOMAIN doc'.rounds = DOMAIN doc.rounds /\ doc'.rounds[r] = s
    /\ \A q \in DOMAIN doc.rounds : q # r => doc'.rounds[q] = doc.rounds[q]
    /\ claims' = [h \in DOMAIN claims |->
                    claims[h] + IF h \in B!Unclaimed(doc.rounds[r]) THEN 1 ELSE 0]
    /\ BoardIs(doc'.rounds, n)
    /\ \E t \in BOOLEAN, Tried \in SUBSET B!Ids :
          Tried = work[w].todo /\ work' = [work EXCEPT ![w] = B!FinishIfNeeded(t, Tried, doc'.rounds)]

LEMMA FinalizeStep ==
  ASSUME NEW n, NEW w, w \in Workers, DocIs(doc, n), WorkIs(n), LedgerIs, B!Finalize(w)
  PROVE  /\ DocIs(doc', n) /\ WorkIs(n)' /\ LedgerIs' /\ rows' = rows
         /\ work[w] # None /\ work[w].pc = "pay" /\ B!Unpaid(w) = {} /\ RoundOk(work[w].round, n)
         /\ \/ doc' = doc /\ claims' = claims /\ work' = [work EXCEPT ![w] = None]
            \/ \E r, s : Finalizing(n, w, r, s)
<1> DEFINE x == work[w]
           r == x.round.id
           now == doc.rounds[r]
<1>1. /\ x # None /\ x.pc = "pay" /\ x \in Requests
      /\ RoundOk(x.round, n) /\ x.round.status = "settled_pending_credit" /\ B!Unpaid(w) = {}
  <2>1. B!At(w, "pay") /\ B!Unpaid(w) = {}
    BY DEF B!Finalize
  <2> QED BY <2>1, RequestAt
<1>2. rows' = rows /\ wallet' = wallet
  BY DEF B!Finalize
<1>3. CASE doc' = doc /\ claims' = claims /\ work' = [work EXCEPT ![w] = None]
  <2>1. WorkIs(n)' /\ LedgerIs'
    BY <1>2, <1>3, IdleRequest, WorkerGoesOn, LedgerStays
  <2> QED BY <1>1, <1>2, <1>3, <2>1
<1> DEFINE settled == [now EXCEPT !.status = "settled",
                         !.hands = [i \in DOMAIN @ |-> [@[i] EXCEPT !.credited = TRUE]]]
           Claimed == [h \in DOMAIN claims |-> claims[h] + IF h \in B!Unclaimed(now) THEN 1 ELSE 0]
<1>4. CASE /\ r \in DOMAIN doc.rounds /\ B!SettlementShape(now) = B!SettlementShape(x.round)
           /\ doc' = [doc EXCEPT !.rounds[now.id] = settled] /\ claims' = Claimed
           /\ work' = [work EXCEPT ![w] = B!FinishIfNeeded(x.moved, x.todo, doc'.rounds)]
  <2>1. now.id = r /\ RoundOk(now, n)
    BY <1>4 DEF DocIs, BoardIs
  <2>2. Alike(now, x.round)
    BY <1>1, <1>4, <2>1, SameShape DEF RoundOk
  <2>3. PICK s : s = settled
    OBVIOUS
  <2>4. /\ RoundOk(s, n) /\ Alike(s, now) /\ Steady(now, s) /\ s.status = "settled"
        /\ \A i \in DOMAIN s.hands : s.hands[i].credited
    <3> HIDE DEF now, x
    <3> QED BY <1>1, <2>1, <2>2, <2>3, SettledRound
  <2>5. doc' = [doc EXCEPT !.rounds[r] = s]
    BY <1>4, <2>1, <2>3
  <2> HIDE DEF settled
  <2>6. s.id = r
    BY <2>1, <2>4 DEF Alike
  <2>7. /\ DOMAIN doc' = DOMAIN doc /\ doc'.pending = doc.pending /\ doc'.rules = doc.rules
        /\ DOMAIN doc'.rounds = DOMAIN doc.rounds /\ doc'.rounds[r] = s
        /\ \A q \in DOMAIN doc.rounds : q # r => doc'.rounds[q] = doc.rounds[q]
    BY <1>4, <2>5 DEF DocIs
  <2>8. BoardIs(doc'.rounds, n)
    BY <2>4, <2>6, <2>7 DEF BoardIs, DocIs
  <2>9. DocIs(doc', n)
    BY <2>7, <2>8 DEF DocIs
  <2>10. LedgerIs'
    <3>1. Claimed \in [B!Ids -> Nat]
      BY DEF LedgerIs
    <3> HIDE DEF Claimed
    <3> QED BY <1>2, <1>4, <3>1 DEF LedgerIs
  <2>11. PICK t \in BOOLEAN, Tried \in SUBSET B!Ids :
            Tried = x.todo /\ work' = [work EXCEPT ![w] = B!FinishIfNeeded(t, Tried, doc'.rounds)]
    <3>1. x.moved \in BOOLEAN /\ x.todo \in SUBSET B!Ids
      BY <1>1 DEF Requests
    <3> QED BY <1>4, <3>1
  <2>12. RequestIs(B!FinishIfNeeded(t, Tried, doc'.rounds), n)
    BY <2>8, FinishingRequest
  <2>13. WorkIs(n)'
    BY <2>11, <2>12, WorkerGoesOn
  <2>14. Finalizing(n, w, r, s)
    BY <1>4, <2>1, <2>2, <2>4, <2>7, <2>8, <2>11 DEF Finalizing
  <2> QED BY <1>1, <1>2, <2>9, <2>10, <2>13, <2>14
<1> QED BY <1>3, <1>4 DEF B!Finalize

LEMMA FinalizeTyped ==
  ASSUME NEW w, w \in Workers, TableTypes, B!Finalize(w)
  PROVE  TableTypes'
<1>1. PICK n \in Nat : n = ids /\ n <= MaxIds /\ DocIs(doc, n) /\ LedgerIs /\ WorkIs(n)
  BY TypesNow
<1>2. DocIs(doc', n) /\ WorkIs(n)' /\ LedgerIs'
  BY <1>1, FinalizeStep
<1>3. ids' = ids
  BY DEF B!Finalize
<1> QED BY <1>1, <1>2, <1>3, TypesNext

(* A request that fails is over, or looks for its debit.                      *)
LEMMA FailStep ==
  ASSUME NEW n, NEW w, w \in Workers, WorkIs(n), B!Fail(w)
  PROVE  /\ WorkIs(n)' /\ work[w] # None
         /\ \/ work' = [work EXCEPT ![w] = None]
            \/ \E y : /\ work' = [work EXCEPT ![w] = y] /\ y \in Requests /\ y.pc = "classify"
                      /\ y.marker = work[w].marker /\ work[w].pc = "settle" /\ MarkerIs(y.marker, n)
                      /\ RequestIs(y, n)
<1> DEFINE x == work[w]
<1>1. x # None
  BY DEF B!Fail
<1>2. CASE work' = [work EXCEPT ![w] = None]
  BY <1>1, <1>2, IdleRequest, WorkerGoesOn
<1>3. CASE B!At(w, "settle") /\ work' = [work EXCEPT ![w] = B!Classifying(w)]
  <2>1. /\ x.pc = "settle" /\ x.pc \in MarkerPcs /\ "classify" \in MarkerPcs
        /\ RequestIs(x, n) /\ MarkerIs(x.marker, n)
    BY <1>3, RequestAt DEF MarkerPcs
  <2>2. PICK y : y = Placed(x, "classify") /\ work' = [work EXCEPT ![w] = y]
    BY <1>3 DEF Placed, B!Classifying
  <2>3. RequestIs(y, n) /\ y \in Requests /\ y.pc = "classify" /\ y.marker = x.marker
    <3> HIDE DEF x
    <3> QED BY <1>1, <2>1, <2>2, RequestEdits
  <2>4. WorkIs(n)'
    BY <2>2, <2>3, WorkerGoesOn
  <2> QED BY <1>1, <2>1, <2>2, <2>3, <2>4
<1> QED BY <1>2, <1>3 DEF B!Fail

LEMMA FailTyped ==
  ASSUME NEW w, w \in Workers, TableTypes, B!Fail(w)
  PROVE  TableTypes'
<1>1. PICK n \in Nat : n = ids /\ n <= MaxIds /\ DocIs(doc, n) /\ LedgerIs /\ WorkIs(n)
  BY TypesNow
<1>2. WorkIs(n)'
  BY <1>1, FailStep
<1>3. rows' = rows /\ wallet' = wallet /\ claims' = claims /\ ids' = ids /\ doc' = doc
  BY DEF B!Fail
<1>4. DocIs(doc', n)
  BY <1>1, <1>3
<1> QED BY <1>1, <1>2, <1>3, <1>4, LedgerStays, TypesNext

LEMMA InitTyped ==
  ASSUME B!TableAssumption, B!Init
  PROVE  TableTypes
<1>1. PICK rules \in RuleSets : doc = [rules |-> rules, rounds |-> B!Empty, pending |-> None]
  BY DEF B!Init
<1>2. DOMAIN B!Empty = {}
  BY DEF B!Empty
<1>3. /\ rows = B!Empty /\ wallet = OpeningBalance /\ claims = [h \in 1..MaxIds |-> 0]
      /\ work = [w \in Workers |-> None] /\ ids = 0
  BY DEF B!Init
<1>4. DocIs(doc, 0)
  <2>1. /\ DOMAIN doc = {"rules", "rounds", "pending"} /\ doc.rules = rules /\ doc.rounds = B!Empty
        /\ doc.pending = None
    BY <1>1
  <2>2. BoardIs(doc.rounds, 0)
    BY <1>2, <2>1 DEF BoardIs
  <2> QED BY <1>1, <2>1, <2>2 DEF DocIs
<1>5. LedgerIs
  BY <1>2, <1>3 DEF LedgerIs, B!TableAssumption, B!Ids
<1>6. WorkIs(0)
  BY <1>3 DEF WorkIs, RequestIs
<1>7. ids \in Nat /\ ids <= MaxIds
  BY <1>3 DEF B!TableAssumption
<1> QED BY <1>3, <1>4, <1>5, <1>6, <1>7 DEF TableTypes

LEMMA StepTyped ==
  ASSUME B!TableAssumption, B!NoneAssumption, TableTypes, [B!Next]_(B!vars)
  PROVE  TableTypes'
<1>1. ASSUME NEW w \in Workers, B!LoadMutationState(w) PROVE TableTypes'
  BY <1>1, LoadTyped
<1>2. ASSUME NEW w \in Workers, B!CommitRoundTransition(w) PROVE TableTypes'
  BY <1>2, CommitTyped
<1>3. ASSUME NEW w \in Workers, B!PrepareMoneyTransition(w) PROVE TableTypes'
  BY <1>3, PrepareTyped
<1>4. ASSUME NEW w \in Workers, B!UpdateTableSettings(w) \/ B!Refuse(w) PROVE TableTypes'
  BY <1>4, SettingsTyped
<1>5. ASSUME NEW w \in Workers, B!SettlePreparedAction(w) PROVE TableTypes'
  BY <1>5, SettleTyped
<1>6. ASSUME NEW w \in Workers, B!Complete(w) PROVE TableTypes'
  BY <1>6, CompleteTyped
<1>7. ASSUME NEW w \in Workers, B!Classify(w) PROVE TableTypes'
  BY <1>7, ClassifyTyped
<1>8. ASSUME NEW w \in Workers, B!RollbackPreparedAction(w) PROVE TableTypes'
  BY <1>8, RollbackTyped
<1>9. ASSUME NEW w \in Workers, B!PayHand(w) PROVE TableTypes'
  BY <1>9, PayTyped
<1>10. ASSUME NEW w \in Workers, B!Finalize(w) PROVE TableTypes'
  BY <1>10, FinalizeTyped
<1>11. ASSUME NEW w \in Workers, B!Fail(w) PROVE TableTypes'
  BY <1>11, FailTyped
<1>12. CASE UNCHANGED B!vars
  BY <1>12 DEF B!vars, TableTypes, DocIs, LedgerIs, WorkIs
<1> QED BY <1>1, <1>2, <1>3, <1>4, <1>5, <1>6, <1>7, <1>8, <1>9, <1>10, <1>11, <1>12
        DEF B!Next, B!Step

LEMMA TypesAreTyped ==
  ASSUME B!NoneAssumption, TableTypes
  PROVE  B!TypeOK
<1>1. PICK n \in Nat : n = ids /\ n <= MaxIds /\ DocIs(doc, n) /\ LedgerIs /\ WorkIs(n)
  BY TypesNow
<1>2. doc.rules \in RuleSets /\ DOMAIN doc.rounds \subseteq B!Ids
  BY <1>1 DEF DocIs, BoardIs
<1>3. ASSUME NEW r \in DOMAIN doc.rounds
      PROVE  LET round == doc.rounds[r] IN
             /\ round \in B!Rounds /\ round.id = r /\ round.hands # <<>>
             /\ round.status = "player_turn" => B!Active(round) # {}
             /\ \A i, j \in DOMAIN round.hands :
                   i # j => round.hands[i].id # round.hands[j].id
  BY <1>1 DEF DocIs, BoardIs, RoundOk, Sorted, OwnIds
<1>4. /\ doc.pending \in B!Markers \cup {None}
      /\ doc.pending # None => doc.pending.after.id \in DOMAIN doc.rounds
  BY <1>1 DEF DocIs, MarkerIs
<1>5. ASSUME NEW w \in Workers, work[w] # None
      PROVE  work[w].pc \in {"act", "settle", "complete", "classify", "rollback", "pay"}
  BY <1>1, <1>5 DEF WorkIs, RequestIs, Requests, MarkerPcs
<1> QED BY <1>1, <1>2, <1>3, <1>4, <1>5 DEF B!TypeOK, LedgerIs

(* The document, the ledger, the claims and every request of Blackjack keep   *)
(* their sets: rounds have hands under names of their own, a round in the     *)
(* player's turn has a hand to play, and what is prepared is for a round of   *)
(* the document.                                                              *)
THEOREM BlackjackTypes ==
  ASSUME B!TableAssumption, B!NoneAssumption
  PROVE  B!Spec => []B!TypeOK
<1>1. B!Init => TableTypes
  BY InitTyped
<1>2. TableTypes /\ [B!Next]_(B!vars) => TableTypes'
  BY StepTyped
<1>3. TableTypes => B!TypeOK
  BY TypesAreTyped
<1> QED BY <1>1, <1>2, <1>3, PTL DEF B!Spec

-----------------------------------------------------------------------------
(* The returns in the ledger. R are the rounds of the document and P what is  *)
(* prepared, L the ledger and Y the claims, W the requests, n the names drawn, *)
(* C the contested rounds and E the reopened ones.                            *)

(* The movement pays a hand of the round as it was decided.                   *)
Owed(x, k, row) ==
    /\ x.status # "player_turn"
    /\ \E i \in DOMAIN x.hands : /\ x.hands[i].payout_due > 0
                                 /\ k = B!Settlement(x, x.hands[i]).key
                                 /\ row = B!Settlement(x, x.hands[i]).row
PaidUpTo(L, x, j) ==
    \A i \in DOMAIN x.hands : i <= j /\ x.hands[i].payout_due > 0 =>
        /\ B!Settlement(x, x.hands[i]).key \in DOMAIN L
        /\ L[B!Settlement(x, x.hands[i]).key] = B!Settlement(x, x.hands[i]).row
Unreturned(L, r) == \A k \in DOMAIN L : L[k].round = r => k[2] # "settlement"

(* A round even money took out of its settled state: its first hand is paid   *)
(* for another outcome, and can never be paid for this one.                   *)
Stuck(R, L, E, r) ==
    /\ r \in E /\ r \in DOMAIN R /\ R[r].even_money /\ R[r].status = "settled_pending_credit"
    /\ R[r].hands[1].outcome = "even_money" /\ R[r].hands[1].payout_due > 0
    /\ <<R[r].hands[1].id, "settlement">> \in DOMAIN L
    /\ L[<<R[r].hands[1].id, "settlement">>].outcome # "even_money"

Open(R, r) == r \in DOMAIN R /\ R[r].status # "settled"
OneOpen(R, L, E) ==
    \A r, q : r # q /\ Open(R, r) /\ Open(R, q) => Stuck(R, L, E, r) \/ Stuck(R, L, E, q)

OnlyDealt(P, L, W) ==
    /\ \A v \in Workers : W[v] # None /\ W[v].pc \in MarkerPcs /\ W[v].marker.after.id = P.after.id
                             => W[v].marker = P
    /\ \A k \in DOMAIN L : L[k].round = P.after.id => k = P.movement.key
PendingIs(R, P, L, W, C) ==
    P # None =>
       /\ R[P.after.id] = P.after
       /\ P.after.id \in C \/ Unreturned(L, P.after.id)
       /\ P.before = None => OnlyDealt(P, L, W)

Claimed(R, Y, n) ==
    /\ \A h \in B!Ids : Y[h] <= 1 /\ (h > n => Y[h] = 0)
    /\ \A r \in DOMAIN R : \A i \in DOMAIN R[r].hands :
          ~R[r].hands[i].credited => Y[R[r].hands[i].id] = 0
Apart(R) == \A r, q \in DOMAIN R : r # q => HandIds(R[r]) \cap HandIds(R[q]) = {}
Returned(R, L, n, C, E) ==
    /\ \A r \in E : r \in DOMAIN R /\ R[r].even_money
    /\ \A r \in DOMAIN R : R[r].status = "settled" => PaidUpTo(L, R[r], Len(R[r].hands))
    /\ \A r \in DOMAIN R : \A k \in DOMAIN L :
          r \notin C /\ r \notin E /\ L[k].round = r /\ k[2] = "settlement" => Owed(R[r], k, L[k])
    /\ \A k \in DOMAIN L : L[k].round \in DOMAIN R \cup C /\ L[k].round \in 1..n
    /\ C \subseteq 1..n

(* What a request stands on while it pays the round of name s.                *)
Pays(x, s, R, P, L, E, n) ==
    /\ s = x.round.id /\ PaidUpTo(L, x.round, x.paid)
    /\ s \in DOMAIN R /\ R[s].status # "player_turn"
    /\ P # None => P.after.id # s
    /\ Alike(R[s], x.round) \/ s \in E
    /\ \A q \in x.todo : q \in 1..n /\ (Open(R, q) => Stuck(R, L, E, q) \/ Stuck(R, L, E, s))
MoneyOf(x, R, P, L, n, C, E) ==
    x # None =>
       /\ x.pc = "rollback" => x.absent
       /\ x.pc = "settle" => x.marker.after.id \in DOMAIN R \cup C
       /\ x.pc = "pay" => Pays(x, x.round.id, R, P, L, E, n)

Money(R, P, L, Y, W, n, C, E) ==
    /\ OneOpen(R, L, E) /\ PendingIs(R, P, L, W, C) /\ Claimed(R, Y, n) /\ Apart(R)
    /\ Returned(R, L, n, C, E)
    /\ \A v \in Workers : MoneyOf(W[v], R, P, L, n, C, E)

Grows(L, K) == DOMAIN L \subseteq DOMAIN K /\ \A k \in DOMAIN L : K[k] = L[k]

LEMMA StuckStays ==
  ASSUME NEW R, NEW S, NEW L, NEW K, NEW E, NEW F, NEW r, Stuck(R, L, E, r), Grows(L, K),
         r \in F, r \in DOMAIN S, S[r] = R[r]
  PROVE  Stuck(S, K, F, r)
BY DEF Stuck, Grows

LEMMA PaidStays ==
  ASSUME NEW L, NEW K, NEW x, NEW j, PaidUpTo(L, x, j), Grows(L, K)
  PROVE  PaidUpTo(K, x, j)
BY DEF PaidUpTo, Grows

LEMMA OwedStays ==
  ASSUME NEW L, NEW K, NEW R, NEW n, NEW C, NEW E, NEW r, NEW k, Returned(R, L, n, C, E), Grows(L, K),
         r \in DOMAIN R, r \notin C, r \notin E, k \in DOMAIN L, K[k].round = r, k[2] = "settlement"
  PROVE  Owed(R[r], k, K[k])
BY DEF Returned, Grows

(* Nothing is lost on a request whose rounds stay while the ledger grows.     *)
LEMMA MoneyStays ==
  ASSUME NEW x, NEW R, NEW P, NEW Q, NEW L, NEW K, NEW n, NEW C, NEW E,
         MoneyOf(x, R, P, L, n, C, E), Grows(L, K), Q \in {P, None}
  PROVE  MoneyOf(x, R, Q, K, n, C, E)
<1>1. ASSUME NEW s, Pays(x, s, R, P, L, E, n) PROVE Pays(x, s, R, Q, K, E, n)
  <2>1. PaidUpTo(K, x.round, x.paid)
    BY <1>1, PaidStays DEF Pays
  <2>2. ASSUME NEW r, Stuck(R, L, E, r) PROVE Stuck(R, K, E, r)
    BY <2>2, StuckStays DEF Stuck
  <2> QED BY <1>1, <2>1, <2>2 DEF Pays
<1> QED BY <1>1 DEF MoneyOf

(* What is new in the ledger is owed, and nothing else of what is prepared.   *)
Added(R, P, L, K, n, C, E) ==
    \A k \in DOMAIN K : k \notin DOMAIN L =>
       /\ K[k].round \in DOMAIN R \cup C /\ K[k].round \in 1..n
       /\ \A r \in DOMAIN R : r \notin C /\ r \notin E /\ K[k].round = r /\ k[2] = "settlement"
             => Owed(R[r], k, K[k])
       /\ P # None /\ K[k].round = P.after.id =>
             k[2] # "settlement" /\ (P.before = None => k = P.movement.key)

(* A step that leaves the rounds alone and takes nothing back.                *)
LEMMA QuietMoney ==
  ASSUME NEW w, NEW R, NEW P, NEW Q, NEW L, NEW K, NEW Y, NEW W, NEW V, NEW n, NEW C, NEW E,
         Money(R, P, L, Y, W, n, C, E), Grows(L, K), Q \in {P, None},
         \A v \in Workers : v # w => V[v] = W[v], w \in Workers => MoneyOf(V[w], R, Q, K, n, C, E),
         Added(R, P, L, K, n, C, E),
         Q # None /\ P.before = None /\ V[w] # None /\ V[w].pc \in MarkerPcs
         /\ V[w].marker.after.id = P.after.id => V[w].marker = P
  PROVE  Money(R, Q, K, Y, V, n, C, E)
<1>1. OneOpen(R, K, E)
  <2>1. ASSUME NEW r, Stuck(R, L, E, r) PROVE Stuck(R, K, E, r)
    BY <2>1, StuckStays DEF Stuck
  <2> QED BY <2>1 DEF Money, OneOpen
<1>2. Claimed(R, Y, n) /\ Apart(R)
  BY DEF Money
<1>3. PendingIs(R, Q, K, V, C)
  <2>1. SUFFICES ASSUME Q # None, Q = P PROVE PendingIs(R, P, K, V, C)
    BY DEF PendingIs
  <2>2. PendingIs(R, P, L, W, C)
    BY DEF Money
  <2>3. ASSUME Unreturned(L, P.after.id) PROVE Unreturned(K, P.after.id)
    BY <2>1, <2>3 DEF Unreturned, Grows, Added
  <2>4. ASSUME P.before = None, OnlyDealt(P, L, W) PROVE OnlyDealt(P, K, V)
    <3>1. ASSUME NEW v \in Workers, V[v] # None, V[v].pc \in MarkerPcs, V[v].marker.after.id = P.after.id
          PROVE  V[v].marker = P
      BY <2>1, <2>4, <3>1 DEF OnlyDealt
    <3>2. ASSUME NEW k \in DOMAIN K, K[k].round = P.after.id PROVE k = P.movement.key
      BY <2>1, <2>4, <3>2 DEF OnlyDealt, Grows, Added
    <3> QED BY <3>1, <3>2 DEF OnlyDealt
  <2> QED BY <2>1, <2>2, <2>3, <2>4 DEF PendingIs
<1>4. Returned(R, K, n, C, E)
  <2>1. Returned(R, L, n, C, E)
    BY DEF Money
  <2>2. ASSUME NEW r \in DOMAIN R, R[r].status = "settled" PROVE PaidUpTo(K, R[r], Len(R[r].hands))
    BY <2>1, <2>2, PaidStays DEF Returned
  <2>3. ASSUME NEW r \in DOMAIN R, NEW k \in DOMAIN K, r \notin C, r \notin E, K[k].round = r,
               k[2] = "settlement"
        PROVE  Owed(R[r], k, K[k])
    BY <2>1, <2>3, OwedStays DEF Added
  <2>4. ASSUME NEW k \in DOMAIN K PROVE K[k].round \in DOMAIN R \cup C /\ K[k].round \in 1..n
    BY <2>1, <2>4 DEF Returned, Grows, Added
  <2>5. C \subseteq 1..n
    BY <2>1 DEF Returned
  <2>6. \A r \in E : r \in DOMAIN R /\ R[r].even_money
    BY <2>1 DEF Returned
  <2> QED BY <2>2, <2>3, <2>4, <2>5, <2>6 DEF Returned
<1>5. ASSUME NEW v \in Workers PROVE MoneyOf(V[v], R, Q, K, n, C, E)
  <2>1. CASE v # w
    <3>1. MoneyOf(W[v], R, P, L, n, C, E) /\ V[v] = W[v]
      BY <2>1 DEF Money
    <3> QED BY <3>1, MoneyStays
  <2> QED BY <2>1
<1> QED BY <1>1, <1>2, <1>3, <1>4, <1>5 DEF Money

(* A request that is over, or acts, or settles, has nothing to stand on.      *)
LEMMA IdleMoney ==
  ASSUME NEW x, NEW R, NEW P, NEW L, NEW n, NEW C, NEW E,
         x = None \/ x.pc \in {"act", "complete", "classify"}
         \/ (x.pc = "rollback" /\ x.absent) \/ (x.pc = "settle" /\ x.marker.after.id \in DOMAIN R \cup C)
  PROVE  MoneyOf(x, R, P, L, n, C, E)
BY DEF MoneyOf

LEMMA RoundName ==
  ASSUME NEW x, NEW n, n \in Nat, RoundOk(x, n)
  PROVE  x.id \in 1..n
<1>1. x.id \in B!Ids /\ x.id <= n
  BY SortedParts DEF RoundOk, Sorted
<1> QED BY <1>1 DEF B!Ids

(* The request goes on to the rounds that are left to finish.                 *)
Named(S, n) == \A q \in S : q \in 1..n
Elsewhere(todo, R, P) ==
    P # None => \A q \in todo : Open(R, q) /\ R[q].status = "settled_pending_credit" => q # P.after.id
LEMMA FinishingMoney ==
  ASSUME NEW moved, NEW todo, NEW R, NEW P, NEW L, NEW n, NEW C, NEW E, NEW x, n \in Nat,
         moved \in BOOLEAN, todo \in SUBSET B!Ids, Named(todo, n),
         BoardIs(R, n), OneOpen(R, L, E), x = B!FinishIfNeeded(moved, todo, R),
         Elsewhere(todo, R, P)
  PROVE  MoneyOf(x, R, P, L, n, C, E) /\ (x # None => x.pc \notin MarkerPcs)
<1>1. \/ x = None
      \/ x \in Requests /\ x.pc = "act"
      \/ /\ x \in Requests /\ x.pc = "pay" /\ x.paid = 0
         /\ x.round.id \in todo \cap DOMAIN R /\ x.round = R[x.round.id]
         /\ x.round.status = "settled_pending_credit" /\ RoundOk(x.round, n)
         /\ x.todo = {q \in todo : q > x.round.id}
  BY FinishingRequest
<1>2. CASE x = None \/ x.pc = "act"
  BY <1>2 DEF MoneyOf, MarkerPcs
<1>3. CASE /\ x \in Requests /\ x.pc = "pay" /\ x.paid = 0
           /\ x.round.id \in todo \cap DOMAIN R /\ x.round = R[x.round.id]
           /\ x.round.status = "settled_pending_credit" /\ RoundOk(x.round, n)
           /\ x.todo = {q \in todo : q > x.round.id}
  <2>1. PICK s : s = x.round.id
    OBVIOUS
  <2> DEFINE Rest(r) == {q \in todo : q > r}
  <2>2. /\ s \in todo /\ s \in DOMAIN R /\ R[s] = x.round /\ R[s].status = "settled_pending_credit"
        /\ s \in Nat /\ x.todo = Rest(s)
    <3>1. B!Ids \subseteq Nat
      BY DEF B!Ids
    <3> HIDE DEF Rest
    <3>2. /\ s \in todo /\ s \in DOMAIN R /\ R[s] = x.round /\ R[s].status = "settled_pending_credit"
      BY <1>3, <2>1
    <3>3. x.todo = Rest(s)
      BY <1>3, <2>1 DEF Rest
    <3> QED BY <3>1, <3>2, <3>3
  <2>3. PaidUpTo(L, x.round, x.paid)
    <3>1. DOMAIN x.round.hands = 1..Len(x.round.hands) /\ Len(x.round.hands) \in Nat
      BY <1>3, SortedParts DEF RoundOk
    <3>2. \A i \in DOMAIN x.round.hands : ~(i <= x.paid)
      BY <1>3, <3>1
    <3> QED BY <3>2 DEF PaidUpTo
  <2>4. Alike(R[s], x.round)
    BY <2>2 DEF Alike
  <2>5. Open(R, s)
    BY <2>2 DEF Open
  <2>6. P # None => P.after.id # s
    BY <2>2, <2>5 DEF Elsewhere
  <2>7. ASSUME NEW q \in x.todo PROVE q \in 1..n /\ (Open(R, q) => Stuck(R, L, E, q) \/ Stuck(R, L, E, s))
    <3>1. q \in todo /\ q > s
      <4>1. q \in Rest(s)
        BY <2>2, <2>7
      <4> QED BY <4>1
    <3>2. q # s /\ q \in 1..n
      BY <2>2, <3>1 DEF Named
    <3> QED BY <2>5, <3>2 DEF OneOpen
  <2>8. Pays(x, s, R, P, L, E, n)
    BY <2>1, <2>2, <2>3, <2>4, <2>6, <2>7 DEF Pays
  <2> QED BY <1>3, <2>1, <2>8 DEF MoneyOf, MarkerPcs
<1> QED BY <1>1, <1>2, <1>3

TableMoney == Money(doc.rounds, doc.pending, rows, claims, work, ids, contested, reopened)

(* The money after a step, its parts being constants.                         *)
LEMMA MoneyNext ==
  ASSUME NEW S, NEW Q, NEW K, NEW Y, NEW V, NEW m, NEW D, NEW F, Money(S, Q, K, Y, V, m, D, F),
         doc'.rounds = S, doc'.pending = Q, rows' = K, claims' = Y, work' = V, ids' = m,
         contested' = D, reopened' = F
  PROVE  TableMoney'
BY DEF TableMoney

(* A quiet step that leaves the ledger alone.                                 *)
Calm(w, Q, V) ==
    /\ Q \in {doc.pending, None} /\ doc'.rounds = doc.rounds /\ doc'.pending = Q
    /\ rows' = rows /\ claims' = claims /\ ids' = ids /\ contested' = contested
    /\ reopened' = reopened /\ work' = V /\ \A v \in Workers : v # w => V[v] = work[v]
    /\ MoneyOf(V[w], doc.rounds, Q, rows, ids, contested, reopened)
    /\ Q # None /\ V[w] # None /\ V[w].pc \in MarkerPcs => V[w].marker = doc.pending
       \/ (work[w] # None /\ work[w].pc \in MarkerPcs /\ V[w].marker = work[w].marker)
LEMMA CalmMoney ==
  ASSUME NEW w, w \in Workers, NEW Q, NEW V, TableMoney, Calm(w, Q, V)
  PROVE  TableMoney'
<1>1. PICK R, P, L, Y, W, n, C, E :
         /\ R = doc.rounds /\ P = doc.pending /\ L = rows /\ Y = claims /\ W = work /\ n = ids
         /\ C = contested /\ E = reopened
  OBVIOUS
<1>2. Money(R, P, L, Y, W, n, C, E)
  BY <1>1 DEF TableMoney
<1>3. ASSUME Q # None, P.before = None, V[w] # None, V[w].pc \in MarkerPcs, V[w].marker.after.id = P.after.id
      PROVE  V[w].marker = P
  <2>1. OnlyDealt(P, L, W)
    BY <1>1, <1>2, <1>3 DEF Money, PendingIs, Calm
  <2> QED BY <1>1, <1>3, <2>1 DEF OnlyDealt, Calm
<1>4. Grows(L, L) /\ Added(R, P, L, L, n, C, E)
  BY DEF Grows, Added
<1>5. /\ Q \in {P, None} /\ \A v \in Workers : v # w => V[v] = W[v]
      /\ w \in Workers => MoneyOf(V[w], R, Q, L, n, C, E)
      /\ Q # None /\ P.before = None /\ V[w] # None /\ V[w].pc \in MarkerPcs
         /\ V[w].marker.after.id = P.after.id => V[w].marker = P
  BY <1>1, <1>3 DEF Calm
<1>6. Money(R, Q, L, Y, V, n, C, E)
  BY <1>2, <1>4, <1>5, QuietMoney
<1> QED BY <1>1, <1>6, MoneyNext DEF Calm

LEMMA LoadMoney ==
  ASSUME NEW w, w \in Workers, TableTypes, TableMoney, B!LoadMutationState(w)
  PROVE  TableMoney'
<1>1. PICK n \in Nat : n = ids /\ n <= MaxIds /\ DocIs(doc, n) /\ LedgerIs /\ WorkIs(n)
  BY TypesNow
<1> DEFINE next == IF doc.pending # None THEN B!SettlePrepared(FALSE, doc.pending)
                   ELSE B!FinishIfNeeded(FALSE, DOMAIN doc.rounds, doc.rounds)
<1>2. /\ work' = [work EXCEPT ![w] = next] /\ doc' = doc /\ rows' = rows /\ claims' = claims
      /\ ids' = ids /\ contested' = contested /\ reopened' = reopened
  BY DEF B!LoadMutationState
<1>3. /\ MoneyOf(next, doc.rounds, doc.pending, rows, n, contested, reopened)
      /\ next # None /\ next.pc \in MarkerPcs => next.marker = doc.pending
  <2>1. CASE doc.pending # None
    <3>1. PICK f \in BOOLEAN : next = B!SettlePrepared(f, doc.pending)
      BY <2>1
    <3>2. MarkerIs(doc.pending, n) /\ doc.pending.after.id \in DOMAIN doc.rounds
      BY <1>1, <2>1 DEF DocIs
    <3> HIDE DEF next
    <3>3. next.pc = "settle" /\ next.marker = doc.pending
      BY <3>1, <3>2, SettlingRequest
    <3> QED BY <3>2, <3>3, IdleMoney
  <2>2. CASE doc.pending = None
    <3>1. PICK f \in BOOLEAN, todo \in SUBSET B!Ids :
             todo = DOMAIN doc.rounds /\ next = B!FinishIfNeeded(f, todo, doc.rounds)
      BY <1>1, <2>2 DEF DocIs, BoardIs
    <3>2. BoardIs(doc.rounds, n) /\ OneOpen(doc.rounds, rows, reopened)
      BY <1>1 DEF DocIs, TableMoney, Money
    <3>3. Named(todo, n)
      BY <3>1, <3>2, RoundName DEF Named, BoardIs
    <3> HIDE DEF next
    <3> QED BY <2>2, <3>1, <3>2, <3>3, FinishingMoney DEF Elsewhere
  <2> QED BY <2>1, <2>2
<1> HIDE DEF next
<1>4. PICK Q, V : Q = doc'.pending /\ V = work'
  OBVIOUS
<1>5. V[w] = next /\ \A v \in Workers : v # w => V[v] = work[v]
  BY <1>1, <1>2, <1>4 DEF WorkIs
<1>7. Calm(w, Q, V)
  BY <1>1, <1>2, <1>3, <1>4, <1>5 DEF Calm
<1> QED BY <1>7, CalmMoney

LEMMA SettingsMoney ==
  ASSUME NEW w, w \in Workers, TableTypes, TableMoney, B!UpdateTableSettings(w) \/ B!Refuse(w)
  PROVE  TableMoney'
<1>1. PICK n \in Nat : n = ids /\ n <= MaxIds /\ DocIs(doc, n) /\ LedgerIs /\ WorkIs(n)
  BY TypesNow
<1>2. /\ work' = [work EXCEPT ![w] = None] /\ rows' = rows /\ claims' = claims
      /\ ids' = ids /\ contested' = contested /\ reopened' = reopened
  BY DEF B!UpdateTableSettings, B!Refuse
<1>3. doc'.rounds = doc.rounds /\ doc'.pending = doc.pending
  BY <1>1 DEF B!UpdateTableSettings, B!Refuse, DocIs
<1>4. PICK Q, V : Q = doc'.pending /\ V = work'
  OBVIOUS
<1>5. V[w] = None /\ \A v \in Workers : v # w => V[v] = work[v]
  BY <1>1, <1>2, <1>4 DEF WorkIs
<1>6. MoneyOf(V[w], doc.rounds, Q, rows, ids, contested, reopened)
  BY <1>5, IdleMoney
<1>7. Calm(w, Q, V)
  BY <1>2, <1>3, <1>4, <1>5, <1>6 DEF Calm
<1> QED BY <1>7, CalmMoney

LEMMA ClassifyMoney ==
  ASSUME NEW w, w \in Workers, TableTypes, TableMoney, B!Classify(w)
  PROVE  TableMoney'
<1>1. PICK n \in Nat : n = ids /\ n <= MaxIds /\ DocIs(doc, n) /\ LedgerIs /\ WorkIs(n)
  BY TypesNow
<1>2. /\ doc' = doc /\ rows' = rows /\ claims' = claims
      /\ ids' = ids /\ contested' = contested /\ reopened' = reopened
  BY DEF B!Classify
<1>3. PICK y : /\ work' = [work EXCEPT ![w] = y] /\ work[w] # None /\ work[w].pc = "classify"
               /\ y = None \/ (y.pc = "rollback" /\ y.marker = work[w].marker /\ y.absent)
  BY <1>1, ClassifyStep
<1>4. PICK Q, V : Q = doc'.pending /\ V = work'
  OBVIOUS
<1>5. V[w] = y /\ \A v \in Workers : v # w => V[v] = work[v]
  BY <1>1, <1>3, <1>4 DEF WorkIs
<1>6. MoneyOf(V[w], doc.rounds, Q, rows, ids, contested, reopened)
  BY <1>3, <1>5, IdleMoney
<1>7. Calm(w, Q, V)
  BY <1>2, <1>3, <1>4, <1>5, <1>6 DEF Calm, MarkerPcs
<1> QED BY <1>7, CalmMoney

LEMMA FailMoney ==
  ASSUME NEW w, w \in Workers, TableTypes, TableMoney, B!Fail(w)
  PROVE  TableMoney'
<1>1. PICK n \in Nat : n = ids /\ n <= MaxIds /\ DocIs(doc, n) /\ LedgerIs /\ WorkIs(n)
  BY TypesNow
<1>2. /\ doc' = doc /\ rows' = rows /\ claims' = claims
      /\ ids' = ids /\ contested' = contested /\ reopened' = reopened
  BY DEF B!Fail
<1>3. PICK y : /\ work' = [work EXCEPT ![w] = y] /\ work[w] # None
               /\ y = None \/ (y.pc = "classify" /\ y.marker = work[w].marker /\ work[w].pc = "settle")
  BY <1>1, FailStep
<1>4. PICK Q, V : Q = doc'.pending /\ V = work'
  OBVIOUS
<1>5. V[w] = y /\ \A v \in Workers : v # w => V[v] = work[v]
  BY <1>1, <1>3, <1>4 DEF WorkIs
<1>6. MoneyOf(V[w], doc.rounds, Q, rows, ids, contested, reopened)
  BY <1>3, <1>5, IdleMoney
<1>7. Calm(w, Q, V)
  BY <1>2, <1>3, <1>4, <1>5, <1>6 DEF Calm, MarkerPcs
<1> QED BY <1>7, CalmMoney

LEMMA CompleteMoney ==
  ASSUME NEW w, w \in Workers, B!NoneAssumption, TableTypes, TableMoney, B!Complete(w)
  PROVE  TableMoney'
<1>1. PICK n \in Nat : n = ids /\ n <= MaxIds /\ DocIs(doc, n) /\ LedgerIs /\ WorkIs(n)
  BY TypesNow
<1>2. /\ rows' = rows /\ claims' = claims
      /\ ids' = ids /\ contested' = contested /\ reopened' = reopened
  BY DEF B!Complete
<1>3. /\ doc'.rounds = doc.rounds /\ doc'.pending \in {doc.pending, None}
      /\ MarkerIs(work[w].marker, n)
      /\ \/ work' = [work EXCEPT ![w] = None]
         \/ \E t \in BOOLEAN, Tried \in SUBSET B!Ids :
               /\ work' = [work EXCEPT ![w] = B!FinishIfNeeded(t, Tried, doc'.rounds)]
               /\ Tried = {work[w].marker.after.id} \/ Tried = DOMAIN doc.rounds
               /\ doc'.pending = None
  BY <1>1, CompleteStep
<1>4. PICK Q, V : Q = doc'.pending /\ V = work'
  OBVIOUS
<1>5. \A v \in Workers : v # w => V[v] = work[v]
  BY <1>1, <1>3, <1>4 DEF WorkIs
<1>6. /\ MoneyOf(V[w], doc.rounds, Q, rows, n, contested, reopened)
      /\ V[w] # None => V[w].pc \notin MarkerPcs
  <2>1. CASE work' = [work EXCEPT ![w] = None]
    <3>1. V[w] = None
      BY <1>1, <1>4, <2>1 DEF WorkIs
    <3> QED BY <3>1, IdleMoney
  <2>2. ASSUME NEW t \in BOOLEAN, NEW Tried \in SUBSET B!Ids, doc'.pending = None,
               work' = [work EXCEPT ![w] = B!FinishIfNeeded(t, Tried, doc'.rounds)],
               Tried = {work[w].marker.after.id} \/ Tried = DOMAIN doc.rounds
        PROVE  /\ MoneyOf(V[w], doc.rounds, Q, rows, n, contested, reopened)
               /\ V[w] # None => V[w].pc \notin MarkerPcs
    <3>1. V[w] = B!FinishIfNeeded(t, Tried, doc.rounds)
      BY <1>1, <1>3, <1>4, <2>2 DEF WorkIs
    <3>2. BoardIs(doc.rounds, n) /\ OneOpen(doc.rounds, rows, reopened)
      BY <1>1 DEF DocIs, TableMoney, Money
    <3>3. Named(Tried, n)
      <4>1. work[w].marker.after.id \in 1..n
        BY <1>3, RoundName DEF MarkerIs
      <4>2. \A r \in DOMAIN doc.rounds : r \in 1..n
        BY <3>2, RoundName DEF BoardIs
      <4> QED BY <2>2, <4>1, <4>2 DEF Named
    <3>4. PICK todo : todo = Tried /\ todo \in SUBSET B!Ids
      OBVIOUS
    <3>5. Elsewhere(todo, doc.rounds, Q)
      BY <1>4, <2>2 DEF Elsewhere
    <3> QED BY <3>1, <3>2, <3>3, <3>4, <3>5, FinishingMoney
  <2> QED BY <1>3, <2>1, <2>2
<1>7. Calm(w, Q, V)
  BY <1>1, <1>2, <1>3, <1>4, <1>5, <1>6 DEF Calm
<1> QED BY <1>7, CalmMoney

-----------------------------------------------------------------------------
(* The movements of the ledger.                                               *)
LEMMA SettlementParts ==
  ASSUME NEW x, NEW i, NEW s, s = B!Settlement(x, x.hands[i])
  PROVE  /\ s.key = <<x.hands[i].id, "settlement">> /\ s.key[2] = "settlement"
         /\ s.row.round = x.id /\ s.row.outcome = x.hands[i].outcome
BY DEF B!Settlement, B!Movement

LEMMA AlikeSettles ==
  ASSUME NEW a, NEW b, NEW i, Alike(a, b), i \in DOMAIN a.hands
  PROVE  B!Settlement(a, a.hands[i]) = B!Settlement(b, b.hands[i])
BY DEF B!Settlement, B!Movement, Alike

LEMMA SettleMoney ==
  ASSUME NEW w, w \in Workers, TableTypes, TableMoney, B!SettlePreparedAction(w)
  PROVE  TableMoney'
<1>1. PICK n \in Nat : n = ids /\ n <= MaxIds /\ DocIs(doc, n) /\ LedgerIs /\ WorkIs(n)
  BY TypesNow
<1>2. PICK m, next, raised : DebitStep(n, w, m, next, raised)
  BY <1>1, DebitApplied
<1>3. PICK R, P, L, Y, W, C, E :
         /\ R = doc.rounds /\ P = doc.pending /\ L = rows /\ Y = claims /\ W = work
         /\ C = contested /\ E = reopened
  OBVIOUS
<1>4. PICK K, V : K = rows' /\ V = work'
  OBVIOUS
<1>5. Money(R, P, L, Y, W, n, C, E)
  BY <1>1, <1>3 DEF TableMoney
<1>6. /\ W[w] # None /\ W[w].pc = "settle" /\ W[w].marker = m /\ MarkerIs(m, n)
      /\ m.after.id \in DOMAIN R \cup C
  <2>1. W[w] # None /\ W[w].pc = "settle" /\ W[w].marker = m /\ MarkerIs(m, n)
    BY <1>2, <1>3 DEF DebitStep
  <2> QED BY <1>5, <2>1 DEF Money, MoneyOf
<1>7. Grows(L, K) /\ \A k \in DOMAIN K : k \notin DOMAIN L => k = m.movement.key /\ K[k] = m.movement.row
  BY <1>2, <1>3, <1>4 DEF DebitStep, Grows
<1>8. Added(R, P, L, K, n, C, E)
  <2>1. ASSUME NEW k \in DOMAIN K, k \notin DOMAIN L
        PROVE  /\ K[k].round \in DOMAIN R \cup C /\ K[k].round \in 1..n /\ k[2] # "settlement"
               /\ P # None /\ K[k].round = P.after.id /\ P.before = None => k = P.movement.key
    <3>1. k = m.movement.key /\ K[k] = m.movement.row /\ K[k].round = m.after.id
      BY <1>6, <1>7, <2>1 DEF MarkerIs
    <3>2. m.after.id \in 1..n /\ m.movement.key[2] # "settlement"
      BY <1>6, RoundName DEF MarkerIs
    <3>3. ASSUME P # None, m.after.id = P.after.id, P.before = None PROVE m = P
      <4>1. OnlyDealt(P, L, W)
        BY <1>5, <3>3 DEF Money, PendingIs
      <4> QED BY <1>6, <3>3, <4>1 DEF OnlyDealt, MarkerPcs
    <3> QED BY <1>6, <3>1, <3>2, <3>3
  <2> QED BY <2>1 DEF Added
<1>9. /\ \A v \in Workers : v # w => V[v] = W[v]
      /\ V[w].pc \in {"complete", "classify"} /\ V[w].marker = m
  BY <1>1, <1>2, <1>3, <1>4 DEF DebitStep, WorkIs
<1>10. /\ w \in Workers => MoneyOf(V[w], R, P, K, n, C, E)
       /\ P # None /\ P.before = None /\ V[w] # None /\ V[w].pc \in MarkerPcs
          /\ V[w].marker.after.id = P.after.id => V[w].marker = P
  <2>1. MoneyOf(V[w], R, P, K, n, C, E)
    BY <1>9, IdleMoney
  <2>2. ASSUME P # None, m.after.id = P.after.id, P.before = None PROVE m = P
    <3>1. OnlyDealt(P, L, W)
      BY <1>5, <2>2 DEF Money, PendingIs
    <3> QED BY <1>6, <2>2, <3>1 DEF OnlyDealt, MarkerPcs
  <2> QED BY <1>9, <2>1, <2>2
<1>11. P \in {P, None} /\ \A v \in Workers : v # w => V[v] = W[v]
  BY <1>9
<1>12. Money(R, P, K, Y, V, n, C, E)
  BY <1>5, <1>7, <1>8, <1>10, <1>11, QuietMoney
<1>13. /\ doc'.rounds = R /\ doc'.pending = P /\ rows' = K /\ claims' = Y /\ work' = V /\ ids' = n
       /\ contested' = C /\ reopened' = E
  BY <1>1, <1>2, <1>3, <1>4 DEF DebitStep
<1> QED BY <1>12, <1>13, MoneyNext

LEMMA PayMoney ==
  ASSUME NEW w, w \in Workers, TableTypes, TableMoney, B!PayHand(w)
  PROVE  TableMoney'
<1>1. PICK n \in Nat : n = ids /\ n <= MaxIds /\ DocIs(doc, n) /\ LedgerIs /\ WorkIs(n)
  BY TypesNow
<1>2. PICK i, s, next : PayStep(n, w, i, s, next)
  BY <1>1, HandPaid
<1>3. PICK R, P, L, Y, W, C, E :
         /\ R = doc.rounds /\ P = doc.pending /\ L = rows /\ Y = claims /\ W = work
         /\ C = contested /\ E = reopened
  OBVIOUS
<1>4. PICK K, V : K = rows' /\ V = work'
  OBVIOUS
<1>5. Money(R, P, L, Y, W, n, C, E)
  BY <1>1, <1>3 DEF TableMoney
<1>6. PICK x, b, r : x = W[w] /\ b = x.round /\ r = b.id
  OBVIOUS
<1>7. /\ x # None /\ x.pc = "pay" /\ RoundOk(b, n)
      /\ s = B!Settlement(b, b.hands[i]) /\ i \in DOMAIN b.hands /\ b.hands[i].payout_due > 0
      /\ \A j \in DOMAIN b.hands : j > x.paid /\ b.hands[j].payout_due > 0 => i <= j
      /\ next \in Requests /\ next.pc = "pay" /\ next.paid = i /\ next.round = b /\ next.todo = x.todo
      /\ x \in Requests
  <2>1. Paying(n, w, i, s, next) /\ work[w] = x
    BY <1>2, <1>3, <1>6 DEF PayStep
  <2>2. x \in Requests
    BY <1>1, <2>1 DEF WorkIs, RequestIs, Paying
  <2> QED BY <1>6, <2>1, <2>2 DEF Paying
<1>8. Pays(x, r, R, P, L, E, n)
  BY <1>5, <1>6, <1>7 DEF Money, MoneyOf
<1>9. Grows(L, K) /\ \A k \in DOMAIN K : k \notin DOMAIN L => k = s.key /\ K[k] = s.row
  BY <1>2, <1>3, <1>4 DEF PayStep, Grows
<1>10. s.key[2] = "settlement" /\ s.row.round = r /\ r \in 1..n
  <2>1. s.key[2] = "settlement" /\ s.row.round = b.id
    BY <1>7, SettlementParts
  <2> QED BY <1>6, <1>7, <2>1, RoundName
<1>11. Added(R, P, L, K, n, C, E)
  <2>1. ASSUME NEW k \in DOMAIN K, k \notin DOMAIN L
        PROVE  /\ K[k].round \in DOMAIN R \cup C /\ K[k].round \in 1..n
               /\ \A q \in DOMAIN R : q \notin C /\ q \notin E /\ K[k].round = q /\ k[2] = "settlement"
                     => Owed(R[q], k, K[k])
               /\ P # None => K[k].round # P.after.id
    <3>1. k = s.key /\ K[k] = s.row /\ K[k].round = r
      BY <1>9, <1>10, <2>1
    <3>2. r \in DOMAIN R /\ R[r].status # "player_turn" /\ (P # None => r # P.after.id)
          /\ (Alike(R[r], b) \/ r \in E)
      BY <1>6, <1>8 DEF Pays
    <3>3. ASSUME r \notin E PROVE Owed(R[r], k, K[k])
      <4>1. Alike(R[r], b)
        BY <3>2, <3>3
      <4>2. i \in DOMAIN R[r].hands /\ R[r].hands[i].payout_due > 0
        BY <1>7, <4>1 DEF Alike
      <4>3. s = B!Settlement(R[r], R[r].hands[i])
        BY <1>7, <4>1, <4>2, AlikeSettles
      <4> QED BY <3>1, <3>2, <4>2, <4>3 DEF Owed
    <3> QED BY <1>10, <3>1, <3>2, <3>3
  <2> QED BY <2>1 DEF Added
<1>12. \A v \in Workers : v # w => V[v] = W[v]
  BY <1>1, <1>2, <1>3, <1>4 DEF PayStep, WorkIs
<1>13. /\ w \in Workers => MoneyOf(V[w], R, P, K, n, C, E)
       /\ V[w] # None => V[w].pc \notin MarkerPcs
  <2>1. CASE work' = [work EXCEPT ![w] = None]
    <3>1. V[w] = None
      BY <1>1, <1>4, <2>1 DEF WorkIs
    <3> QED BY <3>1, IdleMoney
  <2>2. CASE s.key \in DOMAIN rows' /\ rows'[s.key] = s.row /\ work' = [work EXCEPT ![w] = next]
    <3>1. V[w] = next
      BY <1>1, <1>4, <2>2 DEF WorkIs
    <3>2. PaidUpTo(K, b, i)
      <4>1. PaidUpTo(K, b, x.paid)
        BY <1>6, <1>8, <1>9, PaidStays DEF Pays
      <4>2. DOMAIN b.hands = 1..Len(b.hands) /\ Len(b.hands) \in Nat /\ x.paid \in Nat
        BY <1>7, SortedParts DEF RoundOk, Requests
      <4>3. ASSUME NEW j \in DOMAIN b.hands, j <= i, b.hands[j].payout_due > 0
            PROVE  /\ B!Settlement(b, b.hands[j]).key \in DOMAIN K
                   /\ K[B!Settlement(b, b.hands[j]).key] = B!Settlement(b, b.hands[j]).row
        <5>1. CASE j <= x.paid
          BY <4>1, <4>3, <5>1 DEF PaidUpTo
        <5>2. CASE j > x.paid
          <6>1. j = i
            BY <1>7, <4>2, <4>3, <5>2
          <6> QED BY <1>4, <1>7, <2>2, <6>1
        <5> QED BY <4>2, <5>1, <5>2
      <4> QED BY <4>3 DEF PaidUpTo
    <3>3. MoneyOf(x, R, P, K, n, C, E)
      <4>1. MoneyOf(x, R, P, L, n, C, E) /\ P \in {P, None}
        BY <1>5, <1>6 DEF Money
      <4> QED BY <1>9, <4>1, MoneyStays
    <3>4. Pays(x, r, R, P, K, E, n)
      BY <1>6, <1>7, <3>3 DEF MoneyOf
    <3>5. Pays(next, r, R, P, K, E, n)
      BY <1>6, <1>7, <3>2, <3>4 DEF Pays
    <3> QED BY <1>6, <1>7, <3>1, <3>5 DEF MoneyOf, MarkerPcs
  <2> QED BY <1>2, <2>1, <2>2 DEF PayStep
<1>14. /\ P \in {P, None} /\ \A v \in Workers : v # w => V[v] = W[v]
       /\ P # None /\ P.before = None /\ V[w] # None /\ V[w].pc \in MarkerPcs
          /\ V[w].marker.after.id = P.after.id => V[w].marker = P
  BY <1>12, <1>13
<1>15. Money(R, P, K, Y, V, n, C, E)
  BY <1>5, <1>9, <1>11, <1>13, <1>14, QuietMoney
<1>16. /\ doc'.rounds = R /\ doc'.pending = P /\ rows' = K /\ claims' = Y /\ work' = V /\ ids' = n
       /\ contested' = C /\ reopened' = E
  BY <1>1, <1>2, <1>3, <1>4 DEF PayStep
<1> QED BY <1>15, <1>16, MoneyNext

-----------------------------------------------------------------------------
(* A round that is still open, y in place of x under the name r: a move, the  *)
(* one of a marker, or the one a rollback puts back.                          *)
Turns(R, S, P, Q, L, n, m, C, D, x, y, r) ==
    /\ n \in Nat /\ m \in Nat /\ n <= m /\ BoardIs(R, n)
    /\ r \in DOMAIN R /\ x = R[r] /\ x.status # "settled" /\ ~x.even_money
    /\ \A i \in DOMAIN x.hands : ~x.hands[i].credited
    /\ DOMAIN S = DOMAIN R /\ S[r] = y /\ \A q \in DOMAIN R : q # r => S[q] = R[q]
    /\ y.status # "settled"
    /\ \A h \in HandIds(y) : h \in HandIds(x) \/ (h \in B!Ids /\ h > n)
    /\ x.status = "player_turn" \/ (P # None /\ P.after.id = r)
    /\ C \subseteq D /\ D \subseteq C \cup {r}
    /\ r \in D \/ Unreturned(L, r)
    /\ Q # None => Q.after = y /\ Q.after.id = r /\ Q.before # None

LEMMA RoundTurns ==
  ASSUME NEW w, NEW R, NEW S, NEW P, NEW Q, NEW L, NEW Y, NEW W, NEW V, NEW n, NEW m, NEW C, NEW D,
         NEW E, NEW x, NEW y, NEW r, Money(R, P, L, Y, W, n, C, E),
         Turns(R, S, P, Q, L, n, m, C, D, x, y, r), \A v \in Workers : v # w => V[v] = W[v]
  PROVE  /\ OneOpen(S, L, E)
         /\ MoneyOf(V[w], S, Q, L, m, D, E) => Money(S, Q, L, Y, V, m, D, E)
<1>1. r \notin E
  BY DEF Money, Returned, Turns
<1>2. ASSUME NEW q, Stuck(R, L, E, q) PROVE Stuck(S, L, E, q) /\ q # r
  <2>1. q \in E /\ q \in DOMAIN R /\ q # r
    BY <1>1, <1>2 DEF Stuck
  <2>2. Grows(L, L) /\ q \in DOMAIN S /\ S[q] = R[q]
    BY <2>1 DEF Grows, Turns
  <2> QED BY <1>2, <2>1, <2>2, StuckStays
<1>3. \A q : Open(S, q) <=> Open(R, q)
  BY DEF Open, Turns
<1>4. OneOpen(S, L, E)
  BY <1>2, <1>3 DEF OneOpen, Money
<1>5. PendingIs(S, Q, L, V, D)
  BY DEF PendingIs, Turns
<1>6. ASSUME NEW q \in DOMAIN R, NEW i \in DOMAIN R[q].hands
      PROVE  R[q].hands[i].id \in B!Ids /\ R[q].hands[i].id <= n
  <2>1. RoundOk(R[q], n)
    BY DEF Turns, BoardIs
  <2> QED BY <2>1, SortedParts DEF RoundOk, Sorted, HandFits, B!Hands
<1>7. Claimed(S, Y, m)
  <2>1. Claimed(R, Y, n)
    BY DEF Money
  <2>2. ASSUME NEW h \in B!Ids PROVE Y[h] <= 1 /\ (h > m => Y[h] = 0)
    <3>1. h > m => h > n
      BY DEF Turns, B!Ids
    <3> QED BY <2>1, <3>1 DEF Claimed
  <2>3. ASSUME NEW i \in DOMAIN y.hands PROVE Y[y.hands[i].id] = 0
    <3>1. y.hands[i].id \in HandIds(y)
      BY DEF HandIds
    <3>2. ASSUME NEW j \in DOMAIN x.hands PROVE Y[x.hands[j].id] = 0
      BY <2>1 DEF Claimed, Turns
    <3>3. \A h \in HandIds(x) : Y[h] = 0
      BY <3>2 DEF HandIds
    <3> QED BY <2>1, <3>1, <3>3 DEF Claimed, Turns
  <2>4. ASSUME NEW q \in DOMAIN S, NEW i \in DOMAIN S[q].hands, ~S[q].hands[i].credited
        PROVE  Y[S[q].hands[i].id] = 0
    BY <2>1, <2>3, <2>4 DEF Claimed, Turns
  <2> QED BY <2>2, <2>4 DEF Claimed
<1>8. Apart(S)
  <2>1. ASSUME NEW q \in DOMAIN R, q # r PROVE HandIds(y) \cap HandIds(R[q]) = {}
    <3>1. HandIds(x) \cap HandIds(R[q]) = {}
      BY <2>1 DEF Money, Apart, Turns
    <3>2. \A h \in HandIds(R[q]) : h \in B!Ids /\ h <= n
      BY <1>6, <2>1 DEF HandIds
    <3>3. \A h \in HandIds(R[q]) : ~(h > n)
      BY <3>2 DEF Turns, B!Ids
    <3> QED BY <3>1, <3>3 DEF Turns
  <2> QED BY <2>1 DEF Money, Apart, Turns
<1>9. Returned(S, L, m, D, E)
  <2>1. Returned(R, L, n, C, E)
    BY DEF Money
  <2>2. \A q \in E : q \in DOMAIN S /\ S[q].even_money
    BY <1>1, <2>1 DEF Returned, Turns
  <2>3. \A q \in DOMAIN S : S[q].status = "settled" => PaidUpTo(L, S[q], Len(S[q].hands))
    BY <2>1 DEF Returned, Turns
  <2>4. \A q \in DOMAIN S : \A k \in DOMAIN L :
           q \notin D /\ q \notin E /\ L[k].round = q /\ k[2] = "settlement" => Owed(S[q], k, L[k])
    BY <2>1 DEF Returned, Turns, Unreturned
  <2>5. 1..n \subseteq 1..m
    BY DEF Turns
  <2>6. r \in 1..n
    BY RoundName DEF Turns, BoardIs
  <2>7. D \subseteq 1..m
    BY <2>1, <2>5, <2>6 DEF Returned, Turns
  <2>8. \A k \in DOMAIN L : L[k].round \in DOMAIN S \cup D /\ L[k].round \in 1..m
    BY <2>1, <2>5 DEF Returned, Turns
  <2> QED BY <2>2, <2>3, <2>4, <2>7, <2>8 DEF Returned
<1>10. ASSUME NEW z, MoneyOf(z, R, P, L, n, C, E) PROVE MoneyOf(z, S, Q, L, m, D, E)
  <2>1. ASSUME NEW s, Pays(z, s, R, P, L, E, n) PROVE Pays(z, s, S, Q, L, E, m)
    <3>1. s # r /\ s \in DOMAIN S /\ S[s] = R[s]
      BY <2>1 DEF Pays, Turns
    <3>2. Q # None => Q.after.id # s
      BY <3>1 DEF Turns
    <3>3. ASSUME NEW q \in z.todo
          PROVE  q \in 1..m /\ (Open(S, q) => Stuck(S, L, E, q) \/ Stuck(S, L, E, s))
      <4>1. q \in 1..n /\ (Open(R, q) => Stuck(R, L, E, q) \/ Stuck(R, L, E, s))
        BY <2>1, <3>3 DEF Pays
      <4>2. q \in 1..m
        BY <4>1 DEF Turns
      <4> QED BY <1>2, <1>3, <4>1, <4>2
    <3> QED BY <2>1, <3>1, <3>2, <3>3 DEF Pays
  <2> QED BY <1>10, <2>1 DEF MoneyOf, Turns
<1>11. ASSUME NEW v \in Workers, v # w PROVE MoneyOf(V[v], S, Q, L, m, D, E)
  <2>1. V[v] = W[v] /\ MoneyOf(W[v], R, P, L, n, C, E)
    BY <1>11 DEF Money
  <2> QED BY <1>10, <2>1
<1> QED BY <1>4, <1>5, <1>7, <1>8, <1>9, <1>11 DEF Money

(* What RoundTurns asks, under one name.                                      *)
TurnFits(w, R, S, P, Q, L, Y, W, V, n, m, C, D, E, x, y, r) ==
    /\ Money(R, P, L, Y, W, n, C, E) /\ Turns(R, S, P, Q, L, n, m, C, D, x, y, r)
    /\ \A v \in Workers : v # w => V[v] = W[v]

LEMMA TurnGoesOn ==
  ASSUME NEW w, NEW R, NEW S, NEW P, NEW Q, NEW L, NEW Y, NEW W, NEW V, NEW n, NEW m, NEW C, NEW D,
         NEW E, NEW x, NEW y, NEW r, TurnFits(w, R, S, P, Q, L, Y, W, V, n, m, C, D, E, x, y, r),
         MoneyOf(V[w], S, Q, L, m, D, E)
  PROVE  Money(S, Q, L, Y, V, m, D, E)
BY RoundTurns DEF TurnFits

LEMMA TurnLeavesOneOpen ==
  ASSUME NEW w, NEW R, NEW S, NEW P, NEW Q, NEW L, NEW Y, NEW W, NEW V, NEW n, NEW m, NEW C, NEW D,
         NEW E, NEW x, NEW y, NEW r, TurnFits(w, R, S, P, Q, L, Y, W, V, n, m, C, D, E, x, y, r)
  PROVE  OneOpen(S, L, E)
BY RoundTurns DEF TurnFits

(* What even money leaves of the round it is taken on.                        *)
Reopened(x, y) ==
    /\ y.status = "settled_pending_credit" /\ y.even_money /\ y.id = x.id
    /\ HandIds(y) = HandIds(x) /\ DOMAIN y.hands = DOMAIN x.hands /\ 1 \in DOMAIN x.hands
    /\ \A i \in DOMAIN x.hands : /\ y.hands[i].id = x.hands[i].id
                                 /\ y.hands[i].credited <=> x.hands[i].credited
    /\ y.hands[1].outcome = "even_money" /\ y.hands[1].payout_due > 0

(* Even money on a round x that is decided already, for the outcome y has.    *)
Reopens(R, S, P, n, E, F, x, y, r) ==
    /\ n \in Nat /\ P = None /\ BoardIs(R, n) /\ r \in DOMAIN R /\ x = R[r] /\ F = E \cup {r}
    /\ x.status # "player_turn" /\ ~x.even_money /\ x.hands[1].cards = "natural"
    /\ DOMAIN S = DOMAIN R /\ S[r] = y /\ \A q \in DOMAIN R : q # r => S[q] = R[q]
    /\ Reopened(x, y)

LEMMA RoundReopens ==
  ASSUME NEW w, NEW R, NEW S, NEW P, NEW L, NEW Y, NEW W, NEW V, NEW n, NEW C, NEW E, NEW F,
         NEW x, NEW y, NEW r, Wager # 1, Money(R, P, L, Y, W, n, C, E),
         Reopens(R, S, P, n, E, F, x, y, r), \A v \in Workers : v # w => V[v] = W[v]
  PROVE  /\ OneOpen(S, L, F)
         /\ MoneyOf(V[w], S, P, L, n, C, F) => Money(S, P, L, Y, V, n, C, F)
<1>1. r \notin E
  BY DEF Money, Returned, Reopens, Reopened
<1>2. ASSUME NEW q, Stuck(R, L, E, q) PROVE Stuck(S, L, F, q) /\ q # r
  <2>1. q \in E /\ q \in DOMAIN R /\ q # r
    BY <1>1, <1>2 DEF Stuck
  <2>2. Grows(L, L) /\ q \in DOMAIN S /\ S[q] = R[q] /\ q \in F
    BY <2>1 DEF Grows, Reopens, Reopened
  <2> QED BY <1>2, <2>1, <2>2, StuckStays
<1>3. \A q : q # r => (Open(S, q) <=> Open(R, q))
  BY DEF Open, Reopens, Reopened
<1>4. ASSUME x.status = "settled" PROVE Stuck(S, L, F, r)
  <2>1. Sorted(x, n)
    BY DEF Reopens, Reopened, BoardIs, RoundOk
  <2>2. /\ x.hands[1].outcome # None /\ 1 \in DOMAIN x.hands /\ HandFits(x, x.hands[1], n)
        /\ Len(x.hands) \in Nat \ {0} /\ DOMAIN x.hands = 1..Len(x.hands)
    BY <2>1, SortedParts DEF Reopens, Reopened, Sorted
  <2>3. x.hands[1].payout_due > 0 /\ x.hands[1].outcome # "even_money"
    BY <2>2 DEF HandFits, Reopens, Reopened
  <2>4. PaidUpTo(L, x, Len(x.hands))
    BY <1>4 DEF Money, Returned, Reopens, Reopened
  <2>5. PICK i, s : i = 1 /\ s = B!Settlement(x, x.hands[i])
    OBVIOUS
  <2>6. s.key \in DOMAIN L /\ L[s.key] = s.row
    BY <2>2, <2>3, <2>4, <2>5 DEF PaidUpTo
  <2>7. s.key = <<x.hands[i].id, "settlement">> /\ s.row.outcome = x.hands[i].outcome
    <3>1. ASSUME NEW j, NEW m, m = B!Settlement(x, x.hands[j])
          PROVE  m.key = <<x.hands[j].id, "settlement">> /\ m.row.outcome = x.hands[j].outcome
      BY <3>1 DEF B!Settlement, B!Movement
    <3> QED BY <2>5, <3>1
  <2>8. /\ S[r] = y /\ y.hands[1].id = x.hands[1].id /\ r \in F /\ r \in DOMAIN S
        /\ y.even_money /\ y.status = "settled_pending_credit"
        /\ y.hands[1].outcome = "even_money" /\ y.hands[1].payout_due > 0
    BY <2>2 DEF Reopens, Reopened
  <2> QED BY <2>3, <2>5, <2>6, <2>7, <2>8 DEF Stuck
<1>5. Stuck(S, L, F, r) \/ Open(R, r)
  BY <1>4 DEF Open, Reopens, Reopened
<1>6. \A q : q # r /\ Open(S, q) => Stuck(S, L, F, q) \/ Stuck(S, L, F, r)
  BY <1>2, <1>3, <1>5 DEF OneOpen, Money
<1>7. OneOpen(S, L, F)
  BY <1>2, <1>3, <1>6 DEF OneOpen, Money
<1>8. PendingIs(S, P, L, V, C)
  BY DEF PendingIs, Reopens, Reopened
<1>9. Claimed(S, Y, n)
  <2>1. Claimed(R, Y, n)
    BY DEF Money
  <2>2. ASSUME NEW i \in DOMAIN y.hands, ~y.hands[i].credited PROVE Y[y.hands[i].id] = 0
    BY <2>1, <2>2 DEF Claimed, Reopens, Reopened
  <2>3. ASSUME NEW q \in DOMAIN S, NEW i \in DOMAIN S[q].hands, ~S[q].hands[i].credited
        PROVE  Y[S[q].hands[i].id] = 0
    BY <2>1, <2>2, <2>3 DEF Claimed, Reopens, Reopened
  <2> QED BY <2>1, <2>3 DEF Claimed
<1>10. Apart(S)
  BY DEF Money, Apart, Reopens, Reopened
<1>11. Returned(S, L, n, C, F)
  <2>1. Returned(R, L, n, C, E)
    BY DEF Money
  <2>2. \A q \in F : q \in DOMAIN S /\ S[q].even_money
    BY <2>1 DEF Returned, Reopens, Reopened
  <2>3. \A q \in DOMAIN S : S[q].status = "settled" => PaidUpTo(L, S[q], Len(S[q].hands))
    BY <2>1 DEF Returned, Reopens, Reopened
  <2>4. \A q \in DOMAIN S : \A k \in DOMAIN L :
           q \notin C /\ q \notin F /\ L[k].round = q /\ k[2] = "settlement" => Owed(S[q], k, L[k])
    BY <2>1 DEF Returned, Reopens, Reopened
  <2>5. \A k \in DOMAIN L : L[k].round \in DOMAIN S \cup C /\ L[k].round \in 1..n
    BY <2>1 DEF Returned, Reopens, Reopened
  <2> QED BY <2>1, <2>2, <2>3, <2>4, <2>5 DEF Returned
<1>12. ASSUME NEW z, MoneyOf(z, R, P, L, n, C, E) PROVE MoneyOf(z, S, P, L, n, C, F)
  <2>1. ASSUME NEW s, Pays(z, s, R, P, L, E, n) PROVE Pays(z, s, S, P, L, F, n)
    <3>1. s \in DOMAIN S /\ S[s].status # "player_turn" /\ (Alike(S[s], z.round) \/ s \in F)
      BY <2>1 DEF Pays, Reopens, Reopened
    <3>2. ASSUME NEW q \in z.todo
          PROVE  q \in 1..n /\ (Open(S, q) => Stuck(S, L, F, q) \/ Stuck(S, L, F, s))
      <4>1. q \in 1..n /\ (Open(R, q) => Stuck(R, L, E, q) \/ Stuck(R, L, E, s))
        BY <2>1, <3>2 DEF Pays
      <4> QED BY <1>2, <1>3, <1>5, <4>1
    <3>3. P = None
      BY DEF Reopens, Reopened
    <3> QED BY <2>1, <3>1, <3>2, <3>3 DEF Pays
  <2> QED BY <1>12, <2>1 DEF MoneyOf, Reopens, Reopened
<1>13. ASSUME NEW v \in Workers, v # w PROVE MoneyOf(V[v], S, P, L, n, C, F)
  <2>1. V[v] = W[v] /\ MoneyOf(W[v], R, P, L, n, C, E)
    BY <1>13 DEF Money
  <2> QED BY <1>12, <2>1
<1> QED BY <1>7, <1>8, <1>9, <1>10, <1>11, <1>13 DEF Money

(* What RoundReopens asks, under one name.                                    *)
ReopenFits(w, R, S, P, L, Y, W, V, n, C, E, F, x, y, r) ==
    /\ Money(R, P, L, Y, W, n, C, E) /\ Reopens(R, S, P, n, E, F, x, y, r)
    /\ \A v \in Workers : v # w => V[v] = W[v]

LEMMA ReopenedGoesOn ==
  ASSUME NEW w, NEW R, NEW S, NEW P, NEW L, NEW Y, NEW W, NEW V, NEW n, NEW C, NEW E, NEW F,
         NEW x, NEW y, NEW r, Wager # 1, ReopenFits(w, R, S, P, L, Y, W, V, n, C, E, F, x, y, r),
         MoneyOf(V[w], S, P, L, n, C, F)
  PROVE  Money(S, P, L, Y, V, n, C, F)
BY RoundReopens DEF ReopenFits

LEMMA ReopenedLeavesOneOpen ==
  ASSUME NEW w, NEW R, NEW S, NEW P, NEW L, NEW Y, NEW W, NEW V, NEW n, NEW C, NEW E, NEW F,
         NEW x, NEW y, NEW r, Wager # 1, ReopenFits(w, R, S, P, L, Y, W, V, n, C, E, F, x, y, r)
  PROVE  OneOpen(S, L, F)
BY RoundReopens DEF ReopenFits

(* The transition leaves a request that goes on with its own round.           *)
LEMMA CommitMoney ==
  ASSUME NEW w, w \in Workers, B!TableAssumption, B!NoneAssumption, Wager # 1, TableTypes, TableMoney,
         B!CommitRoundTransition(w)
  PROVE  TableMoney'
<1>1. PICK n \in Nat : n = ids /\ n <= MaxIds /\ DocIs(doc, n) /\ LedgerIs /\ WorkIs(n)
  BY TypesNow
<1>2. /\ doc.pending = None /\ rows' = rows /\ claims' = claims /\ ids' = ids /\ contested' = contested
  BY DEF B!CommitRoundTransition
<1>3. PICK r \in DOMAIN doc.rounds : \E y :
         /\ \/ /\ B!InTurn(doc.rounds[r])
               /\ y \in B!Hit(doc.rules, doc.rounds[r]) \cup B!Stand(doc.rules, doc.rounds[r]) \cup
                     (IF B!CanSurrender(doc.rules, doc.rounds[r])
                      THEN B!Surrender(doc.rules, doc.rounds[r]) ELSE {})
               /\ reopened' = reopened
            \/ /\ B!CanTakeEvenMoney(doc.rounds[r]) /\ y = B!EvenMoney(doc.rounds[r])
               /\ reopened' = IF doc.rounds[r].status = "player_turn" THEN reopened
                              ELSE reopened \cup {r}
         /\ B!Commit(w, y)
  BY DEF B!CommitRoundTransition
<1>4. PICK x, y :
         /\ x = doc.rounds[r]
         /\ \/ /\ B!InTurn(x)
               /\ y \in B!Hit(doc.rules, x) \cup B!Stand(doc.rules, x) \cup
                     (IF B!CanSurrender(doc.rules, x) THEN B!Surrender(doc.rules, x) ELSE {})
               /\ reopened' = reopened
            \/ /\ B!CanTakeEvenMoney(x) /\ y = B!EvenMoney(x)
               /\ reopened' = IF x.status = "player_turn" THEN reopened ELSE reopened \cup {r}
         /\ B!Commit(w, y)
  BY <1>3
<1>5. RoundOk(y, n) /\ y.id = r /\ HandIds(y) = HandIds(x) /\ x.id = r /\ RoundOk(x, n)
  <2>1. Costless(doc.rules, x, y)
    BY <1>4 DEF Costless
  <2>2. r \in DOMAIN doc.rounds /\ x = doc.rounds[r]
    BY <1>3, <1>4
  <2> QED BY <1>1, <2>1, <2>2, CommittedRound
<1>6. /\ doc'.pending = None /\ doc'.rounds = [doc.rounds EXCEPT ![y.id] = y]
  <2>1. doc' = DocWith(doc, y)
    BY <1>4 DEF B!Commit, DocWith
  <2> QED BY <1>1, <1>2, <1>3, <1>5, <2>1, DocTakesRound
<1>7. BoardIs(doc.rounds, n)
  BY <1>1 DEF DocIs
<1>8. /\ BoardIs(doc'.rounds, n) /\ DOMAIN doc'.rounds = DOMAIN doc.rounds /\ doc'.rounds[r] = y
      /\ \A q \in DOMAIN doc.rounds : q # r => doc'.rounds[q] = doc.rounds[q]
  BY <1>3, <1>5, <1>6, <1>7, BoardTakesRound
<1>9. PICK R, S, P, L, Y, W, V, C, E, F :
         /\ R = doc.rounds /\ P = doc.pending /\ L = rows /\ Y = claims /\ W = work
         /\ C = contested /\ E = reopened /\ S = doc'.rounds /\ V = work' /\ F = reopened'
  OBVIOUS
<1>10. Money(R, P, L, Y, W, n, C, E)
  BY <1>1, <1>9 DEF TableMoney
<1>11. PICK t, todo :
         t \in BOOLEAN /\ todo = {r} /\ work' = [work EXCEPT ![w] = B!FinishIfNeeded(t, todo, doc'.rounds)]
  BY <1>4, <1>5 DEF B!Commit
<1>12. /\ V[w] = B!FinishIfNeeded(t, todo, S) /\ \A v \in Workers : v # w => V[v] = W[v]
  BY <1>1, <1>9, <1>11 DEF WorkIs
<1>13. todo \in SUBSET B!Ids /\ Named(todo, n)
  <2>1. r \in B!Ids /\ r \in 1..n
    BY <1>3, <1>5, <1>7, RoundName DEF BoardIs
  <2> QED BY <1>11, <2>1 DEF Named
<1>14. ASSUME OneOpen(S, L, F) PROVE MoneyOf(V[w], S, P, L, n, C, F)
  <2>1. Elsewhere(todo, S, P) /\ BoardIs(S, n)
    BY <1>2, <1>8, <1>9 DEF Elsewhere
  <2> QED BY <1>11, <1>12, <1>13, <1>14, <2>1, FinishingMoney
<1>15. Money(S, P, L, Y, V, n, C, F)
  <2>1. CASE x.status = "player_turn"
    <3>1. y.status # "settled" /\ F = E
      <4>1. CASE B!CanTakeEvenMoney(x) /\ y = B!EvenMoney(x)
        BY <1>4, <1>5, <1>9, <2>1, <4>1, EvenMoneyRound
      <4>2. CASE /\ B!InTurn(x)
                 /\ y \in B!Hit(doc.rules, x) \cup B!Stand(doc.rules, x) \cup
                          (IF B!CanSurrender(doc.rules, x) THEN B!Surrender(doc.rules, x) ELSE {})
        <5>1. y \in B!Hit(doc.rules, x) \/ y \in B!Stand(doc.rules, x) \/ y \in B!Surrender(doc.rules, x)
          BY <4>2
        <5>2. doc.rules \in RuleSets
          BY <1>1 DEF DocIs
        <5>3. MovedFrom(x, y, n)
          BY <1>5, <2>1, <5>1, <5>2, Moves
        <5> QED BY <1>4, <1>9, <2>1, <5>3 DEF MovedFrom
      <4> QED BY <1>4, <4>1, <4>2
    <3>2. ~x.even_money /\ \A i \in DOMAIN x.hands : ~x.hands[i].credited
      BY <1>5, <2>1 DEF RoundOk, Sorted, HandFits
    <3>3. r \in C \/ Unreturned(L, r)
      <4>1. r \notin E
        BY <1>3, <1>4, <1>9, <1>10, <3>2 DEF Money, Returned
      <4>2. ASSUME r \notin C, NEW k \in DOMAIN L, L[k].round = r PROVE k[2] # "settlement"
        <5>1. r \in DOMAIN R /\ R[r].status = "player_turn"
          BY <1>3, <1>4, <1>9, <2>1
        <5>2. k[2] = "settlement" => Owed(R[r], k, L[k])
          BY <1>10, <4>1, <4>2, <5>1 DEF Money, Returned
        <5> QED BY <5>1, <5>2 DEF Owed
      <4> QED BY <4>2 DEF Unreturned
    <3>4. Turns(R, S, P, P, L, n, n, C, C, x, y, r)
      <4>1. n \in Nat /\ n <= n /\ BoardIs(R, n) /\ P = None
        BY <1>1, <1>2, <1>7, <1>9
      <4>2. /\ r \in DOMAIN R /\ x = R[r] /\ DOMAIN S = DOMAIN R /\ S[r] = y
            /\ \A q \in DOMAIN R : q # r => S[q] = R[q]
        BY <1>3, <1>4, <1>8, <1>9
      <4>3. \A h \in HandIds(y) : h \in HandIds(x) \/ (h \in B!Ids /\ h > n)
        BY <1>5
      <4>4. x.status # "settled" /\ (x.status = "player_turn" \/ (P # None /\ P.after.id = r))
        BY <2>1
      <4>5. /\ C \subseteq C /\ C \subseteq C \cup {r}
            /\ P # None => P.after = y /\ P.after.id = r /\ P.before # None
        BY <4>1
      <4>6. y.status # "settled"
        BY <3>1
      <4> QED BY <3>2, <3>3, <4>1, <4>2, <4>3, <4>4, <4>5, <4>6 DEF Turns
    <3>5. TurnFits(w, R, S, P, P, L, Y, W, V, n, n, C, C, E, x, y, r)
      BY <1>10, <1>12, <3>4 DEF TurnFits
    <3>6. OneOpen(S, L, F)
      BY <3>1, <3>5, TurnLeavesOneOpen
    <3>7. MoneyOf(V[w], S, P, L, n, C, E)
      BY <1>14, <3>1, <3>6
    <3> QED BY <3>1, <3>5, <3>7, TurnGoesOn
  <2>2. CASE x.status # "player_turn"
    <3>1. B!CanTakeEvenMoney(x) /\ y = B!EvenMoney(x) /\ F = E \cup {r}
      BY <1>4, <1>9, <2>2 DEF B!InTurn
    <3>2. Reopened(x, y)
      BY <1>5, <3>1, EvenMoneyRound DEF Reopened
    <3>3. ~x.even_money /\ x.hands[1].cards = "natural"
      BY <3>1 DEF B!CanTakeEvenMoney
    <3>4. Reopens(R, S, P, n, E, F, x, y, r)
      <4>1. n \in Nat /\ BoardIs(R, n) /\ P = None
        BY <1>1, <1>2, <1>7, <1>9
      <4>2. /\ r \in DOMAIN R /\ x = R[r] /\ DOMAIN S = DOMAIN R /\ S[r] = y
            /\ \A q \in DOMAIN R : q # r => S[q] = R[q]
        BY <1>3, <1>4, <1>8, <1>9
      <4> QED BY <2>2, <3>1, <3>2, <3>3, <4>1, <4>2 DEF Reopens
    <3>5. ReopenFits(w, R, S, P, L, Y, W, V, n, C, E, F, x, y, r)
      BY <1>10, <1>12, <3>4 DEF ReopenFits
    <3>6. OneOpen(S, L, F)
      BY <3>5, ReopenedLeavesOneOpen
    <3>7. MoneyOf(V[w], S, P, L, n, C, F)
      BY <1>14, <3>6
    <3> QED BY <3>5, <3>7, ReopenedGoesOn
  <2> QED BY <2>1, <2>2
<1>16. /\ doc'.rounds = S /\ doc'.pending = P /\ rows' = L /\ claims' = Y /\ work' = V /\ ids' = n
       /\ contested' = C /\ reopened' = F
  BY <1>1, <1>2, <1>6, <1>9
<1> QED BY <1>15, <1>16, MoneyNext

(* A new round y of the name m.                                               *)
NewRound(w, R, S, P, Q, V, n, m, y) ==
    /\ n \in Nat /\ m = n + 1 /\ m \in B!Ids /\ P = None /\ BoardIs(R, n)
    /\ \A r \in DOMAIN R : R[r].status = "settled"
    /\ DOMAIN S = DOMAIN R \cup {m} /\ S[m] = y /\ \A q \in DOMAIN R : q # m => S[q] = R[q]
    /\ y.status # "settled" /\ HandIds(y) = {m}
    /\ \A i \in DOMAIN y.hands : ~y.hands[i].credited
    /\ Q.after = y /\ Q.after.id = m
    /\ V[w].pc = "settle" /\ V[w].marker = Q
    /\ \A v \in Workers : v # w /\ V[v] # None /\ V[v].pc \in MarkerPcs => V[v].marker.after.id \in 1..n

LEMMA RoundDealt ==
  ASSUME NEW w, NEW R, NEW S, NEW P, NEW Q, NEW L, NEW Y, NEW W, NEW V, NEW n, NEW m, NEW C, NEW E,
         NEW y, Money(R, P, L, Y, W, n, C, E), NewRound(w, R, S, P, Q, V, n, m, y),
         \A v \in Workers : v # w => V[v] = W[v]
  PROVE  Money(S, Q, L, Y, V, m, C, E)
<1>1. m \notin 1..n /\ 1..n \subseteq 1..m
  BY DEF NewRound
<1>2. \A q \in DOMAIN R : q \in 1..n /\ q # m
  BY <1>1, RoundName DEF NewRound, BoardIs
<1>3. Returned(R, L, n, C, E) /\ \A k \in DOMAIN L : L[k].round \in 1..n /\ L[k].round # m
  BY <1>1 DEF Money, Returned
<1>4. ASSUME NEW q, Stuck(R, L, E, q) PROVE Stuck(S, L, E, q)
  <2>1. q \in E /\ q \in DOMAIN R /\ Grows(L, L)
    BY <1>4 DEF Stuck, Grows
  <2>2. q \in DOMAIN S /\ S[q] = R[q]
    BY <1>2, <2>1 DEF NewRound
  <2> QED BY <1>4, <2>1, <2>2, StuckStays
<1>5. \A q : Open(S, q) => q = m
  BY DEF Open, NewRound
<1>6. OneOpen(S, L, E)
  BY <1>5 DEF OneOpen
<1>7. PendingIs(S, Q, L, V, C)
  <2>1. S[Q.after.id] = Q.after /\ Unreturned(L, Q.after.id)
    BY <1>3 DEF NewRound, Unreturned
  <2>2. OnlyDealt(Q, L, V)
    <3>1. ASSUME NEW v \in Workers, V[v] # None, V[v].pc \in MarkerPcs, V[v].marker.after.id = m
          PROVE  V[v].marker = Q
      <4>1. v = w
        BY <1>1, <3>1 DEF NewRound
      <4> QED BY <4>1 DEF NewRound
    <3>2. Q.after.id = m
      BY DEF NewRound
    <3> QED BY <1>3, <3>1, <3>2 DEF OnlyDealt
  <2> QED BY <2>1, <2>2 DEF PendingIs
<1>8. Claimed(S, Y, m)
  <2>1. Claimed(R, Y, n)
    BY DEF Money
  <2>2. ASSUME NEW h \in B!Ids PROVE Y[h] <= 1 /\ (h > m => Y[h] = 0)
    <3>1. h > m => h > n
      BY DEF NewRound, B!Ids
    <3> QED BY <2>1, <3>1 DEF Claimed
  <2>3. m \in B!Ids /\ m > n /\ Y[m] = 0
    BY <2>1 DEF Claimed, NewRound
  <2>4. ASSUME NEW i \in DOMAIN y.hands PROVE Y[y.hands[i].id] = 0
    BY <2>3 DEF HandIds, NewRound
  <2>5. ASSUME NEW q \in DOMAIN S, NEW i \in DOMAIN S[q].hands, ~S[q].hands[i].credited
        PROVE  Y[S[q].hands[i].id] = 0
    BY <1>2, <2>1, <2>4, <2>5 DEF Claimed, NewRound
  <2> QED BY <2>2, <2>5 DEF Claimed
<1>9. Apart(S)
  <2>1. ASSUME NEW q \in DOMAIN R PROVE m \notin HandIds(R[q])
    <3>1. RoundOk(R[q], n)
      BY DEF NewRound, BoardIs
    <3>2. \A i \in DOMAIN R[q].hands : R[q].hands[i].id \in B!Ids /\ R[q].hands[i].id <= n
      BY <3>1, SortedParts DEF RoundOk, Sorted, HandFits, B!Hands
    <3>3. ~(m <= n)
      BY DEF NewRound
    <3> QED BY <3>2, <3>3 DEF HandIds
  <2> QED BY <1>2, <2>1 DEF Money, Apart, NewRound
<1>10. Returned(S, L, m, C, E)
  <2>1. \A q \in E : q \in DOMAIN S /\ S[q].even_money
    BY <1>2, <1>3 DEF Returned, NewRound
  <2>2. \A q \in DOMAIN S : S[q].status = "settled" => PaidUpTo(L, S[q], Len(S[q].hands))
    BY <1>2, <1>3 DEF Returned, NewRound
  <2>3. \A q \in DOMAIN S : \A k \in DOMAIN L :
           q \notin C /\ q \notin E /\ L[k].round = q /\ k[2] = "settlement" => Owed(S[q], k, L[k])
    BY <1>2, <1>3 DEF Returned, NewRound
  <2>4. C \subseteq 1..m /\ \A k \in DOMAIN L : L[k].round \in DOMAIN S \cup C /\ L[k].round \in 1..m
    BY <1>1, <1>3 DEF Returned, NewRound
  <2> QED BY <2>1, <2>2, <2>3, <2>4 DEF Returned
<1>11. ASSUME NEW z, MoneyOf(z, R, P, L, n, C, E) PROVE MoneyOf(z, S, Q, L, m, C, E)
  <2>1. ASSUME NEW s, Pays(z, s, R, P, L, E, n) PROVE Pays(z, s, S, Q, L, E, m)
    <3>1. s \in DOMAIN S /\ S[s] = R[s] /\ Q.after.id # s
      BY <1>2, <2>1 DEF Pays, NewRound
    <3>2. ASSUME NEW q \in z.todo
          PROVE  q \in 1..m /\ (Open(S, q) => Stuck(S, L, E, q) \/ Stuck(S, L, E, s))
      <4>1. q \in 1..n
        BY <2>1, <3>2 DEF Pays
      <4> QED BY <1>1, <1>5, <4>1
    <3> QED BY <2>1, <3>1, <3>2 DEF Pays
  <2> QED BY <1>11, <2>1 DEF MoneyOf, NewRound
<1>12. ASSUME NEW v \in Workers PROVE MoneyOf(V[v], S, Q, L, m, C, E)
  <2>1. CASE v # w
    <3>1. V[v] = W[v] /\ MoneyOf(W[v], R, P, L, n, C, E)
      BY <2>1 DEF Money
    <3> QED BY <1>11, <3>1
  <2>2. CASE v = w
    BY <2>2 DEF MoneyOf, NewRound
  <2> QED BY <2>1, <2>2
<1> QED BY <1>6, <1>7, <1>8, <1>9, <1>10, <1>12 DEF Money

LEMMA PrepareMoney ==
  ASSUME NEW w, w \in Workers, B!TableAssumption, B!NoneAssumption, TableTypes, TableMoney,
         B!PrepareMoneyTransition(w)
  PROVE  TableMoney'
<1>0. PICK n, m, before, after, id, kind, amount :
            n = ids /\ m = ids' /\ m <= MaxIds /\ Prepared(w, n, m, before, after, id, kind, amount)
  BY PreparedRound
<1>1. /\ n \in Nat /\ m \in Nat /\ n = ids /\ m = ids' /\ n <= m /\ m <= MaxIds
      /\ RoundOk(after, m) /\ ~after.even_money /\ after.status # "settled"
      /\ \A i \in DOMAIN after.hands : ~after.hands[i].credited
      /\ Dealing(before, after, m, n) \/ Moving(before, after, m, n)
  BY <1>0 DEF Prepared
<1>2. DocIs(doc, n) /\ WorkIs(n) /\ BoardIs(doc.rounds, n)
  BY <1>1 DEF TableTypes, DocIs
<1>3. /\ doc'.pending # None /\ after.id \in B!Ids
      /\ doc'.pending.before = before /\ doc'.pending.after = after
      /\ doc'.rounds = B!With(doc.rounds, after.id, after)
      /\ work'[w].pc = "settle" /\ work'[w].marker = doc'.pending
      /\ \A v \in Workers : v # w => work'[v] = work[v]
  BY <1>0, <1>2, PreparedState
<1>4. /\ rows' = rows /\ claims' = claims /\ contested' = contested /\ reopened' = reopened
      /\ doc.pending = None
  BY DEF B!PrepareMoneyTransition
<1>5. PICK R, S, P, Q, L, Y, W, V, C, E, r :
         /\ R = doc.rounds /\ P = doc.pending /\ L = rows /\ Y = claims /\ W = work
         /\ C = contested /\ E = reopened /\ S = doc'.rounds /\ V = work' /\ Q = doc'.pending
         /\ r = after.id
  OBVIOUS
<1>6. Money(R, P, L, Y, W, n, C, E)
  BY <1>1, <1>5 DEF TableMoney
<1>7. DOMAIN S = DOMAIN R \cup {r} /\ S[r] = after /\ \A q \in DOMAIN R : q # r => S[q] = R[q]
  BY <1>3, <1>5 DEF B!With
<1>8. Money(S, Q, L, Y, V, m, C, E)
  <2>1. CASE Dealing(before, after, m, n)
    <3>1. m = n + 1 /\ r = m /\ HandIds(after) = {m} /\ \A q \in DOMAIN R : R[q].status = "settled"
      BY <1>5, <2>1 DEF Dealing, B!NoActiveRound
    <3>2. ASSUME NEW v \in Workers, v # w, V[v] # None, V[v].pc \in MarkerPcs
          PROVE  V[v].marker.after.id \in 1..n
      <4>1. MarkerIs(V[v].marker, n)
        BY <1>2, <1>3, <1>5, <3>2 DEF WorkIs, RequestIs
      <4>2. RoundOk(V[v].marker.after, n)
        BY <4>1 DEF MarkerIs
      <4> QED BY <1>1, <4>2, RoundName
    <3>3. /\ n \in Nat /\ m \in B!Ids /\ P = None /\ BoardIs(R, n)
          /\ after.status # "settled" /\ \A i \in DOMAIN after.hands : ~after.hands[i].credited
          /\ V[w].pc = "settle" /\ V[w].marker = Q /\ Q.after = after
      BY <1>1, <1>2, <1>3, <1>4, <1>5, <3>1
    <3>4. DOMAIN S = DOMAIN R \cup {m} /\ S[m] = after /\ \A q \in DOMAIN R : q # m => S[q] = R[q]
      BY <1>7, <3>1
    <3>5. Q.after.id = m
      BY <1>5, <3>1, <3>3
    <3>6. NewRound(w, R, S, P, Q, V, n, m, after)
      BY <3>1, <3>2, <3>3, <3>4, <3>5 DEF NewRound
    <3>7. \A v \in Workers : v # w => V[v] = W[v]
      BY <1>3, <1>5
    <3> QED BY <1>6, <3>6, <3>7, RoundDealt
  <2>2. CASE Moving(before, after, m, n)
    <3>1. r \in DOMAIN R /\ before = R[r] /\ before.status = "player_turn" /\ RoundOk(before, n)
      BY <1>2, <1>5, <2>2 DEF Moving, BoardIs
    <3>2. ~before.even_money /\ \A i \in DOMAIN before.hands : ~before.hands[i].credited
      BY <3>1 DEF RoundOk, Sorted, HandFits
    <3>3. r \in C \/ Unreturned(L, r)
      <4>1. r \notin E
        BY <1>6, <3>1, <3>2 DEF Money, Returned
      <4> QED BY <1>6, <3>1, <4>1 DEF Money, Returned, Owed, Unreturned
    <3>4. before # None
      BY <3>1 DEF RoundOk, Sorted, B!NoneAssumption
    <3>5. \A h \in HandIds(after) : h \in HandIds(before) \/ (h \in B!Ids /\ h > n)
      <4>1. m = n + 1 => m > n /\ m \in B!Ids
        BY <1>1 DEF B!Ids
      <4> QED BY <2>2, <4>1 DEF Moving
    <3>6. DOMAIN S = DOMAIN R
      BY <1>7, <3>1
    <3>7. Turns(R, S, P, Q, L, n, m, C, C, before, after, r)
      BY <1>1, <1>2, <1>3, <1>5, <1>7, <3>1, <3>2, <3>3, <3>4, <3>5, <3>6 DEF Turns
    <3>8. MoneyOf(V[w], S, Q, L, m, C, E)
      <4>1. V[w].pc = "settle" /\ V[w].marker.after.id \in DOMAIN S \cup C
        BY <1>3, <1>5, <1>7
      <4> QED BY <4>1, IdleMoney
    <3>9. \A v \in Workers : v # w => V[v] = W[v]
      BY <1>3, <1>5
    <3> QED BY <1>6, <3>7, <3>8, <3>9, RoundTurns
  <2> QED BY <1>1, <2>1, <2>2
<1>9. /\ doc'.rounds = S /\ doc'.pending = Q /\ rows' = L /\ claims' = Y /\ work' = V /\ ids' = m
      /\ contested' = C /\ reopened' = E
  BY <1>1, <1>4, <1>5
<1> QED BY <1>8, <1>9, MoneyNext

(* A dealt round of name r is taken back, and contested if a debit was made   *)
(* for it, or is still to be made.                                            *)
TakesBack(w, R, S, P, L, W, V, n, C, D, r) ==
    /\ n \in Nat /\ BoardIs(R, n) /\ r \in DOMAIN R /\ ~R[r].even_money
    /\ P # None /\ P.before = None /\ P.after.id = r
    /\ DOMAIN S = DOMAIN R \ {r} /\ \A q \in DOMAIN S : S[q] = R[q]
    /\ C \subseteq D /\ D \subseteq C \cup {r}
    /\ P.movement.key \in DOMAIN L => r \in D
    /\ \A v \in Workers : v # w /\ W[v] # None /\ W[v].pc = "settle" /\ W[v].marker = P => r \in D
    /\ V[w] = None /\ \A v \in Workers : v # w => V[v] = W[v]

LEMMA RoundTakenBack ==
  ASSUME NEW w, NEW R, NEW S, NEW P, NEW L, NEW Y, NEW W, NEW V, NEW n, NEW C, NEW D, NEW E, NEW r,
         Money(R, P, L, Y, W, n, C, E), TakesBack(w, R, S, P, L, W, V, n, C, D, r)
  PROVE  Money(S, None, L, Y, V, n, D, E)
<1>1. Returned(R, L, n, C, E) /\ OnlyDealt(P, L, W) /\ Claimed(R, Y, n) /\ OneOpen(R, L, E)
  BY DEF Money, PendingIs, TakesBack
<1>2. r \notin E /\ r \in 1..n
  <2>1. RoundOk(R[r], n) /\ R[r].id = r
    BY DEF TakesBack, BoardIs
  <2>2. r \in 1..n
    BY <2>1, RoundName DEF TakesBack
  <2> QED BY <1>1, <2>2 DEF Returned, TakesBack
<1>3. ASSUME NEW q, Stuck(R, L, E, q) PROVE Stuck(S, L, E, q)
  <2>1. q \in E /\ q \in DOMAIN R /\ q # r /\ Grows(L, L)
    BY <1>2, <1>3 DEF Stuck, Grows
  <2>2. q \in DOMAIN S /\ S[q] = R[q]
    BY <2>1 DEF TakesBack
  <2> QED BY <1>3, <2>1, <2>2, StuckStays
<1>4. \A q : Open(S, q) => Open(R, q)
  BY DEF Open, TakesBack
<1>5. OneOpen(S, L, E)
  BY <1>1, <1>3, <1>4 DEF OneOpen
<1>6. Claimed(S, Y, n) /\ Apart(S)
  BY <1>1 DEF Claimed, Apart, Money, TakesBack
<1>7. Returned(S, L, n, D, E)
  <2>1. \A q \in E : q \in DOMAIN S /\ S[q].even_money
    BY <1>1, <1>2 DEF Returned, TakesBack
  <2>2. \A q \in DOMAIN S : S[q].status = "settled" => PaidUpTo(L, S[q], Len(S[q].hands))
    BY <1>1 DEF Returned, TakesBack
  <2>3. \A q \in DOMAIN S : \A k \in DOMAIN L :
           q \notin D /\ q \notin E /\ L[k].round = q /\ k[2] = "settlement" => Owed(S[q], k, L[k])
    BY <1>1 DEF Returned, TakesBack
  <2>4. ASSUME NEW k \in DOMAIN L PROVE L[k].round \in DOMAIN S \cup D /\ L[k].round \in 1..n
    <3>1. L[k].round = r => r \in D
      BY <1>1 DEF OnlyDealt, TakesBack
    <3> QED BY <1>1, <3>1 DEF Returned, TakesBack
  <2>5. D \subseteq 1..n
    BY <1>1, <1>2 DEF Returned, TakesBack
  <2> QED BY <2>1, <2>2, <2>3, <2>4, <2>5 DEF Returned
<1>8. ASSUME NEW v \in Workers PROVE MoneyOf(V[v], S, None, L, n, D, E)
  <2>1. CASE v = w
    <3>1. V[v] = None
      BY <2>1 DEF TakesBack
    <3> QED BY <3>1, IdleMoney
  <2>2. CASE v # w
    <3>1. V[v] = W[v] /\ MoneyOf(W[v], R, P, L, n, C, E)
      BY <2>2 DEF Money, TakesBack
    <3>2. ASSUME W[v] # None, W[v].pc = "settle" PROVE W[v].marker.after.id \in DOMAIN S \cup D
      <4>1. W[v].marker.after.id = r => r \in D
        BY <1>1, <2>2, <3>2 DEF OnlyDealt, MarkerPcs, TakesBack
      <4>2. W[v].marker.after.id \in DOMAIN R \cup C
        BY <3>1, <3>2 DEF MoneyOf
      <4> QED BY <4>1, <4>2 DEF TakesBack
    <3>3. ASSUME NEW s, Pays(W[v], s, R, P, L, E, n) PROVE Pays(W[v], s, S, None, L, E, n)
      <4>1. s \in DOMAIN S /\ S[s] = R[s]
        BY <3>3 DEF Pays, TakesBack
      <4> QED BY <1>3, <1>4, <3>3, <4>1 DEF Pays
    <3> QED BY <3>1, <3>2, <3>3 DEF MoneyOf
  <2> QED BY <2>1, <2>2
<1>9. PendingIs(S, None, L, V, D)
  BY DEF PendingIs
<1> QED BY <1>5, <1>6, <1>7, <1>8, <1>9 DEF Money

LEMMA RollbackMoney ==
  ASSUME NEW w, w \in Workers, B!NoneAssumption, TableTypes, TableMoney, B!RollbackPreparedAction(w)
  PROVE  TableMoney'
<1>1. PICK n \in Nat : n = ids /\ n <= MaxIds /\ DocIs(doc, n) /\ LedgerIs /\ WorkIs(n)
  BY TypesNow
<1>2. /\ rows' = rows /\ claims' = claims /\ ids' = ids /\ reopened' = reopened
  BY DEF B!RollbackPreparedAction
<1>3. PICK R, S, P, Q, L, Y, W, V, C, D, E, r :
         /\ R = doc.rounds /\ P = doc.pending /\ L = rows /\ Y = claims /\ W = work
         /\ C = contested /\ E = reopened /\ S = doc'.rounds /\ V = work' /\ Q = doc'.pending
         /\ D = contested' /\ r = P.after.id
  OBVIOUS
<1>4. Money(R, P, L, Y, W, n, C, E)
  BY <1>1, <1>3 DEF TableMoney
<1>5. /\ work' = [work EXCEPT ![w] = None] /\ W[w] # None /\ W[w].pc = "rollback"
      /\ MarkerIs(W[w].marker, n)
      /\ \/ doc' = doc /\ D = C
         \/ /\ P = W[w].marker /\ R[r] = P.after /\ Q = None
            /\ \/ P.before = None /\ DOMAIN S = DOMAIN R \ {r}
               \/ P.before # None /\ DOMAIN S = DOMAIN R /\ S[r] = P.before
            /\ \A q \in DOMAIN S : q # r => S[q] = R[q]
            /\ D = IF B!Contested(w, P) THEN C \cup {r} ELSE C
  BY <1>1, <1>3, RollbackStep
<1>6. V[w] = None /\ \A v \in Workers : v # w => V[v] = W[v]
  BY <1>1, <1>3, <1>5 DEF WorkIs
<1>7. CASE doc' = doc /\ D = C
  <2>1. MoneyOf(V[w], R, P, L, n, C, E)
    BY <1>6, IdleMoney
  <2>2. Calm(w, P, V)
    BY <1>1, <1>2, <1>3, <1>6, <1>7, <2>1 DEF Calm
  <2> QED BY <2>2, CalmMoney
<1>8. CASE /\ P = W[w].marker /\ R[r] = P.after /\ Q = None
           /\ \/ P.before = None /\ DOMAIN S = DOMAIN R \ {r}
              \/ P.before # None /\ DOMAIN S = DOMAIN R /\ S[r] = P.before
           /\ \A q \in DOMAIN S : q # r => S[q] = R[q]
           /\ D = IF B!Contested(w, P) THEN C \cup {r} ELSE C
  <2>1. MarkerIs(P, n) /\ P # None /\ BoardIs(R, n) /\ r \in DOMAIN R
    <3>1. MarkerIs(P, n) /\ P # None
      BY <1>5, <1>8 DEF MarkerIs, B!NoneAssumption
    <3> QED BY <1>1, <1>3, <3>1 DEF DocIs
  <2>2. /\ ~R[r].even_money /\ R[r].status # "settled"
        /\ \A i \in DOMAIN R[r].hands : ~R[r].hands[i].credited
    BY <1>8, <2>1 DEF MarkerIs
  <2>3. C \subseteq D /\ D \subseteq C \cup {r}
    BY <1>8
  <2>4. Money(S, None, L, Y, V, n, D, E)
    <3>1. CASE P.before = None
      <4>1. P.movement.key \in DOMAIN L => r \in D
        <5>1. W[w].absent
          BY <1>4, <1>5 DEF Money, MoneyOf
        <5>2. P.movement.key \in DOMAIN L => B!Contested(w, P)
          BY <1>3, <5>1 DEF B!Contested
        <5> QED BY <1>8, <5>2
      <4>2. ASSUME NEW v \in Workers, v # w, W[v] # None, W[v].pc = "settle", W[v].marker = P
            PROVE  r \in D
        <5>1. B!Contested(w, P)
          BY <1>3, <4>2 DEF B!Contested, B!At
        <5> QED BY <1>8, <5>1
      <4>3. DOMAIN S = DOMAIN R \ {r} /\ \A q \in DOMAIN S : S[q] = R[q]
        BY <1>8, <3>1
      <4>4. TakesBack(w, R, S, P, L, W, V, n, C, D, r)
        BY <1>1, <1>3, <1>6, <2>1, <2>2, <2>3, <3>1, <4>1, <4>2, <4>3 DEF TakesBack
      <4> QED BY <1>4, <4>4, RoundTakenBack
    <3>2. CASE P.before # None
      <4>1. DOMAIN S = DOMAIN R /\ S[r] = P.before /\ \A q \in DOMAIN R : q # r => S[q] = R[q]
        BY <1>8, <3>2
      <4>2. P.before.status # "settled" /\ HandIds(P.before) \subseteq HandIds(R[r])
        BY <1>8, <2>1, <3>2 DEF MarkerIs
      <4>3. r \in D \/ Unreturned(L, r)
        BY <1>3, <1>4, <2>1, <2>3 DEF Money, PendingIs
      <4>4. PICK x, y : x = R[r] /\ y = P.before
        OBVIOUS
      <4>5. PICK N : N = None
        OBVIOUS
      <4>6. Turns(R, S, P, N, L, n, n, C, D, x, y, r)
        <5>1. n \in Nat /\ n <= n /\ BoardIs(R, n) /\ r \in DOMAIN R /\ P # None /\ P.after.id = r
          BY <1>1, <1>3, <2>1
        <5>2. /\ DOMAIN S = DOMAIN R /\ S[r] = y /\ \A q \in DOMAIN R : q # r => S[q] = R[q]
              /\ y.status # "settled" /\ HandIds(y) \subseteq HandIds(x)
          BY <4>1, <4>2, <4>4
        <5>3. /\ x = R[r] /\ x.status # "settled" /\ ~x.even_money
              /\ \A i \in DOMAIN x.hands : ~x.hands[i].credited
          BY <2>2, <4>4
        <5> QED BY <2>3, <4>3, <4>5, <5>1, <5>2, <5>3 DEF Turns
      <4>7. MoneyOf(V[w], S, N, L, n, D, E) => Money(S, N, L, Y, V, n, D, E)
        BY <1>4, <1>6, <4>6, RoundTurns
      <4>8. MoneyOf(V[w], S, N, L, n, D, E)
        BY <1>6, IdleMoney
      <4> QED BY <4>5, <4>7, <4>8
    <3> QED BY <3>1, <3>2
  <2>5. /\ doc'.rounds = S /\ doc'.pending = None /\ rows' = L /\ claims' = Y /\ work' = V /\ ids' = n
        /\ contested' = D /\ reopened' = E
    BY <1>1, <1>2, <1>3, <1>8
  <2>6. PICK N : N = None
    OBVIOUS
  <2> QED BY <2>4, <2>5, <2>6, MoneyNext
<1> QED BY <1>5, <1>7, <1>8

(* The request w ends its round r, all of whose returns are made: s in its    *)
(* place, with the claims Z.                                                  *)
Settles(w, R, S, P, L, Y, Z, W, V, n, E, r, s) ==
    /\ n \in Nat /\ BoardIs(R, n) /\ r \in DOMAIN R /\ Alike(R[r], W[w].round)
    /\ Y \in [B!Ids -> Nat] /\ \A h \in B!Ids : Z[h] = Y[h] + IF h \in B!Unclaimed(R[r]) THEN 1 ELSE 0
    /\ RoundOk(s, n) /\ Alike(s, R[r]) /\ s.status = "settled" /\ \A i \in DOMAIN s.hands : s.hands[i].credited
    /\ DOMAIN S = DOMAIN R /\ S[r] = s /\ \A q \in DOMAIN R : q # r => S[q] = R[q]
    /\ Pays(W[w], r, R, P, L, E, n) /\ PaidUpTo(L, W[w].round, Len(W[w].round.hands))
    /\ RoundOk(W[w].round, n)
    /\ P # None => P.after.id \in DOMAIN R /\ ~P.after.even_money
    /\ \A v \in Workers : v # w => V[v] = W[v]
    /\ V[w] # None => V[w].pc \notin MarkerPcs

LEMMA AlikeChain ==
  ASSUME NEW a, NEW b, NEW c, Alike(a, b), Alike(b, c)
  PROVE  Alike(a, c)
BY DEF Alike

LEMMA UnclaimedHands ==
  ASSUME NEW x, NEW h, h \in B!Unclaimed(x)
  PROVE  \E i \in DOMAIN x.hands : ~x.hands[i].credited /\ h = x.hands[i].id
BY DEF B!Unclaimed, B!Range

LEMMA SettledPaid ==
  ASSUME NEW n, NEW L, NEW b, NEW a, NEW s, RoundOk(b, n), RoundOk(s, n), Alike(a, b), Alike(s, a),
         PaidUpTo(L, b, Len(b.hands))
  PROVE  PaidUpTo(L, s, Len(s.hands))
<1>1. Alike(s, b)
  BY AlikeChain
<1>2. DOMAIN b.hands = 1..Len(b.hands) /\ Len(b.hands) \in Nat
  BY SortedParts DEF RoundOk
<1>3. ASSUME NEW i \in DOMAIN s.hands, s.hands[i].payout_due > 0
      PROVE  /\ B!Settlement(s, s.hands[i]).key \in DOMAIN L
             /\ L[B!Settlement(s, s.hands[i]).key] = B!Settlement(s, s.hands[i]).row
  <2>1. i \in DOMAIN b.hands /\ b.hands[i].payout_due > 0
    BY <1>1, <1>3 DEF Alike
  <2>2. i <= Len(b.hands)
    BY <1>2, <2>1
  <2>3. B!Settlement(s, s.hands[i]) = B!Settlement(b, b.hands[i])
    BY <1>1, <1>3, AlikeSettles
  <2> QED BY <2>1, <2>2, <2>3 DEF PaidUpTo
<1> QED BY <1>3 DEF PaidUpTo

LEMMA NotStuck ==
  ASSUME NEW n, NEW R, NEW L, NEW E, NEW r, NEW s, RoundOk(s, n), Alike(s, R[r]),
         PaidUpTo(L, s, Len(s.hands))
  PROVE  ~Stuck(R, L, E, r)
<1>1. SUFFICES ASSUME Stuck(R, L, E, r) PROVE FALSE
  OBVIOUS
<1>2. 1 \in DOMAIN s.hands /\ 1 <= Len(s.hands)
  <2>1. DOMAIN s.hands = 1..Len(s.hands) /\ Len(s.hands) \in Nat \ {0}
    BY SortedParts DEF RoundOk
  <2> QED BY <2>1
<1>3. PICK i, m : i = 1 /\ m = B!Settlement(s, s.hands[i])
  OBVIOUS
<1>4. m.key = <<s.hands[i].id, "settlement">> /\ m.row.outcome = s.hands[i].outcome
  <2>1. ASSUME NEW j, NEW t, t = B!Settlement(s, s.hands[j])
        PROVE  t.key = <<s.hands[j].id, "settlement">> /\ t.row.outcome = s.hands[j].outcome
    BY <2>1 DEF B!Settlement, B!Movement
  <2> QED BY <1>3, <2>1
<1>5. /\ s.hands[i].id = R[r].hands[1].id /\ s.hands[i].outcome = "even_money"
      /\ s.hands[i].payout_due > 0
  BY <1>1, <1>2, <1>3 DEF Alike, Stuck
<1>6. L[m.key] = m.row
  BY <1>2, <1>3, <1>5 DEF PaidUpTo
<1> QED BY <1>1, <1>4, <1>5, <1>6 DEF Stuck

LEMMA RoundSettles ==
  ASSUME NEW w, NEW R, NEW S, NEW P, NEW L, NEW Y, NEW Z, NEW W, NEW V, NEW n, NEW C, NEW E, NEW r,
         NEW s, Money(R, P, L, Y, W, n, C, E), Settles(w, R, S, P, L, Y, Z, W, V, n, E, r, s)
  PROVE  /\ OneOpen(S, L, E) /\ Elsewhere(W[w].todo, S, P)
         /\ MoneyOf(V[w], S, P, L, n, C, E) => Money(S, P, L, Z, V, n, C, E)
<1>1. PaidUpTo(L, s, Len(s.hands)) /\ ~Stuck(R, L, E, r)
  BY SettledPaid, NotStuck DEF Settles
<1>2. ASSUME NEW q, Stuck(R, L, E, q) PROVE Stuck(S, L, E, q) /\ q # r
  <2>1. q \in E /\ q \in DOMAIN R /\ q # r /\ Grows(L, L)
    BY <1>1, <1>2 DEF Stuck, Grows
  <2>2. q \in DOMAIN S /\ S[q] = R[q]
    BY <2>1 DEF Settles
  <2> QED BY <1>2, <2>1, <2>2, StuckStays
<1>3. \A q : Open(S, q) => Open(R, q) /\ q # r
  BY DEF Open, Settles
<1>4. OneOpen(S, L, E)
  BY <1>2, <1>3 DEF OneOpen, Money
<1>5. Elsewhere(W[w].todo, S, P)
  <2>1. ASSUME P # None, NEW q \in W[w].todo, Open(S, q) PROVE q # P.after.id
    <3>1. Stuck(R, L, E, q)
      BY <1>1, <1>3, <2>1 DEF Pays, Settles
    <3>2. R[P.after.id] = P.after /\ ~P.after.even_money
      BY <2>1 DEF Money, PendingIs, Settles
    <3> QED BY <3>1, <3>2 DEF Stuck
  <2> QED BY <2>1 DEF Elsewhere
<1>6. PendingIs(S, P, L, V, C)
  <2>1. SUFFICES ASSUME P # None PROVE PendingIs(S, P, L, V, C)
    BY DEF PendingIs
  <2>2. S[P.after.id] = R[P.after.id]
    BY <2>1 DEF Pays, Settles
  <2>3. ASSUME OnlyDealt(P, L, W) PROVE OnlyDealt(P, L, V)
    BY <2>3 DEF OnlyDealt, Settles
  <2> QED BY <2>1, <2>2, <2>3 DEF PendingIs, Money
<1>7. Claimed(S, Z, n)
  <2>1. Claimed(R, Y, n)
    BY DEF Money
  <2>2. \A h \in B!Unclaimed(R[r]) : Y[h] = 0 /\ h \in HandIds(R[r])
    BY <2>1, UnclaimedHands DEF Claimed, Settles, HandIds
  <2>3. ASSUME NEW q \in DOMAIN R, NEW i \in DOMAIN R[q].hands
        PROVE  R[q].hands[i].id \in B!Ids /\ R[q].hands[i].id <= n
    <3>1. RoundOk(R[q], n)
      BY DEF Settles, BoardIs
    <3> QED BY <3>1, SortedParts DEF RoundOk, Sorted, HandFits, B!Hands
  <2>4. ASSUME NEW h \in B!Ids PROVE Z[h] <= 1 /\ (h > n => Z[h] = 0)
    <3>1. Y[h] \in Nat /\ Y[h] <= 1 /\ (h > n => Y[h] = 0)
      BY <2>1 DEF Claimed, Settles
    <3>2. h > n => h \notin B!Unclaimed(R[r])
      <4>1. \A i \in DOMAIN R[r].hands : ~(R[r].hands[i].id > n)
        BY <2>3 DEF Settles, B!Ids
      <4> QED BY <2>2, <4>1 DEF HandIds
    <3>3. Z[h] = Y[h] + IF h \in B!Unclaimed(R[r]) THEN 1 ELSE 0
      BY DEF Settles
    <3> QED BY <2>2, <3>1, <3>2, <3>3
  <2>5. ASSUME NEW q \in DOMAIN S, NEW i \in DOMAIN S[q].hands, ~S[q].hands[i].credited
        PROVE  Z[S[q].hands[i].id] = 0
    <3>1. q # r /\ q \in DOMAIN R /\ S[q] = R[q]
      BY <2>5 DEF Settles
    <3>2. PICK h : h = S[q].hands[i].id
      OBVIOUS
    <3>3. Y[h] = 0 /\ h \in B!Ids /\ h \in HandIds(R[q])
      BY <2>1, <2>3, <2>5, <3>1, <3>2 DEF Claimed, HandIds
    <3>4. h \notin B!Unclaimed(R[r])
      BY <2>2, <3>1, <3>3 DEF Money, Apart, Settles
    <3>5. Z[h] = Y[h] + IF h \in B!Unclaimed(R[r]) THEN 1 ELSE 0
      BY <3>3 DEF Settles
    <3> QED BY <3>2, <3>3, <3>4, <3>5
  <2> QED BY <2>4, <2>5 DEF Claimed
<1>8. Apart(S)
  <2>1. HandIds(s) = HandIds(R[r])
    BY DEF HandIds, Alike, Settles
  <2> QED BY <2>1 DEF Money, Apart, Settles
<1>9. Returned(S, L, n, C, E)
  <2>1. Returned(R, L, n, C, E)
    BY DEF Money
  <2>2. \A q \in E : q \in DOMAIN S /\ S[q].even_money
    BY <2>1 DEF Returned, Alike, Settles
  <2>3. \A q \in DOMAIN S : S[q].status = "settled" => PaidUpTo(L, S[q], Len(S[q].hands))
    BY <1>1, <2>1 DEF Returned, Settles
  <2>4. ASSUME NEW q \in DOMAIN S, NEW k \in DOMAIN L, q \notin C, q \notin E, L[k].round = q,
               k[2] = "settlement"
        PROVE  Owed(S[q], k, L[k])
    <3>1. Owed(R[q], k, L[k])
      BY <2>1, <2>4 DEF Returned, Settles
    <3>2. CASE q = r
      <4>1. PICK i \in DOMAIN R[r].hands :
               /\ R[r].hands[i].payout_due > 0
               /\ k = B!Settlement(R[r], R[r].hands[i]).key
               /\ L[k] = B!Settlement(R[r], R[r].hands[i]).row
        BY <3>1, <3>2 DEF Owed
      <4>2. i \in DOMAIN s.hands /\ s.hands[i].payout_due > 0 /\ Alike(s, R[r])
        BY <4>1 DEF Alike, Settles
      <4>3. B!Settlement(s, s.hands[i]) = B!Settlement(R[r], R[r].hands[i])
        BY <4>2, AlikeSettles
      <4>4. S[q] = s /\ s.status = "settled"
        BY <3>2 DEF Settles
      <4> QED BY <4>1, <4>2, <4>3, <4>4 DEF Owed
    <3>3. CASE q # r
      BY <2>4, <3>1, <3>3 DEF Settles
    <3> QED BY <3>2, <3>3
  <2>5. C \subseteq 1..n /\ \A k \in DOMAIN L : L[k].round \in DOMAIN S \cup C /\ L[k].round \in 1..n
    BY <2>1 DEF Returned, Settles
  <2> QED BY <2>2, <2>3, <2>4, <2>5 DEF Returned
<1>10. ASSUME NEW v \in Workers, v # w PROVE MoneyOf(V[v], S, P, L, n, C, E)
  <2>1. V[v] = W[v] /\ MoneyOf(W[v], R, P, L, n, C, E)
    BY <1>10 DEF Money, Settles
  <2>2. ASSUME NEW q, Pays(W[v], q, R, P, L, E, n) PROVE Pays(W[v], q, S, P, L, E, n)
    <3>1. q \in DOMAIN S /\ S[q].status # "player_turn"
      BY <2>2 DEF Pays, Settles
    <3>2. Alike(S[q], W[v].round) \/ q \in E
      <4>1. CASE q = r
        BY <2>2, <4>1, AlikeChain DEF Pays, Settles
      <4> QED BY <2>2, <4>1 DEF Pays, Settles
    <3>3. ASSUME NEW p \in W[v].todo
          PROVE  p \in 1..n /\ (Open(S, p) => Stuck(S, L, E, p) \/ Stuck(S, L, E, q))
      <4>1. p \in 1..n /\ (Open(R, p) => Stuck(R, L, E, p) \/ Stuck(R, L, E, q))
        BY <2>2, <3>3 DEF Pays
      <4> QED BY <1>2, <1>3, <4>1
    <3> QED BY <2>2, <3>1, <3>2, <3>3 DEF Pays
  <2> QED BY <2>1, <2>2 DEF MoneyOf, Settles
<1> QED BY <1>4, <1>5, <1>6, <1>7, <1>8, <1>9, <1>10 DEF Money

LEMMA FinishingPlace ==
  ASSUME NEW moved, NEW todo, NEW R, NEW x, x = B!FinishIfNeeded(moved, todo, R)
  PROVE  x # None => x.pc \notin MarkerPcs
<1> DEFINE Pay(u, r) == [B!Request("pay", moved, u) EXCEPT !.round = r]
           act == B!Request("act", FALSE, {})
<1>1. x = None \/ x = act \/ \E u, r : x = Pay(u, r)
  BY DEF B!FinishIfNeeded
<1>2. act.pc = "act" /\ \A u, r : Pay(u, r).pc = "pay"
  BY DEF B!Request
<1> HIDE DEF Pay, act
<1>3. x = None \/ x.pc = "act" \/ x.pc = "pay"
  BY <1>1, <1>2
<1> QED BY <1>3 DEF MarkerPcs

LEMMA FinalizeMoney ==
  ASSUME NEW w, w \in Workers, TableTypes, TableMoney, B!Finalize(w)
  PROVE  TableMoney'
<1>1. PICK n \in Nat : n = ids /\ n <= MaxIds /\ DocIs(doc, n) /\ LedgerIs /\ WorkIs(n)
  BY TypesNow
<1>2. ids' = ids /\ contested' = contested /\ reopened' = reopened
  BY DEF B!Finalize
<1>3. PICK R, S, P, L, Y, Z, W, V, C, E :
         /\ R = doc.rounds /\ P = doc.pending /\ L = rows /\ Y = claims /\ W = work
         /\ C = contested /\ E = reopened /\ S = doc'.rounds /\ V = work' /\ Z = claims'
  OBVIOUS
<1>4. Money(R, P, L, Y, W, n, C, E)
  BY <1>1, <1>3 DEF TableMoney
<1>5. /\ rows' = rows /\ W[w] # None /\ W[w].pc = "pay" /\ B!Unpaid(w) = {} /\ RoundOk(W[w].round, n)
      /\ W[w] \in Requests
      /\ \/ doc' = doc /\ claims' = claims /\ work' = [work EXCEPT ![w] = None]
         \/ \E r, s : Finalizing(n, w, r, s)
  <2>1. RequestIs(W[w], n)
    BY <1>1, <1>3 DEF WorkIs
  <2> QED BY <1>1, <1>3, <2>1, FinalizeStep DEF RequestIs
<1>6. CASE doc' = doc /\ claims' = claims /\ work' = [work EXCEPT ![w] = None]
  <2>1. V[w] = None /\ \A v \in Workers : v # w => V[v] = W[v]
    BY <1>1, <1>3, <1>6 DEF WorkIs
  <2>2. MoneyOf(V[w], R, P, L, n, C, E)
    BY <2>1, IdleMoney
  <2>3. Calm(w, P, V)
    BY <1>1, <1>2, <1>3, <1>5, <1>6, <2>1, <2>2 DEF Calm
  <2> QED BY <2>3, CalmMoney
<1>7. ASSUME NEW r, NEW s, Finalizing(n, w, r, s) PROVE TableMoney'
  <2>1. /\ r = W[w].round.id /\ r \in DOMAIN R /\ Alike(R[r], W[w].round)
        /\ RoundOk(s, n) /\ Alike(s, R[r]) /\ s.status = "settled"
        /\ \A i \in DOMAIN s.hands : s.hands[i].credited
        /\ doc'.pending = P /\ DOMAIN S = DOMAIN R /\ S[r] = s
        /\ \A q \in DOMAIN R : q # r => S[q] = R[q]
        /\ Z = [h \in DOMAIN Y |-> Y[h] + IF h \in B!Unclaimed(R[r]) THEN 1 ELSE 0]
        /\ BoardIs(S, n)
    BY <1>3, <1>7 DEF Finalizing
  <2>2. PICK t, todo : /\ t \in BOOLEAN /\ todo \in SUBSET B!Ids /\ todo = W[w].todo
                       /\ work' = [work EXCEPT ![w] = B!FinishIfNeeded(t, todo, doc'.rounds)]
    <3>1. \E t \in BOOLEAN, Tried \in SUBSET B!Ids :
             /\ Tried = work[w].todo
             /\ work' = [work EXCEPT ![w] = B!FinishIfNeeded(t, Tried, doc'.rounds)]
      BY <1>7 DEF Finalizing
    <3> QED BY <1>3, <3>1
  <2>3. V[w] = B!FinishIfNeeded(t, todo, S) /\ \A v \in Workers : v # w => V[v] = W[v]
    BY <1>1, <1>3, <2>2 DEF WorkIs
  <2>4. Pays(W[w], r, R, P, L, E, n)
    BY <1>4, <1>5, <2>1 DEF Money, MoneyOf
  <2>5. PaidUpTo(L, W[w].round, Len(W[w].round.hands))
    <3>1. \A i \in DOMAIN W[w].round.hands : i > W[w].paid => ~(W[w].round.hands[i].payout_due > 0)
      BY <1>3, <1>5 DEF B!Unpaid
    <3>2. /\ DOMAIN W[w].round.hands = 1..Len(W[w].round.hands) /\ Len(W[w].round.hands) \in Nat
          /\ W[w].paid \in Nat
      BY <1>5, SortedParts DEF RoundOk, Requests
    <3>3. \A i \in DOMAIN W[w].round.hands : W[w].round.hands[i].payout_due > 0 => i <= W[w].paid
      BY <3>1, <3>2
    <3> QED BY <2>4, <3>3 DEF PaidUpTo, Pays
  <2>6. P # None => P.after.id \in DOMAIN R /\ ~P.after.even_money
    BY <1>1, <1>3 DEF DocIs, MarkerIs
  <2>7. BoardIs(R, n)
    BY <1>1, <1>3 DEF DocIs
  <2>8. V[w] # None => V[w].pc \notin MarkerPcs
    <3>1. /\ t \in BOOLEAN /\ todo \in SUBSET B!Ids /\ BoardIs(S, n)
          /\ V[w] = B!FinishIfNeeded(t, todo, S)
      BY <2>1, <2>2, <2>3
    <3> QED BY <3>1, FinishingPlace
  <2>9. Y \in [B!Ids -> Nat] /\ \A h \in B!Ids : Z[h] = Y[h] + IF h \in B!Unclaimed(R[r]) THEN 1 ELSE 0
    BY <1>1, <1>3, <2>1 DEF LedgerIs
  <2>10. Settles(w, R, S, P, L, Y, Z, W, V, n, E, r, s)
    BY <1>1, <1>5, <2>1, <2>3, <2>4, <2>5, <2>6, <2>7, <2>8, <2>9 DEF Settles
  <2>11. /\ OneOpen(S, L, E) /\ Elsewhere(todo, S, P)
         /\ MoneyOf(V[w], S, P, L, n, C, E) => Money(S, P, L, Z, V, n, C, E)
    BY <1>4, <2>2, <2>10, RoundSettles
  <2>12. Named(todo, n)
    BY <2>2, <2>4 DEF Named, Pays
  <2>13. MoneyOf(V[w], S, P, L, n, C, E)
    BY <1>1, <2>1, <2>2, <2>3, <2>11, <2>12, FinishingMoney
  <2>14. /\ doc'.rounds = S /\ doc'.pending = P /\ rows' = L /\ claims' = Z /\ work' = V /\ ids' = n
         /\ contested' = C /\ reopened' = E
    BY <1>1, <1>2, <1>3, <1>5, <2>1
  <2> QED BY <2>11, <2>13, <2>14, MoneyNext
<1> QED BY <1>5, <1>6, <1>7

LEMMA InitMoney ==
  ASSUME B!TableAssumption, B!Init
  PROVE  TableMoney
<1>1. PICK rules \in RuleSets : doc = [rules |-> rules, rounds |-> B!Empty, pending |-> None]
  BY DEF B!Init
<1>2. PICK R, P, L, Y, W, n, C, E :
         /\ R = doc.rounds /\ P = doc.pending /\ L = rows /\ Y = claims /\ W = work /\ n = ids
         /\ C = contested /\ E = reopened
  OBVIOUS
<1>3. /\ DOMAIN R = {} /\ P = None /\ DOMAIN L = {} /\ Y = [h \in 1..MaxIds |-> 0]
      /\ W = [w \in Workers |-> None] /\ n = 0 /\ C = {} /\ E = {}
  BY <1>1, <1>2 DEF B!Init, B!Empty
<1>4. OneOpen(R, L, E) /\ PendingIs(R, P, L, W, C) /\ Apart(R) /\ Returned(R, L, n, C, E)
  BY <1>3 DEF OneOpen, Open, PendingIs, Apart, Returned
<1>5. Claimed(R, Y, n)
  BY <1>3 DEF Claimed, B!Ids
<1>6. \A v \in Workers : MoneyOf(W[v], R, P, L, n, C, E)
  BY <1>3 DEF MoneyOf
<1>7. Money(R, P, L, Y, W, n, C, E)
  BY <1>4, <1>5, <1>6 DEF Money
<1> QED BY <1>2, <1>7 DEF TableMoney

LEMMA StepMoney ==
  ASSUME B!TableAssumption, B!NoneAssumption, Wager # 1, TableTypes, TableMoney, [B!Next]_(B!vars)
  PROVE  TableMoney'
<1>1. ASSUME NEW w \in Workers, B!LoadMutationState(w) PROVE TableMoney'
  BY <1>1, LoadMoney
<1>2. ASSUME NEW w \in Workers, B!CommitRoundTransition(w) PROVE TableMoney'
  BY <1>2, CommitMoney
<1>3. ASSUME NEW w \in Workers, B!PrepareMoneyTransition(w) PROVE TableMoney'
  BY <1>3, PrepareMoney
<1>4. ASSUME NEW w \in Workers, B!UpdateTableSettings(w) \/ B!Refuse(w) PROVE TableMoney'
  BY <1>4, SettingsMoney
<1>5. ASSUME NEW w \in Workers, B!SettlePreparedAction(w) PROVE TableMoney'
  BY <1>5, SettleMoney
<1>6. ASSUME NEW w \in Workers, B!Complete(w) PROVE TableMoney'
  BY <1>6, CompleteMoney
<1>7. ASSUME NEW w \in Workers, B!Classify(w) PROVE TableMoney'
  BY <1>7, ClassifyMoney
<1>8. ASSUME NEW w \in Workers, B!RollbackPreparedAction(w) PROVE TableMoney'
  BY <1>8, RollbackMoney
<1>9. ASSUME NEW w \in Workers, B!PayHand(w) PROVE TableMoney'
  BY <1>9, PayMoney
<1>10. ASSUME NEW w \in Workers, B!Finalize(w) PROVE TableMoney'
  BY <1>10, FinalizeMoney
<1>11. ASSUME NEW w \in Workers, B!Fail(w) PROVE TableMoney'
  BY <1>11, FailMoney
<1>12. CASE UNCHANGED B!vars
  BY <1>12 DEF B!vars, TableMoney
<1> QED BY <1>1, <1>2, <1>3, <1>4, <1>5, <1>6, <1>7, <1>8, <1>9, <1>10, <1>11, <1>12
        DEF B!Next, B!Step

LEMMA MoneyIsReturned ==
  ASSUME TableTypes, TableMoney
  PROVE  B!ReturnsMatch
<1>1. PICK R, L, C, E : R = doc.rounds /\ L = rows /\ C = contested /\ E = reopened
  OBVIOUS
<1>2. Returned(R, L, ids, C, E)
  BY <1>1 DEF TableMoney, Money
<1>3. SUFFICES ASSUME NEW r \in DOMAIN R, r \notin C, r \notin E
               PROVE  LET round == doc.rounds[r]
                          due   == {B!Settlement(round, h) :
                                      h \in {x \in B!Range(round.hands) : x.payout_due > 0}}
                      IN /\ \A k \in B!RowsOf(r, {"settlement"}) :
                               /\ round.status # "player_turn"
                               /\ [key |-> k, row |-> rows[k]] \in due
                         /\ round.status = "settled" => \A m \in due : m.key \in DOMAIN rows
  BY <1>1 DEF B!ReturnsMatch
<1> DEFINE due == {B!Settlement(R[r], h) : h \in {x \in B!Range(R[r].hands) : x.payout_due > 0}}
<1>4. ASSUME NEW k \in B!RowsOf(r, {"settlement"})
      PROVE  R[r].status # "player_turn" /\ [key |-> k, row |-> L[k]] \in due
  <2>1. k \in DOMAIN L /\ L[k].round = r /\ k[2] = "settlement"
    BY <1>1, <1>4 DEF B!RowsOf
  <2>2. Owed(R[r], k, L[k])
    BY <1>2, <1>3, <2>1 DEF Returned
  <2>3. PICK h : /\ h \in B!Range(R[r].hands) /\ h.payout_due > 0
                 /\ k = B!Settlement(R[r], h).key /\ L[k] = B!Settlement(R[r], h).row
    BY <2>2 DEF Owed, B!Range
  <2>4. B!Settlement(R[r], h) = [key |-> B!Settlement(R[r], h).key, row |-> B!Settlement(R[r], h).row]
    BY DEF B!Settlement, B!Movement
  <2> QED BY <2>2, <2>3, <2>4 DEF Owed
<1>5. ASSUME R[r].status = "settled", NEW m \in due PROVE m.key \in DOMAIN L
  <2>1. PICK i \in DOMAIN R[r].hands : R[r].hands[i].payout_due > 0 /\ m = B!Settlement(R[r], R[r].hands[i])
    BY <1>5 DEF B!Range
  <2>2. DOMAIN R[r].hands = 1..Len(R[r].hands) /\ Len(R[r].hands) \in Nat
    <3>1. RoundOk(R[r], ids)
      BY <1>1, <1>3 DEF TableTypes, DocIs, BoardIs
    <3> QED BY <3>1, SortedParts DEF RoundOk
  <2>3. PaidUpTo(L, R[r], Len(R[r].hands)) /\ i <= Len(R[r].hands)
    BY <1>2, <1>3, <1>5, <2>2 DEF Returned
  <2> QED BY <2>1, <2>3 DEF PaidUpTo
<1> HIDE DEF due
<1>6. /\ \A k \in B!RowsOf(r, {"settlement"}) :
            R[r].status # "player_turn" /\ [key |-> k, row |-> L[k]] \in due
      /\ R[r].status = "settled" => \A m \in due : m.key \in DOMAIN L
  BY <1>4, <1>5
<1> QED BY <1>1, <1>6 DEF due

LEMMA MoneyIsNotStray ==
  ASSUME TableMoney
  PROVE  B!NothingStray
BY DEF TableMoney, Money, Returned, Claimed, B!NothingStray

-----------------------------------------------------------------------------
(***************************************************************************)
(* What the stakes of a round come to. A sum over a finite set is a total   *)
(* that does not depend on the order of its terms.                          *)
(***************************************************************************)
(* Sums. The folds of Blackjack add up a set, or the hands of a round, in     *)
(* orders of their own; g gives the sum of every subset, from b.              *)
SumStep(f, b, c, g, s) == IF s = {} THEN b ELSE f[c[s]] + g[s \ {c[s]}]
Summing(f, b, c, g) == g = [s \in SUBSET DOMAIN f |-> SumStep(f, b, c, g, s)]
Choosing(D, c) == \A s \in SUBSET D : s # {} => c[s] \in s
Sums(f, b, g) ==
    /\ g[{}] = b
    /\ \A s \in SUBSET DOMAIN f : s # {} =>
          \E p \in s : g[s] = f[p] + g[s \ {p}] \/ g[s] = g[s \ {p}] + f[p]
Terms(f) == IsFiniteSet(DOMAIN f) /\ \A x \in DOMAIN f : f[x] \in Int

LEMMA LeastNumber ==
  ASSUME NEW T \in SUBSET Nat, T # {} PROVE \E n \in T : \A m \in T : n <= m
<1> DEFINE R == {p \in Nat \X Nat : p[1] < p[2]}
<1>1. IsWellFoundedOn(R, Nat)
  <2>1. R = OpToRel(<, Nat)
    BY DEF OpToRel
  <2> QED BY <2>1, NatLessThanWellFounded
<1>2. PICK n \in T : \A m \in T : <<m, n>> \notin R
  BY <1>1, WFMin
<1>3. ASSUME NEW m \in T PROVE n <= m
  <2>1. <<m, n>>[1] = m /\ <<m, n>>[2] = n /\ <<m, n>> \in Nat \X Nat
    OBVIOUS
  <2>2. ~(m < n)
    BY <1>2, <2>1
  <2> QED BY <2>2
<1> QED BY <1>3

LEMMA SubsetSize ==
  ASSUME NEW D, IsFiniteSet(D), NEW s \in SUBSET D
  PROVE  /\ IsFiniteSet(s) /\ Cardinality(s) \in Nat /\ Cardinality(s) <= Cardinality(D)
         /\ s = {} <=> Cardinality(s) = 0
         /\ \A x \in s : Cardinality(s \ {x}) = Cardinality(s) - 1
<1>1. IsFiniteSet(s) /\ Cardinality(s) <= Cardinality(D)
  BY FS_Subset
<1>2. Cardinality(s) \in Nat /\ (s = {} <=> Cardinality(s) = 0)
  BY <1>1, FS_CardinalityType, FS_EmptySet
<1>3. \A x \in s : Cardinality(s \ {x}) = Cardinality(s) - 1
  BY <1>1, FS_RemoveElement
<1> QED BY <1>1, <1>2, <1>3

(* The step before the least counterexample.                                  *)
LEMMA OneLess ==
  ASSUME NEW D, IsFiniteSet(D), NEW s \in SUBSET D, NEW p \in s, NEW n, Cardinality(s) = n
  PROVE  /\ s \ {p} \in SUBSET D /\ n \in Nat /\ n - 1 \in Nat /\ Cardinality(s \ {p}) = n - 1
         /\ ~(n <= n - 1)
<1>1. n \in Nat /\ n # 0 /\ Cardinality(s \ {p}) = n - 1
  BY SubsetSize
<1> QED BY <1>1

LEMMA SumExists ==
  ASSUME NEW f, NEW b, NEW c, IsFiniteSet(DOMAIN f), Choosing(DOMAIN f, c)
  PROVE  \E g : Summing(f, b, c, g)
<1> DEFINE Subsets == SUBSET DOMAIN f
           Upto(g, n) == \A s \in Subsets : Cardinality(s) <= n => g[s] = SumStep(f, b, c, g, s)
           Bad == {n \in Nat : ~\E g : g = [s \in Subsets |-> g[s]] /\ Upto(g, n)}
<1>1. Bad = {}
  <2>1. SUFFICES ASSUME Bad # {} PROVE FALSE
    OBVIOUS
  <2>2. PICK n \in Bad : \A m \in Bad : n <= m
    <3>1. Bad \in SUBSET Nat
      OBVIOUS
    <3> HIDE DEF Bad
    <3> QED BY <2>1, <3>1, LeastNumber
  <2>3. PICK g : /\ g = [s \in Subsets |-> g[s]]
                 /\ \A s \in Subsets : Cardinality(s) < n => g[s] = SumStep(f, b, c, g, s)
    <3>1. CASE n = 0
      <4> DEFINE g0 == [s \in Subsets |-> 0]
      <4>1. g0 = [s \in Subsets |-> g0[s]]
        OBVIOUS
      <4>2. \A s \in Subsets : ~(Cardinality(s) < 0)
        BY SubsetSize
      <4> HIDE DEF g0
      <4> QED BY <3>1, <4>1, <4>2
    <3>2. CASE n # 0
      <4>1. n \in Nat /\ n - 1 \in Nat /\ ~(n <= n - 1)
        BY <3>2
      <4>2. n - 1 \notin Bad
        BY <2>2, <4>1
      <4>3. PICK g : g = [s \in Subsets |-> g[s]] /\ Upto(g, n - 1)
        BY <4>1, <4>2
      <4>4. \A s \in Subsets : Cardinality(s) < n => Cardinality(s) <= n - 1
        BY <4>1, SubsetSize
      <4> QED BY <4>3, <4>4
    <3> QED BY <3>1, <3>2
  <2> DEFINE h == [s \in Subsets |-> SumStep(f, b, c, g, s)]
  <2>4. \A s \in Subsets : h[s] = SumStep(f, b, c, g, s)
    OBVIOUS
  <2>5. h = [s \in Subsets |-> h[s]]
    OBVIOUS
  <2> HIDE DEF h
  <2>6. \A s \in Subsets : Cardinality(s) < n => h[s] = g[s]
    BY <2>3, <2>4
  <2>7. ASSUME NEW s \in Subsets, Cardinality(s) <= n PROVE h[s] = SumStep(f, b, c, h, s)
    <3>1. CASE s = {}
      BY <3>1, <2>4 DEF SumStep
    <3>2. CASE s # {}
      <4>1. c[s] \in s
        BY <3>2 DEF Choosing
      <4>2. Cardinality(s \ {c[s]}) < n
        <5>1. Cardinality(s \ {c[s]}) = Cardinality(s) - 1 /\ Cardinality(s) \in Nat /\ n \in Nat
          BY <4>1, SubsetSize
        <5> QED BY <2>7, <5>1
      <4>3. s \ {c[s]} \in Subsets
        OBVIOUS
      <4>4. h[s \ {c[s]}] = g[s \ {c[s]}]
        BY <2>6, <4>2, <4>3
      <4> QED BY <2>4, <3>2, <4>4 DEF SumStep
    <3> QED BY <3>1, <3>2
  <2>8. Upto(h, n)
    BY <2>7
  <2> QED BY <2>2, <2>5, <2>8
<1>2. Cardinality(DOMAIN f) \in Nat
  BY FS_CardinalityType
<1>3. PICK g : g = [s \in Subsets |-> g[s]] /\ Upto(g, Cardinality(DOMAIN f))
  BY <1>1, <1>2
<1>4. \A s \in Subsets : g[s] = SumStep(f, b, c, g, s)
  BY <1>3, SubsetSize
<1>5. g = [s \in Subsets |-> SumStep(f, b, c, g, s)]
  BY <1>3, <1>4
<1> QED BY <1>5 DEF Summing

LEMMA SummingSums ==
  ASSUME NEW f, NEW b, NEW c, NEW g, Choosing(DOMAIN f, c), Summing(f, b, c, g)
  PROVE  Sums(f, b, g)
<1>1. \A s \in SUBSET DOMAIN f : g[s] = SumStep(f, b, c, g, s)
  BY DEF Summing
<1>2. g[{}] = b
  BY <1>1 DEF SumStep
<1>3. ASSUME NEW s \in SUBSET DOMAIN f, s # {} PROVE \E p \in s : g[s] = f[p] + g[s \ {p}]
  BY <1>1, <1>3 DEF SumStep, Choosing
<1> QED BY <1>2, <1>3 DEF Sums

LEMMA SumTypes ==
  ASSUME NEW f, NEW b, NEW g, Terms(f), b \in Int, Sums(f, b, g)
  PROVE  \A s \in SUBSET DOMAIN f : g[s] \in Int
<1> DEFINE Bad == {n \in Nat : \E s \in SUBSET DOMAIN f : Cardinality(s) = n /\ g[s] \notin Int}
<1>1. g[{}] = b
  BY DEF Sums
<1>2. Bad = {}
  <2>1. SUFFICES ASSUME Bad # {} PROVE FALSE
    OBVIOUS
  <2>2. PICK n \in Bad : \A m \in Bad : n <= m
    <3>1. Bad \in SUBSET Nat
      OBVIOUS
    <3> HIDE DEF Bad
    <3> QED BY <2>1, <3>1, LeastNumber
  <2>3. PICK s \in SUBSET DOMAIN f : Cardinality(s) = n /\ g[s] \notin Int
    BY <2>2
  <2>4. s # {}
    BY <1>1, <2>3
  <2>5. PICK p \in s : g[s] = f[p] + g[s \ {p}] \/ g[s] = g[s \ {p}] + f[p]
    BY <2>4 DEF Sums
  <2>6. /\ s \ {p} \in SUBSET DOMAIN f /\ n - 1 \in Nat /\ Cardinality(s \ {p}) = n - 1
        /\ ~(n <= n - 1)
    <3>1. IsFiniteSet(DOMAIN f)
      BY DEF Terms
    <3> HIDE DEF Bad
    <3> QED BY <2>3, <3>1, OneLess
  <2>7. n - 1 \notin Bad
    BY <2>2, <2>6
  <2>8. g[s \ {p}] \in Int /\ f[p] \in Int
    BY <2>6, <2>7 DEF Terms
  <2> QED BY <2>3, <2>5, <2>8
<1> QED BY <1>2, SubsetSize DEF Terms

(* A sum does not depend on the order of its terms.                           *)
AnyOrder(f, g) == \A s \in SUBSET DOMAIN f : \A x \in s : g[s] = f[x] + g[s \ {x}]
LEMMA SumAnyOrder ==
  ASSUME NEW f, NEW b, NEW g, Terms(f), b \in Int, Sums(f, b, g)
  PROVE  AnyOrder(f, g)
<1> DEFINE Good(s) == \A x \in s : g[s] = f[x] + g[s \ {x}]
           Bad == {n \in Nat : \E s \in SUBSET DOMAIN f : Cardinality(s) = n /\ ~Good(s)}
<1>1. \A s \in SUBSET DOMAIN f : g[s] \in Int
  BY SumTypes
<1>2. \A s \in SUBSET DOMAIN f : s # {} => \E p \in s : g[s] = f[p] + g[s \ {p}]
  <2>1. TAKE s \in SUBSET DOMAIN f
  <2>2. HAVE s # {}
  <2>3. PICK p \in s : g[s] = f[p] + g[s \ {p}] \/ g[s] = g[s \ {p}] + f[p]
    BY <2>2 DEF Sums
  <2>4. f[p] \in Int /\ g[s \ {p}] \in Int
    BY <1>1 DEF Terms
  <2>5. \A i, j \in Int : i + j = j + i
    OBVIOUS
  <2>6. f[p] + g[s \ {p}] = g[s \ {p}] + f[p]
    BY <2>4, <2>5
  <2> QED BY <2>3, <2>6
<1>3. Bad = {}
  <2>1. SUFFICES ASSUME Bad # {} PROVE FALSE
    OBVIOUS
  <2>2. PICK n \in Bad : \A m \in Bad : n <= m
    <3>1. Bad \in SUBSET Nat
      OBVIOUS
    <3> HIDE DEF Bad
    <3> QED BY <2>1, <3>1, LeastNumber
  <2>3. PICK s \in SUBSET DOMAIN f : Cardinality(s) = n /\ ~Good(s)
    BY <2>2
  <2>4. s # {}
    <3>1. Good({})
      OBVIOUS
    <3> QED BY <2>3, <3>1
  <2>5. PICK p \in s : g[s] = f[p] + g[s \ {p}]
    <3> HIDE DEF Bad
    <3> QED BY <1>2, <2>4
  <2>6. ASSUME NEW x \in s PROVE Good(s \ {x})
    <3>1. /\ s \ {x} \in SUBSET DOMAIN f /\ n - 1 \in Nat /\ Cardinality(s \ {x}) = n - 1
          /\ ~(n <= n - 1)
      <4>1. IsFiniteSet(DOMAIN f) /\ s \in SUBSET DOMAIN f /\ x \in s /\ Cardinality(s) = n
        BY <2>3, <2>6 DEF Terms
      <4> HIDE DEF Bad, Good
      <4> QED BY <4>1, OneLess
    <3>2. n - 1 \notin Bad
      BY <2>2, <3>1
    <3> QED BY <3>1, <3>2
  <2>7. ASSUME NEW x \in s PROVE g[s] = f[x] + g[s \ {x}]
    <3>1. CASE x = p
      BY <2>5, <3>1
    <3>2. CASE x # p
      <4>1. x \in s \ {p} /\ p \in s \ {x}
        BY <3>2
      <4>2. (s \ {p}) \ {x} = (s \ {x}) \ {p} /\ (s \ {p}) \ {x} \in SUBSET DOMAIN f
        OBVIOUS
      <4>3. g[s \ {p}] = f[x] + g[(s \ {p}) \ {x}]
        BY <2>6, <4>1
      <4>4. g[s \ {x}] = f[p] + g[(s \ {x}) \ {p}]
        BY <2>6, <4>1
      <4>5. g[(s \ {p}) \ {x}] \in Int /\ f[x] \in Int /\ f[p] \in Int
        BY <1>1, <4>2 DEF Terms
      <4>6. PICK r, a, d : r = g[(s \ {p}) \ {x}] /\ a = f[x] /\ d = f[p]
        OBVIOUS
      <4>7. r \in Int /\ a \in Int /\ d \in Int
        BY <4>5, <4>6
      <4>8. g[s] = d + (a + r) /\ g[s \ {x}] = d + r
        BY <2>5, <4>2, <4>3, <4>4, <4>6
      <4>9. d + (a + r) = a + (d + r)
        BY <4>7
      <4> QED BY <4>6, <4>8, <4>9
    <3> QED BY <3>1, <3>2
  <2> QED BY <2>3, <2>7
<1>4. ASSUME NEW s \in SUBSET DOMAIN f PROVE Good(s)
  BY <1>3, SubsetSize DEF Terms
<1> QED BY <1>4 DEF AnyOrder

(* Sums of the same terms under other names differ as they begin.             *)
Renames(p, f, e) ==
    /\ \A x \in DOMAIN f : p[x] \in DOMAIN e /\ e[p[x]] = f[x]
    /\ \A x, y \in DOMAIN f : x # y => p[x] # p[y]

Shifted(p, f, b, g, a, h) ==
    \A s \in SUBSET DOMAIN f : h[{p[x] : x \in s}] = (a - b) + g[s]

LEMMA SumsRenamed ==
  ASSUME NEW f, NEW b, NEW g, Terms(f), b \in Int, Sums(f, b, g),
         NEW e, NEW a, NEW h, Terms(e), a \in Int, Sums(e, a, h),
         NEW p, Renames(p, f, e)
  PROVE  Shifted(p, f, b, g, a, h)
<1> DEFINE Im(s) == {p[x] : x \in s}
           Good(s) == h[Im(s)] = (a - b) + g[s]
           Bad == {n \in Nat : \E s \in SUBSET DOMAIN f : Cardinality(s) = n /\ ~Good(s)}
<1>0. \A s \in SUBSET DOMAIN f : \A z \in s :
        LET n == Cardinality(s)
        IN  /\ s \ {z} \in SUBSET DOMAIN f /\ n - 1 \in Nat /\ Cardinality(s \ {z}) = n - 1
            /\ ~(n <= n - 1)
  <2> SUFFICES ASSUME NEW s \in SUBSET DOMAIN f, NEW z \in s, NEW n, n = Cardinality(s)
               PROVE  /\ s \ {z} \in SUBSET DOMAIN f /\ n - 1 \in Nat
                      /\ Cardinality(s \ {z}) = n - 1 /\ ~(n <= n - 1)
    OBVIOUS
  <2>1. IsFiniteSet(DOMAIN f)
    BY DEF Terms
  <2> HIDE DEF Bad, Good, Im
  <2> QED BY <2>1, OneLess
<1>1. Bad = {}
  <2>1. SUFFICES ASSUME Bad # {} PROVE FALSE
    OBVIOUS
  <2>2. PICK n \in Bad : \A m \in Bad : n <= m
    <3>1. Bad \in SUBSET Nat
      OBVIOUS
    <3> HIDE DEF Bad
    <3> QED BY <2>1, <3>1, LeastNumber
  <2>3. PICK s \in SUBSET DOMAIN f : Cardinality(s) = n /\ ~Good(s)
    BY <2>2
  <2>4. s # {}
    <3>1. Im({}) = {} /\ g[{}] = b /\ h[{}] = a
      BY DEF Sums
    <3>2. a - b + b = a
      OBVIOUS
    <3>3. Good({})
      BY <3>1, <3>2
    <3> QED BY <2>3, <3>3
  <2>5. PICK z \in s : TRUE
    BY <2>4
  <2>6. /\ s \ {z} \in SUBSET DOMAIN f /\ n - 1 \in Nat /\ Cardinality(s \ {z}) = n - 1
        /\ ~(n <= n - 1)
    <3> HIDE DEF Bad, Good, Im
    <3> QED BY <2>3, <2>5, <1>0
  <2>7. n - 1 \notin Bad
    BY <2>2, <2>6
  <2>8. Good(s \ {z})
    BY <2>6, <2>7
  <2>9. Im(s) \in SUBSET DOMAIN e /\ p[z] \in Im(s) /\ Im(s) \ {p[z]} = Im(s \ {z})
    BY DEF Renames
  <2>10. h[Im(s)] = e[p[z]] + h[Im(s \ {z})]
    <3>1. AnyOrder(e, h)
      BY SumAnyOrder
    <3>2. PICK t, q : t = Im(s) /\ q = p[z]
      OBVIOUS
    <3> HIDE DEF Im
    <3>3. t \in SUBSET DOMAIN e /\ q \in t /\ t \ {q} = Im(s \ {z})
      BY <2>9, <3>2
    <3>4. h[t] = e[q] + h[t \ {q}]
      BY <3>1, <3>3 DEF AnyOrder
    <3> QED BY <3>2, <3>3, <3>4
  <2>11. g[s] = f[z] + g[s \ {z}] /\ g[s \ {z}] \in Int /\ f[z] \in Int /\ e[p[z]] = f[z]
    <3>1. AnyOrder(f, g)
      BY SumAnyOrder
    <3>2. \A t \in SUBSET DOMAIN f : g[t] \in Int
      BY SumTypes
    <3>3. f[z] \in Int /\ e[p[z]] = f[z]
      BY DEF Terms, Renames
    <3> HIDE DEF Bad
    <3> QED BY <2>6, <3>1, <3>2, <3>3 DEF AnyOrder
  <2>12. PICK i, j : i = g[s \ {z}] /\ j = f[z]
    OBVIOUS
  <2>13. h[Im(s)] = j + ((a - b) + i) /\ g[s] = j + i /\ i \in Int /\ j \in Int
    BY <2>8, <2>10, <2>11, <2>12
  <2> QED BY <2>3, <2>13
<1>2. ASSUME NEW s \in SUBSET DOMAIN f PROVE Good(s)
  BY <1>1, SubsetSize DEF Terms
<1> QED BY <1>2 DEF Shifted

(* The sum of a function.                                                     *)
Total(f) == (CHOOSE g : Sums(f, 0, g))[DOMAIN f]

LEMMA TotalSums ==
  ASSUME NEW f, Terms(f)
  PROVE  /\ \E g : Sums(f, 0, g) /\ Total(f) = g[DOMAIN f]
         /\ Total(f) \in Int
<1> DEFINE c == [s \in SUBSET DOMAIN f |-> CHOOSE x \in s : TRUE]
<1>1. Choosing(DOMAIN f, c)
  BY DEF Choosing
<1> HIDE DEF c
<1>2. \E g : Sums(f, 0, g)
  BY <1>1, SumExists, SummingSums DEF Terms
<1>3. Sums(f, 0, CHOOSE g : Sums(f, 0, g))
  BY <1>2
<1>4. Total(f) \in Int
  BY <1>3, SumTypes DEF Total
<1> QED BY <1>3, <1>4 DEF Total

LEMMA SumIsTotal ==
  ASSUME NEW f, NEW b, NEW g, Terms(f), b \in Int, Sums(f, b, g)
  PROVE  g[DOMAIN f] = b + Total(f)
<1>1. PICK h : Sums(f, 0, h) /\ Total(f) = h[DOMAIN f]
  BY TotalSums
<1> DEFINE p == [x \in DOMAIN f |-> x]
<1>2. Renames(p, f, f) /\ {p[x] : x \in DOMAIN f} = DOMAIN f
  BY DEF Renames
<1> HIDE DEF p
<1>3. h[{p[x] : x \in DOMAIN f}] = (0 - b) + g[DOMAIN f]
  <2>1. 0 \in Int /\ DOMAIN f \in SUBSET DOMAIN f
    OBVIOUS
  <2>2. Shifted(p, f, b, g, 0, h)
    BY <1>1, <1>2, <2>1, SumsRenamed
  <2> QED BY <2>1, <2>2 DEF Shifted
<1>4. g[DOMAIN f] \in Int /\ Total(f) \in Int
  BY SumTypes, TotalSums
<1>5. Total(f) = (0 - b) + g[DOMAIN f]
  BY <1>1, <1>2, <1>3
<1> QED BY <1>4, <1>5

LEMMA TotalRenamed ==
  ASSUME NEW f, NEW e, NEW p, Terms(f), Terms(e), Renames(p, f, e), DOMAIN e = {p[x] : x \in DOMAIN f}
  PROVE  Total(e) = Total(f)
<1>1. PICK g : Sums(f, 0, g) /\ Total(f) = g[DOMAIN f]
  BY TotalSums
<1>2. PICK h : Sums(e, 0, h) /\ Total(e) = h[DOMAIN e]
  BY TotalSums
<1>3. h[{p[x] : x \in DOMAIN f}] = (0 - 0) + g[DOMAIN f]
  <2>1. 0 \in Int /\ DOMAIN f \in SUBSET DOMAIN f
    OBVIOUS
  <2>2. Shifted(p, f, 0, g, 0, h)
    BY <1>1, <1>2, <2>1, SumsRenamed
  <2> QED BY <2>1, <2>2 DEF Shifted
<1>4. g[DOMAIN f] \in Int
  BY <1>1, SumTypes
<1> QED BY <1>1, <1>2, <1>3, <1>4

LEMMA TotalEmpty ==
  ASSUME NEW f, DOMAIN f = {}
  PROVE  Total(f) = 0
<1>1. Terms(f)
  BY FS_EmptySet DEF Terms
<1> QED BY <1>1, TotalSums DEF Sums

(* One term more.                                                             *)
LEMMA TotalAdds ==
  ASSUME NEW f, NEW e, NEW z, Terms(f), z \notin DOMAIN f, DOMAIN e = DOMAIN f \cup {z},
         \A x \in DOMAIN f : e[x] = f[x], e[z] \in Int
  PROVE  Terms(e) /\ Total(e) = e[z] + Total(f)
<1>1. IsFiniteSet(DOMAIN e)
  BY FS_AddElement DEF Terms
<1>2. Terms(e)
  BY <1>1 DEF Terms
<1>3. PICK h : Sums(e, 0, h) /\ Total(e) = h[DOMAIN e]
  BY <1>2, TotalSums
<1>4. DOMAIN e \in SUBSET DOMAIN e /\ z \in DOMAIN e /\ DOMAIN e \ {z} = DOMAIN f
  OBVIOUS
<1>5. h[DOMAIN e] = e[z] + h[DOMAIN f]
  <2>1. 0 \in Int
    OBVIOUS
  <2>2. \A s \in SUBSET DOMAIN e : \A x \in s : h[s] = e[x] + h[s \ {x}]
    <3>1. AnyOrder(e, h)
      BY <1>2, <1>3, <2>1, SumAnyOrder
    <3> QED BY <3>1 DEF AnyOrder
  <2> QED BY <1>4, <2>2
<1> DEFINE p == [x \in DOMAIN f |-> x]
<1>6. Renames(p, f, e) /\ {p[x] : x \in DOMAIN f} = DOMAIN f
  BY DEF Renames
<1> HIDE DEF p
<1>7. PICK g : Sums(f, 0, g) /\ Total(f) = g[DOMAIN f]
  BY TotalSums
<1>8. h[{p[x] : x \in DOMAIN f}] = (0 - 0) + g[DOMAIN f]
  <2>1. 0 \in Int /\ DOMAIN f \in SUBSET DOMAIN f
    OBVIOUS
  <2>2. Shifted(p, f, 0, g, 0, h)
    BY <1>2, <1>3, <1>6, <1>7, <2>1, SumsRenamed
  <2> QED BY <2>1, <2>2 DEF Shifted
<1>9. Total(f) \in Int
  BY TotalSums
<1> QED BY <1>2, <1>3, <1>5, <1>6, <1>7, <1>8, <1>9

(* The sums of the table, as sums of functions.                               *)
StakesOf(L, S) == [k \in S |-> -L[k].amount]
BetsOf(x) == [i \in DOMAIN x.hands |-> x.hands[i].bet]

LEMMA StakesAre ==
  ASSUME NEW S, IsFiniteSet(S), \A k \in S : rows[k].amount \in Int
  PROVE  B!MapThenSumSet(LAMBDA k : -rows[k].amount, S) = Total(StakesOf(rows, S))
<1> DEFINE f == StakesOf(rows, S)
           c == [s \in SUBSET S |-> CHOOSE x \in s : TRUE]
<1>1. DOMAIN f = S /\ \A k \in S : f[k] = -rows[k].amount
  BY DEF StakesOf
<1>2. Choosing(DOMAIN f, c)
  BY <1>1 DEF Choosing
<1>3. PICK g : Summing(f, 0, c, g)
  BY <1>1, <1>2, SumExists
<1> DEFINE R(h) == h = [s \in SUBSET S |-> IF s = {} THEN 0
                          ELSE LET x == CHOOSE x \in s : TRUE IN -rows[x].amount + h[s \ {x}]]
<1>4. ASSUME NEW h PROVE R(h) <=> Summing(f, 0, c, h)
  <2>1. ASSUME NEW s \in SUBSET S, s # {}
        PROVE  SumStep(f, 0, c, h, s) = LET x == CHOOSE x \in s : TRUE IN -rows[x].amount + h[s \ {x}]
    BY <1>1, <2>1 DEF SumStep
  <2>2. \A s \in SUBSET S : s = {} => SumStep(f, 0, c, h, s) = 0
    BY DEF SumStep
  <2> HIDE DEF f, c
  <2> QED BY <1>1, <2>1, <2>2 DEF Summing
<1>5. R(CHOOSE h : R(h))
  <2> HIDE DEF R
  <2> QED BY <1>3, <1>4
<1> DEFINE q == CHOOSE h : R(h)
<1>6. Sums(f, 0, q) /\ Terms(f) /\ 0 \in Int
  <2> HIDE DEF R, f, c
  <2>1. Sums(f, 0, q)
    BY <1>2, <1>4, <1>5, SummingSums
  <2> QED BY <1>1, <2>1 DEF Terms
<1>7. q[S] = Total(f)
  <2> HIDE DEF q, f
  <2>1. q[DOMAIN f] = 0 + Total(f) /\ Total(f) \in Int
    BY <1>6, SumIsTotal, TotalSums
  <2> QED BY <1>1, <2>1
<1> HIDE DEF f
<1>8. B!MapThenSumSet(LAMBDA k : -rows[k].amount, S) = Total(f)
  BY <1>7 DEF B!MapThenSumSet, B!MapThenFoldSet
<1> QED BY <1>8 DEF f

LEMMA BetsAre ==
  ASSUME NEW x, NEW n \in Nat, DOMAIN x.hands = 1..n, x.insurance \in Int,
         \A i \in 1..n : x.hands[i].bet \in Int
  PROVE  B!Bets(x) = x.insurance + Total(BetsOf(x))
<1> DEFINE f == BetsOf(x)
           b == x.insurance
           c == [s \in SUBSET (1..n) |-> CHOOSE i \in s : \A j \in s : i >= j]
<1>1. DOMAIN f = 1..n /\ \A i \in 1..n : f[i] = x.hands[i].bet
  BY DEF BetsOf
<1>2. Choosing(DOMAIN f, c)
  <2> SUFFICES ASSUME NEW s \in SUBSET (1..n), s # {} PROVE \E i \in s : \A j \in s : i >= j
    BY <1>1 DEF Choosing
  <2> DEFINE T == {n - i : i \in s}
  <2>1. T \in SUBSET Nat /\ T # {}
    <3>1. ASSUME NEW i \in s PROVE n - i \in Nat
      <4>1. i \in 1..n
        OBVIOUS
      <4> QED BY <4>1
    <3> QED BY <3>1
  <2> HIDE DEF T
  <2>2. PICK m \in T : \A k \in T : m <= k
    BY <2>1, LeastNumber
  <2>3. PICK i \in s : m = n - i
    BY DEF T
  <2>4. ASSUME NEW j \in s PROVE i >= j
    <3>1. n - j \in T /\ i \in Int /\ j \in Int
      BY DEF T
    <3>2. n - i <= n - j
      BY <2>2, <2>3, <3>1
    <3> QED BY <3>1, <3>2
  <2> QED BY <2>4
<1>3. PICK g : Summing(f, b, c, g)
  <2>1. IsFiniteSet(DOMAIN f)
    BY <1>1, FS_Interval
  <2> QED BY <1>2, <2>1, SumExists
<1>4. Terms(f)
  <2>1. IsFiniteSet(DOMAIN f)
    BY <1>1, FS_Interval
  <2> HIDE DEF f, c
  <2> QED BY <1>1, <2>1 DEF Terms
<1>5. ASSUME NEW s \in SUBSET (1..n) PROVE g[s] \in Int
  BY <1>1, <1>2, <1>3, <1>4, SummingSums, SumTypes
<1> DEFINE R(h) == h = [s \in SUBSET DOMAIN x.hands |-> IF s = {} THEN b
                          ELSE LET i == CHOOSE i \in s : \A j \in s : i >= j
                               IN  h[s \ {i}] + x.hands[i].bet]
<1>6. R(g)
  <2>1. g = [s \in SUBSET (1..n) |-> SumStep(f, b, c, g, s)]
    BY <1>1, <1>3 DEF Summing
  <2>2. ASSUME NEW s \in SUBSET (1..n)
        PROVE  SumStep(f, b, c, g, s)
               = IF s = {} THEN b ELSE LET i == CHOOSE i \in s : \A j \in s : i >= j
                                       IN  g[s \ {i}] + x.hands[i].bet
    <3>1. CASE s = {}
      BY <3>1 DEF SumStep
    <3>2. CASE s # {}
      <4> DEFINE m == CHOOSE i \in s : \A j \in s : i >= j
      <4>1. c[s] = m /\ m \in s /\ m \in 1..n
        BY <1>1, <1>2, <3>2 DEF Choosing
      <4> HIDE DEF m, f, c
      <4>2. f[m] = x.hands[m].bet /\ f[m] \in Int /\ g[s \ {m}] \in Int
        BY <1>1, <1>5, <4>1
      <4>3. \A i, j \in Int : i + j = j + i
        OBVIOUS
      <4>4. SumStep(f, b, c, g, s) = f[m] + g[s \ {m}]
        BY <3>2, <4>1 DEF SumStep
      <4>5. SumStep(f, b, c, g, s) = g[s \ {m}] + x.hands[m].bet
        BY <4>2, <4>3, <4>4
      <4> QED BY <3>2, <4>5 DEF m
    <3> QED BY <3>1, <3>2
  <2> HIDE DEF f, c
  <2> QED BY <2>1, <2>2
<1> DEFINE q == CHOOSE h : R(h)
<1>7. R(q)
  <2> HIDE DEF R
  <2> QED BY <1>6
<1>8. Sums(f, b, q)
  <2> HIDE DEF q, f
  <2>1. q[{}] = b
    BY <1>7
  <2>2. ASSUME NEW s \in SUBSET DOMAIN f, s # {}
        PROVE  \E i \in s : q[s] = q[s \ {i}] + f[i]
    <3> DEFINE m == CHOOSE i \in s : \A j \in s : i >= j
    <3>1. m \in s /\ m \in 1..n
      BY <1>1, <1>2, <2>2 DEF Choosing
    <3>2. q[s] = q[s \ {m}] + x.hands[m].bet
      BY <1>1, <1>7, <2>2
    <3> HIDE DEF m
    <3> QED BY <1>1, <3>1, <3>2
  <2> QED BY <2>1, <2>2 DEF Sums
<1>9. q[DOMAIN x.hands] = b + Total(f)
  <2> HIDE DEF q, f
  <2> QED BY <1>1, <1>4, <1>8, SumIsTotal
<1> HIDE DEF f
<1>10. B!Bets(x) = b + Total(f)
  BY <1>9 DEF B!Bets, B!FoldLeft, B!MapThenFoldSet, B!Max
<1> QED BY <1>10 DEF f

(* What a round has staked: its bets but for those of hands that a second     *)
(* split of the same hand added.                                              *)
Froms(x) == {x.hands[i].split_from : i \in DOMAIN x.hands} \ {None}
Bill(x) == (x.insurance + Total(BetsOf(x))) - Wager * (Len(x.hands) - 1 - Cardinality(Froms(x)))

(* A hand of two cards has the bet of the deal, and a hand that was split     *)
(* keeps its name and names itself.                                           *)
Plain(x) == \A i \in DOMAIN x.hands : x.hands[i].cards # "more" => x.hands[i].bet = Wager
Rooted(x) ==
    \A i \in DOMAIN x.hands : x.hands[i].split_from # None =>
        \E j \in DOMAIN x.hands : /\ x.hands[j].id = x.hands[i].split_from
                                  /\ x.hands[j].split_from = x.hands[i].split_from
Tidy(x) == x.id \in HandIds(x) /\ Plain(x) /\ Rooted(x)

(* The keys K have been used for what the round x shows, and for no more.     *)
Marked(K, x) ==
    /\ \A i \in DOMAIN x.hands :
          /\ <<x.hands[i].id, "double">> \in K => x.hands[i].cards = "more"
          /\ <<x.hands[i].id, "split">> \in K <=> x.hands[i].id \in Froms(x)
    /\ <<x.id, "insurance">> \in K => x.insurance # 0

LEMMA RoundTerms ==
  ASSUME B!TableAssumption, NEW x, x \in B!Rounds
  PROVE  /\ Terms(BetsOf(x)) /\ Total(BetsOf(x)) \in Int /\ x.insurance \in Int
         /\ Len(x.hands) \in Nat /\ DOMAIN x.hands = 1..Len(x.hands)
         /\ DOMAIN BetsOf(x) = 1..Len(x.hands)
         /\ \A i \in 1..Len(x.hands) : x.hands[i] \in B!Hands /\ BetsOf(x)[i] = x.hands[i].bet
         /\ IsFiniteSet(Froms(x)) /\ Cardinality(Froms(x)) \in Nat /\ Wager \in Nat
         /\ Bill(x) \in Int
<1>1. /\ x.hands \in Seq(B!Hands) /\ x.insurance \in InsuranceAmounts \cup {0}
      /\ Wager \in Nat /\ InsuranceAmounts \subseteq Nat
  BY DEF B!Rounds, B!TableAssumption
<1>11. x.insurance \in Int
  <2>1. \A a \in InsuranceAmounts : a \in Nat
    BY <1>1
  <2>2. x.insurance \in InsuranceAmounts \/ x.insurance = 0
    BY <1>1
  <2>3. CASE x.insurance = 0
    BY <2>3
  <2>4. CASE x.insurance \in InsuranceAmounts
    <3> DEFINE a == x.insurance
    <3>1. a \in InsuranceAmounts
      BY <2>4
    <3> HIDE DEF a
    <3>2. a \in Nat
      BY <2>1, <3>1
    <3> QED BY <3>2 DEF a
  <2> QED BY <2>2, <2>3, <2>4
<1>2. Len(x.hands) \in Nat /\ DOMAIN x.hands = 1..Len(x.hands)
  BY <1>1
<1>3. \A i \in 1..Len(x.hands) : x.hands[i] \in B!Hands
  BY <1>1, <1>2
<1>4. \A i \in 1..Len(x.hands) : x.hands[i].bet \in Nat
  BY <1>3 DEF B!Hands
<1>5. DOMAIN BetsOf(x) = 1..Len(x.hands) /\ \A i \in 1..Len(x.hands) : BetsOf(x)[i] = x.hands[i].bet
  BY <1>2 DEF BetsOf
<1>6. IsFiniteSet(1..Len(x.hands))
  <2>1. 1 \in Int /\ Len(x.hands) \in Int
    BY <1>2
  <2> QED BY <2>1, FS_Interval
<1>7. Terms(BetsOf(x))
  BY <1>4, <1>5, <1>6 DEF Terms
<1>8. Total(BetsOf(x)) \in Int
  BY <1>7, TotalSums
<1>9. IsFiniteSet(Froms(x)) /\ Cardinality(Froms(x)) \in Nat
  <2> DEFINE S == {x.hands[i].split_from : i \in DOMAIN x.hands}
  <2>1. IsFiniteSet(S)
    <3> DEFINE f == [i \in 1..Len(x.hands) |-> x.hands[i].split_from]
    <3>1. f \in Surjection(1..Len(x.hands), S)
      BY <1>2 DEF Surjection
    <3> HIDE DEF f, S
    <3> QED BY <1>6, <3>1, FS_Surjection
  <2>2. Froms(x) \subseteq S
    BY DEF Froms
  <2> QED BY <2>1, <2>2, FS_Subset, FS_CardinalityType
<1>10. Bill(x) \in Int
  <2> DEFINE a == x.insurance
             b == Total(BetsOf(x))
             c == Len(x.hands) - 1 - Cardinality(Froms(x))
  <2>1. a \in Int /\ Wager \in Int
    BY <1>1, <1>11
  <2>2. b \in Int
    BY <1>8
  <2>3. c \in Int
    BY <1>2, <1>9
  <2> HIDE DEF a, b, c
  <2>4. (a + b) - Wager * c \in Int
    BY <2>1, <2>2, <2>3
  <2> QED BY <2>4 DEF Bill, a, b, c
<1> QED BY <1>1, <1>2, <1>3, <1>5, <1>7, <1>8, <1>9, <1>10, <1>11

LEMMA BillIs ==
  ASSUME B!TableAssumption, NEW x, x \in B!Rounds
  PROVE  Bill(x) = B!Bets(x) - Wager * B!FreeHands(x)
<1>1. /\ DOMAIN x.hands = 1..Len(x.hands) /\ Len(x.hands) \in Nat /\ x.insurance \in Int
      /\ \A i \in 1..Len(x.hands) : x.hands[i] \in B!Hands
  BY RoundTerms
<1>2. \A i \in 1..Len(x.hands) : x.hands[i].bet \in Int
  BY <1>1 DEF B!Hands
<1>3. B!Bets(x) = x.insurance + Total(BetsOf(x))
  BY <1>1, <1>2, BetsAre
<1>4. {h.split_from : h \in B!Range(x.hands)} = {x.hands[i].split_from : i \in DOMAIN x.hands}
  BY DEF B!Range
<1>5. {h.split_from : h \in B!Range(x.hands)} \ {None} = Froms(x)
  BY <1>4 DEF Froms
<1>6. B!FreeHands(x) = Len(x.hands) - 1 - Cardinality(Froms(x))
  <2>1. B!Cardinality(Froms(x)) = Cardinality(Froms(x))
    BY DEF B!Cardinality, Cardinality
  <2> QED BY <1>5, <2>1 DEF B!FreeHands
<1> QED BY <1>3, <1>6 DEF Bill

LEMMA SteadyKeeps ==
  ASSUME B!TableAssumption, NEW x, NEW y, x \in B!Rounds, y \in B!Rounds, Steady(x, y)
  PROVE  /\ HandIds(y) = HandIds(x) /\ Bill(y) = Bill(x)
         /\ Tidy(x) => Tidy(y)
         /\ \A K : Marked(K, x) => Marked(K, y)
<1>1. /\ DOMAIN y.hands = DOMAIN x.hands /\ y.id = x.id /\ y.insurance = x.insurance
      /\ \A i \in DOMAIN x.hands : SteadyHand(x.hands[i], y.hands[i])
  BY DEF Steady
<1>2. Len(y.hands) = Len(x.hands)
  BY <1>1 DEF B!Rounds
<1>3. HandIds(y) = HandIds(x)
  BY <1>1 DEF HandIds, SteadyHand
<1>4. BetsOf(y) = BetsOf(x)
  BY <1>1 DEF BetsOf, SteadyHand
<1>5. Froms(y) = Froms(x)
  BY <1>1 DEF Froms, SteadyHand
<1>6. Bill(y) = Bill(x)
  BY <1>1, <1>2, <1>4, <1>5 DEF Bill
<1>7. ASSUME Tidy(x) PROVE Tidy(y)
  <2>1. y.id \in HandIds(y)
    BY <1>1, <1>3, <1>7 DEF Tidy
  <2>2. Plain(y)
    BY <1>1, <1>7 DEF Tidy, Plain, SteadyHand
  <2>3. Rooted(y)
    BY <1>1, <1>7 DEF Tidy, Rooted, SteadyHand
  <2> QED BY <2>1, <2>2, <2>3 DEF Tidy
<1>8. ASSUME NEW K, Marked(K, x) PROVE Marked(K, y)
  <2>1. \A i \in DOMAIN y.hands : y.hands[i].id = x.hands[i].id
    BY <1>1 DEF SteadyHand
  <2>2. \A i \in DOMAIN y.hands : x.hands[i].cards = "more" => y.hands[i].cards = "more"
    BY <1>1 DEF SteadyHand
  <2> QED BY <1>1, <1>5, <1>8, <2>1, <2>2 DEF Marked
<1> QED BY <1>3, <1>6, <1>7, <1>8

LEMMA SteadyChain ==
  ASSUME NEW x, NEW y, NEW z, Steady(x, y), Steady(y, z)
  PROVE  Steady(x, z)
<1>1. ASSUME NEW i \in DOMAIN x.hands PROVE SteadyHand(x.hands[i], z.hands[i])
  <2>1. SteadyHand(x.hands[i], y.hands[i]) /\ SteadyHand(y.hands[i], z.hands[i])
    BY DEF Steady
  <2> QED BY <2>1 DEF SteadyHand
<1> QED BY <1>1 DEF Steady

LEMMA SteadySelf ==
  ASSUME NEW x
  PROVE  Steady(x, x)
BY DEF Steady, SteadyHand

LEMMA DecidedSteady ==
  ASSUME NEW h, NEW o, NEW due, h \in B!Hands
  PROVE  SteadyHand(h, B!Decided(h, o, due))
BY DEF SteadyHand, B!Decided, B!Hands

LEMMA ComparedSteady ==
  ASSUME NEW rules, NEW h, NEW result, h \in B!Hands
  PROVE  SteadyHand(h, B!Compared(rules, h, result))
<1> DEFINE d == B!Compared(rules, h, result)
<1>1. CASE h.outcome # None
  <2>1. d = [h EXCEPT !.active = FALSE]
    BY <1>1 DEF B!Compared
  <2> HIDE DEF d
  <2>2. SteadyHand(h, d)
    BY <2>1 DEF SteadyHand, B!Hands
  <2> QED BY <2>2 DEF d
<1>2. CASE h.outcome = None
  <2>1. \E o, due : d = B!Decided(h, o, due)
    <3>1. CASE h.cards = "natural" /\ h.split_from = None
      BY <1>2, <3>1 DEF B!Compared
    <3>2. CASE ~(h.cards = "natural" /\ h.split_from = None)
      BY <1>2, <3>2 DEF B!Compared
    <3> QED BY <3>1, <3>2
  <2> HIDE DEF d
  <2>2. SteadyHand(h, d)
    BY <2>1, DecidedSteady
  <2> QED BY <2>2 DEF d
<1> QED BY <1>1, <1>2

LEMMA AdvancedSteady ==
  ASSUME NEW rules, NEW z, NEW y, z \in B!Rounds, y \in B!Advance(rules, z)
  PROVE  Steady(z, y)
<1>1. CASE B!Active(z) # {}
  <2>1. y = z
    BY <1>1 DEF B!Advance
  <2> QED BY <2>1, SteadySelf
<1>2. CASE B!Active(z) = {}
  <2>1. y \in B!DealerPlay(rules, z)
    BY <1>2 DEF B!Advance
  <2>2. PICK r \in [DOMAIN z.hands -> Results] :
          y = [z EXCEPT !.status = "settled_pending_credit",
                        !.hands = [i \in DOMAIN z.hands |-> B!Compared(rules, z.hands[i], r[i])]]
    BY <2>1 DEF B!DealerPlay
  <2> DEFINE hands == [i \in DOMAIN z.hands |-> B!Compared(rules, z.hands[i], r[i])]
  <2>3. ASSUME NEW i \in DOMAIN z.hands PROVE SteadyHand(z.hands[i], hands[i])
    <3>1. z.hands[i] \in B!Hands
      BY DEF B!Rounds
    <3>2. hands[i] = B!Compared(rules, z.hands[i], r[i])
      OBVIOUS
    <3> QED BY <3>1, <3>2, ComparedSteady
  <2>4. DOMAIN hands = DOMAIN z.hands
    OBVIOUS
  <2> HIDE DEF hands
  <2>5. y.id = z.id /\ y.insurance = z.insurance /\ y.hands = hands
    BY <2>2 DEF B!Rounds, hands
  <2> QED BY <2>3, <2>4, <2>5 DEF Steady
<1> QED BY <1>1, <1>2

(* The round with another current hand.                                       *)
LEMMA PlayedHands ==
  ASSUME NEW x, NEW n, NEW h, NEW z, RoundOk(x, n), x.status = "player_turn", h \in B!Hands,
         z = B!Play(x, h)
  PROVE  /\ z \in B!Rounds /\ z.id = x.id /\ z.insurance = x.insurance
         /\ DOMAIN z.hands = DOMAIN x.hands /\ B!Current(x) \in DOMAIN x.hands
         /\ z.hands[B!Current(x)] = h
         /\ \A j \in DOMAIN x.hands : j # B!Current(x) => z.hands[j] = x.hands[j]
<1> DEFINE i == B!Current(x)
<1>1. x \in B!Rounds /\ i \in DOMAIN x.hands
  BY CurrentIsOne DEF RoundOk, Sorted
<1>2. x.hands \in Seq(B!Hands)
  BY <1>1 DEF B!Rounds
<1> DEFINE hands == [x.hands EXCEPT ![i] = h]
<1>3. z = [x EXCEPT !.hands = hands]
  BY <1>1 DEF B!Play, B!Rounds
<1> HIDE DEF i
<1>4. /\ hands \in Seq(B!Hands) /\ DOMAIN hands = DOMAIN x.hands /\ hands[i] = h
      /\ \A j \in DOMAIN x.hands : j # i => hands[j] = x.hands[j]
  BY <1>1, <1>2
<1> HIDE DEF hands
<1>5. z \in B!Rounds /\ z.id = x.id /\ z.insurance = x.insurance /\ z.hands = hands
  BY <1>1, <1>3, <1>4 DEF B!Rounds
<1> QED BY <1>1, <1>4, <1>5 DEF i

LEMMA DrawnFields ==
  ASSUME NEW h, NEW d, h \in B!Hands, d \in B!Drawn(h)
  PROVE  d \in B!Hands /\ d.id = h.id /\ d.bet = h.bet /\ d.split_from = h.split_from /\ d.cards = "more"
<1> DEFINE m == [h EXCEPT !.cards = "more"]
<1>1. /\ m \in B!Hands /\ m.id = h.id /\ m.bet = h.bet /\ m.split_from = h.split_from
      /\ m.cards = "more"
  BY DEF B!Hands
<1>2. d = m \/ d = B!Decided(m, "bust", 0)
  BY DEF B!Drawn
<1> HIDE DEF m
<1>3. CASE d = B!Decided(m, "bust", 0)
  <2>1. "bust" \in B!Outcomes /\ 0 \in Nat
    BY DEF B!Outcomes
  <2>2. d \in B!Hands
    BY <1>1, <1>3, <2>1, DecidedHand
  <2>3. SteadyHand(m, d)
    BY <1>1, <1>3, DecidedSteady
  <2> QED BY <1>1, <2>2, <2>3 DEF SteadyHand
<1> QED BY <1>1, <1>2, <1>3

(* The moves without cost.                                                    *)
LEMMA PlayedSteady ==
  ASSUME NEW rules, NEW n, NEW x, NEW h, NEW y, RoundOk(x, n), x.status = "player_turn", h \in B!Hands,
         SteadyHand(x.hands[B!Current(x)], h),
         y \in B!Advance(rules, B!Play(x, h)) \/ y = B!Play(x, h)
  PROVE  Steady(x, y)
<1> DEFINE z == B!Play(x, h)
<1>1. /\ z \in B!Rounds /\ z.id = x.id /\ z.insurance = x.insurance
      /\ DOMAIN z.hands = DOMAIN x.hands /\ B!Current(x) \in DOMAIN x.hands
      /\ z.hands[B!Current(x)] = h
      /\ \A j \in DOMAIN x.hands : j # B!Current(x) => z.hands[j] = x.hands[j]
  BY PlayedHands
<1> HIDE DEF z
<1>2. Steady(x, z)
  <2>1. ASSUME NEW j \in DOMAIN x.hands PROVE SteadyHand(x.hands[j], z.hands[j])
    <3>1. CASE j = B!Current(x)
      BY <1>1, <3>1
    <3>2. CASE j # B!Current(x)
      BY <1>1, <3>2 DEF SteadyHand
    <3> QED BY <3>1, <3>2
  <2> QED BY <1>1, <2>1 DEF Steady
<1>3. CASE y \in B!Advance(rules, z)
  BY <1>1, <1>2, <1>3, AdvancedSteady, SteadyChain
<1>4. CASE y = z
  BY <1>2, <1>4
<1> QED BY <1>3, <1>4 DEF z

LEMMA MovesSteady ==
  ASSUME NEW rules, NEW n, NEW x, NEW y, B!TableAssumption, RoundOk(x, n), x.status = "player_turn",
         y \in B!Hit(rules, x) \/ y \in B!Stand(rules, x) \/ y \in B!Surrender(rules, x)
  PROVE  Steady(x, y)
<1> DEFINE hand == x.hands[B!Current(x)]
<1>1. Sorted(x, n) /\ B!Active(x) # {}
  BY DEF RoundOk
<1>2. B!Current(x) \in DOMAIN x.hands
  BY <1>1, CurrentIsOne
<1>3. hand \in B!Hands
  BY <1>1, <1>2, SortedParts
<1>4. CASE y \in B!Hit(rules, x)
  <2>1. PICK h \in B!Drawn(hand) :
           y \in (IF h.active THEN {B!Play(x, h)} ELSE B!Advance(rules, B!Play(x, h)))
    BY <1>4 DEF B!Hit
  <2>2. h \in B!Hands /\ SteadyHand(hand, h)
    BY <1>3, <2>1, DrawnFields DEF SteadyHand
  <2> QED BY <2>1, <2>2, PlayedSteady
<1>5. CASE y \in B!Stand(rules, x)
  <2> DEFINE h == [hand EXCEPT !.active = FALSE]
  <2>1. y \in B!Advance(rules, B!Play(x, h))
    BY <1>5 DEF B!Stand
  <2>2. h \in B!Hands /\ SteadyHand(hand, h)
    <3> HIDE DEF hand
    <3> QED BY <1>3 DEF B!Hands, SteadyHand
  <2> HIDE DEF h
  <2> QED BY <2>1, <2>2, PlayedSteady
<1>6. CASE y \in B!Surrender(rules, x)
  <2> DEFINE h == B!Decided(hand, "surrender", hand.bet \div 2)
  <2>1. y \in B!Advance(rules, B!Play(x, h))
    BY <1>6 DEF B!Surrender
  <2>2. hand.bet \div 2 \in Nat /\ "surrender" \in B!Outcomes
    <3>1. PICK p \in Nat : p = hand.bet
      BY <1>3 DEF B!Hands
    <3>2. p \div 2 \in Nat
      OBVIOUS
    <3> QED BY <3>1, <3>2 DEF B!Outcomes
  <2>3. h \in B!Hands /\ SteadyHand(hand, h)
    <3> HIDE DEF hand
    <3> QED BY <1>3, <2>2, DecidedHand, DecidedSteady
  <2> HIDE DEF h
  <2> QED BY <2>1, <2>3, PlayedSteady
<1> QED BY <1>4, <1>5, <1>6

LEMMA EvenMoneySteady ==
  ASSUME NEW n, NEW x, NEW y, RoundOk(x, n), y = B!EvenMoney(x)
  PROVE  Steady(x, y)
<1> DEFINE h == B!Decided(x.hands[1], "even_money", 2 * x.hands[1].bet)
           hands == [x.hands EXCEPT ![1] = h]
<1>1. x \in B!Rounds /\ 1 \in DOMAIN x.hands /\ x.hands[1] \in B!Hands
  BY SortedParts DEF RoundOk, Sorted
<1>2. y = [x EXCEPT !.hands = hands, !.even_money = TRUE, !.status = "settled_pending_credit"]
  BY <1>1 DEF B!EvenMoney, B!Rounds
<1>3. SteadyHand(x.hands[1], h)
  BY <1>1, DecidedSteady
<1> HIDE DEF h
<1>4. /\ DOMAIN hands = DOMAIN x.hands /\ hands[1] = h
      /\ \A j \in DOMAIN x.hands : j # 1 => hands[j] = x.hands[j]
  BY <1>1
<1> HIDE DEF hands
<1>5. y.id = x.id /\ y.insurance = x.insurance /\ y.hands = hands
  BY <1>1, <1>2 DEF B!Rounds
<1>6. ASSUME NEW j \in DOMAIN x.hands PROVE SteadyHand(x.hands[j], y.hands[j])
  <2>1. CASE j = 1
    BY <1>3, <1>4, <1>5, <2>1
  <2>2. CASE j # 1
    BY <1>4, <1>5, <2>2 DEF SteadyHand
  <2> QED BY <2>1, <2>2
<1> QED BY <1>4, <1>5, <1>6 DEF Steady

(* A move from x to y that costs a under the key k, where K are the keys that *)
(* the ledger has: nothing more, if it has this one.                          *)
Fresh(K, x, y) == \A k \in K : k[1] \in HandIds(y) => k[1] \in HandIds(x)
Costs(x, y, k, a) ==
    /\ Tidy(x) => Tidy(y)
    /\ \A K : Tidy(x) /\ Marked(K, x) /\ Fresh(K, x, y) =>
          /\ Marked(K \cup {k}, y)
          /\ Bill(y) = IF k \in K THEN Bill(x) ELSE Bill(x) + a

LEMMA CostsSteady ==
  ASSUME B!TableAssumption, NEW x, NEW z, NEW y, NEW k, NEW a, z \in B!Rounds, y \in B!Rounds,
         Costs(x, z, k, a), Steady(z, y)
  PROVE  Costs(x, y, k, a)
<1>1. /\ HandIds(y) = HandIds(z) /\ Bill(y) = Bill(z) /\ (Tidy(z) => Tidy(y))
      /\ \A K : Marked(K, z) => Marked(K, y)
  BY SteadyKeeps
<1>2. \A K : Fresh(K, x, y) => Fresh(K, x, z)
  BY <1>1 DEF Fresh
<1> QED BY <1>1, <1>2 DEF Costs

(* One term of a sum in another's place.                                      *)
LEMMA TotalChanges ==
  ASSUME NEW f, NEW e, NEW z, Terms(f), Terms(e), DOMAIN e = DOMAIN f, z \in DOMAIN f,
         \A x \in DOMAIN f : x # z => e[x] = f[x]
  PROVE  Total(e) = Total(f) + (e[z] - f[z])
<1> DEFINE r == [x \in DOMAIN f \ {z} |-> f[x]]
<1>1. DOMAIN r = DOMAIN f \ {z} /\ \A x \in DOMAIN r : r[x] = f[x] /\ r[x] = e[x]
  OBVIOUS
<1> HIDE DEF r
<1>2. IsFiniteSet(DOMAIN r)
  BY <1>1, FS_Subset DEF Terms
<1>3. Terms(r)
  BY <1>1, <1>2 DEF Terms
<1>4. f[z] \in Int /\ e[z] \in Int
  BY DEF Terms
<1>5. Total(f) = f[z] + Total(r)
  <2>1. z \notin DOMAIN r /\ DOMAIN f = DOMAIN r \cup {z} /\ \A x \in DOMAIN r : f[x] = r[x]
    BY <1>1
  <2> QED BY <1>3, <1>4, <2>1, TotalAdds
<1>6. Total(e) = e[z] + Total(r)
  <2>1. z \notin DOMAIN r /\ DOMAIN e = DOMAIN r \cup {z} /\ \A x \in DOMAIN r : e[x] = r[x]
    BY <1>1
  <2> QED BY <1>3, <1>4, <2>1, TotalAdds
<1>7. PICK i, j, t : i = f[z] /\ j = e[z] /\ t = Total(r)
  OBVIOUS
<1>8. i \in Int /\ j \in Int /\ t \in Int
  BY <1>3, <1>4, <1>7, TotalSums
<1>9. j + t = (i + t) + (j - i)
  BY <1>8
<1> QED BY <1>5, <1>6, <1>7, <1>9

(* The opening deal.                                                          *)
LEMMA DealCosts ==
  ASSUME B!TableAssumption, B!NoneAssumption, NEW rules, NEW id, rules \in RuleSets, id \in B!Ids,
         NEW y, y \in B!Dealt(rules, id)
  PROVE  /\ Tidy(y) /\ Bill(y) = Wager
         /\ \A K : (\A k \in K : k[1] # id) => Marked(K \cup {<<id, "wager">>}, y)
<1> DEFINE first(d) == [id |-> id, status |-> "player_turn", ace |-> d.ace, even_money |-> FALSE,
                        insurance |-> 0, hands |-> <<B!Hand(id, Wager, d.cards, None)>>]
<1>1. PICK d \in Deals : y = B!AutoBlackjacks(rules, first(d), d.dealer_blackjack)
  BY DEF B!Dealt
<1> DEFINE z == first(d)
           hand == B!Hand(id, Wager, d.cards, None)
<1>2. /\ z.id = id /\ z.insurance = 0 /\ z.hands = <<hand>> /\ z.hands[1] = hand
      /\ d.cards \in B!TwoCards /\ Wager \in Nat /\ Wager \in Int
  BY DEF B!TableAssumption
<1>3. hand \in B!Hands /\ hand.id = id /\ hand.bet = Wager /\ hand.split_from = None
  <2>1. hand = [id |-> id, bet |-> Wager, cards |-> d.cards, split_from |-> None, active |-> TRUE,
                outcome |-> None, payout_due |-> 0, credited |-> FALSE]
    BY DEF B!Hand
  <2> HIDE DEF hand
  <2>2. PICK from \in B!Ids \cup {None}, on \in BOOLEAN : from = None /\ on = TRUE
    OBVIOUS
  <2>3. hand = [id |-> id, bet |-> Wager, cards |-> d.cards, split_from |-> from, active |-> on,
                outcome |-> None, payout_due |-> 0, credited |-> FALSE]
    BY <2>1, <2>2
  <2>4. hand \in B!Hands
    BY <1>2, <2>3, HandFields
  <2> QED BY <2>1, <2>4
<1>31. y = B!AutoBlackjacks(rules, z, d.dealer_blackjack)
  BY <1>1
<1> HIDE DEF hand, z
<1>32. y = z \/ \E o, due : y = [z EXCEPT !.hands = <<B!Decided(hand, o, due)>>,
                                          !.status = "settled_pending_credit"]
  <2> DEFINE natural == hand.cards = "natural"
             due == IF natural /\ d.dealer_blackjack THEN hand.bet
                    ELSE IF natural THEN B!NaturalReturn(rules, hand.bet) ELSE 0
             o == IF natural /\ d.dealer_blackjack THEN "push"
                  ELSE IF natural THEN "blackjack" ELSE "dealer_blackjack"
  <2>2. CASE ~(d.dealer_blackjack \/ (natural /\ ~z.ace))
    BY <1>2, <1>31, <2>2 DEF B!AutoBlackjacks
  <2>3. CASE d.dealer_blackjack \/ (natural /\ ~z.ace)
    <3>1. y = [z EXCEPT !.hands = <<B!Decided(hand, o, due)>>, !.status = "settled_pending_credit"]
      <4>1. CASE natural /\ d.dealer_blackjack
        BY <1>2, <1>31, <2>3, <4>1 DEF B!AutoBlackjacks
      <4>2. CASE natural /\ ~d.dealer_blackjack
        BY <1>2, <1>31, <2>3, <4>2 DEF B!AutoBlackjacks
      <4>3. CASE ~natural
        BY <1>2, <1>31, <2>3, <4>3 DEF B!AutoBlackjacks
      <4> QED BY <4>1, <4>2, <4>3
    <3> HIDE DEF due, o
    <3> QED BY <3>1
  <2> QED BY <2>2, <2>3
<1>4. \E h : SteadyHand(hand, h) /\ y.id = id /\ y.insurance = 0 /\ y.hands = <<h>>
  <2>1. CASE y = z
    <3>1. SteadyHand(hand, hand)
      BY DEF SteadyHand
    <3> QED BY <1>2, <2>1, <3>1
  <2>2. CASE y # z
    <3>1. PICK o, due : y = [z EXCEPT !.hands = <<B!Decided(hand, o, due)>>,
                                      !.status = "settled_pending_credit"]
      BY <1>32, <2>2
    <3> DEFINE h == B!Decided(hand, o, due)
    <3>2. SteadyHand(hand, h)
      BY <1>3, DecidedSteady
    <3> HIDE DEF h
    <3>3. y.id = id /\ y.insurance = 0 /\ y.hands = <<h>>
      BY <1>2, <3>1 DEF h, z
    <3> QED BY <3>2, <3>3
  <2> QED BY <2>1, <2>2
<1>5. PICK h : SteadyHand(hand, h) /\ y.id = id /\ y.insurance = 0 /\ y.hands = <<h>>
  BY <1>4
<1>6. h.id = id /\ h.bet = Wager /\ h.split_from = None
  BY <1>3, <1>5 DEF SteadyHand
<1>7. DOMAIN y.hands = {1} /\ Len(y.hands) = 1 /\ y.hands[1] = h
  BY <1>5
<1>8. HandIds(y) = {id} /\ Froms(y) = {}
  BY <1>6, <1>7 DEF HandIds, Froms
<1>9. Tidy(y)
  BY <1>5, <1>6, <1>7, <1>8 DEF Tidy, Plain, Rooted
<1>10. Total(BetsOf(y)) = Wager
  <2> DEFINE f == [i \in {} |-> 0]
  <2>1. DOMAIN f = {}
    OBVIOUS
  <2>2. Terms(f)
    BY <2>1, FS_EmptySet DEF Terms
  <2>3. Total(f) = 0
    BY <2>1, TotalEmpty
  <2>4. DOMAIN BetsOf(y) = DOMAIN f \cup {1} /\ BetsOf(y)[1] = Wager
    BY <1>6, <1>7, <2>1 DEF BetsOf
  <2> HIDE DEF f
  <2>5. 1 \notin DOMAIN f /\ BetsOf(y)[1] \in Int /\ \A i \in DOMAIN f : BetsOf(y)[i] = f[i]
    BY <1>2, <2>1, <2>4
  <2>6. Total(BetsOf(y)) = BetsOf(y)[1] + Total(f)
    BY <2>2, <2>4, <2>5, TotalAdds
  <2> QED BY <1>2, <2>3, <2>4, <2>6
<1>11. Bill(y) = Wager
  <2>1. Cardinality(Froms(y)) = 0
    BY <1>8, FS_EmptySet
  <2> QED BY <1>2, <1>5, <1>7, <1>10, <2>1 DEF Bill
<1>12. ASSUME NEW K, \A k \in K : k[1] # id PROVE Marked(K \cup {<<id, "wager">>}, y)
  <2>1. \A kind : <<id, kind>> \notin K
    <3>1. TAKE kind
    <3>2. <<id, kind>>[1] = id
      OBVIOUS
    <3> QED BY <1>12, <3>2
  <2>2. \A kind : <<id, kind>> \in K \cup {<<id, "wager">>} => kind = "wager"
    BY <2>1
  <2>3. <<id, "double">> \notin K \cup {<<id, "wager">>} /\ <<id, "split">> \notin K \cup {<<id, "wager">>}
        /\ <<id, "insurance">> \notin K \cup {<<id, "wager">>}
    BY <2>2
  <2> QED BY <1>5, <1>6, <1>7, <1>8, <2>3 DEF Marked
<1> QED BY <1>9, <1>11, <1>12

(* A double.                                                                  *)
LEMMA DoubleCosts ==
  ASSUME B!TableAssumption, NEW rules, NEW n, NEW x, NEW y, RoundOk(x, n), x.status = "player_turn",
         B!CanDouble(rules, x), y \in B!DoubleDown(rules, x), y \in B!Rounds
  PROVE  Costs(x, y, <<x.hands[B!Current(x)].id, "double">>, x.hands[B!Current(x)].bet)
<1> DEFINE i == B!Current(x)
           hand == x.hands[i]
           key == <<hand.id, "double">>
<1>1. x \in B!Rounds /\ Sorted(x, n) /\ B!Active(x) # {}
  BY DEF RoundOk, Sorted
<1>2. i \in DOMAIN x.hands
  BY <1>1, CurrentIsOne
<1>3. hand \in B!Hands /\ hand.cards \in B!TwoCards /\ OwnIds(x)
  BY <1>1, <1>2, SortedParts DEF B!CanDouble, Sorted
<1>4. PICK d \in B!Drawn(hand) :
         y \in B!Advance(rules, B!Play(x, [d EXCEPT !.bet = 2 * @, !.active = FALSE]))
  BY DEF B!DoubleDown
<1> DEFINE h == [d EXCEPT !.bet = 2 * @, !.active = FALSE]
           z == B!Play(x, h)
<1> HIDE DEF i, hand
<1>5. d \in B!Hands /\ d.id = hand.id /\ d.bet = hand.bet /\ d.split_from = hand.split_from /\ d.cards = "more"
  BY <1>3, <1>4, DrawnFields
<1>6. hand.bet \in Nat /\ 2 * hand.bet \in Nat
  BY <1>3 DEF B!Hands
<1>7. /\ h \in B!Hands /\ h.id = hand.id /\ h.bet = 2 * hand.bet /\ h.split_from = hand.split_from
      /\ h.cards = "more"
  BY <1>5, <1>6 DEF B!Hands
<1>8. y \in B!Advance(rules, z)
  BY <1>4
<1> HIDE DEF h
<1>9. /\ z \in B!Rounds /\ z.id = x.id /\ z.insurance = x.insurance
      /\ DOMAIN z.hands = DOMAIN x.hands /\ z.hands[i] = h
      /\ \A j \in DOMAIN x.hands : j # i => z.hands[j] = x.hands[j]
  BY <1>7, PlayedHands DEF i
<1> HIDE DEF z, key
<1>10. hand = x.hands[i] /\ key = <<hand.id, "double">>
  BY DEF hand, key
<1>11. \A j \in DOMAIN x.hands : z.hands[j].id = x.hands[j].id /\ z.hands[j].split_from = x.hands[j].split_from
  BY <1>7, <1>9, <1>10
<1>12. HandIds(z) = HandIds(x) /\ Froms(z) = Froms(x)
  BY <1>9, <1>11 DEF HandIds, Froms
<1>13. Len(z.hands) = Len(x.hands)
  BY <1>1, <1>9 DEF B!Rounds
<1>14. Total(BetsOf(z)) = Total(BetsOf(x)) + hand.bet
  <2>1. /\ Terms(BetsOf(x)) /\ Terms(BetsOf(z)) /\ Total(BetsOf(x)) \in Int
    BY <1>1, <1>9, RoundTerms
  <2>2. /\ DOMAIN BetsOf(z) = DOMAIN BetsOf(x) /\ i \in DOMAIN BetsOf(x)
        /\ \A j \in DOMAIN BetsOf(x) : j # i => BetsOf(z)[j] = BetsOf(x)[j]
        /\ BetsOf(z)[i] = 2 * hand.bet /\ BetsOf(x)[i] = hand.bet
    BY <1>2, <1>7, <1>9, <1>10 DEF BetsOf
  <2>3. Total(BetsOf(z)) = Total(BetsOf(x)) + (2 * hand.bet - hand.bet)
    BY <2>1, <2>2, TotalChanges
  <2>4. 2 * hand.bet - hand.bet = hand.bet
    BY <1>6
  <2> QED BY <2>3, <2>4
<1>15. Bill(z) = Bill(x) + hand.bet
  <2>1. /\ Total(BetsOf(x)) \in Int /\ x.insurance \in Int /\ Len(x.hands) \in Nat
        /\ Cardinality(Froms(x)) \in Nat /\ Wager \in Nat
    BY <1>1, RoundTerms
  <2>2. PICK t, a, u, b : /\ t = Total(BetsOf(x)) /\ a = x.insurance /\ b = hand.bet
                          /\ u = Wager * (Len(x.hands) - 1 - Cardinality(Froms(x)))
    OBVIOUS
  <2>3. t \in Int /\ a \in Int /\ b \in Int /\ u \in Int
    BY <1>6, <2>1, <2>2
  <2>4. Bill(x) = (a + t) - u /\ Bill(z) = (a + (t + b)) - u
    BY <1>9, <1>12, <1>13, <1>14, <2>2 DEF Bill
  <2>5. (a + (t + b)) - u = ((a + t) - u) + b
    BY <2>3
  <2> QED BY <2>2, <2>4, <2>5
<1>16. ASSUME Tidy(x) PROVE Tidy(z)
  <2>1. z.id \in HandIds(z)
    BY <1>9, <1>12, <1>16 DEF Tidy
  <2>2. Plain(z)
    BY <1>7, <1>9, <1>16 DEF Tidy, Plain
  <2>3. Rooted(z)
    BY <1>9, <1>11, <1>16 DEF Tidy, Rooted
  <2> QED BY <2>1, <2>2, <2>3 DEF Tidy
<1>17. ASSUME NEW K, Marked(K, x) PROVE key \notin K /\ Marked(K \cup {key}, z)
  <2>1. key \notin K
    BY <1>2, <1>3, <1>10, <1>17 DEF Marked, B!TwoCards
  <2>2. \A j \in DOMAIN z.hands : <<z.hands[j].id, "double">> \in K \cup {key} => z.hands[j].cards = "more"
    <3>1. TAKE j \in DOMAIN z.hands
    <3>2. CASE j = i
      BY <1>7, <1>9, <3>2
    <3>3. CASE j # i
      <4>1. z.hands[j] = x.hands[j] /\ x.hands[j].id # hand.id
        BY <1>2, <1>3, <1>9, <1>10, <3>3 DEF OwnIds
      <4>2. <<z.hands[j].id, "double">> # key
        BY <1>10, <4>1
      <4> QED BY <1>9, <1>17, <4>1, <4>2 DEF Marked
    <3> QED BY <3>2, <3>3
  <2>3. \A id : (<<id, "split">> \in K \cup {key} <=> <<id, "split">> \in K)
                /\ (<<id, "insurance">> \in K \cup {key} <=> <<id, "insurance">> \in K)
    BY <1>10
  <2>4. \A j \in DOMAIN z.hands : <<z.hands[j].id, "split">> \in K \cup {key} <=> z.hands[j].id \in Froms(z)
    BY <1>9, <1>11, <1>12, <1>17, <2>3 DEF Marked
  <2>5. <<z.id, "insurance">> \in K \cup {key} => z.insurance # 0
    BY <1>9, <1>17, <2>3 DEF Marked
  <2> QED BY <2>1, <2>2, <2>4, <2>5 DEF Marked
<1>18. Costs(x, z, key, hand.bet)
  BY <1>15, <1>16, <1>17 DEF Costs
<1>19. Costs(x, y, key, hand.bet)
  BY <1>8, <1>9, <1>18, AdvancedSteady, CostsSteady
<1> QED BY <1>19 DEF key, hand, i

(* An insurance.                                                              *)
LEMMA InsureCosts ==
  ASSUME B!TableAssumption, NEW x, NEW y, NEW amount, x \in B!Rounds, amount \in InsuranceAmounts,
         x.insurance = 0, y = [x EXCEPT !.insurance = amount]
  PROVE  Costs(x, y, <<x.id, "insurance">>, amount)
<1> DEFINE key == <<x.id, "insurance">>
<1>1. amount \in Nat /\ amount # 0
  BY DEF B!TableAssumption
<1>2. y.id = x.id /\ y.hands = x.hands /\ y.insurance = amount
  BY DEF B!Rounds
<1>3. HandIds(y) = HandIds(x) /\ Froms(y) = Froms(x) /\ BetsOf(y) = BetsOf(x)
  BY <1>2 DEF HandIds, Froms, BetsOf
<1>4. Bill(y) = Bill(x) + amount
  <2>1. /\ Total(BetsOf(x)) \in Int /\ Len(x.hands) \in Nat
        /\ Cardinality(Froms(x)) \in Nat /\ Wager \in Nat
    BY RoundTerms
  <2>2. PICK t, u : /\ t = Total(BetsOf(x))
                    /\ u = Wager * (Len(x.hands) - 1 - Cardinality(Froms(x)))
    OBVIOUS
  <2>3. t \in Int /\ u \in Int
    BY <2>1, <2>2
  <2>4. Bill(x) = (0 + t) - u /\ Bill(y) = (amount + t) - u
    BY <1>2, <1>3, <2>2 DEF Bill
  <2>5. (amount + t) - u = ((0 + t) - u) + amount
    BY <1>1, <2>3
  <2> QED BY <2>4, <2>5
<1>5. Tidy(x) => Tidy(y)
  BY <1>2, <1>3 DEF Tidy, Plain, Rooted
<1>6. ASSUME NEW K, Marked(K, x) PROVE key \notin K /\ Marked(K \cup {key}, y)
  <2>1. key \notin K
    BY <1>6 DEF Marked
  <2>2. \A id : (<<id, "split">> \in K \cup {key} <=> <<id, "split">> \in K)
                /\ (<<id, "double">> \in K \cup {key} <=> <<id, "double">> \in K)
    OBVIOUS
  <2> HIDE DEF key
  <2> QED BY <1>1, <1>2, <1>3, <1>6, <2>1, <2>2 DEF Marked
<1> HIDE DEF key
<1>7. Costs(x, y, key, amount)
  BY <1>4, <1>5, <1>6 DEF Costs
<1> QED BY <1>7 DEF key

LEMMA HalfFields ==
  ASSUME NEW rules, NEW hand, NEW name, NEW c, NEW h, h = HalfOf(rules, hand, name, c)
  PROVE  h.id = name /\ h.bet = hand.bet /\ h.cards = c /\ h.split_from = hand.id
<1> DEFINE p == B!Hand(name, hand.bet, c, hand.id)
           q == [p EXCEPT !.active = FALSE]
<1>1. h = p \/ h = q
  BY DEF HalfOf
<1>2. p.id = name /\ p.bet = hand.bet /\ p.cards = c /\ p.split_from = hand.id
  BY DEF B!Hand
<1>3. q.id = p.id /\ q.bet = p.bet /\ q.cards = p.cards /\ q.split_from = p.split_from
  BY DEF B!Hand
<1> HIDE DEF p, q
<1> QED BY <1>1, <1>2, <1>3

(* The round z has the hands of x, but for its hand i the two hands a and b.  *)
Halved(x, z, i, a, b) ==
    /\ z.id = x.id /\ z.insurance = x.insurance /\ Len(z.hands) = Len(x.hands) + 1
    /\ i \in DOMAIN x.hands /\ i \in DOMAIN z.hands /\ i + 1 \in DOMAIN z.hands /\ i # i + 1
    /\ z.hands[i] = a /\ z.hands[i + 1] = b
    /\ \A k \in DOMAIN x.hands : k # i =>
          \E j \in DOMAIN z.hands : j # i /\ j # i + 1 /\ z.hands[j] = x.hands[k]
    /\ \A j \in DOMAIN z.hands : j # i /\ j # i + 1 =>
          \E k \in DOMAIN x.hands : k # i /\ z.hands[j] = x.hands[k]

LEMMA HalvedFroms ==
  ASSUME B!NoneAssumption, NEW x, NEW z, NEW i, NEW a, NEW b, Halved(x, z, i, a, b), Rooted(x),
         x.hands[i].id \in B!Ids, a.split_from = x.hands[i].id, b.split_from = x.hands[i].id
  PROVE  Froms(z) = Froms(x) \cup {x.hands[i].id}
<1> DEFINE id == x.hands[i].id
<1>1. id # None
  BY DEF B!NoneAssumption
<1>2. ASSUME NEW s \in Froms(x) PROVE s \in Froms(z) \cup {id}
  <2>1. PICK k \in DOMAIN x.hands : s = x.hands[k].split_from /\ s # None
    BY DEF Froms
  <2>2. PICK r \in DOMAIN x.hands : x.hands[r].id = s /\ x.hands[r].split_from = s
    BY <2>1 DEF Rooted
  <2>3. CASE r = i
    BY <2>2, <2>3
  <2>4. CASE r # i
    <3>1. PICK j \in DOMAIN z.hands : z.hands[j] = x.hands[r]
      BY <2>4 DEF Halved
    <3> QED BY <2>1, <2>2, <3>1 DEF Froms
  <2> QED BY <2>3, <2>4
<1>3. id \in Froms(z)
  <2>1. i \in DOMAIN z.hands /\ z.hands[i].split_from = id
    BY DEF Halved
  <2> HIDE DEF id
  <2> QED BY <1>1, <2>1 DEF Froms
<1>4. ASSUME NEW s \in Froms(z) PROVE s \in Froms(x) \cup {id}
  <2>1. PICK j \in DOMAIN z.hands : s = z.hands[j].split_from /\ s # None
    BY DEF Froms
  <2>2. CASE j = i \/ j = i + 1
    BY <2>1, <2>2 DEF Halved
  <2>3. CASE j # i /\ j # i + 1
    <3>1. PICK k \in DOMAIN x.hands : z.hands[j] = x.hands[k]
      BY <2>3 DEF Halved
    <3> QED BY <2>1, <3>1 DEF Froms
  <2> QED BY <2>2, <2>3
<1> QED BY <1>2, <1>3, <1>4

LEMMA HalvedTidy ==
  ASSUME B!NoneAssumption, NEW x, NEW z, NEW i, NEW a, NEW b, Halved(x, z, i, a, b), Tidy(x),
         x.hands[i].id \in B!Ids, x.hands[i].cards # "more",
         a.id = x.hands[i].id, a.bet = x.hands[i].bet, a.split_from = x.hands[i].id,
         b.bet = x.hands[i].bet, b.split_from = x.hands[i].id
  PROVE  Tidy(z) /\ x.hands[i].bet = Wager
<1> DEFINE hand == x.hands[i]
<1>1. hand.bet = Wager /\ i \in DOMAIN x.hands
  BY DEF Halved, Tidy, Plain
<1>2. \A k \in DOMAIN x.hands : \E j \in DOMAIN z.hands : z.hands[j].id = x.hands[k].id
  BY DEF Halved
<1>3. z.id \in HandIds(z)
  <2>1. z.id \in HandIds(x)
    BY DEF Tidy, Halved
  <2> QED BY <1>2, <2>1 DEF HandIds
<1>4. Plain(z)
  <2>1. SUFFICES ASSUME NEW j \in DOMAIN z.hands, z.hands[j].cards # "more"
                 PROVE  z.hands[j].bet = Wager
    BY DEF Plain
  <2>2. CASE j = i \/ j = i + 1
    BY <1>1, <2>2 DEF Halved
  <2>3. CASE j # i /\ j # i + 1
    <3>1. PICK k \in DOMAIN x.hands : z.hands[j] = x.hands[k]
      BY <2>3 DEF Halved
    <3> QED BY <2>1, <3>1 DEF Tidy, Plain
  <2> QED BY <2>2, <2>3
<1>5. Rooted(z)
  <2>1. SUFFICES ASSUME NEW j \in DOMAIN z.hands, z.hands[j].split_from # None
                 PROVE  \E g \in DOMAIN z.hands : /\ z.hands[g].id = z.hands[j].split_from
                                                  /\ z.hands[g].split_from = z.hands[j].split_from
    BY DEF Rooted
  <2>2. i \in DOMAIN z.hands /\ z.hands[i].id = hand.id /\ z.hands[i].split_from = hand.id
    BY DEF Halved
  <2>3. CASE j = i \/ j = i + 1
    <3>1. z.hands[j].split_from = hand.id
      BY <2>3 DEF Halved
    <3> QED BY <2>2, <3>1
  <2>4. CASE j # i /\ j # i + 1
    <3>1. PICK k \in DOMAIN x.hands : z.hands[j] = x.hands[k]
      BY <2>4 DEF Halved
    <3>2. PICK r \in DOMAIN x.hands : /\ x.hands[r].id = x.hands[k].split_from
                                      /\ x.hands[r].split_from = x.hands[k].split_from
      BY <2>1, <3>1 DEF Tidy, Rooted
    <3>3. CASE r = i
      BY <2>2, <3>1, <3>2, <3>3
    <3>4. CASE r # i
      <4>1. PICK g \in DOMAIN z.hands : z.hands[g] = x.hands[r]
        BY <3>4 DEF Halved
      <4> QED BY <3>1, <3>2, <4>1
    <3> QED BY <3>3, <3>4
  <2> QED BY <2>3, <2>4
<1> QED BY <1>1, <1>3, <1>4, <1>5 DEF Tidy

LEMMA HalvedMarked ==
  ASSUME B!NoneAssumption, NEW x, NEW z, NEW i, NEW a, NEW b, Halved(x, z, i, a, b), Tidy(x),
         OwnIds(x), x.hands[i].id \in B!Ids, x.hands[i].cards # "more",
         a.id = x.hands[i].id, a.split_from = x.hands[i].id,
         b.id \notin HandIds(x), b.split_from = x.hands[i].id,
         NEW K, Marked(K, x), Fresh(K, x, z)
  PROVE  /\ Marked(K \cup {<<x.hands[i].id, "split">>}, z)
         /\ <<x.hands[i].id, "split">> \in K <=> x.hands[i].id \in Froms(x)
<1> DEFINE id == x.hands[i].id
           key == <<id, "split">>
           M == K \cup {key}
<1>1. i \in DOMAIN x.hands /\ id \in HandIds(x)
  BY DEF Halved, HandIds
<1>2. Froms(z) = Froms(x) \cup {id}
  BY HalvedFroms DEF Tidy
<1>3. \A s \in Froms(x) : s \in HandIds(x)
  <2>1. TAKE s \in Froms(x)
  <2>2. PICK k \in DOMAIN x.hands : s = x.hands[k].split_from /\ s # None
    BY DEF Froms
  <2>3. PICK r \in DOMAIN x.hands : x.hands[r].id = s
    BY <2>2 DEF Tidy, Rooted
  <2> QED BY <2>3 DEF HandIds
<1>4. \A kind : <<b.id, kind>> \notin K
  <2>1. i + 1 \in DOMAIN z.hands /\ z.hands[i + 1] = b
    BY DEF Halved
  <2>2. b.id \in HandIds(z)
    BY <2>1 DEF HandIds
  <2>3. TAKE kind
  <2>4. <<b.id, kind>>[1] = b.id
    OBVIOUS
  <2> QED BY <2>2, <2>4 DEF Fresh
<1>5. b.id # id
  BY <1>1
<1>6. \A h : (<<h, "double">> \in M <=> <<h, "double">> \in K)
             /\ (<<h, "insurance">> \in M <=> <<h, "insurance">> \in K)
             /\ (<<h, "split">> \in M <=> <<h, "split">> \in K \/ h = id)
  OBVIOUS
<1>7. key \in K <=> id \in Froms(x)
  BY <1>1 DEF Marked
<1>8. <<id, "double">> \notin K
  BY <1>1 DEF Marked
<1> HIDE DEF id, key, M
<1>9. ASSUME NEW j \in DOMAIN z.hands
      PROVE  /\ <<z.hands[j].id, "double">> \in M => z.hands[j].cards = "more"
             /\ <<z.hands[j].id, "split">> \in M <=> z.hands[j].id \in Froms(z)
  <2>1. CASE j = i
    <3>1. z.hands[j].id = id
      BY <2>1 DEF Halved, id
    <3> QED BY <1>2, <1>6, <1>8, <3>1
  <2>2. CASE j = i + 1
    <3>1. z.hands[j].id = b.id
      BY <2>2 DEF Halved
    <3>2. b.id \notin Froms(z)
      BY <1>2, <1>3, <1>5
    <3> QED BY <1>4, <1>5, <1>6, <3>1, <3>2
  <2>3. CASE j # i /\ j # i + 1
    <3>1. PICK k \in DOMAIN x.hands : k # i /\ z.hands[j] = x.hands[k]
      BY <2>3 DEF Halved
    <3>2. x.hands[k].id # id
      BY <1>1, <3>1 DEF OwnIds, id
    <3> QED BY <1>2, <1>6, <3>1, <3>2 DEF Marked
  <2> QED BY <2>1, <2>2, <2>3
<1>10. <<z.id, "insurance">> \in M => z.insurance # 0
  BY <1>6 DEF Halved, Marked
<1>11. Marked(M, z)
  BY <1>9, <1>10 DEF Marked
<1> QED BY <1>7, <1>11 DEF M, key, id

LEMMA HalvedBets ==
  ASSUME B!TableAssumption, NEW x, NEW z, NEW i, NEW a, NEW b, Halved(x, z, i, a, b),
         x \in B!Rounds, z \in B!Rounds, a.bet = x.hands[i].bet, b.bet = x.hands[i].bet,
         \A j \in DOMAIN z.hands : j < i => z.hands[j] = x.hands[j],
         \A j \in DOMAIN z.hands : j > i + 1 => z.hands[j] = x.hands[j - 1]
  PROVE  Total(BetsOf(z)) = Total(BetsOf(x)) + x.hands[i].bet
<1> DEFINE N == Len(x.hands)
           f == BetsOf(x)
           e == BetsOf(z)
           g == [j \in DOMAIN e \ {i + 1} |-> e[j]]
           p == [k \in DOMAIN f |-> IF k <= i THEN k ELSE k + 1]
<1>1. /\ N \in Nat /\ DOMAIN f = 1..N /\ DOMAIN e = 1..(N + 1) /\ Terms(f) /\ Terms(e)
      /\ \A k \in 1..N : f[k] = x.hands[k].bet
      /\ \A k \in 1..(N + 1) : e[k] = z.hands[k].bet
      /\ DOMAIN x.hands = 1..N /\ DOMAIN z.hands = 1..(N + 1)
  BY RoundTerms DEF Halved
<1>2. i \in 1..N /\ i \in Nat /\ i + 1 \in 1..(N + 1)
  BY <1>1 DEF Halved
<1>3. DOMAIN g = DOMAIN e \ {i + 1} /\ \A j \in DOMAIN g : g[j] = e[j]
  OBVIOUS
<1>4. DOMAIN p = DOMAIN f /\ \A k \in DOMAIN f : p[k] = IF k <= i THEN k ELSE k + 1
  OBVIOUS
<1> HIDE DEF f, e, g, p, N
<1>5. \A k \in 1..N : p[k] \in DOMAIN g /\ g[p[k]] = f[k]
  <2>1. N \in Nat /\ i \in 1..N
    BY <1>1, <1>2
  <2> TAKE k \in 1..N
  <2>2. CASE k < i
    <3>1. k \in 1..(N + 1) /\ k # i + 1 /\ k <= i
      BY <2>1, <2>2
    <3>2. p[k] = k
      BY <1>1, <1>4, <3>1
    <3>3. z.hands[k] = x.hands[k]
      BY <1>1, <2>2, <3>1
    <3>4. e[k] = f[k] /\ k \in DOMAIN e
      BY <1>1, <3>1, <3>3
    <3> QED BY <1>3, <3>1, <3>2, <3>4
  <2>3. CASE k = i
    <3>1. k \in 1..(N + 1) /\ k # i + 1 /\ k <= i
      BY <2>1, <2>3
    <3>2. p[k] = k
      BY <1>1, <1>4, <3>1
    <3>3. z.hands[k].bet = x.hands[k].bet
      BY <2>3 DEF Halved
    <3>4. e[k] = f[k] /\ k \in DOMAIN e
      BY <1>1, <3>1, <3>3
    <3> QED BY <1>3, <3>1, <3>2, <3>4
  <2>4. CASE k > i
    <3>1. /\ k + 1 \in 1..(N + 1) /\ k + 1 # i + 1 /\ ~(k <= i) /\ k + 1 > i + 1
          /\ (k + 1) - 1 = k
      BY <2>1, <2>4
    <3>2. PICK l \in 1..(N + 1) : l = k + 1 /\ l # i + 1 /\ l > i + 1 /\ l - 1 = k
      BY <3>1
    <3>3. p[k] = l
      BY <1>1, <1>4, <3>1, <3>2
    <3>4. z.hands[l] = x.hands[k]
      BY <1>1, <3>2
    <3>5. e[l] = f[k] /\ l \in DOMAIN e
      BY <1>1, <3>4
    <3> QED BY <1>3, <3>2, <3>3, <3>5
  <2>5. k < i \/ k = i \/ k > i
    BY <1>2
  <2> QED BY <2>2, <2>3, <2>4, <2>5
<1>6. \A k, l \in 1..N : k # l => p[k] # p[l]
  <2>1. TAKE k, l \in 1..N
  <2>2. k \in DOMAIN f /\ l \in DOMAIN f
    BY <1>1
  <2>3. p[k] = (IF k <= i THEN k ELSE k + 1) /\ p[l] = (IF l <= i THEN l ELSE l + 1)
    BY <1>4, <2>2
  <2>4. k \in Int /\ l \in Int /\ i \in Int
    BY <1>1, <1>2
  <2> QED BY <2>3, <2>4
<1>7. DOMAIN g = {p[k] : k \in DOMAIN f}
  <2>1. ASSUME NEW j \in DOMAIN g PROVE \E k \in 1..N : p[k] = j
    <3>1. j \in 1..(N + 1) /\ j # i + 1
      BY <1>1, <1>3
    <3>2. CASE j <= i
      <4>1. j \in 1..N /\ p[j] = j
        BY <1>1, <1>2, <1>4, <3>1, <3>2
      <4> QED BY <4>1
    <3>3. CASE j > i + 1
      <4>1. j - 1 \in 1..N /\ ~(j - 1 <= i) /\ (j - 1) + 1 = j
        BY <1>1, <1>2, <3>1, <3>3
      <4>2. p[j - 1] = j
        BY <1>1, <1>4, <4>1
      <4> QED BY <4>1, <4>2
    <3> QED BY <1>1, <1>2, <3>1, <3>2, <3>3
  <2>2. \A k \in DOMAIN f : p[k] \in DOMAIN g
    BY <1>1, <1>5
  <2>3. \A j \in DOMAIN g : \E k \in DOMAIN f : p[k] = j
    BY <1>1, <2>1
  <2> QED BY <2>2, <2>3
<1>8. Terms(g)
  <2>1. IsFiniteSet(DOMAIN g)
    BY <1>1, <1>3, FS_Subset DEF Terms
  <2> QED BY <1>1, <1>3, <2>1 DEF Terms
<1>9. Total(g) = Total(f)
  <2>1. Renames(p, f, g)
    BY <1>1, <1>5, <1>6 DEF Renames
  <2> QED BY <1>1, <1>7, <1>8, <2>1, TotalRenamed
<1>10. e[i + 1] = x.hands[i].bet /\ e[i + 1] \in Int
  BY <1>1, <1>2 DEF Halved, Terms
<1>11. Total(e) = e[i + 1] + Total(g)
  <2>1. i + 1 \notin DOMAIN g /\ DOMAIN e = DOMAIN g \cup {i + 1} /\ \A j \in DOMAIN g : e[j] = g[j]
    BY <1>1, <1>2, <1>3
  <2> QED BY <1>8, <1>10, <2>1, TotalAdds
<1>12. Total(f) \in Int
  BY <1>1, TotalSums
<1>13. Total(e) = Total(f) + x.hands[i].bet
  BY <1>9, <1>10, <1>11, <1>12
<1> QED BY <1>13 DEF e, f

LEMMA HalvedBill ==
  ASSUME B!TableAssumption, B!NoneAssumption, NEW x, NEW z, NEW i, NEW a, NEW b, Halved(x, z, i, a, b),
         x \in B!Rounds, z \in B!Rounds, x.hands[i].bet = Wager, x.hands[i].id \in B!Ids,
         Total(BetsOf(z)) = Total(BetsOf(x)) + x.hands[i].bet,
         Froms(z) = Froms(x) \cup {x.hands[i].id}
  PROVE  Bill(z) = IF x.hands[i].id \in Froms(x) THEN Bill(x) ELSE Bill(x) + Wager
<1> DEFINE id == x.hands[i].id
<1>1. /\ Total(BetsOf(x)) \in Int /\ x.insurance \in Int /\ Len(x.hands) \in Nat
      /\ IsFiniteSet(Froms(x)) /\ Cardinality(Froms(x)) \in Nat /\ Wager \in Nat
  BY RoundTerms
<1>2. PICK t, s, W, l, c : /\ t = Total(BetsOf(x)) /\ s = x.insurance /\ W = Wager /\ l = Len(x.hands)
                           /\ c = Cardinality(Froms(x))
  OBVIOUS
<1>3. t \in Int /\ s \in Int /\ W \in Int /\ l \in Int /\ c \in Int
  BY <1>1, <1>2
<1>4. Bill(x) = (s + t) - W * (l - 1 - c)
  BY <1>2 DEF Bill
<1>5. CASE id \in Froms(x)
  <2>1. Froms(z) = Froms(x)
    BY <1>5
  <2>2. Bill(z) = (s + (t + W)) - W * ((l + 1) - 1 - c)
    BY <1>2, <2>1 DEF Bill, Halved
  <2>3. (l + 1) - 1 - c = (l - 1 - c) + 1
    BY <1>3
  <2>4. PICK q \in Int : q = l - 1 - c
    BY <1>3
  <2>5. W * (q + 1) = W * q + W /\ W * q \in Int
    BY <1>3, <2>4
  <2>6. (s + (t + W)) - (W * q + W) = (s + t) - W * q
    BY <1>3, <2>4, <2>5
  <2>7. Bill(z) = Bill(x)
    BY <1>4, <2>2, <2>3, <2>4, <2>5, <2>6
  <2> QED BY <1>5, <2>7
<1>6. CASE id \notin Froms(x)
  <2>1. Cardinality(Froms(z)) = c + 1
    BY <1>1, <1>2, <1>6, FS_AddElement
  <2>2. Bill(z) = (s + (t + W)) - W * ((l + 1) - 1 - (c + 1))
    BY <1>2, <2>1 DEF Bill, Halved
  <2>3. (l + 1) - 1 - (c + 1) = l - 1 - c
    BY <1>3
  <2>4. PICK q \in Int : q = l - 1 - c
    BY <1>3
  <2>5. W * q \in Int
    BY <1>3, <2>4
  <2>6. (s + (t + W)) - W * q = ((s + t) - W * q) + W
    BY <1>3, <2>4, <2>5
  <2>7. Bill(z) = Bill(x) + Wager
    BY <1>2, <1>4, <2>2, <2>3, <2>4, <2>6
  <2> QED BY <1>6, <2>7
<1> QED BY <1>5, <1>6

(* A split.                                                                   *)
LEMMA SplitCosts ==
  ASSUME B!TableAssumption, B!NoneAssumption, NEW rules \in RuleSets, NEW n \in Nat, NEW id \in B!Ids,
         NEW x, NEW y, RoundOk(x, n), x.status = "player_turn", n < id, B!CanSplit(rules, x),
         y \in B!Split(rules, x, id), y \in B!Rounds
  PROVE  Costs(x, y, <<x.hands[B!Current(x)].id, "split">>, x.hands[B!Current(x)].bet)
<1> DEFINE i == B!Current(x)
           hand == x.hands[i]
           N == Len(x.hands)
           key == <<hand.id, "split">>
<1>1. Sorted(x, n) /\ B!Active(x) # {} /\ x \in B!Rounds /\ OwnIds(x) /\ id \in Nat
  BY DEF RoundOk, Sorted, B!Ids
<1>2. i \in DOMAIN x.hands
  BY <1>1, CurrentIsOne
<1>3. /\ x.hands \in Seq(B!Hands) /\ N \in Nat \ {0} /\ DOMAIN x.hands = 1..N /\ i \in 1..N
      /\ hand \in B!Hands /\ hand.id \in B!Ids
  <2>1. /\ x.hands \in Seq(B!Hands) /\ N \in Nat \ {0} /\ DOMAIN x.hands = 1..N
        /\ \A k \in DOMAIN x.hands : x.hands[k] \in B!Hands
    BY <1>1, SortedParts
  <2>2. hand \in B!Hands
    BY <1>2, <2>1
  <2>3. hand.id \in B!Ids
    BY <2>2 DEF B!Hands
  <2> QED BY <1>2, <2>1, <2>2, <2>3
<1>4. hand.cards # "more"
  BY DEF B!CanSplit
<1> DEFINE A(c) == B!Advance(rules, [x EXCEPT !.hands =
                       SubSeq(@, 1, i - 1) \o <<HalfOf(rules, hand, hand.id, c[1]),
                                                HalfOf(rules, hand, id, c[2])>>
                                          \o SubSeq(@, i + 1, Len(@))])
<1>6. PICK c \in Halves \X Halves : y \in A(c)
  <2> DEFINE cards == Halves \ {IF hand.cards = "aces" THEN "pair" ELSE "aces"}
  <2>1. y \in UNION {A(c) : c \in cards \X cards}
    BY DEF B!Split, HalfOf
  <2>2. cards \X cards \subseteq Halves \X Halves
    OBVIOUS
  <2> HIDE DEF A, cards
  <2> QED BY <2>1, <2>2
<1> DEFINE a == HalfOf(rules, hand, hand.id, c[1])
           b == HalfOf(rules, hand, id, c[2])
           s == Splice(x.hands, i, a, b)
           z == [x EXCEPT !.hands = s]
<1>7. c[1] \in B!TwoCards /\ c[2] \in B!TwoCards /\ id <= id
  BY <1>1, <1>6 DEF B!TableAssumption
<1>8. a.id = hand.id /\ a.bet = hand.bet /\ a.split_from = hand.id
  BY HalfFields
<1>9. b.id = id /\ b.bet = hand.bet /\ b.split_from = hand.id
  BY HalfFields
<1>10. y \in B!Advance(rules, z)
  BY <1>6 DEF Splice
<1>101. a \in B!Hands /\ b \in B!Hands
  <2>1. Playable(hand, n)
    BY <1>1, <1>2, PlayableHands
  <2>2. hand.id \in Nat /\ hand.id <= hand.id
    BY <1>3 DEF B!Ids
  <2> HIDE DEF hand
  <2>3. Playable(a, hand.id) /\ Playable(b, id)
    BY <1>1, <1>3, <1>7, <2>1, <2>2, HalfHand
  <2> HIDE DEF a, b
  <2> QED BY <2>3 DEF Playable
<1> HIDE DEF A, a, b
<1>11. z \in B!Rounds /\ z.id = x.id /\ z.insurance = x.insurance /\ z.hands = s
  <2>1. s \in Seq(B!Hands)
    <3> HIDE DEF i
    <3> QED BY <1>2, <1>3, <1>101, SplicedIsAs DEF SplicedAs
  <2> HIDE DEF s
  <2> QED BY <1>1, <2>1 DEF B!Rounds
<1>12. /\ s \in Seq(B!Hands) /\ DOMAIN s = 1..(N + 1) /\ s[i] = a /\ s[i + 1] = b
       /\ \A j \in DOMAIN s : j < i => s[j] = x.hands[j]
       /\ \A j \in DOMAIN s : j > i + 1 => s[j] = x.hands[j - 1]
  <2>1. s = Splice(x.hands, i, a, b)
    OBVIOUS
  <2> HIDE DEF s, i
  <2>2. PICK hs, M : hs = x.hands /\ M = Len(hs)
    OBVIOUS
  <2>3. hs \in Seq(B!Hands) /\ i \in DOMAIN hs /\ s = Splice(hs, i, a, b)
    BY <1>2, <1>3, <2>1, <2>2
  <2>4. /\ s \in Seq(B!Hands) /\ DOMAIN s = 1..(M + 1) /\ s[i] = a /\ s[i + 1] = b
        /\ \A j \in DOMAIN s : j < i => s[j] = hs[j]
        /\ \A j \in DOMAIN s : j > i + 1 => s[j] = hs[j - 1]
    <3>1. SplicedAs(Splice(hs, i, a, b), B!Hands, hs, i, a, b)
      BY <1>101, <2>3, SplicedIsAs
    <3>2. SplicedAs(s, B!Hands, hs, i, a, b)
      BY <2>3, <3>1
    <3> QED BY <2>2, <3>2 DEF SplicedAs
  <2> QED BY <2>2, <2>4
<1> HIDE DEF s, z, i, N, hand, key
<1>120. hand = x.hands[i] /\ key = <<hand.id, "split">> /\ N = Len(x.hands)
  BY DEF hand, key, N
<1>13. Halved(x, z, i, a, b)
  <2>1. Len(s) = N + 1
    BY <1>3, <1>12
  <2>2. i \in Nat /\ i \in DOMAIN s /\ i + 1 \in DOMAIN s /\ i # i + 1
    BY <1>3, <1>12
  <2>3. ASSUME NEW k \in DOMAIN x.hands, k # i
        PROVE  \E j \in DOMAIN s : j # i /\ j # i + 1 /\ s[j] = x.hands[k]
    <3>1. k \in 1..N /\ k \in Nat
      BY <1>3
    <3>2. CASE k < i
      <4>1. k \in DOMAIN s /\ k # i + 1
        BY <1>3, <1>12, <2>2, <3>1, <3>2
      <4> QED BY <1>12, <3>2, <4>1, <2>3
    <3>3. CASE k > i
      <4>1. k + 1 \in DOMAIN s /\ k + 1 # i /\ k + 1 # i + 1 /\ k + 1 > i + 1 /\ (k + 1) - 1 = k
        BY <1>3, <1>12, <2>2, <3>1, <3>3
      <4>2. s[k + 1] = x.hands[k]
        BY <1>12, <4>1
      <4> QED BY <4>1, <4>2
    <3>4. k < i \/ k > i
      BY <2>2, <2>3, <3>1
    <3> QED BY <3>2, <3>3, <3>4
  <2>4. ASSUME NEW j \in DOMAIN s, j # i, j # i + 1
        PROVE  \E k \in DOMAIN x.hands : k # i /\ s[j] = x.hands[k]
    <3>1. j \in 1..(N + 1) /\ j \in Nat
      BY <1>3, <1>12
    <3>2. CASE j < i
      <4>1. j \in DOMAIN x.hands /\ s[j] = x.hands[j]
        BY <1>3, <1>12, <2>2, <3>1, <3>2
      <4> QED BY <2>4, <4>1
    <3>3. CASE j > i + 1
      <4>1. j - 1 \in DOMAIN x.hands /\ j - 1 # i
        BY <1>3, <2>2, <3>1, <3>3
      <4>2. s[j] = x.hands[j - 1]
        BY <1>12, <3>3
      <4> QED BY <4>1, <4>2
    <3>4. j < i \/ j > i + 1
      BY <2>2, <2>4, <3>1
    <3> QED BY <3>2, <3>3, <3>4
  <2> QED BY <1>2, <1>11, <1>12, <1>120, <2>1, <2>2, <2>3, <2>4 DEF Halved
<1>14. Total(BetsOf(z)) = Total(BetsOf(x)) + hand.bet
  <2>1. /\ \A j \in DOMAIN z.hands : j < i => z.hands[j] = x.hands[j]
        /\ \A j \in DOMAIN z.hands : j > i + 1 => z.hands[j] = x.hands[j - 1]
    BY <1>11, <1>12
  <2>2. a.bet = x.hands[i].bet /\ b.bet = x.hands[i].bet /\ x \in B!Rounds /\ z \in B!Rounds
    BY <1>1, <1>8, <1>9, <1>11, <1>120
  <2> QED BY <1>13, <1>120, <2>1, <2>2, HalvedBets
<1>15. id \notin HandIds(x)
  <2>1. \A k \in DOMAIN x.hands : x.hands[k].id # id
    BY <1>1 DEF Sorted, HandFits
  <2> QED BY <2>1 DEF HandIds
<1>16. ASSUME Tidy(x)
       PROVE  Tidy(z) /\ hand.bet = Wager /\ Froms(z) = Froms(x) \cup {hand.id}
  <2>1. Tidy(z) /\ hand.bet = Wager
    BY <1>3, <1>4, <1>8, <1>9, <1>13, <1>16, <1>120, HalvedTidy
  <2>2. Froms(z) = Froms(x) \cup {hand.id}
    BY <1>3, <1>8, <1>9, <1>13, <1>16, <1>120, HalvedFroms DEF Tidy
  <2> QED BY <2>1, <2>2
<1>17. ASSUME NEW K, Tidy(x), Marked(K, x), Fresh(K, x, z)
       PROVE  /\ Marked(K \cup {key}, z)
              /\ Bill(z) = IF key \in K THEN Bill(x) ELSE Bill(x) + hand.bet
  <2>1. Marked(K \cup {key}, z) /\ (key \in K <=> hand.id \in Froms(x))
    BY <1>1, <1>3, <1>4, <1>8, <1>9, <1>13, <1>15, <1>17, <1>120, HalvedMarked
  <2>2. Bill(z) = IF hand.id \in Froms(x) THEN Bill(x) ELSE Bill(x) + Wager
    BY <1>1, <1>3, <1>11, <1>13, <1>14, <1>16, <1>17, <1>120, HalvedBill
  <2> QED BY <1>16, <1>17, <2>1, <2>2
<1>18. Costs(x, z, key, hand.bet)
  BY <1>16, <1>17 DEF Costs
<1>19. Costs(x, y, key, hand.bet)
  BY <1>10, <1>11, <1>18, AdvancedSteady, CostsSteady
<1> QED BY <1>19 DEF key, hand, i

(* What the ledger L has taken for the stakes of the round r.                 *)
Debits(L, r) == {k \in DOMAIN L : L[k].round = r /\ k[2] # "settlement"}
Paid(L, r) == Total(StakesOf(L, Debits(L, r)))
Summed(L) == IsFiniteSet(DOMAIN L) /\ \A k \in DOMAIN L : L[k].amount \in Int

LEMMA LedgerSummed ==
  ASSUME B!TableAssumption, LedgerIs
  PROVE  Summed(rows)
<1>1. IsFiniteSet(B!Ids) /\ IsFiniteSet(B!Kinds)
  <2>1. 1 \in Int /\ MaxIds \in Int
    BY DEF B!TableAssumption
  <2>2. IsFiniteSet(B!Ids)
    BY <2>1, FS_Interval DEF B!Ids
  <2>3. IsFiniteSet({"wager"})
    BY FS_Singleton
  <2>4. IsFiniteSet({"wager", "double"})
    <3>1. {"wager", "double"} = {"wager"} \cup {"double"}
      OBVIOUS
    <3> QED BY <2>3, <3>1, FS_AddElement
  <2>5. IsFiniteSet({"wager", "double", "split"})
    <3>1. {"wager", "double", "split"} = {"wager", "double"} \cup {"split"}
      OBVIOUS
    <3> QED BY <2>4, <3>1, FS_AddElement
  <2>6. IsFiniteSet({"wager", "double", "split", "insurance"})
    <3>1. {"wager", "double", "split", "insurance"} = {"wager", "double", "split"} \cup {"insurance"}
      OBVIOUS
    <3> QED BY <2>5, <3>1, FS_AddElement
  <2>7. IsFiniteSet(B!Kinds)
    <3>1. B!Kinds = {"wager", "double", "split", "insurance"} \cup {"settlement"}
      BY DEF B!Kinds
    <3> QED BY <2>6, <3>1, FS_AddElement
  <2> QED BY <2>2, <2>7
<1>2. IsFiniteSet(B!Ids \X B!Kinds)
  BY <1>1, FS_Product
<1>3. IsFiniteSet(DOMAIN rows)
  BY <1>2, FS_Subset DEF LedgerIs
<1>4. \A k \in DOMAIN rows : rows[k].amount \in Int
  BY DEF LedgerIs, B!Rows
<1> QED BY <1>3, <1>4 DEF Summed

LEMMA PaidTerms ==
  ASSUME NEW L, NEW r, Summed(L)
  PROVE  Terms(StakesOf(L, Debits(L, r))) /\ Paid(L, r) \in Int
<1>1. DOMAIN StakesOf(L, Debits(L, r)) = Debits(L, r)
      /\ \A k \in Debits(L, r) : StakesOf(L, Debits(L, r))[k] = -L[k].amount /\ k \in DOMAIN L
  BY DEF StakesOf, Debits
<1>2. IsFiniteSet(Debits(L, r))
  <2>1. Debits(L, r) \subseteq DOMAIN L
    BY DEF Debits
  <2> QED BY <2>1, FS_Subset DEF Summed
<1>3. Terms(StakesOf(L, Debits(L, r)))
  BY <1>1, <1>2 DEF Summed, Terms
<1> QED BY <1>3, TotalSums DEF Paid

(* A row more in the ledger.                                                  *)
Enters(L, K, k) ==
    /\ k \notin DOMAIN L /\ DOMAIN K = DOMAIN L \cup {k} /\ \A j \in DOMAIN L : K[j] = L[j]

LEMMA DebitsStay ==
  ASSUME NEW L, NEW K, NEW k, NEW r, Enters(L, K, k), K[k].round # r \/ k[2] = "settlement"
  PROVE  Paid(K, r) = Paid(L, r)
<1>1. Debits(K, r) = Debits(L, r)
  BY DEF Debits, Enters
<1>2. \A j \in Debits(L, r) : K[j] = L[j]
  BY DEF Debits, Enters
<1>3. StakesOf(K, Debits(K, r)) = StakesOf(L, Debits(L, r))
  BY <1>1, <1>2 DEF StakesOf
<1> QED BY <1>3 DEF Paid

LEMMA PaidMore ==
  ASSUME NEW L, NEW K, NEW k, NEW r, Summed(L), Enters(L, K, k), K[k].round = r,
         k[2] # "settlement", K[k].amount \in Int
  PROVE  Paid(K, r) = Paid(L, r) - K[k].amount
<1> DEFINE f == StakesOf(L, Debits(L, r))
           e == StakesOf(K, Debits(K, r))
<1>1. Debits(K, r) = Debits(L, r) \cup {k} /\ k \notin Debits(L, r)
  BY DEF Debits, Enters
<1>2. \A j \in Debits(L, r) : K[j] = L[j]
  BY DEF Debits, Enters
<1>3. DOMAIN f = Debits(L, r) /\ DOMAIN e = Debits(K, r)
  BY DEF StakesOf
<1>4. (\A j \in DOMAIN f : e[j] = f[j]) /\ e[k] = -K[k].amount
  BY <1>1, <1>2 DEF StakesOf
<1>5. Terms(f) /\ Total(f) \in Int
  BY PaidTerms DEF Paid
<1> HIDE DEF f, e
<1>6. Total(e) = e[k] + Total(f)
  <2>1. e[k] \in Int
    BY <1>4
  <2> QED BY <1>1, <1>3, <1>4, <1>5, <2>1, TotalAdds
<1>7. Total(e) = Total(f) - K[k].amount
  BY <1>4, <1>5, <1>6
<1> QED BY <1>7 DEF Paid, e, f

-----------------------------------------------------------------------------
(* The stakes in the ledger. The rounds R, what is prepared P, the ledger L,  *)
(* the requests W, the names up to n, the contested rounds C.                 *)
Tidied(R, P) ==
    /\ \A r \in DOMAIN R : Tidy(R[r])
    /\ P # None /\ P.before # None => Tidy(P.before)

(* A round with nothing prepared has paid for what it shows.                  *)
Covers(L, x, r) == Marked(DOMAIN L, x) /\ Paid(L, r) = Bill(x)
Covered(R, P, L, C) ==
    \A r \in DOMAIN R : r \notin C /\ (P # None => P.after.id # r) => Covers(L, R[r], r)

(* A round that is prepared will have, with the debit.                        *)
Pledged(P, L, C) ==
    P # None =>
       /\ P.movement.key[1] \in HandIds(P.after)
       /\ P.after.id \notin C =>
             /\ Marked(DOMAIN L \cup {P.movement.key}, P.after)
             /\ P.movement.key \in DOMAIN L => Paid(L, P.after.id) = Bill(P.after)
             /\ P.movement.key \notin DOMAIN L =>
                   /\ Bill(P.after) = Paid(L, P.after.id) - P.movement.row.amount
                   /\ IF P.before = None THEN Paid(L, P.after.id) = 0
                      ELSE Covers(L, P.before, P.after.id)

(* A request has a debit to make only for what is prepared.                   *)
Asks(x, R, P, L, n, C) ==
    x # None /\ x.pc \in MarkerPcs =>
       /\ x.marker.movement.key[1] \in 1..n
       /\ \A q \in DOMAIN R : q # x.marker.after.id => x.marker.movement.key[1] \notin HandIds(R[q])
       /\ x.pc = "settle" /\ x.marker # P =>
             x.marker.movement.key \in DOMAIN L \/ x.marker.after.id \in C
       /\ x.pc = "complete" => x.marker.movement.key \in DOMAIN L

Staking(R, P, L, W, n, C) ==
    /\ \A k \in DOMAIN L : k[1] \in 1..n
    /\ Tidied(R, P) /\ Covered(R, P, L, C) /\ Pledged(P, L, C)
    /\ \A v \in Workers : Asks(W[v], R, P, L, n, C)
TableStakes == Staking(doc.rounds, doc.pending, rows, work, ids, contested)

LEMMA StakingNext ==
  ASSUME NEW S, NEW Q, NEW K, NEW V, NEW m, NEW D, Staking(S, Q, K, V, m, D),
         doc'.rounds = S, doc'.pending = Q, rows' = K, work' = V, ids' = m, contested' = D
  PROVE  TableStakes'
BY DEF TableStakes

(* A key of another hand marks nothing.                                       *)
LEMMA MarkedStays ==
  ASSUME NEW K, NEW k, NEW x, Tidy(x), Marked(K, x), k[2] = "settlement" \/ k[1] \notin HandIds(x)
  PROVE  Marked(K \cup {k}, x)
<1>1. x.id \in HandIds(x) /\ \A i \in DOMAIN x.hands : x.hands[i].id \in HandIds(x)
  BY DEF Tidy, HandIds
<1>2. ASSUME NEW h \in HandIds(x), NEW kind, kind # "settlement", <<h, kind>> \in K \cup {k}
      PROVE  <<h, kind>> \in K
  <2>1. <<h, kind>>[1] = h /\ <<h, kind>>[2] = kind
    OBVIOUS
  <2> QED BY <1>2, <2>1
<1> QED BY <1>1, <1>2 DEF Marked

LEMMA QuietStakes ==
  ASSUME NEW w, NEW R, NEW P, NEW L, NEW W, NEW V, NEW n, NEW C, Staking(R, P, L, W, n, C),
         \A v \in Workers : v # w => V[v] = W[v], Asks(V[w], R, P, L, n, C)
  PROVE  Staking(R, P, L, V, n, C)
BY DEF Staking

(* A step that changes one request only.                                      *)
LEMMA StakesStay ==
  ASSUME NEW w, NEW n, w \in Workers, TableStakes, n = ids, WorkIs(n),
         doc'.rounds = doc.rounds, doc'.pending = doc.pending, rows' = rows, ids' = ids,
         contested' = contested, NEW y, work' = [work EXCEPT ![w] = y],
         Asks(y, doc.rounds, doc.pending, rows, n, contested)
  PROVE  TableStakes'
<1>1. PICK R, P, L, W, V, C : /\ R = doc.rounds /\ P = doc.pending /\ L = rows /\ W = work /\ V = work'
                              /\ C = contested
  OBVIOUS
<1>2. Staking(R, P, L, W, n, C)
  BY <1>1 DEF TableStakes
<1>3. V[w] = y /\ \A v \in Workers : v # w => V[v] = W[v]
  BY <1>1 DEF WorkIs
<1>4. Asks(V[w], R, P, L, n, C)
  BY <1>1, <1>3
<1>5. Staking(R, P, L, V, n, C)
  BY <1>2, <1>3, <1>4, QuietStakes
<1> QED BY <1>1, <1>5, StakingNext

LEMMA IdleAsks ==
  ASSUME NEW x, NEW R, NEW P, NEW L, NEW n, NEW C, x = None \/ x.pc \notin MarkerPcs
  PROVE  Asks(x, R, P, L, n, C)
BY DEF Asks

LEMMA FinishingAsks ==
  ASSUME NEW moved, NEW todo, NEW S, NEW x, x = B!FinishIfNeeded(moved, todo, S),
         NEW R, NEW P, NEW L, NEW k, NEW C
  PROVE  Asks(x, R, P, L, k, C)
<1>1. x = None \/ x.pc \notin MarkerPcs
  BY FinishingIdles
<1> QED BY <1>1, IdleAsks

LEMMA HandNames ==
  ASSUME NEW x, NEW n, n \in Nat, RoundOk(x, n)
  PROVE  \A h \in HandIds(x) : h \in 1..n
<1>1. TAKE h \in HandIds(x)
<1>2. PICK i \in DOMAIN x.hands : h = x.hands[i].id
  BY DEF HandIds
<1>3. h \in B!Ids /\ h <= n
  BY <1>2, SortedParts DEF RoundOk, Sorted, HandFits, B!Hands
<1> QED BY <1>3 DEF B!Ids

(* The marker of what is prepared can be settled by any request.              *)
LEMMA PendingAsks ==
  ASSUME NEW n, NEW R, NEW P, NEW L, NEW C, NEW y, n \in Nat, BoardIs(R, n), Apart(R), P # None,
         P.after.id \in DOMAIN R, R[P.after.id] = P.after, P.movement.key[1] \in HandIds(P.after),
         y.pc = "settle", y.marker = P
  PROVE  Asks(y, R, P, L, n, C)
<1>1. RoundOk(P.after, n)
  BY DEF BoardIs
<1>2. P.movement.key[1] \in 1..n
  BY <1>1, HandNames
<1>3. \A q \in DOMAIN R : q # P.after.id => P.movement.key[1] \notin HandIds(R[q])
  BY DEF Apart
<1> QED BY <1>2, <1>3 DEF Asks

LEMMA LoadStakes ==
  ASSUME NEW w, w \in Workers, TableTypes, TableMoney, TableStakes, B!LoadMutationState(w)
  PROVE  TableStakes'
<1>1. PICK n \in Nat : n = ids /\ n <= MaxIds /\ DocIs(doc, n) /\ LedgerIs /\ WorkIs(n)
  BY TypesNow
<1>2. BoardIs(doc.rounds, n)
  BY <1>1 DEF DocIs
<1>3. PICK y : /\ work' = [work EXCEPT ![w] = y]
               /\ y = IF doc.pending # None THEN B!SettlePrepared(FALSE, doc.pending)
                      ELSE B!FinishIfNeeded(FALSE, DOMAIN doc.rounds, doc.rounds)
  BY DEF B!LoadMutationState
<1>4. Asks(y, doc.rounds, doc.pending, rows, n, contested)
  <2>1. CASE doc.pending # None
    <3>1. PICK f \in BOOLEAN : y = B!SettlePrepared(f, doc.pending)
      BY <1>3, <2>1
    <3>2. MarkerIs(doc.pending, n) /\ doc.pending.after.id \in DOMAIN doc.rounds
      BY <1>1, <2>1 DEF DocIs
    <3>3. y.pc = "settle" /\ y.marker = doc.pending
      BY <3>1, <3>2, SettlingRequest
    <3>4. Apart(doc.rounds) /\ doc.rounds[doc.pending.after.id] = doc.pending.after
      BY <2>1 DEF TableMoney, Money, PendingIs
    <3>5. doc.pending.movement.key[1] \in HandIds(doc.pending.after)
      BY <2>1 DEF TableStakes, Staking, Pledged
    <3> QED BY <1>2, <2>1, <3>2, <3>3, <3>4, <3>5, PendingAsks
  <2>2. CASE doc.pending = None
    <3>1. PICK f \in BOOLEAN, todo \in SUBSET B!Ids : y = B!FinishIfNeeded(f, todo, doc.rounds)
      BY <1>2, <1>3, <2>2 DEF BoardIs
    <3> QED BY <1>2, <3>1, FinishingAsks
  <2> QED BY <2>1, <2>2
<1>5. doc' = doc /\ rows' = rows /\ ids' = ids /\ contested' = contested
  BY DEF B!LoadMutationState
<1> QED BY <1>1, <1>3, <1>4, <1>5, StakesStay

LEMMA SettingsStakes ==
  ASSUME NEW w, w \in Workers, TableTypes, TableStakes, B!UpdateTableSettings(w) \/ B!Refuse(w)
  PROVE  TableStakes'
<1>1. PICK n \in Nat : n = ids /\ n <= MaxIds /\ DocIs(doc, n) /\ LedgerIs /\ WorkIs(n)
  BY TypesNow
<1>2. /\ rows' = rows /\ ids' = ids /\ contested' = contested
      /\ doc'.rounds = doc.rounds /\ doc'.pending = doc.pending
  BY <1>1 DEF B!UpdateTableSettings, B!Refuse, DocIs
<1>3. PICK y : y = None /\ work' = [work EXCEPT ![w] = y]
  BY DEF B!UpdateTableSettings, B!Refuse
<1>4. Asks(y, doc.rounds, doc.pending, rows, n, contested)
  BY <1>3, IdleAsks
<1> QED BY <1>1, <1>2, <1>3, <1>4, StakesStay

LEMMA ClassifyStakes ==
  ASSUME NEW w, w \in Workers, TableTypes, TableStakes, B!Classify(w)
  PROVE  TableStakes'
<1>1. PICK n \in Nat : n = ids /\ n <= MaxIds /\ DocIs(doc, n) /\ LedgerIs /\ WorkIs(n)
  BY TypesNow
<1>2. doc' = doc /\ rows' = rows /\ ids' = ids /\ contested' = contested
  BY DEF B!Classify
<1>3. PICK y : /\ work' = [work EXCEPT ![w] = y] /\ work[w] # None /\ work[w].pc = "classify"
               /\ y = None \/ (y.pc = "rollback" /\ y.marker = work[w].marker)
  BY <1>1, ClassifyStep
<1>4. Asks(y, doc.rounds, doc.pending, rows, n, contested)
  <2>1. Asks(work[w], doc.rounds, doc.pending, rows, n, contested)
    BY <1>1 DEF TableStakes, Staking
  <2> QED BY <1>3, <2>1 DEF Asks, MarkerPcs
<1> QED BY <1>1, <1>2, <1>3, <1>4, StakesStay

LEMMA FailStakes ==
  ASSUME NEW w, w \in Workers, TableTypes, TableStakes, B!Fail(w)
  PROVE  TableStakes'
<1>1. PICK n \in Nat : n = ids /\ n <= MaxIds /\ DocIs(doc, n) /\ LedgerIs /\ WorkIs(n)
  BY TypesNow
<1>2. doc' = doc /\ rows' = rows /\ ids' = ids /\ contested' = contested
  BY DEF B!Fail
<1>3. PICK y : /\ work' = [work EXCEPT ![w] = y] /\ work[w] # None
               /\ y = None \/ (y.pc = "classify" /\ y.marker = work[w].marker /\ work[w].pc = "settle")
  BY <1>1, FailStep
<1>4. Asks(y, doc.rounds, doc.pending, rows, n, contested)
  <2>1. Asks(work[w], doc.rounds, doc.pending, rows, n, contested)
    BY <1>1 DEF TableStakes, Staking
  <2> QED BY <1>3, <2>1 DEF Asks, MarkerPcs
<1> QED BY <1>1, <1>2, <1>3, <1>4, StakesStay

(* The marker is released once the debit is made.                             *)
LEMMA CompleteStakes ==
  ASSUME NEW w, w \in Workers, B!NoneAssumption, TableTypes, TableMoney, TableStakes, B!Complete(w)
  PROVE  TableStakes'
<1>1. PICK n \in Nat : n = ids /\ n <= MaxIds /\ DocIs(doc, n) /\ LedgerIs /\ WorkIs(n)
  BY TypesNow
<1>2. rows' = rows /\ ids' = ids /\ contested' = contested
  BY DEF B!Complete
<1>3. /\ doc'.rounds = doc.rounds /\ DocIs(doc', n) /\ work[w] # None /\ work[w].pc = "complete"
      /\ doc' = doc \/ (doc'.pending = None /\ doc.pending \in {None, work[w].marker})
      /\ \/ work' = [work EXCEPT ![w] = None]
         \/ \E t \in BOOLEAN, Tried \in SUBSET B!Ids :
               work' = [work EXCEPT ![w] = B!FinishIfNeeded(t, Tried, doc'.rounds)]
  BY <1>1, CompleteStep
<1>4. PICK y : /\ work' = [work EXCEPT ![w] = y]
               /\ \A R, P, L, k, C : Asks(y, R, P, L, k, C)
  <2>1. CASE work' = [work EXCEPT ![w] = None]
    <3>1. PICK y : y = None /\ work' = [work EXCEPT ![w] = y]
      BY <2>1
    <3>2. \A R, P, L, k, C : Asks(y, R, P, L, k, C)
      BY <3>1, IdleAsks
    <3> QED BY <3>1, <3>2
  <2>2. CASE \E t \in BOOLEAN, Tried \in SUBSET B!Ids :
                work' = [work EXCEPT ![w] = B!FinishIfNeeded(t, Tried, doc'.rounds)]
    <3>1. PICK y, S : /\ S = doc'.rounds /\ work' = [work EXCEPT ![w] = y]
                      /\ \E t \in BOOLEAN, Tried \in SUBSET B!Ids : y = B!FinishIfNeeded(t, Tried, S)
      BY <2>2
    <3>2. BoardIs(S, n)
      BY <1>3, <3>1 DEF DocIs
    <3>3. \A R, P, L, k, C : Asks(y, R, P, L, k, C)
      BY <3>1, <3>2, FinishingAsks
    <3> QED BY <3>1, <3>3
  <2> QED BY <1>3, <2>1, <2>2
<1>5. CASE doc' = doc
  BY <1>1, <1>2, <1>4, <1>5, StakesStay
<1>6. CASE doc'.pending = None /\ doc.pending \in {None, work[w].marker}
  <2>1. PICK R, P, L, W, V, C, N :
           /\ R = doc.rounds /\ P = doc.pending /\ L = rows /\ W = work /\ V = work'
           /\ C = contested /\ N = None
    OBVIOUS
  <2>2. Staking(R, P, L, W, n, C) /\ PendingIs(R, P, L, W, C)
    BY <1>1, <2>1 DEF TableStakes, TableMoney, Money
  <2>3. P # None => P = W[w].marker /\ P.movement.key \in DOMAIN L
    <3>1. Asks(W[w], R, P, L, n, C)
      BY <2>2 DEF Staking
    <3> QED BY <1>3, <1>6, <2>1, <3>1 DEF Asks, MarkerPcs
  <2>4. Covered(R, N, L, C)
    <3>1. SUFFICES ASSUME NEW r \in DOMAIN R, r \notin C PROVE Covers(L, R[r], r)
      BY DEF Covered
    <3>2. CASE P # None => P.after.id # r
      BY <2>2, <3>1, <3>2 DEF Staking, Covered
    <3>3. CASE P # None /\ P.after.id = r
      <4>1. R[r] = P.after
        BY <2>2, <3>3 DEF PendingIs
      <4>2. Marked(DOMAIN L \cup {P.movement.key}, P.after) /\ Paid(L, r) = Bill(P.after)
        BY <2>2, <2>3, <3>1, <3>3 DEF Staking, Pledged
      <4>3. DOMAIN L \cup {P.movement.key} = DOMAIN L
        BY <2>3, <3>3
      <4> QED BY <4>1, <4>2, <4>3 DEF Covers
    <3> QED BY <3>2, <3>3
  <2>5. ASSUME NEW v \in Workers PROVE Asks(V[v], R, N, L, n, C)
    <3>1. CASE v = w
      BY <1>1, <1>4, <2>1, <3>1 DEF WorkIs
    <3>2. CASE v # w
      <4>1. Asks(W[v], R, P, L, n, C) /\ V[v] = W[v]
        BY <1>1, <1>4, <2>1, <2>2, <3>2 DEF WorkIs, Staking
      <4>2. W[v] # None /\ W[v].pc = "settle" /\ W[v].marker = P /\ P # None => P.movement.key \in DOMAIN L
        BY <2>3
      <4>3. W[v] # None /\ W[v].pc \in MarkerPcs => MarkerIs(W[v].marker, n)
        BY <1>1, <2>1 DEF WorkIs, RequestIs
      <4>4. W[v] # None /\ W[v].pc \in MarkerPcs => W[v].marker # None
        BY <4>3 DEF MarkerIs, B!NoneAssumption
      <4> QED BY <4>1, <4>2, <4>4 DEF Asks
    <3> QED BY <3>1, <3>2
  <2>6. Staking(R, N, L, V, n, C)
    BY <2>1, <2>2, <2>4, <2>5 DEF Staking, Tidied, Pledged
  <2> QED BY <1>1, <1>2, <1>3, <1>6, <2>1, <2>6, StakingNext
<1> QED BY <1>3, <1>5, <1>6

(* A row more that pays for nothing but a contested round or what is prepared. *)
PreparedFits(R, P) ==
    P # None => /\ P.after.id \in DOMAIN R /\ R[P.after.id] = P.after /\ P.movement.key[2] # "settlement"
                /\ P.before # None => HandIds(P.before) \subseteq HandIds(P.after)
Extra(R, P, K, k, C) ==
    \/ k[2] = "settlement"
    \/ /\ \A q \in DOMAIN R : q # K[k].round => k[1] \notin HandIds(R[q])
       /\ \/ K[k].round \in C
          \/ P # None /\ k = P.movement.key /\ K[k] = P.movement.row /\ K[k].round = P.after.id

LEMMA RowPays ==
  ASSUME NEW L, NEW K, NEW k, NEW x, NEW r, Enters(L, K, k), Tidy(x), Covers(L, x, r),
         k[2] = "settlement" \/ (K[k].round # r /\ k[1] \notin HandIds(x))
  PROVE  Covers(K, x, r)
<1>1. Marked(DOMAIN K, x)
  <2>1. Marked(DOMAIN L \cup {k}, x)
    BY MarkedStays DEF Covers
  <2> QED BY <2>1 DEF Enters
<1>2. Paid(K, r) = Paid(L, r)
  BY DebitsStay
<1> QED BY <1>1, <1>2 DEF Covers

LEMMA RowStakes ==
  ASSUME NEW R, NEW P, NEW L, NEW K, NEW k, NEW C, Tidied(R, P), Covered(R, P, L, C), Pledged(P, L, C),
         PreparedFits(R, P), Summed(L), Enters(L, K, k), K[k].amount \in Int, Extra(R, P, K, k, C)
  PROVE  Covered(R, P, K, C) /\ Pledged(P, K, C)
<1>1. ASSUME NEW r \in DOMAIN R, r \notin C, P # None => P.after.id # r PROVE Covers(K, R[r], r)
  <2>1. Covers(L, R[r], r) /\ Tidy(R[r])
    BY <1>1 DEF Covered, Tidied
  <2>2. k[2] = "settlement" \/ (K[k].round # r /\ k[1] \notin HandIds(R[r]))
    BY <1>1 DEF Extra
  <2> QED BY <2>1, <2>2, RowPays
<1>2. Covered(R, P, K, C)
  BY <1>1 DEF Covered
<1>3. Pledged(P, K, C)
  <2>1. SUFFICES ASSUME P # None
                 PROVE  /\ P.movement.key[1] \in HandIds(P.after)
                        /\ P.after.id \notin C =>
                              /\ Marked(DOMAIN K \cup {P.movement.key}, P.after)
                              /\ P.movement.key \in DOMAIN K => Paid(K, P.after.id) = Bill(P.after)
                              /\ P.movement.key \notin DOMAIN K =>
                                    /\ Bill(P.after) = Paid(K, P.after.id) - P.movement.row.amount
                                    /\ IF P.before = None THEN Paid(K, P.after.id) = 0
                                       ELSE Covers(K, P.before, P.after.id)
    BY DEF Pledged
  <2>2. PICK x, r, j, b : x = P.after /\ r = P.after.id /\ j = P.movement.key /\ b = P.before
    OBVIOUS
  <2>3. /\ j[1] \in HandIds(x) /\ r \in DOMAIN R /\ R[r] = x /\ j[2] # "settlement" /\ Tidy(x)
        /\ b # None => Tidy(b) /\ HandIds(b) \subseteq HandIds(x)
    BY <2>1, <2>2 DEF Pledged, PreparedFits, Tidied
  <2>4. SUFFICES ASSUME r \notin C
                 PROVE  /\ Marked(DOMAIN K \cup {j}, x)
                        /\ j \in DOMAIN K => Paid(K, r) = Bill(x)
                        /\ j \notin DOMAIN K =>
                              /\ Bill(x) = Paid(K, r) - P.movement.row.amount
                              /\ IF b = None THEN Paid(K, r) = 0 ELSE Covers(K, b, r)
    BY <2>2, <2>3
  <2>5. /\ Marked(DOMAIN L \cup {j}, x)
        /\ j \in DOMAIN L => Paid(L, r) = Bill(x)
        /\ j \notin DOMAIN L =>
              /\ Bill(x) = Paid(L, r) - P.movement.row.amount
              /\ IF b = None THEN Paid(L, r) = 0 ELSE Covers(L, b, r)
    BY <2>1, <2>2, <2>4 DEF Pledged
  <2>6. CASE k[2] = "settlement" \/ (K[k].round # r /\ k[1] \notin HandIds(x))
    <3>1. k # j
      BY <2>3, <2>6
    <3>2. DOMAIN K = DOMAIN L \cup {k} /\ (j \in DOMAIN K <=> j \in DOMAIN L)
      BY <3>1 DEF Enters
    <3>3. Paid(K, r) = Paid(L, r)
      BY <2>6, DebitsStay
    <3>4. Marked(DOMAIN K \cup {j}, x)
      <4>1. Marked((DOMAIN L \cup {j}) \cup {k}, x)
        BY <2>3, <2>5, <2>6, MarkedStays
      <4>2. (DOMAIN L \cup {j}) \cup {k} = DOMAIN K \cup {j}
        BY <3>2
      <4> QED BY <4>1, <4>2
    <3>5. ASSUME b # None, Covers(L, b, r) PROVE Covers(K, b, r)
      <4>1. Tidy(b) /\ (k[2] = "settlement" \/ (K[k].round # r /\ k[1] \notin HandIds(b)))
        BY <2>3, <2>6, <3>5
      <4> QED BY <3>5, <4>1, RowPays
    <3> QED BY <2>5, <3>2, <3>3, <3>4, <3>5
  <2>7. CASE k = j /\ K[k] = P.movement.row /\ K[k].round = r
    <3>1. j \notin DOMAIN L /\ j \in DOMAIN K /\ DOMAIN K \cup {j} = DOMAIN L \cup {j}
      BY <2>7 DEF Enters
    <3>2. Paid(K, r) = Paid(L, r) - K[k].amount
      BY <2>3, <2>7, PaidMore
    <3> QED BY <2>5, <2>7, <3>1, <3>2
  <2>8. \/ k[2] = "settlement" \/ (K[k].round # r /\ k[1] \notin HandIds(x))
        \/ k = j /\ K[k] = P.movement.row /\ K[k].round = r
    <3>1. CASE K[k].round = r
      BY <2>2, <2>4, <3>1 DEF Extra
    <3>2. CASE K[k].round # r
      <4>1. r # K[k].round
        BY <3>2
      <4> QED BY <2>2, <2>3, <4>1 DEF Extra
    <3> QED BY <3>1, <3>2
  <2> QED BY <2>6, <2>7, <2>8
<1> QED BY <1>2, <1>3

(* The ledger only grows.                                                     *)
LEMMA AsksMore ==
  ASSUME NEW x, NEW R, NEW P, NEW L, NEW K, NEW n, NEW C, Asks(x, R, P, L, n, C), DOMAIN L \subseteq DOMAIN K
  PROVE  Asks(x, R, P, K, n, C)
BY DEF Asks

(* A step at the ledger, that is: a movement made at most.                    *)
LEMMA LedgerStakes ==
  ASSUME NEW w, NEW R, NEW P, NEW L, NEW K, NEW k, NEW W, NEW V, NEW n, NEW C, Staking(R, P, L, W, n, C),
         PreparedFits(R, P), Summed(L),
         K = L \/ (Enters(L, K, k) /\ K[k].amount \in Int /\ Extra(R, P, K, k, C) /\ k[1] \in 1..n),
         \A v \in Workers : v # w => V[v] = W[v], Asks(V[w], R, P, K, n, C)
  PROVE  Staking(R, P, K, V, n, C)
<1>1. CASE K = L
  BY <1>1, QuietStakes
<1>2. CASE Enters(L, K, k) /\ K[k].amount \in Int /\ Extra(R, P, K, k, C) /\ k[1] \in 1..n
  <2>1. Tidied(R, P) /\ Covered(R, P, L, C) /\ Pledged(P, L, C) /\ \A j \in DOMAIN L : j[1] \in 1..n
    BY DEF Staking
  <2>2. Covered(R, P, K, C) /\ Pledged(P, K, C)
    BY <1>2, <2>1, RowStakes
  <2>3. \A j \in DOMAIN K : j[1] \in 1..n
    BY <1>2, <2>1 DEF Enters
  <2>4. ASSUME NEW v \in Workers PROVE Asks(V[v], R, P, K, n, C)
    <3>1. CASE v = w
      BY <3>1
    <3>2. CASE v # w
      <4>1. Asks(W[v], R, P, L, n, C) /\ V[v] = W[v] /\ DOMAIN L \subseteq DOMAIN K
        BY <1>2, <3>2 DEF Staking, Enters
      <4>2. Asks(W[v], R, P, K, n, C)
        BY <4>1, AsksMore
      <4> QED BY <4>1, <4>2
    <3> QED BY <3>1, <3>2
  <2> QED BY <2>1, <2>2, <2>3, <2>4 DEF Staking
<1> QED BY <1>1, <1>2

LEMMA FitsPending ==
  ASSUME NEW R, NEW P, NEW n, NEW L, NEW W, NEW C, PendingIs(R, P, L, W, C),
         P # None => MarkerIs(P, n) /\ P.after.id \in DOMAIN R
  PROVE  PreparedFits(R, P)
BY DEF PendingIs, PreparedFits, MarkerIs

LEMMA SettleStakes ==
  ASSUME NEW w, w \in Workers, B!TableAssumption, B!NoneAssumption, TableTypes, TableMoney,
         TableStakes, B!SettlePreparedAction(w)
  PROVE  TableStakes'
<1>1. PICK n \in Nat : n = ids /\ n <= MaxIds /\ DocIs(doc, n) /\ LedgerIs /\ WorkIs(n)
  BY TypesNow
<1>2. PICK m, next, raised : DebitStep(n, w, m, next, raised)
  BY <1>1, DebitApplied
<1>3. PICK R, P, L, K, W, V, C, k :
         /\ R = doc.rounds /\ P = doc.pending /\ L = rows /\ W = work /\ C = contested
         /\ K = rows' /\ V = work' /\ k = m.movement.key
  OBVIOUS
<1>4. Staking(R, P, L, W, n, C) /\ PendingIs(R, P, L, W, C)
  BY <1>1, <1>3 DEF TableStakes, TableMoney, Money
<1>5. Summed(L) /\ PreparedFits(R, P)
  <2>1. P # None => MarkerIs(P, n) /\ P.after.id \in DOMAIN R
    BY <1>1, <1>3 DEF DocIs
  <2> QED BY <1>1, <1>3, <1>4, <2>1, LedgerSummed, FitsPending
<1>6. /\ k[1] \in 1..n /\ \A q \in DOMAIN R : q # m.after.id => k[1] \notin HandIds(R[q])
      /\ m # P => k \in DOMAIN L \/ m.after.id \in C
  <2>1. Asks(W[w], R, P, L, n, C) /\ W[w] # None /\ W[w].pc = "settle" /\ W[w].marker = m
    BY <1>2, <1>3, <1>4 DEF Staking, DebitStep
  <2> QED BY <1>3, <2>1 DEF Asks, MarkerPcs
<1>7. m.movement.row.amount \in Int /\ m.movement.row.round = m.after.id /\ MarkerIs(m, n)
  <2>1. MarkerIs(m, n)
    BY <1>2 DEF DebitStep
  <2>2. m.movement.row \in B!Rows
    BY <2>1, MarkerMovement
  <2> QED BY <2>1, <2>2 DEF MarkerIs, B!Rows
<1>8. K = L \/ (Enters(L, K, k) /\ K[k] = m.movement.row)
  BY <1>2, <1>3 DEF DebitStep, Enters
<1>9. K = L \/ (Enters(L, K, k) /\ K[k].amount \in Int /\ Extra(R, P, K, k, C) /\ k[1] \in 1..n)
  <2>1. SUFFICES ASSUME Enters(L, K, k), K[k] = m.movement.row
                 PROVE  K[k].amount \in Int /\ Extra(R, P, K, k, C) /\ k[1] \in 1..n
    BY <1>8
  <2>2. CASE m = P
    <3>1. P # None
      BY <1>7, <2>2 DEF MarkerIs, B!NoneAssumption
    <3> QED BY <1>3, <1>6, <1>7, <2>1, <2>2, <3>1 DEF Extra
  <2>3. CASE m # P
    <3>1. m.after.id \in C
      BY <1>6, <2>1, <2>3 DEF Enters
    <3> QED BY <1>6, <1>7, <2>1, <3>1 DEF Extra
  <2> QED BY <2>2, <2>3
<1>10. /\ \A v \in Workers : v # w => V[v] = W[v]
       /\ V[w].marker = m /\ (V[w].pc = "classify" \/ (V[w].pc = "complete" /\ k \in DOMAIN K))
  BY <1>1, <1>2, <1>3 DEF DebitStep, WorkIs
<1>11. Asks(V[w], R, P, K, n, C)
  BY <1>3, <1>6, <1>10 DEF Asks
<1>12. Staking(R, P, K, V, n, C)
  BY <1>4, <1>5, <1>9, <1>10, <1>11, LedgerStakes
<1>13. /\ doc'.rounds = R /\ doc'.pending = P /\ rows' = K /\ work' = V /\ ids' = n /\ contested' = C
  BY <1>1, <1>2, <1>3 DEF DebitStep
<1> QED BY <1>12, <1>13, StakingNext

LEMMA PayStakes ==
  ASSUME NEW w, w \in Workers, B!TableAssumption, TableTypes, TableMoney, TableStakes, B!PayHand(w)
  PROVE  TableStakes'
<1>1. PICK n \in Nat : n = ids /\ n <= MaxIds /\ DocIs(doc, n) /\ LedgerIs /\ WorkIs(n)
  BY TypesNow
<1>2. PICK i, s, next : PayStep(n, w, i, s, next)
  BY <1>1, HandPaid
<1>3. PICK R, P, L, K, W, V, C, k :
         /\ R = doc.rounds /\ P = doc.pending /\ L = rows /\ W = work /\ C = contested
         /\ K = rows' /\ V = work' /\ k = s.key
  OBVIOUS
<1>4. Staking(R, P, L, W, n, C) /\ PendingIs(R, P, L, W, C)
  BY <1>1, <1>3 DEF TableStakes, TableMoney, Money
<1>5. Summed(L) /\ PreparedFits(R, P)
  <2>1. P # None => MarkerIs(P, n) /\ P.after.id \in DOMAIN R
    BY <1>1, <1>3 DEF DocIs
  <2> QED BY <1>1, <1>3, <1>4, <2>1, LedgerSummed, FitsPending
<1>6. k[1] \in 1..n /\ k[2] = "settlement" /\ s.row.amount \in Int
  <2>1. PICK b : /\ b = work[w].round /\ RoundOk(b, n) /\ i \in DOMAIN b.hands
                 /\ s = B!Settlement(b, b.hands[i])
    BY <1>2 DEF PayStep, Paying
  <2>2. s.key = <<b.hands[i].id, "settlement">> /\ s.key[2] = "settlement"
    BY <2>1 DEF B!Settlement, B!Movement
  <2>3. b.hands[i].id \in HandIds(b)
    BY <2>1 DEF HandIds
  <2>4. b.hands[i].id \in 1..n
    BY <2>1, <2>3, HandNames
  <2>5. s.row.amount = b.hands[i].payout_due
    BY <2>1 DEF B!Settlement, B!Movement
  <2>6. b.hands[i] \in B!Hands
    BY <2>1, SortedParts DEF RoundOk
  <2>7. s.row.amount \in Int
    BY <2>5, <2>6 DEF B!Hands
  <2> QED BY <1>3, <2>2, <2>4, <2>7
<1>7. K = L \/ (Enters(L, K, k) /\ K[k].amount \in Int /\ Extra(R, P, K, k, C) /\ k[1] \in 1..n)
  <2>1. K = L \/ (Enters(L, K, k) /\ K[k] = s.row)
    BY <1>2, <1>3 DEF PayStep, Enters
  <2> QED BY <1>6, <2>1 DEF Extra
<1>8. /\ \A v \in Workers : v # w => V[v] = W[v]
      /\ V[w] = None \/ V[w].pc = "pay"
  BY <1>1, <1>2, <1>3 DEF PayStep, Paying, WorkIs
<1>9. Asks(V[w], R, P, K, n, C)
  BY <1>8, IdleAsks DEF MarkerPcs
<1>10. Staking(R, P, K, V, n, C)
  BY <1>4, <1>5, <1>7, <1>8, <1>9, LedgerStakes
<1>11. /\ doc'.rounds = R /\ doc'.pending = P /\ rows' = K /\ work' = V /\ ids' = n /\ contested' = C
  BY <1>1, <1>2, <1>3 DEF PayStep
<1> QED BY <1>10, <1>11, StakingNext

(* Rounds that play on without cost.                                          *)
LEMMA SteadyStakes ==
  ASSUME NEW w, NEW R, NEW S, NEW P, NEW L, NEW W, NEW V, NEW n, NEW C, B!TableAssumption,
         Staking(R, P, L, W, n, C), DOMAIN S = DOMAIN R,
         \A q \in DOMAIN R : R[q] \in B!Rounds /\ S[q] \in B!Rounds /\ Steady(R[q], S[q]),
         \A v \in Workers : v # w => V[v] = W[v], V[w] = None \/ V[w].pc \notin MarkerPcs
  PROVE  Staking(S, P, L, V, n, C)
<1>1. ASSUME NEW q \in DOMAIN R
      PROVE  /\ HandIds(S[q]) = HandIds(R[q]) /\ (Tidy(R[q]) => Tidy(S[q]))
             /\ \A r : Covers(L, R[q], r) => Covers(L, S[q], r)
  <2>1. /\ HandIds(S[q]) = HandIds(R[q]) /\ Bill(S[q]) = Bill(R[q]) /\ (Tidy(R[q]) => Tidy(S[q]))
        /\ \A K : Marked(K, R[q]) => Marked(K, S[q])
    BY SteadyKeeps
  <2> QED BY <2>1 DEF Covers
<1>2. Tidied(S, P)
  BY <1>1 DEF Tidied, Staking
<1>3. Covered(S, P, L, C)
  BY <1>1 DEF Covered, Staking
<1>4. ASSUME NEW v \in Workers PROVE Asks(V[v], S, P, L, n, C)
  <2>1. CASE v = w
    BY <2>1, IdleAsks
  <2>2. CASE v # w
    <3>1. Asks(W[v], R, P, L, n, C) /\ V[v] = W[v]
      BY <2>2 DEF Staking
    <3>2. \A q \in DOMAIN S : HandIds(S[q]) = HandIds(R[q]) /\ q \in DOMAIN R
      BY <1>1
    <3> QED BY <3>1, <3>2 DEF Asks
  <2> QED BY <2>1, <2>2
<1> QED BY <1>2, <1>3, <1>4 DEF Staking

LEMMA CommittedSteady ==
  ASSUME NEW rules, NEW n, NEW x, NEW y, B!TableAssumption, RoundOk(x, n), Costless(rules, x, y)
  PROVE  Steady(x, y)
<1>1. CASE /\ B!InTurn(x)
           /\ y \in B!Hit(rules, x) \cup B!Stand(rules, x) \cup
                     (IF B!CanSurrender(rules, x) THEN B!Surrender(rules, x) ELSE {})
  <2>1. /\ x.status = "player_turn"
        /\ y \in B!Hit(rules, x) \/ y \in B!Stand(rules, x) \/ y \in B!Surrender(rules, x)
    BY <1>1 DEF B!InTurn
  <2> QED BY <2>1, MovesSteady
<1>2. CASE B!CanTakeEvenMoney(x) /\ y = B!EvenMoney(x)
  BY <1>2, EvenMoneySteady
<1> QED BY <1>1, <1>2 DEF Costless

LEMMA CommitStakes ==
  ASSUME NEW w, w \in Workers, B!TableAssumption, B!NoneAssumption, TableTypes, TableStakes,
         B!CommitRoundTransition(w)
  PROVE  TableStakes'
<1>1. PICK n \in Nat : n = ids /\ n <= MaxIds /\ DocIs(doc, n) /\ LedgerIs /\ WorkIs(n)
  BY TypesNow
<1>2. /\ doc.pending = None /\ rows' = rows /\ ids' = ids /\ contested' = contested
  BY DEF B!CommitRoundTransition
<1>3. PICK r \in DOMAIN doc.rounds : \E y : Costless(doc.rules, doc.rounds[r], y) /\ B!Commit(w, y)
  <2>1. PICK r \in DOMAIN doc.rounds : \E y :
         /\ \/ /\ B!InTurn(doc.rounds[r])
               /\ y \in B!Hit(doc.rules, doc.rounds[r]) \cup B!Stand(doc.rules, doc.rounds[r]) \cup
                     (IF B!CanSurrender(doc.rules, doc.rounds[r])
                      THEN B!Surrender(doc.rules, doc.rounds[r]) ELSE {})
            \/ B!CanTakeEvenMoney(doc.rounds[r]) /\ y = B!EvenMoney(doc.rounds[r])
         /\ B!Commit(w, y)
    BY DEF B!CommitRoundTransition
  <2> QED BY <2>1 DEF Costless
<1>4. PICK x, y : x = doc.rounds[r] /\ Costless(doc.rules, x, y) /\ B!Commit(w, y)
  BY <1>3
<1>5. /\ RoundOk(y, n) /\ y.id = r /\ RoundOk(x, n)
  BY <1>1, <1>4, CommittedRound
<1>6. Steady(x, y)
  BY <1>4, <1>5, CommittedSteady
<1>7. PICK R, S, P, L, W, V, C :
         /\ R = doc.rounds /\ P = doc.pending /\ L = rows /\ W = work /\ C = contested
         /\ S = doc'.rounds /\ V = work'
  OBVIOUS
<1>8. /\ DOMAIN S = DOMAIN R /\ S[r] = y /\ (\A q \in DOMAIN R : q # r => S[q] = R[q])
      /\ doc'.pending = P
  BY <1>1, <1>4, <1>5, <1>7 DEF B!Commit, DocIs
<1>9. \A q \in DOMAIN R : R[q] \in B!Rounds /\ S[q] \in B!Rounds /\ Steady(R[q], S[q])
  <2>1. TAKE q \in DOMAIN R
  <2>2. RoundOk(R[q], n)
    BY <1>1, <1>7 DEF DocIs, BoardIs
  <2>3. CASE q = r
    BY <1>4, <1>5, <1>6, <1>7, <1>8, <2>3 DEF RoundOk, Sorted
  <2>4. CASE q # r
    BY <1>8, <2>2, <2>4, SteadySelf DEF RoundOk, Sorted
  <2> QED BY <2>3, <2>4
<1>10. \A v \in Workers : v # w => V[v] = W[v]
  BY <1>1, <1>4, <1>7 DEF B!Commit, WorkIs
<1>11. V[w] = None \/ V[w].pc \notin MarkerPcs
  <2>1. V[w] = B!FinishIfNeeded(TRUE, {y.id}, S)
    BY <1>1, <1>4, <1>7 DEF B!Commit, WorkIs
  <2> QED BY <2>1, FinishingIdles
<1>12. Staking(R, P, L, W, n, C)
  BY <1>1, <1>7 DEF TableStakes
<1>13. Staking(S, P, L, V, n, C)
  BY <1>8, <1>9, <1>10, <1>11, <1>12, SteadyStakes
<1> QED BY <1>1, <1>2, <1>7, <1>8, <1>13, StakingNext

LEMMA FinalizeStakes ==
  ASSUME NEW w, w \in Workers, B!TableAssumption, TableTypes, TableStakes, B!Finalize(w)
  PROVE  TableStakes'
<1>1. PICK n \in Nat : n = ids /\ n <= MaxIds /\ DocIs(doc, n) /\ LedgerIs /\ WorkIs(n)
  BY TypesNow
<1>2. ids' = ids /\ contested' = contested
  BY DEF B!Finalize
<1>3. /\ rows' = rows
      /\ \/ doc' = doc /\ work' = [work EXCEPT ![w] = None]
         \/ \E r, s : Finalizing(n, w, r, s)
  BY <1>1, FinalizeStep
<1>4. CASE doc' = doc /\ work' = [work EXCEPT ![w] = None]
  <2>1. PICK y : y = None /\ work' = [work EXCEPT ![w] = y]
    BY <1>4
  <2>2. Asks(y, doc.rounds, doc.pending, rows, n, contested)
    BY <2>1, IdleAsks
  <2> QED BY <1>1, <1>2, <1>3, <1>4, <2>1, <2>2, StakesStay
<1>5. ASSUME NEW r, NEW s, Finalizing(n, w, r, s) PROVE TableStakes'
  <2>1. PICK R, S, P, L, W, V, C :
           /\ R = doc.rounds /\ P = doc.pending /\ L = rows /\ W = work /\ C = contested
           /\ S = doc'.rounds /\ V = work'
    OBVIOUS
  <2>2. /\ r \in DOMAIN R /\ RoundOk(R[r], n) /\ RoundOk(s, n) /\ Steady(R[r], s)
        /\ doc'.pending = P /\ DOMAIN S = DOMAIN R /\ S[r] = s
        /\ \A q \in DOMAIN R : q # r => S[q] = R[q]
    BY <1>5, <2>1 DEF Finalizing
  <2>3. \A q \in DOMAIN R : R[q] \in B!Rounds /\ S[q] \in B!Rounds /\ Steady(R[q], S[q])
    <3>1. TAKE q \in DOMAIN R
    <3>2. RoundOk(R[q], n)
      BY <1>1, <2>1 DEF DocIs, BoardIs
    <3>3. CASE q = r
      BY <2>2, <3>3 DEF RoundOk, Sorted
    <3>4. CASE q # r
      BY <2>2, <3>2, <3>4, SteadySelf DEF RoundOk, Sorted
    <3> QED BY <3>3, <3>4
  <2>4. PICK t, todo : work' = [work EXCEPT ![w] = B!FinishIfNeeded(t, todo, doc'.rounds)]
    BY <1>5 DEF Finalizing
  <2>5. V[w] = B!FinishIfNeeded(t, todo, S) /\ \A v \in Workers : v # w => V[v] = W[v]
    BY <1>1, <2>1, <2>4 DEF WorkIs
  <2>6. V[w] = None \/ V[w].pc \notin MarkerPcs
    BY <2>5, FinishingIdles
  <2>7. Staking(R, P, L, W, n, C)
    BY <1>1, <2>1 DEF TableStakes
  <2>8. Staking(S, P, L, V, n, C)
    BY <2>2, <2>3, <2>5, <2>6, <2>7, SteadyStakes
  <2> QED BY <1>1, <1>2, <1>3, <2>1, <2>2, <2>8, StakingNext
<1> QED BY <1>3, <1>4, <1>5

(* What is prepared for the round r is rolled back.                           *)
PutsBack(w, R, S, P, L, W, V, C, D, r) ==
    /\ P # None /\ r = P.after.id /\ r \in DOMAIN R /\ R[r] = P.after
    /\ P.before # None => HandIds(P.before) \subseteq HandIds(P.after)
    /\ \/ P.before = None /\ DOMAIN S = DOMAIN R \ {r}
       \/ P.before # None /\ DOMAIN S = DOMAIN R /\ S[r] = P.before
    /\ \A q \in DOMAIN S : q # r => S[q] = R[q]
    /\ C \subseteq D
    /\ P.movement.key \in DOMAIN L => r \in D
    /\ \A v \in Workers : v # w /\ W[v] # None /\ W[v].pc = "settle" /\ W[v].marker = P => r \in D
    /\ V[w] = None /\ \A v \in Workers : v # w => V[v] = W[v]

LEMMA PutBackStakes ==
  ASSUME NEW w, NEW R, NEW S, NEW P, NEW L, NEW W, NEW V, NEW n, NEW C, NEW D, NEW r, NEW N, N = None,
         Staking(R, P, L, W, n, C), PutsBack(w, R, S, P, L, W, V, C, D, r)
  PROVE  Staking(S, N, L, V, n, D)
<1>1. ASSUME NEW q \in DOMAIN S
      PROVE  q \in DOMAIN R /\ HandIds(S[q]) \subseteq HandIds(R[q]) /\ Tidy(S[q])
  <2>1. CASE q # r
    <3>1. S[q] = R[q] /\ q \in DOMAIN R
      BY <1>1, <2>1 DEF PutsBack
    <3> QED BY <3>1 DEF Staking, Tidied
  <2>2. CASE q = r
    <3>1. P # None /\ P.before # None /\ S[q] = P.before /\ q \in DOMAIN R /\ R[q] = P.after
      BY <1>1, <2>2 DEF PutsBack
    <3>2. Tidy(P.before)
      BY <3>1 DEF Staking, Tidied
    <3> QED BY <3>1, <3>2 DEF PutsBack
  <2> QED BY <2>1, <2>2
<1>2. Tidied(S, N)
  BY <1>1 DEF Tidied
<1>3. ASSUME NEW q \in DOMAIN S, q \notin D PROVE Covers(L, S[q], q)
  <2>1. CASE q # r
    <3>1. S[q] = R[q] /\ q \in DOMAIN R /\ q \notin C /\ P.after.id # q
      BY <1>3, <2>1 DEF PutsBack
    <3>2. Covers(L, R[q], q)
      BY <3>1 DEF Staking, Covered
    <3> QED BY <3>1, <3>2
  <2>2. CASE q = r
    <3>1. P # None /\ P.before # None /\ S[q] = P.before /\ r = P.after.id /\ r \notin C
          /\ P.movement.key \notin DOMAIN L
      BY <1>3, <2>2 DEF PutsBack
    <3>2. Covers(L, P.before, r)
      BY <3>1 DEF Staking, Pledged
    <3> QED BY <2>2, <3>1, <3>2
  <2> QED BY <2>1, <2>2
<1>4. Covered(S, N, L, D)
  BY <1>3 DEF Covered
<1>5. ASSUME NEW v \in Workers PROVE Asks(V[v], S, N, L, n, D)
  <2>1. CASE v = w
    <3>1. V[v] = None
      BY <2>1 DEF PutsBack
    <3> QED BY <3>1, IdleAsks
  <2>2. CASE v # w
    <3>1. Asks(W[v], R, P, L, n, C) /\ V[v] = W[v] /\ C \subseteq D
      BY <2>2 DEF Staking, PutsBack
    <3>2. W[v] # None /\ W[v].pc = "settle" /\ W[v].marker = P => W[v].marker.after.id \in D
      BY <2>2 DEF PutsBack
    <3>3. SUFFICES ASSUME W[v] # None, W[v].pc \in MarkerPcs
                   PROVE  /\ W[v].marker.movement.key[1] \in 1..n
                          /\ \A q \in DOMAIN S : q # W[v].marker.after.id =>
                                W[v].marker.movement.key[1] \notin HandIds(S[q])
                          /\ W[v].pc = "settle" =>
                                W[v].marker.movement.key \in DOMAIN L \/ W[v].marker.after.id \in D
                          /\ W[v].pc = "complete" => W[v].marker.movement.key \in DOMAIN L
      BY <3>1 DEF Asks
    <3>4. PICK m : m = W[v].marker
      OBVIOUS
    <3>5. /\ m.movement.key[1] \in 1..n
          /\ \A q \in DOMAIN R : q # m.after.id => m.movement.key[1] \notin HandIds(R[q])
          /\ W[v].pc = "settle" /\ m # P => m.movement.key \in DOMAIN L \/ m.after.id \in C
          /\ W[v].pc = "complete" => m.movement.key \in DOMAIN L
      BY <3>1, <3>3, <3>4 DEF Asks
    <3>6. \A q \in DOMAIN S : q # m.after.id => m.movement.key[1] \notin HandIds(S[q])
      BY <1>1, <3>5
    <3>7. W[v].pc = "settle" => m.movement.key \in DOMAIN L \/ m.after.id \in D
      BY <3>1, <3>2, <3>3, <3>4, <3>5
    <3> QED BY <3>4, <3>5, <3>6, <3>7
  <2> QED BY <2>1, <2>2
<1> QED BY <1>2, <1>4, <1>5 DEF Staking, Pledged

LEMMA RollbackStakes ==
  ASSUME NEW w, w \in Workers, B!NoneAssumption, TableTypes, TableMoney, TableStakes,
         B!RollbackPreparedAction(w)
  PROVE  TableStakes'
<1>1. PICK n \in Nat : n = ids /\ n <= MaxIds /\ DocIs(doc, n) /\ LedgerIs /\ WorkIs(n)
  BY TypesNow
<1>2. /\ rows' = rows /\ ids' = ids
  BY DEF B!RollbackPreparedAction
<1>3. PICK R, S, P, Q, L, W, V, C, D, r :
         /\ R = doc.rounds /\ P = doc.pending /\ L = rows /\ W = work /\ C = contested
         /\ S = doc'.rounds /\ V = work' /\ Q = doc'.pending /\ D = contested' /\ r = P.after.id
  OBVIOUS
<1>4. Staking(R, P, L, W, n, C)
  BY <1>1, <1>3 DEF TableStakes
<1>5. /\ work' = [work EXCEPT ![w] = None] /\ W[w] # None /\ W[w].pc = "rollback"
      /\ MarkerIs(W[w].marker, n)
      /\ \/ doc' = doc /\ D = C
         \/ /\ P = W[w].marker /\ R[r] = P.after /\ Q = None
            /\ \/ P.before = None /\ DOMAIN S = DOMAIN R \ {r}
               \/ P.before # None /\ DOMAIN S = DOMAIN R /\ S[r] = P.before
            /\ \A q \in DOMAIN S : q # r => S[q] = R[q]
            /\ D = IF B!Contested(w, P) THEN C \cup {r} ELSE C
  BY <1>1, <1>3, RollbackStep
<1>6. V[w] = None /\ \A v \in Workers : v # w => V[v] = W[v]
  BY <1>1, <1>3, <1>5 DEF WorkIs
<1>7. CASE doc' = doc /\ D = C
  <2>1. PICK y : y = None /\ work' = [work EXCEPT ![w] = y]
    BY <1>5
  <2>2. Asks(y, doc.rounds, doc.pending, rows, n, contested)
    BY <2>1, IdleAsks
  <2> QED BY <1>1, <1>2, <1>3, <1>7, <2>1, <2>2, StakesStay
<1>8. CASE /\ P = W[w].marker /\ R[r] = P.after /\ Q = None
           /\ \/ P.before = None /\ DOMAIN S = DOMAIN R \ {r}
              \/ P.before # None /\ DOMAIN S = DOMAIN R /\ S[r] = P.before
           /\ \A q \in DOMAIN S : q # r => S[q] = R[q]
           /\ D = IF B!Contested(w, P) THEN C \cup {r} ELSE C
  <2>1. MarkerIs(P, n) /\ P # None /\ r \in DOMAIN R
    <3>1. MarkerIs(P, n) /\ P # None
      BY <1>5, <1>8 DEF MarkerIs, B!NoneAssumption
    <3> QED BY <1>1, <1>3, <3>1 DEF DocIs
  <2>2. P.movement.key \in DOMAIN L => r \in D
    <3>1. W[w].absent
      BY <1>1, <1>3, <1>5 DEF TableMoney, Money, MoneyOf
    <3>2. P.movement.key \in DOMAIN L => B!Contested(w, P)
      BY <1>3, <3>1 DEF B!Contested
    <3> QED BY <1>8, <3>2
  <2>3. ASSUME NEW v \in Workers, v # w, W[v] # None, W[v].pc = "settle", W[v].marker = P
        PROVE  r \in D
    <3>1. B!Contested(w, P)
      BY <1>3, <2>3 DEF B!Contested, B!At
    <3> QED BY <1>8, <3>1
  <2>4. PutsBack(w, R, S, P, L, W, V, C, D, r)
    <3>1. P.before # None => HandIds(P.before) \subseteq HandIds(P.after)
      BY <2>1 DEF MarkerIs
    <3> QED BY <1>3, <1>6, <1>8, <2>1, <2>2, <2>3, <3>1 DEF PutsBack
  <2>5. Staking(S, Q, L, V, n, D)
    BY <1>4, <1>8, <2>4, PutBackStakes
  <2> QED BY <1>1, <1>2, <1>3, <2>5, StakingNext
<1> QED BY <1>5, <1>7, <1>8

LEMMA NothingPaid ==
  ASSUME NEW L, NEW r, \A k \in DOMAIN L : L[k].round # r
  PROVE  Paid(L, r) = 0
<1>1. Debits(L, r) = {}
  BY DEF Debits
<1>2. DOMAIN StakesOf(L, Debits(L, r)) = {}
  BY <1>1 DEF StakesOf
<1> QED BY <1>2, TotalEmpty DEF Paid

LEMMA PreparedCosts ==
  ASSUME NEW rules, NEW n, NEW m, NEW before, NEW after, NEW id, NEW kind, NEW amount,
         B!TableAssumption, B!NoneAssumption, n \in Nat, RoundOk(before, n), before.status = "player_turn",
         after \in B!Rounds, kind = "split" => n < m, kind # "wager",
         Asked(rules, m, before, after, id, kind, amount)
  PROVE  Costs(before, after, <<id, kind>>, amount)
<1>1. CASE kind = "double"
  <2>1. /\ B!CanDouble(rules, before) /\ after \in B!DoubleDown(rules, before)
        /\ id = before.hands[B!Current(before)].id /\ amount = before.hands[B!Current(before)].bet
    BY <1>1 DEF Asked
  <2> QED BY <1>1, <2>1, DoubleCosts
<1>2. CASE kind = "split"
  <2>1. /\ B!CanSplit(rules, before) /\ after \in B!Split(rules, before, m)
        /\ id = before.hands[B!Current(before)].id /\ amount = before.hands[B!Current(before)].bet
        /\ rules \in RuleSets /\ m \in B!Ids /\ n < m
    BY <1>2 DEF Asked
  <2> QED BY <1>2, <2>1, SplitCosts
<1>3. CASE kind = "insurance"
  <2>1. /\ amount \in InsuranceAmounts /\ before.insurance = 0
        /\ after = [before EXCEPT !.insurance = amount] /\ id = before.id
    BY <1>3 DEF Asked, B!CanInsure
  <2>2. before \in B!Rounds
    BY DEF RoundOk, Sorted
  <2> QED BY <1>3, <2>1, <2>2, InsureCosts
<1> QED BY <1>1, <1>2, <1>3 DEF Asked

(* The name in the key is that of a hand of the round.                        *)
LEMMA PreparedName ==
  ASSUME NEW rules, NEW n, NEW m, NEW before, NEW after, NEW id, NEW kind, NEW amount,
         RoundOk(before, n), before.status = "player_turn", kind # "wager", Tidy(before),
         Asked(rules, m, before, after, id, kind, amount)
  PROVE  id \in HandIds(before)
<1>1. B!Current(before) \in DOMAIN before.hands
  BY CurrentIsOne DEF RoundOk
<1>2. before.hands[B!Current(before)].id \in HandIds(before)
  BY <1>1 DEF HandIds
<1>3. before.id \in HandIds(before)
  BY DEF Tidy
<1> QED BY <1>2, <1>3 DEF Asked

(* The round r, after by now, is prepared with Q.                             *)
Prepares(w, R, S, Q, V, W, L, n, m, C, r, key, amount) ==
    /\ n \in Nat /\ m \in Nat /\ n <= m
    /\ DOMAIN S = DOMAIN R \cup {r} /\ S[r] = Q.after /\ \A q \in DOMAIN R : q # r => S[q] = R[q]
    /\ Q # None /\ r = Q.after.id /\ key = Q.movement.key /\ Q.movement.row.amount = -amount
    /\ key[1] \in HandIds(Q.after) /\ amount \in Nat
    /\ \A k \in DOMAIN L : L[k].round \in 1..n
    /\ Asks(V[w], S, Q, L, m, C)
    /\ \A v \in Workers : v # w => V[v] = W[v] /\ (V[v] # None /\ V[v].pc \in MarkerPcs => V[v].marker # None)
    /\ \/ /\ Q.before = None /\ r = n + 1 /\ key[1] = r /\ HandIds(Q.after) = {r}
          /\ Tidy(Q.after) /\ Bill(Q.after) = amount
          /\ \A K : (\A k \in K : k[1] # r) => Marked(K \cup {key}, Q.after)
       \/ /\ Q.before # None /\ r \in DOMAIN R /\ Q.before = R[r]
          /\ \A h \in HandIds(Q.after) : h \in HandIds(Q.before) \/ h = n + 1
          /\ Costs(Q.before, Q.after, key, amount) /\ Bill(Q.before) \in Int

LEMMA PreparesStakes ==
  ASSUME NEW w, NEW R, NEW S, NEW Q, NEW V, NEW W, NEW L, NEW n, NEW m, NEW C, NEW r, NEW key, NEW amount,
         NEW P, P = None, Staking(R, P, L, W, n, C),
         Prepares(w, R, S, Q, V, W, L, n, m, C, r, key, amount)
  PROVE  Staking(S, Q, L, V, m, C)
<1>1. /\ n \in Nat /\ m \in Nat /\ n <= m /\ Q # None /\ r = Q.after.id /\ key = Q.movement.key
      /\ Q.movement.row.amount = -amount /\ amount \in Nat /\ key[1] \in HandIds(Q.after)
      /\ DOMAIN S = DOMAIN R \cup {r} /\ S[r] = Q.after /\ \A q \in DOMAIN R : q # r => S[q] = R[q]
  BY DEF Prepares
<1>2. \A k \in DOMAIN L : k[1] \in 1..n /\ L[k].round \in 1..n
  BY DEF Staking, Prepares
<1>3. \A k \in DOMAIN L : k[1] \in 1..m
  BY <1>1, <1>2
<1>4. ASSUME Q.before # None
      PROVE  /\ r \in DOMAIN R /\ Q.before = R[r] /\ Tidy(Q.before) /\ Tidy(Q.after)
             /\ \A h \in HandIds(Q.after) : h \in HandIds(Q.before) \/ h = n + 1
             /\ r \notin C => /\ Covers(L, Q.before, r)
                              /\ Marked(DOMAIN L \cup {key}, Q.after)
                              /\ Bill(Q.after) = IF key \in DOMAIN L THEN Bill(Q.before) ELSE Bill(Q.before) + amount
  <2>1. /\ r \in DOMAIN R /\ Q.before = R[r] /\ Costs(Q.before, Q.after, key, amount)
        /\ \A h \in HandIds(Q.after) : h \in HandIds(Q.before) \/ h = n + 1
    BY <1>4 DEF Prepares
  <2>2. Tidy(Q.before)
    BY <2>1 DEF Staking, Tidied
  <2>3. Tidy(Q.after)
    BY <2>1, <2>2 DEF Costs
  <2>4. ASSUME r \notin C
        PROVE  /\ Covers(L, Q.before, r)
               /\ Marked(DOMAIN L \cup {key}, Q.after)
               /\ Bill(Q.after) = IF key \in DOMAIN L THEN Bill(Q.before) ELSE Bill(Q.before) + amount
    <3>1. Covers(L, Q.before, r)
      BY <2>1, <2>4 DEF Staking, Covered
    <3>2. Fresh(DOMAIN L, Q.before, Q.after)
      <4>1. \A k \in DOMAIN L : k[1] # n + 1
        BY <1>1, <1>2
      <4> QED BY <2>1, <4>1 DEF Fresh
    <3>3. PICK K : K = DOMAIN L
      OBVIOUS
    <3>4. Tidy(Q.before) /\ Marked(K, Q.before) /\ Fresh(K, Q.before, Q.after)
      BY <2>2, <3>1, <3>2, <3>3 DEF Covers
    <3>5. /\ Marked(K \cup {key}, Q.after)
          /\ Bill(Q.after) = IF key \in K THEN Bill(Q.before) ELSE Bill(Q.before) + amount
      BY <2>1, <3>4 DEF Costs
    <3> QED BY <3>1, <3>3, <3>5
  <2> QED BY <2>1, <2>2, <2>3, <2>4
<1>5. ASSUME Q.before = None
      PROVE  /\ r = n + 1 /\ key[1] = r /\ HandIds(Q.after) = {r}
             /\ Tidy(Q.after) /\ Bill(Q.after) = amount /\ Marked(DOMAIN L \cup {key}, Q.after)
             /\ key \notin DOMAIN L /\ Paid(L, r) = 0
  <2>1. /\ r = n + 1 /\ key[1] = r /\ HandIds(Q.after) = {r} /\ Tidy(Q.after) /\ Bill(Q.after) = amount
        /\ \A K : (\A k \in K : k[1] # r) => Marked(K \cup {key}, Q.after)
    BY <1>5 DEF Prepares
  <2>2. \A k \in DOMAIN L : k[1] # r /\ L[k].round # r
    BY <1>1, <1>2, <2>1
  <2>3. Paid(L, r) = 0
    BY <2>2, NothingPaid
  <2> QED BY <2>1, <2>2, <2>3
<1>6. Tidied(S, Q)
  <2>1. \A q \in DOMAIN R : Tidy(R[q])
    BY DEF Staking, Tidied
  <2>2. Tidy(Q.after) /\ (Q.before # None => Tidy(Q.before))
    BY <1>4, <1>5
  <2> QED BY <1>1, <2>1, <2>2 DEF Tidied
<1>7. Covered(S, Q, L, C)
  <2>1. ASSUME NEW q \in DOMAIN S, q \notin C, Q.after.id # q PROVE Covers(L, S[q], q)
    <3>1. q \in DOMAIN R /\ S[q] = R[q]
      BY <1>1, <2>1
    <3>2. Covers(L, R[q], q)
      BY <2>1, <3>1 DEF Staking, Covered
    <3> QED BY <3>1, <3>2
  <2> QED BY <1>1, <2>1 DEF Covered
<1>8. Pledged(Q, L, C)
  <2>1. ASSUME r \notin C
        PROVE  /\ Marked(DOMAIN L \cup {key}, Q.after)
               /\ key \in DOMAIN L => Paid(L, r) = Bill(Q.after)
               /\ key \notin DOMAIN L =>
                     /\ Bill(Q.after) = Paid(L, r) + amount
                     /\ IF Q.before = None THEN Paid(L, r) = 0 ELSE Covers(L, Q.before, r)
    <3>1. CASE Q.before = None
      BY <1>1, <1>5, <3>1
    <3>2. CASE Q.before # None
      <4>1. Paid(L, r) = Bill(Q.before)
        BY <1>4, <2>1, <3>2 DEF Covers
      <4> QED BY <1>4, <2>1, <3>2, <4>1
    <3> QED BY <3>1, <3>2
  <2>2. r \notin C /\ key \notin DOMAIN L => Bill(Q.after) = Paid(L, r) - Q.movement.row.amount
    <3>1. ASSUME r \notin C, key \notin DOMAIN L
          PROVE Bill(Q.after) = Paid(L, r) + amount /\ Paid(L, r) \in Int
      <4>1. CASE Q.before = None
        BY <1>5, <2>1, <3>1, <4>1
      <4>2. CASE Q.before # None
        <5>1. Bill(Q.before) \in Int
          BY <4>2 DEF Prepares
        <5>2. Paid(L, r) = Bill(Q.before)
          BY <1>4, <3>1, <4>2 DEF Covers
        <5> QED BY <2>1, <3>1, <5>1, <5>2
      <4> QED BY <4>1, <4>2
    <3> QED BY <1>1, <3>1
  <2> QED BY <1>1, <2>1, <2>2 DEF Pledged
<1>9. ASSUME NEW v \in Workers PROVE Asks(V[v], S, Q, L, m, C)
  <2>1. CASE v = w
    BY <2>1 DEF Prepares
  <2>2. CASE v # w
    <3>1. Asks(W[v], R, P, L, n, C) /\ V[v] = W[v] /\ (W[v] # None /\ W[v].pc \in MarkerPcs => W[v].marker # P)
      BY <2>2 DEF Staking, Prepares
    <3>2. SUFFICES ASSUME W[v] # None, W[v].pc \in MarkerPcs PROVE Asks(W[v], S, Q, L, m, C)
      BY <3>1, IdleAsks
    <3>3. PICK k : k = W[v].marker.movement.key
      OBVIOUS
    <3>4. /\ k[1] \in 1..n
          /\ \A q \in DOMAIN R : q # W[v].marker.after.id => k[1] \notin HandIds(R[q])
          /\ W[v].pc = "settle" => k \in DOMAIN L \/ W[v].marker.after.id \in C
          /\ W[v].pc = "complete" => k \in DOMAIN L
      BY <3>1, <3>2, <3>3 DEF Asks
    <3>5. \A q \in DOMAIN S : q # W[v].marker.after.id => k[1] \notin HandIds(S[q])
      <4>1. ASSUME NEW q \in DOMAIN S, q # W[v].marker.after.id PROVE k[1] \notin HandIds(S[q])
        <5>1. CASE q # r
          BY <1>1, <3>4, <4>1, <5>1
        <5>2. CASE q = r
          <6>1. S[q] = Q.after /\ k[1] # n + 1
            BY <1>1, <3>4, <5>2
          <6>2. CASE Q.before = None
            BY <1>5, <6>1, <6>2
          <6>3. CASE Q.before # None
            BY <1>4, <3>4, <4>1, <5>2, <6>1, <6>3
          <6> QED BY <6>2, <6>3
        <5> QED BY <5>1, <5>2
      <4> QED BY <4>1
    <3>6. k[1] \in 1..m
      BY <1>1, <3>4
    <3> QED BY <3>3, <3>4, <3>5, <3>6 DEF Asks
  <2> QED BY <2>1, <2>2
<1> QED BY <1>3, <1>6, <1>7, <1>8, <1>9 DEF Staking

LEMMA PrepareStakes ==
  ASSUME NEW w, w \in Workers, B!TableAssumption, B!NoneAssumption, TableTypes, TableMoney, TableStakes,
         B!PrepareMoneyTransition(w)
  PROVE  TableStakes'
<1>0. PICK n, m, before, after, id, kind, amount :
            n = ids /\ m = ids' /\ m <= MaxIds /\ Prepared(w, n, m, before, after, id, kind, amount)
  BY PreparedRound
<1>1. /\ n \in Nat /\ m \in Nat /\ n = ids /\ m = ids' /\ n <= m /\ amount \in Nat /\ RoundOk(after, m)
      /\ kind \in B!Kinds \ {"settlement"} /\ Asked(doc.rules, m, before, after, id, kind, amount)
      /\ kind = "wager" <=> Dealing(before, after, m, n)
      /\ kind = "split" => n < m
      /\ Dealing(before, after, m, n) \/ Moving(before, after, m, n)
  BY <1>0 DEF Prepared
<1>2. DocIs(doc, n) /\ WorkIs(n) /\ BoardIs(doc.rounds, n)
  BY <1>1 DEF TableTypes, DocIs
<1>3. /\ doc'.pending # None
      /\ doc'.pending.before = before /\ doc'.pending.after = after
      /\ doc'.pending.movement.key = <<id, kind>> /\ doc'.pending.movement.row.amount = -amount
      /\ doc'.rounds = B!With(doc.rounds, after.id, after) /\ DocIs(doc', m)
      /\ work'[w].pc = "settle" /\ work'[w].marker = doc'.pending
      /\ \A v \in Workers : v # w => work'[v] = work[v]
  BY <1>0, <1>2, PreparedState
<1>4. rows' = rows /\ contested' = contested /\ doc.pending = None
  BY DEF B!PrepareMoneyTransition
<1>5. TableMoney'
  BY PrepareMoney
<1>6. PICK R, S, P, Q, L, W, V, C, r, key :
         /\ R = doc.rounds /\ P = doc.pending /\ L = rows /\ W = work /\ C = contested
         /\ S = doc'.rounds /\ V = work' /\ Q = doc'.pending /\ r = after.id /\ key = <<id, kind>>
  OBVIOUS
<1>7. Staking(R, P, L, W, n, C) /\ P = None
  BY <1>1, <1>4, <1>6 DEF TableStakes
<1>8. /\ Q # None /\ Q.before = before /\ Q.after = after /\ r = Q.after.id /\ key = Q.movement.key
      /\ Q.movement.row.amount = -amount /\ key[1] = id
      /\ V[w].pc = "settle" /\ V[w].marker = Q /\ \A v \in Workers : v # w => V[v] = W[v]
  BY <1>3, <1>6
<1>9. DOMAIN S = DOMAIN R \cup {r} /\ S[r] = Q.after /\ \A q \in DOMAIN R : q # r => S[q] = R[q]
  BY <1>3, <1>6 DEF B!With
<1>10. BoardIs(S, m) /\ Apart(S)
  <2>1. BoardIs(S, m)
    BY <1>3, <1>6 DEF DocIs
  <2>2. Apart(S)
    BY <1>5, <1>6 DEF TableMoney, Money
  <2> QED BY <2>1, <2>2
<1>11. \A k \in DOMAIN L : L[k].round \in 1..n
  BY <1>1, <1>6 DEF TableMoney, Money, Returned
<1>12. ASSUME NEW v \in Workers, v # w, V[v] # None, V[v].pc \in MarkerPcs PROVE V[v].marker # None
  <2>1. MarkerIs(V[v].marker, n)
    BY <1>2, <1>6, <1>8, <1>12 DEF WorkIs, RequestIs
  <2> QED BY <2>1 DEF MarkerIs, B!NoneAssumption
<1>13. CASE Dealing(before, after, m, n)
  <2>1. /\ Q.before = None /\ m = n + 1 /\ r = m /\ HandIds(after) = {m} /\ kind = "wager"
    BY <1>1, <1>6, <1>8, <1>13 DEF Dealing
  <2>2. /\ id = m /\ amount = Wager /\ after \in B!Dealt(doc.rules, m) /\ doc.rules \in RuleSets /\ m \in B!Ids
    BY <1>1, <2>1 DEF Asked
  <2>3. /\ Tidy(after) /\ Bill(after) = amount
        /\ \A K : (\A k \in K : k[1] # m) => Marked(K \cup {<<m, "wager">>}, after)
    BY <2>2, DealCosts
  <2>4. /\ key[1] = r /\ HandIds(Q.after) = {r} /\ Tidy(Q.after) /\ Bill(Q.after) = amount
        /\ \A K : (\A k \in K : k[1] # r) => Marked(K \cup {key}, Q.after)
    <3>1. key = <<m, "wager">> /\ r = m /\ Q.after = after
      BY <1>6, <1>8, <2>1, <2>2
    <3>2. key[1] = r
      BY <3>1
    <3> QED BY <2>1, <2>3, <3>1, <3>2
  <2>5. Asks(V[w], S, Q, L, m, C)
    <3>1. Q.after.id \in DOMAIN S /\ S[Q.after.id] = Q.after /\ Q.movement.key[1] \in HandIds(Q.after)
      BY <1>8, <1>9, <2>4
    <3> QED BY <1>1, <1>8, <1>10, <3>1, PendingAsks
  <2>6. key[1] \in HandIds(Q.after)
    BY <2>4
  <2>7. Prepares(w, R, S, Q, V, W, L, n, m, C, r, key, amount)
    BY <1>1, <1>8, <1>9, <1>11, <1>12, <2>1, <2>4, <2>5, <2>6 DEF Prepares
  <2>8. Staking(S, Q, L, V, m, C)
    BY <1>7, <2>7, PreparesStakes
  <2> QED BY <1>1, <1>4, <1>6, <2>8, StakingNext
<1>14. CASE Moving(before, after, m, n) /\ ~Dealing(before, after, m, n)
  <2>1. /\ r \in DOMAIN R /\ before = R[r] /\ before.status = "player_turn" /\ kind # "wager"
        /\ HandIds(before) \subseteq HandIds(after)
        /\ \A h \in HandIds(after) : h \in HandIds(before) \/ h = n + 1
    BY <1>1, <1>6, <1>14 DEF Moving
  <2>2. RoundOk(before, n) /\ before \in B!Rounds /\ after \in B!Rounds /\ before # None
    <3>1. RoundOk(before, n)
      BY <1>2, <1>6, <2>1 DEF BoardIs
    <3> QED BY <1>1, <3>1 DEF RoundOk, Sorted, B!NoneAssumption
  <2>3. Tidy(before)
    BY <1>7, <2>1 DEF Staking, Tidied
  <2>4. Costs(before, after, key, amount)
    <3>1. Costs(before, after, <<id, kind>>, amount)
      BY <1>1, <2>1, <2>2, PreparedCosts
    <3> QED BY <1>6, <3>1
  <2>5. id \in HandIds(before)
    BY <1>1, <2>1, <2>2, <2>3, PreparedName
  <2>6. key[1] \in HandIds(Q.after) /\ Bill(Q.before) \in Int
    <3>1. Bill(before) \in Int
      BY <2>2, RoundTerms
    <3> QED BY <1>8, <2>1, <2>5, <3>1
  <2>7. Asks(V[w], S, Q, L, m, C)
    <3>1. Q.after.id \in DOMAIN S /\ S[Q.after.id] = Q.after /\ Q.movement.key[1] \in HandIds(Q.after)
      BY <1>8, <1>9, <2>6
    <3> QED BY <1>1, <1>8, <1>10, <3>1, PendingAsks
  <2>8. /\ Q.before # None /\ Q.before = R[r] /\ Costs(Q.before, Q.after, key, amount)
        /\ \A h \in HandIds(Q.after) : h \in HandIds(Q.before) \/ h = n + 1
    BY <1>8, <2>1, <2>2, <2>4
  <2>9. Prepares(w, R, S, Q, V, W, L, n, m, C, r, key, amount)
    BY <1>1, <1>8, <1>9, <1>11, <1>12, <2>1, <2>6, <2>7, <2>8 DEF Prepares
  <2>10. Staking(S, Q, L, V, m, C)
    BY <1>7, <2>9, PreparesStakes
  <2> QED BY <1>1, <1>4, <1>6, <2>10, StakingNext
<1> QED BY <1>1, <1>13, <1>14

LEMMA InitStakes ==
  ASSUME B!TableAssumption, B!Init
  PROVE  TableStakes
<1>1. PICK rules \in RuleSets : doc = [rules |-> rules, rounds |-> B!Empty, pending |-> None]
  BY DEF B!Init
<1>2. PICK R, P, L, W, n, C :
         R = doc.rounds /\ P = doc.pending /\ L = rows /\ W = work /\ n = ids /\ C = contested
  OBVIOUS
<1>3. DOMAIN R = {} /\ P = None /\ DOMAIN L = {} /\ W = [w \in Workers |-> None]
  BY <1>1, <1>2 DEF B!Init, B!Empty
<1>4. Tidied(R, P) /\ Covered(R, P, L, C) /\ Pledged(P, L, C)
  BY <1>3 DEF Tidied, Covered, Pledged
<1>5. \A v \in Workers : Asks(W[v], R, P, L, n, C)
  BY <1>3 DEF Asks
<1>6. Staking(R, P, L, W, n, C)
  BY <1>3, <1>4, <1>5 DEF Staking
<1> QED BY <1>2, <1>6 DEF TableStakes

LEMMA StepStakes ==
  ASSUME B!TableAssumption, B!NoneAssumption, TableTypes, TableMoney, TableStakes, [B!Next]_(B!vars)
  PROVE  TableStakes'
<1>1. ASSUME NEW w \in Workers, B!LoadMutationState(w) PROVE TableStakes'
  BY <1>1, LoadStakes
<1>2. ASSUME NEW w \in Workers, B!CommitRoundTransition(w) PROVE TableStakes'
  BY <1>2, CommitStakes
<1>3. ASSUME NEW w \in Workers, B!PrepareMoneyTransition(w) PROVE TableStakes'
  BY <1>3, PrepareStakes
<1>4. ASSUME NEW w \in Workers, B!UpdateTableSettings(w) \/ B!Refuse(w) PROVE TableStakes'
  BY <1>4, SettingsStakes
<1>5. ASSUME NEW w \in Workers, B!SettlePreparedAction(w) PROVE TableStakes'
  BY <1>5, SettleStakes
<1>6. ASSUME NEW w \in Workers, B!Complete(w) PROVE TableStakes'
  BY <1>6, CompleteStakes
<1>7. ASSUME NEW w \in Workers, B!Classify(w) PROVE TableStakes'
  BY <1>7, ClassifyStakes
<1>8. ASSUME NEW w \in Workers, B!RollbackPreparedAction(w) PROVE TableStakes'
  BY <1>8, RollbackStakes
<1>9. ASSUME NEW w \in Workers, B!PayHand(w) PROVE TableStakes'
  BY <1>9, PayStakes
<1>10. ASSUME NEW w \in Workers, B!Finalize(w) PROVE TableStakes'
  BY <1>10, FinalizeStakes
<1>11. ASSUME NEW w \in Workers, B!Fail(w) PROVE TableStakes'
  BY <1>11, FailStakes
<1>12. CASE UNCHANGED B!vars
  BY <1>12 DEF B!vars, TableStakes
<1> QED BY <1>1, <1>2, <1>3, <1>4, <1>5, <1>6, <1>7, <1>8, <1>9, <1>10, <1>11, <1>12
        DEF B!Next, B!Step

LEMMA StakesAreCovered ==
  ASSUME B!TableAssumption, TableTypes, TableStakes
  PROVE  B!StakesCoverBets
<1>1. SUFFICES ASSUME NEW r \in B!Staked
               PROVE  B!Stakes(r) = B!Bets(doc.rounds[r]) - Wager * B!FreeHands(doc.rounds[r])
  BY DEF B!StakesCoverBets
<1>2. r \in DOMAIN doc.rounds /\ r \notin contested /\ (doc.pending # None => doc.pending.after.id # r)
  BY <1>1 DEF B!Staked
<1>3. Paid(rows, r) = Bill(doc.rounds[r])
  <2>1. Covered(doc.rounds, doc.pending, rows, contested)
    BY DEF TableStakes, Staking
  <2> QED BY <1>2, <2>1 DEF Covered, Covers
<1>4. doc.rounds[r] \in B!Rounds
  BY <1>2 DEF TableTypes, DocIs, BoardIs, RoundOk, Sorted
<1>5. Bill(doc.rounds[r]) = B!Bets(doc.rounds[r]) - Wager * B!FreeHands(doc.rounds[r])
  BY <1>4, BillIs
<1>6. B!RowsOf(r, B!Kinds \ {"settlement"}) = Debits(rows, r)
  <2>1. \A k \in DOMAIN rows : k[2] \in B!Kinds
    BY DEF TableTypes, LedgerIs
  <2> QED BY <2>1 DEF B!RowsOf, Debits
<1>7. B!Stakes(r) = Paid(rows, r)
  <2>1. Summed(rows)
    BY LedgerSummed DEF TableTypes
  <2>2. PICK T : T = Debits(rows, r)
    OBVIOUS
  <2>3. IsFiniteSet(T) /\ \A k \in T : rows[k].amount \in Int
    <3>1. T \subseteq DOMAIN rows
      BY <2>2 DEF Debits
    <3> QED BY <2>1, <3>1, FS_Subset DEF Summed
  <2>4. B!MapThenSumSet(LAMBDA k : -rows[k].amount, T) = Total(StakesOf(rows, T))
    BY <2>3, StakesAre
  <2> QED BY <1>6, <2>2, <2>4 DEF B!Stakes, Paid
<1> QED BY <1>3, <1>5, <1>7

(* The money of Blackjack: every bet on the table has been debited once, but  *)
(* for the hand a second split of the same hand adds for nothing; every       *)
(* return is paid as it was decided; nothing else is in the ledger. It holds  *)
(* whichever request died, failed, lost an answer or ran against another's    *)
(* rollback (prepare_money_transition, settle_prepared_action,                *)
(* finish_if_needed).                                                         *)
THEOREM BlackjackMoney ==
  ASSUME B!TableAssumption, B!NoneAssumption, Wager # 1
  PROVE  B!Spec => []B!MoneyMatchesHands
<1>1. B!Init => TableTypes /\ TableMoney /\ TableStakes
  BY InitTyped, InitMoney, InitStakes
<1>2. TableTypes /\ TableMoney /\ TableStakes /\ [B!Next]_(B!vars)
         => TableTypes' /\ TableMoney' /\ TableStakes'
  BY StepTyped, StepMoney, StepStakes
<1>3. TableTypes /\ TableMoney /\ TableStakes => B!MoneyMatchesHands
  BY MoneyIsReturned, MoneyIsNotStray, StakesAreCovered DEF B!MoneyMatchesHands
<1> QED BY <1>1, <1>2, <1>3, PTL DEF B!Spec
===============================================================================
