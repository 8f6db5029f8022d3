--------------------------- MODULE EmailEnrollment ---------------------------
(***************************************************************************)
(* Verified-email signup for one mailbox (casino/core/pending_enrollment.py *)
(* over one_time_tokens, auth and players).  A request is a sequence of    *)
(* atomic document updates; workers interleave between them and may die.   *)
(*                                                                         *)
(* A request first reconciles a delivery it finds unfinished.  One that    *)
(* found nothing to repair acts at any later time on rows it reads anew,   *)
(* so a request may act in every state.  Left out: rate limits and         *)
(* malformed input (refused without effect), the replay of a resend        *)
(* (acknowledged without effect), and the 30 day pruning of finished rows. *)
(***************************************************************************)
EXTENDS MailboxIdentity

VARIABLE rows       \* the enrollments, oldest first; an id is a place

\* cand: the candidate token the replacement record names, 0 for none.  The
\* predecessor it names is always the row's own token.  aged: the time that
\* matters in this status has passed since updated_at (the delivery recovery
\* window, or the resend cooldown).
NoDelivery == [phase |-> "none", cand |-> 0]
NoVerification == [phase |-> "none", tok |-> 0, by |-> NoBrowser]
NewRow == [status |-> "reserved", gen |-> 0, token |-> 0,
           rep |-> NoDelivery, ver |-> NoVerification, aged |-> FALSE]

Open == {"reserved", "issuing", "delivery_pending", "pending", "verifying"}
Status == Open \union {"delivery_failed", "complete", "cancelled"}

Row == [status : Status, gen : Nat, token : Nat,
        rep : [phase : {"none", "preparing", "candidate_prepared", "delivered", "promoted"},
               cand : Nat],
        ver : [phase : {"none", "claimed", "token_consumed", "complete"},
               tok : Nat, by : Browser \union {NoBrowser}],
        aged : BOOLEAN]

othersUnchanged == UNCHANGED <<tokens, mailed, reserved, users, deliveries>>

At(w, place) == job[w].flow = "signup" /\ job[w].at = place
MyRow(w) == rows[job[w].row]
MyRowTo(w, r) == rows' = [rows EXCEPT ![job[w].row] = [r EXCEPT !.aged = FALSE]]
First(S) == CHOOSE r \in S : \A q \in S : r <= q

-----------------------------------------------------------------------------
(* Delivering a token: _reconcile_delivery, _deliver, _finish_delivery     *)

\* The delivered are promoted at once, the others dropped when they are old.
NeedsRepair(row) ==
    /\ row.status \in {"issuing", "delivery_pending"}
    /\ (row.rep.phase \in {"delivered", "promoted"} \/ row.aged)

\* A request starts, reads the rows and acts later on what it read.
Reconcile(w) ==
    /\ job[w] = NoJob
    /\ LET S == {r \in DOMAIN rows : rows[r].status \in {"issuing", "delivery_pending"}}
           r == First(S)
           row == rows[r]
           sent == row.rep.phase \in {"delivered", "promoted"}
       IN  /\ S # {} /\ NeedsRepair(row)
           /\ job' = [job EXCEPT ![w] = [NoJob EXCEPT
                    !.at = IF sent THEN IF row.token # 0 THEN "promote" ELSE "accept"
                           ELSE IF row.rep.cand # 0 THEN "drop" ELSE "reject",
                    !.flow = "signup", !.row = r, !.gen = row.gen,
                    !.tok = row.rep.cand, !.want = row.token, !.again = TRUE]]
    /\ UNCHANGED rows
    /\ othersUnchanged

Deliverable(row) == row.status \in {"reserved", "pending", "delivery_failed"}

Begin(w) ==
    /\ At(w, "begin")
    /\ IF Deliverable(MyRow(w)) /\ MayDeliver
       THEN /\ MyRowTo(w, [MyRow(w) EXCEPT !.status = "issuing", !.gen = @ + 1,
                                           !.rep = [phase |-> "preparing", cand |-> 0]])
            /\ job' = [job EXCEPT ![w].at = "mint", ![w].gen = MyRow(w).gen + 1,
                                  ![w].want = MyRow(w).token]
            /\ CountDelivery
       ELSE Answer(w) /\ UNCHANGED <<rows, deliveries>>
    /\ UNCHANGED <<tokens, mailed, reserved, users>>

\* issue, or prepare_candidate beside the predecessor (job.want from here on);
\* a refusal leaves the row to a later reconciliation.
Mint(w) ==
    /\ At(w, "mint")
    /\ LET pred == job[w].want IN
       \/ /\ IF pred = 0 THEN MayIssue("signup") ELSE MayPrepare("signup", pred)
          /\ tokens' = IF pred = 0 THEN Issued("signup") ELSE Prepared("signup", pred)
          /\ job' = [job EXCEPT ![w].at = "record", ![w].tok = Len(tokens) + 1]
       \/ /\ ~IF pred = 0 THEN MayIssue("signup") ELSE MayPrepare("signup", pred)
          /\ UNCHANGED tokens
          /\ Answer(w)
    /\ UNCHANGED <<rows, mailed, reserved, users, deliveries>>

\* The row is still in this delivery, at this phase.
Delivering(w, status, phase) ==
    /\ MyRow(w).status = status /\ MyRow(w).gen = job[w].gen
    /\ MyRow(w).rep.phase = phase
    /\ phase # "preparing" => MyRow(w).rep.cand = job[w].tok

\* token_ready.
RecordCandidate(w) ==
    /\ At(w, "record")
    /\ IF Delivering(w, "issuing", "preparing")
       THEN /\ MyRowTo(w, [MyRow(w) EXCEPT !.status = "delivery_pending",
                                !.rep = [phase |-> "candidate_prepared", cand |-> job[w].tok]])
            /\ Goto(w, "submit")
       ELSE Goto(w, "dropUnrecorded") /\ UNCHANGED rows
    /\ othersUnchanged

\* The mail service answers that it sent the mail, that it did not (which it
\* may also say of a mail that arrived), or raises.
Submit(w) ==
    /\ At(w, "submit")
    /\ \/ /\ mailed' = mailed \union {job[w].tok}
          /\ Goto(w, "recordSent")
       \/ /\ mailed' \in {mailed, mailed \union {job[w].tok}}
          /\ \E place \in {"recordUnsent", "drop"} : Goto(w, place)
    /\ UNCHANGED <<rows, tokens, reserved, users, deliveries>>

\* provider_recorded.
RecordReceipt(w) ==
    /\ \/ /\ At(w, "recordSent")
          /\ Delivering(w, "delivery_pending", "candidate_prepared")
          /\ MyRowTo(w, [MyRow(w) EXCEPT !.rep.phase = "delivered"])
          /\ Goto(w, IF job[w].want # 0 THEN "promote" ELSE "recordPromoted")
       \/ /\ At(w, "recordUnsent")
          /\ Delivering(w, "delivery_pending", "candidate_prepared")
          /\ MyRowTo(w, MyRow(w))
          /\ Goto(w, "drop")
       \/ /\ At(w, "recordSent") \/ At(w, "recordUnsent")
          /\ ~Delivering(w, "delivery_pending", "candidate_prepared")
          /\ UNCHANGED rows
          /\ Answer(w)
    /\ othersUnchanged

\* promote_candidate, by the delivery itself or by a reconciliation.
Promote(w) ==
    /\ At(w, "promote")
    /\ LET c == job[w].tok
           p == job[w].want
       IN  /\ tokens' = IF MayPromote(c, p) THEN Promoted(c, p) ELSE tokens
           /\ Goto(w, IF MayPromote(c, p) \/ WasPromoted(c, p)
                      THEN IF job[w].again THEN "accept" ELSE "recordPromoted"
                      ELSE "discard")
    /\ UNCHANGED <<rows, mailed, reserved, users, deliveries>>

\* The token is not to be used: a candidate is discarded, a first token
\* revoked; one that could not be promoted is only discarded.
Drop(w) ==
    /\ \E place \in {"drop", "dropUnrecorded", "discard"} : At(w, place)
    /\ tokens' = IF job[w].want # 0 \/ At(w, "discard")
                 THEN Discarded(job[w].tok) ELSE Revoked(job[w].tok)
    /\ Goto(w, IF At(w, "dropUnrecorded") THEN "rejectUnrecorded" ELSE "reject")
    /\ UNCHANGED <<rows, mailed, reserved, users, deliveries>>

\* promoted.
RecordPromoted(w) ==
    /\ At(w, "recordPromoted")
    /\ IF Delivering(w, "delivery_pending", "delivered")
       THEN MyRowTo(w, [MyRow(w) EXCEPT !.rep.phase = "promoted"]) /\ Goto(w, "accept")
       ELSE Answer(w) /\ UNCHANGED rows
    /\ othersUnchanged

\* _finish_delivery: the row is still in this delivery, whatever its phase.
Finishing(w, cand) ==
    /\ MyRow(w).status \in {"issuing", "delivery_pending"} /\ MyRow(w).gen = job[w].gen
    /\ MyRow(w).rep.cand = cand

Finish(w) ==
    LET cand == IF At(w, "rejectUnrecorded") THEN 0 ELSE job[w].tok IN
    /\ \/ /\ At(w, "accept") /\ Finishing(w, cand)
          /\ MyRowTo(w, [MyRow(w) EXCEPT !.status = "pending", !.token = cand, !.rep = NoDelivery])
       \/ /\ At(w, "reject") \/ At(w, "rejectUnrecorded")
          /\ Finishing(w, cand)
          /\ MyRowTo(w, [MyRow(w) EXCEPT !.rep = NoDelivery,
                            !.status = IF MyRow(w).token # 0 THEN "pending" ELSE "delivery_failed"])
       \/ /\ \E place \in {"accept", "reject", "rejectUnrecorded"} : At(w, place)
          /\ ~Finishing(w, cand)
          /\ UNCHANGED rows
    /\ Answer(w)
    /\ othersUnchanged

-----------------------------------------------------------------------------
(* initiate, resend, cancel                                                *)

Deliver(w, r) ==
    job' = [job EXCEPT ![w] = [NoJob EXCEPT !.at = "begin", !.flow = "signup", !.row = r]]

\* A new idempotency key; suppressed while the mailbox has an open signup.
Initiate(w) ==
    /\ job[w] = NoJob /\ Len(rows) < history.signups
    /\ \A r \in DOMAIN rows : rows[r].status \notin Open
    /\ rows' = Append(rows, NewRow)
    /\ Deliver(w, Len(rows) + 1)
    /\ othersUnchanged

\* The idempotency key of row r again.
InitiateAgain(w, r) ==
    /\ job[w] = NoJob
    /\ rows[r].status \notin {"issuing", "delivery_pending", "pending", "complete", "cancelled"}
    /\ Deliver(w, r)
    /\ UNCHANGED rows
    /\ othersUnchanged

\* The first row that waits for its bearer, after the cooldown.
Resend(w) ==
    /\ job[w] = NoJob
    /\ LET S == {r \in DOMAIN rows : rows[r].status \in {"pending", "delivery_failed"}}
       IN  S # {} /\ rows[First(S)].aged /\ Deliver(w, First(S))
    /\ UNCHANGED rows
    /\ othersUnchanged

Cancellable == {"issuing", "delivery_pending", "pending"}

\* classify looks at the mailbox's first row only.
Cancel(w, t) ==
    /\ job[w] = NoJob
    /\ rows # <<>> /\ rows[1].status \in Cancellable
    /\ job' = [job EXCEPT ![w] = [NoJob EXCEPT !.at = "authorize", !.flow = "signup",
                                    !.row = 1, !.gen = rows[1].gen, !.tok = t]]
    /\ UNCHANGED rows
    /\ othersUnchanged

\* authorize_active.
Authorize(w) ==
    /\ At(w, "authorize")
    /\ IF Active(job[w].tok) THEN Goto(w, "cancelRow") ELSE Answer(w)
    /\ UNCHANGED rows
    /\ othersUnchanged

MayCancel(w) ==
    /\ MyRow(w).status \in Cancellable /\ MyRow(w).gen = job[w].gen
    /\ MyRow(w).token = job[w].tok

\* cancel_row; job.want keeps the candidate of a delivery under way.
CancelRow(w) ==
    /\ At(w, "cancelRow")
    /\ IF MayCancel(w)
       THEN /\ job' = [job EXCEPT ![w].at = "revoke", ![w].want = MyRow(w).rep.cand]
            /\ MyRowTo(w, [MyRow(w) EXCEPT !.status = "cancelled", !.rep = NoDelivery])
       ELSE Answer(w) /\ UNCHANGED rows
    /\ othersUnchanged

RevokeCurrent(w) ==
    /\ At(w, "revoke")
    /\ tokens' = Revoked(job[w].tok)
    /\ IF job[w].want = 0 THEN Answer(w) ELSE Goto(w, "revokeCandidate")
    /\ UNCHANGED <<rows, mailed, reserved, users, deliveries>>

\* Mutant of Withdrawn: one that was promoted meanwhile stays.
WithdrawnUnpromoted(c) == Discarded(c)

\* Discarded, or, when a promotion was faster, revoked.
Withdrawn(c) == IF tokens[c].state = "candidate" THEN Discarded(c) ELSE Revoked(c)

RevokeCandidate(w) ==
    /\ At(w, "revokeCandidate")
    /\ tokens' = Withdrawn(job[w].want)
    /\ Answer(w)
    /\ UNCHANGED <<rows, mailed, reserved, users, deliveries>>

-----------------------------------------------------------------------------
(* verify                                                                  *)

\* The claim is under the key of this browser for this token.
MyClaim(w) == MyRow(w).ver.tok = job[w].tok /\ MyRow(w).ver.by = job[w].by

\* claim: the row of this key first, then the first that is pending.
Verify(w, t, b) ==
    /\ job[w] = NoJob
    /\ LET mine == {r \in DOMAIN rows : rows[r].status \in {"verifying", "complete"}
                                        /\ rows[r].ver.tok = t /\ rows[r].ver.by = b}
           free == {r \in DOMAIN rows : rows[r].status = "pending"}
           r == First(IF mine # {} THEN mine ELSE free)
       IN  /\ mine \union free # {} /\ rows[r].status # "complete"
           /\ rows' = IF rows[r].status = "verifying" THEN rows
                      ELSE [rows EXCEPT ![r].status = "verifying", ![r].aged = FALSE,
                                ![r].ver = [phase |-> "claimed", tok |-> t, by |-> b]]
           /\ job' = [job EXCEPT ![w] = [NoJob EXCEPT
                    !.at = "reserve", !.flow = "signup", !.row = r, !.tok = t,
                    !.by = b, !.want = rows[r].token]]
    /\ othersUnchanged

Reserve(w) ==
    /\ At(w, "reserve")
    /\ IF MayReserve(job[w])
       THEN reserved' = Of(job[w]) /\ Goto(w, "consume")
       ELSE Goto(w, "abandon") /\ UNCHANGED reserved
    /\ UNCHANGED <<rows, tokens, mailed, users, deliveries>>

\* consume happens before its token is compared with the row's.
Consume(w) ==
    /\ At(w, "consume")
    /\ LET t == job[w].tok
           may == MayConsume(t, job[w].by)
       IN  /\ tokens' = IF may THEN Consumed(t, job[w].by) ELSE tokens
           /\ Goto(w, IF may /\ t = job[w].want THEN "consumed" ELSE "abandon")
    /\ UNCHANGED <<rows, mailed, reserved, users, deliveries>>

MayAbandon(w) ==
    MyRow(w).status = "verifying" /\ MyRow(w).ver.phase = "claimed" /\ MyClaim(w)

Abandon(w) ==
    /\ At(w, "abandon")
    /\ IF MayAbandon(w)
       THEN MyRowTo(w, [MyRow(w) EXCEPT !.status = "pending", !.ver = NoVerification])
       ELSE UNCHANGED rows
    /\ Goto(w, "release")
    /\ othersUnchanged

Release(w) ==
    /\ At(w, "release")
    /\ reserved' = Released(job[w])
    /\ Answer(w)
    /\ UNCHANGED <<rows, tokens, mailed, users, deliveries>>

\* token_consumed.
RecordConsumed(w) ==
    /\ At(w, "consumed")
    /\ IF MyRow(w).status = "verifying" /\ MyClaim(w)
       THEN MyRowTo(w, [MyRow(w) EXCEPT !.ver.phase = "token_consumed"]) /\ Goto(w, "provision")
       ELSE Answer(w) /\ UNCHANGED rows
    /\ othersUnchanged

Provision(w) ==
    /\ At(w, "provision")
    /\ IF MayProvision(job[w])
       THEN users' = Provisioned(job[w]) /\ Goto(w, "player")
       ELSE Answer(w) /\ UNCHANGED users
    /\ UNCHANGED <<rows, tokens, mailed, reserved, deliveries>>

\* The player, its balance, its activation: three updates.
FundPlayer(w) ==
    /\ \/ At(w, "player") /\ Update(job[w], PlayerEnsured) /\ Goto(w, "credit")
       \/ At(w, "credit") /\ Update(job[w], Credited) /\ Goto(w, "activatePlayer")
       \/ At(w, "activatePlayer") /\ Update(job[w], PlayerActivated) /\ Goto(w, "activateUser")
    /\ UNCHANGED <<rows, tokens, mailed, reserved, deliveries>>

\* activate_verified_email_user.
ActivateUser(w) ==
    /\ At(w, "activateUser")
    /\ Update(job[w], Activated)
    /\ reserved' = IF SameRow(reserved, job[w]) THEN NoReservation ELSE reserved
    /\ Goto(w, "finalize")
    /\ UNCHANGED <<rows, tokens, mailed, deliveries>>

Finalize(w) ==
    /\ At(w, "finalize")
    /\ IF MyRow(w).status = "verifying" /\ MyClaim(w)
       THEN MyRowTo(w, [MyRow(w) EXCEPT !.status = "complete", !.ver.phase = "complete"])
       ELSE UNCHANGED rows
    /\ Answer(w)
    /\ othersUnchanged

-----------------------------------------------------------------------------
\* What a request does once it was started.
DeliveryStep(w) ==
    \/ Begin(w) \/ Mint(w) \/ RecordCandidate(w) \/ Submit(w) \/ RecordReceipt(w)
    \/ Promote(w) \/ Drop(w) \/ RecordPromoted(w) \/ Finish(w)

CancelStep(w) == Authorize(w) \/ CancelRow(w) \/ RevokeCurrent(w) \/ RevokeCandidate(w)

VerifyStep(w) ==
    \/ Reserve(w) \/ Consume(w) \/ Abandon(w) \/ Release(w) \/ RecordConsumed(w)
    \/ Provision(w) \/ FundPlayer(w) \/ ActivateUser(w) \/ Finalize(w)

SignupRequest(w) ==
    \/ Reconcile(w) \/ Initiate(w) \/ Resend(w)
    \/ \E r \in DOMAIN rows : InitiateAgain(w, r)
    \/ \E t \in mailed : tokens[t].purpose = "signup" /\
            (Cancel(w, t) \/ \E b \in Browser : Verify(w, t, b))

SignupStep(w) == DeliveryStep(w) \/ CancelStep(w) \/ VerifyStep(w)

\* Time passes for a row.
AgeRow(r) ==
    /\ rows[r].status \in {"issuing", "delivery_pending", "pending", "delivery_failed"}
    /\ ~rows[r].aged
    /\ rows' = [rows EXCEPT ![r].aged = TRUE]
    /\ UNCHANGED job /\ othersUnchanged

EnrollmentTypeOK == rows \in Seq(Row) /\ Len(rows) <= history.signups
=============================================================================
