----------------------------- MODULE Invitations -----------------------------
(***************************************************************************)
(* Invitations of one mailbox (casino/core/invitations.py over             *)
(* one_time_tokens, auth and players): creation, resend and revocation by  *)
(* an administrator, redemption by whoever reads the mail.  A request is a *)
(* sequence of atomic document updates, as in EmailEnrollment.             *)
(*                                                                         *)
(* Left out: rate limits and malformed input, the replay of a resend or a  *)
(* revocation (answered without effect), and the pruning of rows a year    *)
(* after they ended.                                                       *)
(***************************************************************************)
EXTENDS MailboxIdentity

VARIABLE invites    \* the invitations, oldest first; an id is a place

\* red: the redemption.  ids: how many user and player ids were drawn.  aged:
\* the time that matters in this status has passed (the resend cooldown, or
\* the claim timeout of a delivery or a redemption).
NoRedemption == [phase |-> "none", tok |-> 0, by |-> NoBrowser, uid |-> 0]
NewInvite == [status |-> "reserved", gen |-> 0, token |-> 0,
              red |-> NoRedemption, ids |-> 0, aged |-> FALSE]

Invite == [status : {"reserved", "issuing", "delivery_pending", "delivery_failed",
                     "pending", "redeeming", "redeemed", "revoked"},
           gen : Nat, token : Nat,
           red : [phase : {"none", "claimed", "token_consumed", "complete"},
                  tok : Nat, by : Browser \union {NoBrowser}, uid : Nat],
           ids : Nat, aged : BOOLEAN]

otherUnchanged == UNCHANGED <<tokens, mailed, reserved, users, deliveries>>

Doing(w, place) == job[w].flow = "invitation" /\ job[w].at = place
Mine(w) == invites[job[w].row]
MineTo(w, i) == invites' = [invites EXCEPT ![job[w].row] = [i EXCEPT !.aged = FALSE]]
Earliest(S) == CHOOSE i \in S : \A k \in S : i <= k

Expired(i) == invites[i].status = "pending" /\ tokens[invites[i].token].expired

-----------------------------------------------------------------------------
(* create, resend, revoke, _deliver                                        *)

Send(w, i) ==
    job' = [job EXCEPT ![w] = [NoJob EXCEPT !.at = "begin", !.flow = "invitation", !.row = i]]

\* A new idempotency key, unless an invitation of the mailbox is alive.
Create(w) ==
    /\ job[w] = NoJob /\ Len(invites) < history.invites
    /\ \A i \in DOMAIN invites :
            Expired(i) \/ invites[i].status \in {"delivery_failed", "redeemed", "revoked"}
    /\ invites' = Append(invites, NewInvite)
    /\ Send(w, Len(invites) + 1)
    /\ otherUnchanged

\* The idempotency key of invitation i again.
CreateAgain(w, i) ==
    /\ job[w] = NoJob
    /\ invites[i].status \notin {"pending", "redeemed", "revoked"}
    /\ Send(w, i)
    /\ UNCHANGED invites
    /\ otherUnchanged

ResendInvite(w, i) ==
    /\ job[w] = NoJob
    /\ invites[i].status \in {"pending", "delivery_failed"} /\ invites[i].aged
    /\ Send(w, i)
    /\ UNCHANGED invites
    /\ otherUnchanged

RevokeInvite(w, i) ==
    /\ job[w] = NoJob
    /\ invites[i].status \in {"reserved", "issuing", "delivery_pending", "delivery_failed", "pending"}
    /\ invites' = [invites EXCEPT ![i].status = "revoked", ![i].aged = FALSE]
    /\ job' = [job EXCEPT ![w] =
                IF invites[i].token = 0 THEN NoJob
                ELSE [NoJob EXCEPT !.at = "revoke", !.flow = "invitation", !.row = i,
                                   !.tok = invites[i].token]]
    /\ otherUnchanged

MaySend(row) ==
    \/ row.status \in {"reserved", "delivery_failed", "pending"}
    \/ row.status = "issuing" /\ row.aged

BeginSend(w) ==
    /\ Doing(w, "begin")
    /\ IF MaySend(Mine(w)) /\ MayDeliver
       THEN /\ MineTo(w, [Mine(w) EXCEPT !.status = "issuing", !.gen = @ + 1])
            /\ job' = [job EXCEPT ![w].at = "mint", ![w].gen = Mine(w).gen + 1]
            /\ CountDelivery
       ELSE Answer(w) /\ UNCHANGED <<invites, deliveries>>
    /\ UNCHANGED <<tokens, mailed, reserved, users>>

MintInvite(w) ==
    /\ Doing(w, "mint")
    /\ tokens' = Reissued("invitation")
    /\ job' = [job EXCEPT ![w].at = "record", ![w].tok = Len(tokens) + 1]
    /\ UNCHANGED <<invites, mailed, reserved, users, deliveries>>

\* token_ready.
RecordToken(w) ==
    /\ Doing(w, "record")
    /\ IF Mine(w).status = "issuing" /\ Mine(w).gen = job[w].gen
       THEN /\ MineTo(w, [Mine(w) EXCEPT !.status = "delivery_pending", !.token = job[w].tok])
            /\ Goto(w, "submit")
       ELSE Goto(w, "revoke") /\ UNCHANGED invites
    /\ otherUnchanged

SubmitInvite(w) ==
    /\ Doing(w, "submit")
    /\ \/ mailed' = mailed \union {job[w].tok} /\ Goto(w, "sent")
       \/ /\ mailed' \in {mailed, mailed \union {job[w].tok}}
          /\ \E place \in {"failed", "raised"} : Goto(w, place)
    /\ UNCHANGED <<invites, tokens, reserved, users, deliveries>>

\* revoke of the token service: of a withdrawn invitation's token, of one
\* minted too late, or of one whose mail failed.
RevokeToken(w) ==
    /\ Doing(w, "revoke") \/ Doing(w, "raised")
    /\ tokens' = Revoked(job[w].tok)
    /\ IF Doing(w, "raised") THEN Goto(w, "failed") ELSE Answer(w)
    /\ UNCHANGED <<invites, mailed, reserved, users, deliveries>>

\* delivered, delivery_failed: they look at the row's token, not its status.
RecordSent(w) ==
    /\ Doing(w, "sent") \/ Doing(w, "failed")
    /\ IF Mine(w).token = job[w].tok
       THEN MineTo(w, [Mine(w) EXCEPT
                            !.status = IF Doing(w, "sent") THEN "pending" ELSE "delivery_failed"])
       ELSE UNCHANGED invites
    /\ Answer(w)
    /\ otherUnchanged

-----------------------------------------------------------------------------
(* redeem                                                                  *)

MyRedemption(w) == Mine(w).red.tok = job[w].tok /\ Mine(w).red.by = job[w].by
MyIds(w) == Mine(w).red.uid = job[w].uid

Claim(w, i, red, ids) ==
    /\ invites' = [invites EXCEPT ![i].status = "redeeming", ![i].red = red,
                                  ![i].ids = ids, ![i].aged = FALSE]
    /\ job' = [job EXCEPT ![w] = [NoJob EXCEPT
                    !.at = "reserve", !.flow = "invitation", !.row = i, !.tok = red.tok,
                    !.by = red.by, !.uid = red.uid, !.want = invites[i].token]]

\* A claim that timed out before its token was consumed.
Overdue(i) ==
    invites[i].status = "redeeming" /\ invites[i].red.phase = "claimed" /\ invites[i].aged

\* claim: the redemption of this key, else the first row that is pending (which
\* must not have expired), else a claim that timed out is taken over.
Redeem(w, t, b) ==
    /\ job[w] = NoJob
    /\ LET mine == {i \in DOMAIN invites : invites[i].status \in {"redeeming", "redeemed"}
                                /\ invites[i].red.tok = t /\ invites[i].red.by = b}
           free == {i \in DOMAIN invites : invites[i].status = "pending"}
           late == {i \in DOMAIN invites : Overdue(i)}
       IN  \/ /\ mine # {}
              /\ LET i == Earliest(mine) IN
                 /\ invites[i].status = "redeeming"
                 /\ UNCHANGED invites
                 /\ job' = [job EXCEPT ![w] = [NoJob EXCEPT
                        !.at = "reserve", !.flow = "invitation", !.row = i, !.tok = t,
                        !.by = b, !.uid = invites[i].red.uid, !.want = invites[i].token]]
           \/ /\ mine = {} /\ free # {}
              /\ LET i == Earliest(free)
                     n == invites[i].ids + 1
                 IN  /\ ~Expired(i) /\ n <= history.claims
                     /\ Claim(w, i, [phase |-> "claimed", tok |-> t, by |-> b, uid |-> n], n)
           \/ /\ mine = {} /\ free = {} /\ late # {}
              /\ LET i == Earliest(late) IN
                 Claim(w, i, [invites[i].red EXCEPT !.tok = t, !.by = b], invites[i].ids)
    /\ otherUnchanged

ReserveInvited(w) ==
    /\ Doing(w, "reserve")
    /\ IF MayReserve(job[w])
       THEN reserved' = Of(job[w]) /\ Goto(w, "consume")
       ELSE Goto(w, "abandon") /\ UNCHANGED reserved
    /\ UNCHANGED <<invites, tokens, mailed, users, deliveries>>

ConsumeInvitation(w) ==
    /\ Doing(w, "consume")
    /\ LET t == job[w].tok
           may == MayConsume(t, job[w].by)
       IN  /\ tokens' = IF may THEN Consumed(t, job[w].by) ELSE tokens
           /\ Goto(w, IF may /\ t = job[w].want THEN "consumed" ELSE "abandon")
    /\ UNCHANGED <<invites, mailed, reserved, users, deliveries>>

AbandonRedemption(w) ==
    /\ Doing(w, "abandon")
    /\ IF Mine(w).status = "redeeming" /\ Mine(w).red.phase = "claimed" /\ MyRedemption(w)
       THEN MineTo(w, [Mine(w) EXCEPT !.status = "pending", !.red = NoRedemption])
       ELSE UNCHANGED invites
    /\ Goto(w, "release")
    /\ otherUnchanged

ReleaseInvited(w) ==
    /\ Doing(w, "release")
    /\ reserved' = Released(job[w])
    /\ Answer(w)
    /\ UNCHANGED <<invites, tokens, mailed, users, deliveries>>

\* token_consumed; a redemption this key completed meanwhile is its answer.
RecordRedemption(w) ==
    /\ Doing(w, "consumed")
    /\ IF Mine(w).status = "redeeming" /\ MyRedemption(w)
       THEN MineTo(w, [Mine(w) EXCEPT !.red.phase = "token_consumed"]) /\ Goto(w, "provision")
       ELSE Answer(w) /\ UNCHANGED invites
    /\ otherUnchanged

ProvisionInvited(w) ==
    /\ Doing(w, "provision")
    /\ IF MayProvision(job[w])
       THEN users' = Provisioned(job[w]) /\ Goto(w, "player")
       ELSE Answer(w) /\ UNCHANGED users
    /\ UNCHANGED <<invites, tokens, mailed, reserved, deliveries>>

\* The player, then the activation.
ActivateInvited(w) ==
    /\ \/ /\ Doing(w, "player")
          /\ Update(job[w], PlayerEnsured)
          /\ Goto(w, "activateUser")
          /\ UNCHANGED reserved
       \/ /\ Doing(w, "activateUser")
          /\ Update(job[w], Activated)
          /\ reserved' = IF SameRow(reserved, job[w]) THEN NoReservation ELSE reserved
          /\ Goto(w, "finalize")
    /\ UNCHANGED <<invites, tokens, mailed, deliveries>>

FinalizeRedemption(w) ==
    /\ Doing(w, "finalize")
    /\ IF Mine(w).status = "redeeming" /\ MyRedemption(w) /\ MyIds(w)
       THEN MineTo(w, [Mine(w) EXCEPT !.status = "redeemed", !.red.phase = "complete"])
       ELSE UNCHANGED invites
    /\ Answer(w)
    /\ otherUnchanged

-----------------------------------------------------------------------------
SendStep(w) ==
    BeginSend(w) \/ MintInvite(w) \/ RecordToken(w) \/ SubmitInvite(w) \/ RevokeToken(w)
        \/ RecordSent(w)

RedeemStep(w) ==
    \/ ReserveInvited(w) \/ ConsumeInvitation(w) \/ AbandonRedemption(w) \/ ReleaseInvited(w)
    \/ RecordRedemption(w) \/ ProvisionInvited(w) \/ ActivateInvited(w) \/ FinalizeRedemption(w)

InviteRequest(w) ==
    \/ Create(w)
    \/ \E i \in DOMAIN invites : CreateAgain(w, i) \/ ResendInvite(w, i) \/ RevokeInvite(w, i)
    \/ \E t \in mailed : tokens[t].purpose = "invitation" /\ \E b \in Browser : Redeem(w, t, b)

InviteStep(w) == SendStep(w) \/ RedeemStep(w)

AgeInvite(i) ==
    /\ invites[i].status \in {"issuing", "pending", "delivery_failed", "redeeming"}
    /\ ~invites[i].aged
    /\ invites' = [invites EXCEPT ![i].aged = TRUE]
    /\ UNCHANGED job
    /\ otherUnchanged

InvitationsTypeOK ==
    /\ invites \in Seq(Invite) /\ Len(invites) <= history.invites
    /\ \A i \in DOMAIN invites : invites[i].red.uid <= invites[i].ids
                                  /\ invites[i].ids <= history.claims
=============================================================================
