----------------------------- MODULE Onboarding -----------------------------
(***************************************************************************)
(* Signup and invitations of one mailbox side by side: they share the      *)
(* token document, the user document and the workers, and each may make    *)
(* the mailbox's account.                                                  *)
(***************************************************************************)
EXTENDS EmailEnrollment, Invitations, FiniteSets

vars == <<tokens, mailed, reserved, users, job, deliveries, rows, invites, history>>

Init ==
    /\ TokensInit /\ IdentityInit
    /\ rows = <<>> /\ invites = <<>>

SignupWorker(w) ==
    /\ history.serves[w] = "signup"
    /\ SignupRequest(w) \/ SignupStep(w)
    /\ UNCHANGED <<invites, history>>

InvitationWorker(w) ==
    /\ history.serves[w] = "invitation"
    /\ InviteRequest(w) \/ InviteStep(w)
    /\ UNCHANGED <<rows, history>>

WorkerDies(w) == Die(w) /\ UNCHANGED <<rows, invites, history>>

TimePasses ==
    /\ \/ \E r \in DOMAIN rows : AgeRow(r) /\ UNCHANGED invites
       \/ \E i \in DOMAIN invites : AgeInvite(i) /\ UNCHANGED rows
       \/ \E t \in DOMAIN tokens :
                ExpireToken(t) /\ UNCHANGED <<reserved, users, job, deliveries, rows, invites>>
    /\ UNCHANGED history

Next ==
    \/ \E w \in Worker : SignupWorker(w) \/ InvitationWorker(w) \/ WorkerDies(w)
    \/ TimePasses

Spec == Init /\ [][Next]_vars

\* Who claimed and saw the token consumed, but has no account yet.  It cannot
\* have one if the other flow made the mailbox's account first, or an earlier
\* claim of the invitation that was taken over, given up and claimed again
\* under the same key.  Neither can it when, in that same race, a resend
\* replaced the token it claimed with.
Waiting ==
    {q \in mailed \X Browser :
        \/ \E r \in DOMAIN rows :
                /\ rows[r].status = "verifying"
                /\ rows[r].ver = [phase |-> "token_consumed", tok |-> q[1], by |-> q[2]]
                /\ \A u \in users : u.flow = "signup"
        \/ \E i \in DOMAIN invites :
                /\ invites[i].status = "redeeming" /\ invites[i].token = q[1]
                /\ invites[i].red = [phase |-> "token_consumed", tok |-> q[1], by |-> q[2],
                                     uid |-> invites[i].red.uid]
                /\ \A u \in users : u.flow = "invitation" /\ u.uid = invites[i].red.uid}

\* They ask again, with the same key.
AskAgain ==
    \E w \in Worker : \E q \in Waiting :
        \/ history.serves[w] = "signup" /\ Verify(w, q[1], q[2]) /\ UNCHANGED <<invites, history>>
        \/ history.serves[w] = "invitation" /\ Redeem(w, q[1], q[2]) /\ UNCHANGED <<rows, history>>

\* A worker that was given a request goes on with it.
GoesOn(w) ==
    \/ SignupStep(w) /\ UNCHANGED <<invites, history>>
    \/ InviteStep(w) /\ UNCHANGED <<rows, history>>

\* Workers go on, stop dying one day, and the client that holds the key asks
\* again until it is answered.
FairSpec ==
    /\ Spec
    /\ \A w \in Worker : WF_vars(GoesOn(w))
    /\ SF_vars(AskAgain)
    /\ <>[][\A w \in Worker : ~WorkerDies(w)]_vars

-----------------------------------------------------------------------------
TypeOK == TokensTypeOK /\ IdentityTypeOK /\ EnrollmentTypeOK /\ InvitationsTypeOK

\* The enrollment or invitation an account was made from consumed a token that
\* was mailed to the mailbox.
Proved(u) ==
    \/ /\ u.flow = "signup"
       /\ LET r == rows[u.row] IN
            /\ r.status \in {"verifying", "complete"}
            /\ r.ver.phase \in {"token_consumed", "complete"}
            /\ r.ver.tok = r.token /\ r.token \in mailed
            /\ tokens[r.token].state = "consumed" /\ tokens[r.token].by = r.ver.by
    \/ /\ u.flow = "invitation"
       /\ LET i == invites[u.row] IN
            /\ i.status \in {"redeeming", "redeemed"}
            /\ i.red.phase \in {"token_consumed", "complete"}
            /\ i.red.tok \in mailed
            /\ tokens[i.red.tok].state = "consumed" /\ tokens[i.red.tok].by = i.red.by

Complete(u) == u.status = "active" /\ u.player = "active" /\ u.funded

\* A mailbox has one account however signups and redemptions race, take each
\* other over or are cancelled; it was proved by a bearer that was mailed, and
\* what is reported as enrolled is an active, funded account.
AccountsAreProved ==
    /\ Cardinality(users) <= 1
    /\ \A u \in users : Proved(u)
    /\ \A r \in DOMAIN rows : rows[r].status = "complete" =>
            \E u \in users : u.flow = "signup" /\ u.row = r /\ Complete(u)
    /\ \A i \in DOMAIN invites : invites[i].status = "redeemed" =>
            \E u \in users : /\ u.flow = "invitation" /\ u.row = i
                            /\ u.uid = invites[i].red.uid /\ Complete(u)

Working == {t \in DOMAIN tokens : tokens[t].purpose = "signup" /\ Active(t)}

\* A signup has one working bearer at a time, and one that its row was given
\* is lost only to time, to its use, to a cancellation, or to a successor that
\* was mailed.  (The exception: the repair of an overdue first delivery that
\* finished after the repair had read it.)
Superseded(p) ==
    \/ tokens'[p].expired \/ tokens'[p].state = "consumed"
    \/ \E c \in Working' : tokens'[c].pred = p /\ c \in mailed
    \/ \E r \in DOMAIN rows : rows[r].token = p /\ rows[r].status = "cancelled"
    \/ \E w \in Worker : job[w].again /\ At(w, "drop") /\ job[w].tok = p /\ job[w].want = 0

BearerHandover ==
    [][/\ Cardinality(Working') <= 1
       /\ \A r \in DOMAIN rows :
            rows[r].token \in Working \ Working' => Superseded(rows[r].token)]_vars

\* Once a cancellation is acknowledged neither the bearer it was asked with
\* nor a successor promoted meanwhile works.  (The exception: the bearer was
\* replaced after it was authorized, and the repair of the overdue delivery of
\* its successor took the row back, which no longer names the successor.)
Orphaned(w) == RevokeCurrent(w) /\ tokens[job[w].tok].state = "revoked"

CancelledIsDead ==
    [][\A w \in Worker :
        (RevokeCurrent(w) \/ RevokeCandidate(w)) /\ job'[w] = NoJob =>
            /\ \A t \in Working' : t # job[w].tok
            /\ Orphaned(w) \/ \A t \in Working' : tokens'[t].pred # job[w].tok]_vars

\* A claim whose token was consumed ends in an account, whatever dies in
\* between, as long as its client asks again.
ConsumedIsFinished == Waiting # {} ~> Waiting = {}
=============================================================================
