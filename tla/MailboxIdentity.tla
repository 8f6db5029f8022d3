--------------------------- MODULE MailboxIdentity ---------------------------
(***************************************************************************)
(* The identity of one mailbox that signup and invitations compete for     *)
(* (casino/core/auth.py and players.py), and the workers that serve their  *)
(* requests.  Every operation is one atomic update of the user document or *)
(* the player's; a worker may die between two of them.                     *)
(***************************************************************************)
EXTENDS OneTimeTokens

CONSTANTS
    Worker,     \* threads or processes that serve requests
    Histories   \* bounds: the histories that are looked at

Flow == {"signup", "invitation"}

\* A history says which flow each worker serves, and how many deliveries
\* begin, signups and invitations are made, and identities an invitation draws.
ASSUME HistoriesAssumption ==
    Histories \subseteq [serves : [Worker -> Flow], deliveries : Nat, signups : Nat,
                         invites : Nat, claims : Nat]

VARIABLES
    reserved,   \* the mailbox's reservation
    users,      \* accounts that carry the mailbox, each with its player
    job,        \* what each worker is doing
    deliveries, \* deliveries begun, for the bound
    history     \* the bounds of this history

\* An enrollment or invitation by flow and number; the user and player ids it
\* was given by uid (0 for a signup, which keeps the same; the number of the
\* claim for an invitation, which draws new ones when it is claimed again).
NoReservation == [flow |-> "none", row |-> 0, uid |-> 0]
Reservation == [flow : Flow, row : Nat, uid : Nat] \union {NoReservation}
User == [flow : Flow, row : Nat, uid : Nat,
         status : {"provisioning", "active"},
         player : {"none", "provisioning", "active"}, funded : BOOLEAN]

NoJob == [at |-> "idle", flow |-> "none", row |-> 0, gen |-> 0, tok |-> 0, want |-> 0,
          by |-> NoBrowser, uid |-> 0, again |-> FALSE]

IdentityInit ==
    /\ reserved = NoReservation
    /\ users = {}
    /\ job = [w \in Worker |-> NoJob]
    /\ deliveries = 0
    /\ history \in Histories

Of(j) == [flow |-> j.flow, row |-> j.row, uid |-> j.uid]
SameRow(x, j) == x.flow = j.flow /\ x.row = j.row

\* reserve_invited_identity: the mailbox is free, or already held for this.
MayReserve(j) ==
    /\ \A u \in users : SameRow(u, j)
    /\ reserved \in {NoReservation, Of(j)}

\* release_invited_identity: unless an account was made of it.
Released(j) ==
    IF SameRow(reserved, j) /\ \A u \in users : ~SameRow(u, j)
    THEN NoReservation ELSE reserved

\* provision_verified_email_user, provision_invited_user up to the player: a
\* replay of the same ids, or a new account for a mailbox held for it.
MayProvision(j) ==
    \/ \E u \in users : SameRow(u, j) /\ u.uid = j.uid
    \/ users = {} /\ reserved = Of(j)

Provisioned(j) ==
    IF \E u \in users : SameRow(u, j)
    THEN users
    ELSE users \union {[flow |-> j.flow, row |-> j.row, uid |-> j.uid,
                        status |-> "provisioning", player |-> "none", funded |-> FALSE]}

\* The player, its starting balance (credit_once: JsonLedger) and the two
\* activations; each is repeated without effect.
PlayerEnsured(u) ==
    IF u.player # "none" THEN u
    ELSE IF u.flow = "signup"
         THEN [u EXCEPT !.player = "provisioning"]
         ELSE [u EXCEPT !.player = "active", !.funded = TRUE]
Credited(u) == [u EXCEPT !.funded = TRUE]
PlayerActivated(u) == [u EXCEPT !.player = "active"]

\* Mutant of Activated: the status word of a row in the user document.
ActivatedAsComplete(u) == [u EXCEPT !.status = "complete"]
Activated(u) == [u EXCEPT !.status = "active"]

Update(j, Op(_)) == users' = {IF SameRow(u, j) THEN Op(u) ELSE u : u \in users}

Goto(w, place) == job' = [job EXCEPT ![w].at = place]
Answer(w) == job' = [job EXCEPT ![w] = NoJob]

\* The worker dies: what it wrote stays, what it knew is gone.
Die(w) ==
    /\ job[w] # NoJob
    /\ Answer(w)
    /\ UNCHANGED <<tokens, mailed, reserved, users, deliveries>>

\* A delivery begins; past the bound it ends there, as if its worker had died.
MayDeliver == deliveries < history.deliveries
CountDelivery == deliveries' = deliveries + 1

IdentityTypeOK ==
    /\ history \in Histories /\ deliveries \in 0..history.deliveries
    /\ reserved \in Reservation
    /\ users \subseteq User
    /\ \A w \in Worker :
            /\ job[w].tok \in 0..Len(tokens) /\ job[w].want \in 0..Len(tokens)
            /\ job[w].row \in Nat /\ job[w].gen \in Nat /\ job[w].uid \in Nat
            /\ job[w].by \in Browser \union {NoBrowser}
=============================================================================
