-------------------------- MODULE OnboardingProofs --------------------------
(* That every account of the mailbox was proved by a bearer mailed to it, that *)
(* a signup's bearer is handed over to one successor, and that a cancelled one *)
(* is dead, for any number of workers, browsers, signups and invitations.      *)
(*                                                                             *)
(* A request acts on rows it read earlier, so the invariants say what may have *)
(* happened to them meanwhile: for each place a request may stand at, what it  *)
(* may still count on. Inv says it of accounts: a consumed or revoked token    *)
(* stays so, a row's token is replaced only once it was revoked, a proof is    *)
(* never withdrawn, and an account only makes progress. Bearers says it of the *)
(* tokens a row, a delivery and a cancellation name, on top of Inv.            *)
EXTENDS Onboarding, FiniteSetTheorems, WellFoundedInduction, TLAPS

(* Places a request may stand at.                                              *)
DeliverPlaces == {"mint", "record", "submit", "recordSent", "recordUnsent", "promote",
                  "recordPromoted", "drop", "dropUnrecorded", "discard", "accept", "reject",
                  "rejectUnrecorded"}
CancelPlaces == {"authorize", "cancelRow", "revoke", "revokeCandidate"}
VerifyPlaces == {"reserve", "consume", "abandon", "release", "consumed", "provision", "player",
                 "credit", "activatePlayer", "activateUser", "finalize"}
SendPlaces == {"record", "submit", "sent", "failed", "raised"}
Places == {"idle", "begin"} \union DeliverPlaces \union CancelPlaces \union VerifyPlaces
              \union SendPlaces

Job == [at : Places, flow : Flow \union {"none"}, row : Nat, gen : Nat, tok : Nat, want : Nat,
        by : Browser \union {NoBrowser}, uid : Nat, again : BOOLEAN]

(* References to tokens lead to a token.                                       *)
Ref == 0..Len(tokens)

(* A replacement whose mail was sent names its token.                          *)
Mailed == {"delivered", "promoted"}

TokenTypes == tokens \in Seq(Token) /\ mailed \subseteq DOMAIN tokens
IdentityTypes ==
    /\ history \in Histories /\ deliveries \in 0..history.deliveries
    /\ reserved \in Reservation /\ users \subseteq User
JobTypes ==
    job \in [Worker -> Job] /\ \A w \in Worker : job[w].tok \in Ref /\ job[w].want \in Ref
RowTypes ==
    /\ rows \in Seq(Row) /\ Len(rows) <= history.signups
    /\ \A r \in DOMAIN rows : rows[r].token \in Ref /\ rows[r].rep.cand \in Ref
                              /\ (rows[r].rep.phase \in Mailed => rows[r].rep.cand # 0)
InviteTypes ==
    /\ invites \in Seq(Invite) /\ Len(invites) <= history.invites
    /\ \A i \in DOMAIN invites : /\ invites[i].token \in Ref
                                 /\ invites[i].red.uid <= invites[i].ids
                                 /\ invites[i].ids <= history.claims
Types == TokenTypes /\ IdentityTypes /\ JobTypes /\ RowTypes /\ InviteTypes

(* Bearers that were used, by whom, and rows that saw it.                      *)
UsedBy(t, b) == t \in mailed /\ tokens[t].state = "consumed" /\ tokens[t].by = b
Seen == {"token_consumed", "complete"}
InDelivery == {"issuing", "delivery_pending"}

(* The account a request is making.                                            *)
MyUser(u, w) == SameRow(u, job[w]) /\ u.uid = job[w].uid

SignupSound(w) ==
    LET j == job[w]
        row == rows[j.row]
    IN  /\ j.row \in DOMAIN rows /\ j.uid = 0
        /\ j.at \in {"record", "submit", "recordSent", "promote"} => j.tok # 0
        /\ j.at \in DeliverPlaces =>
              /\ j.gen <= row.gen
              /\ j.gen = row.gen /\ row.status \in InDelivery => row.token = j.want
        /\ j.at \in {"recordPromoted", "accept"} =>
              j.want = 0 \/ tokens[j.want].state = "revoked"
        /\ j.at \in {"reserve", "consume"} /\ j.tok = j.want =>
              row.token = j.tok \/ tokens[j.tok].state = "revoked"
        /\ j.at = "consumed" => row.token = j.tok
        /\ j.at = "provision" => row.ver.phase \in Seen

InvitedSound(w) ==
    LET j == job[w]
    IN  /\ j.row \in DOMAIN invites
        /\ j.at = "provision" => invites[j.row].red.phase \in Seen

JobSound(w) ==
    LET j == job[w]
    IN  /\ j.flow = "none" <=> j = NoJob
        /\ j.flow = "signup" => SignupSound(w)
        /\ j.flow = "invitation" => InvitedSound(w)
        /\ j.at \in {"reserve", "consume"} => j.tok \in mailed
        /\ j.at = "consumed" => UsedBy(j.tok, j.by)
        /\ j.at = "player" => \E u \in users : MyUser(u, w)
        /\ j.at = "credit" => \E u \in users : MyUser(u, w) /\ u.player # "none"
        /\ j.at = "activatePlayer" =>
              \E u \in users : MyUser(u, w) /\ u.player # "none" /\ u.funded
        /\ j.at = "activateUser" =>
              \E u \in users : MyUser(u, w) /\ u.player = "active" /\ u.funded
        /\ j.at = "finalize" => \E u \in users : MyUser(u, w) /\ Complete(u)

(* A row that saw a token consumed was verified with its own token, and one    *)
(* that is complete has its account.                                           *)
RowSound(r) ==
    /\ rows[r].ver.phase \in Seen =>
          /\ rows[r].status \in {"verifying", "complete"}
          /\ rows[r].ver.tok = rows[r].token /\ UsedBy(rows[r].token, rows[r].ver.by)
    /\ rows[r].status = "complete" =>
          \E u \in users : u.flow = "signup" /\ u.row = r /\ Complete(u)

InviteSound(i) ==
    /\ invites[i].red.phase \in Seen =>
          /\ invites[i].status \in {"redeeming", "redeemed"}
          /\ UsedBy(invites[i].red.tok, invites[i].red.by)
    /\ invites[i].status = "redeemed" =>
          \E u \in users : /\ u.flow = "invitation" /\ u.row = i
                          /\ u.uid = invites[i].red.uid /\ Complete(u)

(* An invitation's delivery is the only one of its token, and until it is      *)
(* recorded the invitation cannot be redeemed with it.                         *)
Sending(w) == job[w].flow = "invitation" /\ job[w].at \in SendPlaces
SendersSound ==
    /\ \A v, w \in Worker : Sending(v) /\ Sending(w) /\ job[v].tok = job[w].tok => v = w
    /\ \A w \in Worker : Sending(w) => job[w].tok # 0
    /\ \A w \in Worker : Sending(w) =>
          IF job[w].at = "record"
          THEN \A i \in DOMAIN invites : invites[i].token # job[w].tok
          ELSE invites[job[w].row].token = job[w].tok =>
                  invites[job[w].row].status \in {"delivery_pending", "revoked"}

UserSound(u) ==
    /\ u.flow = "signup" => u.row \in DOMAIN rows /\ rows[u.row].ver.phase \in Seen
    /\ u.flow = "invitation" =>
          /\ u.row \in DOMAIN invites /\ invites[u.row].red.phase \in Seen
          /\ u.player # "none" => u.player = "active" /\ u.funded
UsersSound == (\A u, v \in users : u = v) /\ \A u \in users : UserSound(u)

Inv ==
    /\ Types
    /\ \A w \in Worker : JobSound(w)
    /\ \A r \in DOMAIN rows : RowSound(r)
    /\ \A i \in DOMAIN invites : InviteSound(i)
    /\ SendersSound
    /\ UsersSound

-----------------------------------------------------------------------------
(* How the documents evolve                                                  *)

TokensKept(new) ==
    /\ new \in Seq(Token) /\ Len(tokens) <= Len(new)
    /\ \A t \in DOMAIN tokens :
          /\ tokens[t].state = "revoked" => new[t].state = "revoked"
          /\ tokens[t].state = "consumed" => new[t].state = "consumed" /\ new[t].by = tokens[t].by

(* What a row may turn into. *)
RowKept(row, new) ==
    /\ new.gen \in Nat /\ row.gen <= new.gen
    /\ new.gen = row.gen /\ new.status \in InDelivery =>
          row.status \in InDelivery /\ new.token = row.token
    /\ new.token = row.token \/ row.token = 0 \/ tokens[row.token].state = "revoked"
    /\ row.ver.phase \in Seen => new.ver.phase \in Seen

UserKept(u, new) ==
    /\ new.flow = u.flow /\ new.row = u.row /\ new.uid = u.uid
    /\ u.player # "none" => new.player # "none"
    /\ u.player = "active" => new.player = "active"
    /\ u.funded => new.funded
    /\ u.status = "active" => new.status = "active"

RowsKept == /\ DOMAIN rows \subseteq DOMAIN rows'
            /\ \A r \in DOMAIN rows : RowKept(rows[r], rows'[r])
InvitesKept == /\ DOMAIN invites \subseteq DOMAIN invites'
               /\ \A i \in DOMAIN invites :
                     invites[i].red.phase \in Seen => invites'[i].red.phase \in Seen
UsersKept == \A u \in users : \E new \in users' : UserKept(u, new)

Evolve == /\ TokensKept(tokens') /\ mailed \subseteq mailed'
          /\ RowsKept /\ InvitesKept /\ UsersKept

(* What is left alone evolves.                                               *)
LEMMA TokensSame == TokenTypes /\ UNCHANGED tokens => TokensKept(tokens')
BY DEF TokenTypes, TokensKept

LEMMA RowsSame == RowTypes /\ UNCHANGED rows => RowsKept
<1>1. ASSUME NEW row \in Row PROVE RowKept(row, row)
  BY DEF RowKept, Row
<1>. QED BY <1>1 DEF RowTypes, RowsKept

LEMMA InvitesSame == UNCHANGED invites => InvitesKept
BY DEF InvitesKept

LEMMA UsersSame == UNCHANGED users => UsersKept
BY DEF UsersKept, UserKept

-----------------------------------------------------------------------------
(* What others count on stays                                                *)

LEMMA UsedStays ==
    ASSUME TokenTypes, Evolve, NEW t, NEW b, UsedBy(t, b)
    PROVE  UsedBy(t, b)'
<1>1. t \in DOMAIN tokens /\ t \in mailed' /\ tokens[t].state = "consumed" /\ tokens[t].by = b
  BY DEF TokenTypes, Evolve, UsedBy
<1>2. tokens'[t].state = "consumed" /\ tokens'[t].by = tokens[t].by
  BY <1>1 DEF Evolve, TokensKept
<1>. QED BY <1>1, <1>2 DEF UsedBy

LEMMA RevokedStays ==
    ASSUME TokenTypes, Evolve, NEW t, t = 0 \/ (t \in Ref /\ tokens[t].state = "revoked")
    PROVE  t = 0 \/ tokens'[t].state = "revoked"
BY DEF TokenTypes, Evolve, TokensKept, Ref

(* A request moves on to another place. *)
MovesTo(w, place) ==
    /\ job'[w].at = place
    /\ job'[w].flow = job[w].flow /\ job'[w].row = job[w].row /\ job'[w].gen = job[w].gen
    /\ job'[w].tok = job[w].tok /\ job'[w].want = job[w].want /\ job'[w].by = job[w].by
    /\ job'[w].uid = job[w].uid /\ job'[w].again = job[w].again

LEMMA SignupMoves ==
    ASSUME Types, Evolve, NEW w \in Worker, SignupSound(w), NEW place, MovesTo(w, place),
           place \in DeliverPlaces => job[w].at \in DeliverPlaces,
           place \in {"record", "submit", "recordSent", "promote"} => job[w].tok # 0,
           place \in {"recordPromoted", "accept"} =>
              job[w].want = 0 \/ tokens'[job[w].want].state = "revoked",
           place \in {"reserve", "consume"} =>
              job[w].at \in {"reserve", "consume"} /\ job[w].tok \in mailed,
           place = "consumed" => rows'[job[w].row].token = job[w].tok,
           place = "provision" => rows'[job[w].row].ver.phase \in Seen
    PROVE  SignupSound(w)'
<1>. PICK j \in Job : j = job[w]
  BY DEF Types, JobTypes
<1>1. /\ j.tok \in Ref /\ j.want \in Ref /\ j.row \in DOMAIN rows /\ j.row \in DOMAIN rows'
      /\ j.uid = 0
  BY DEF Types, JobTypes, SignupSound, Evolve, RowsKept
<1>. PICK row \in Row : row = rows[j.row]
  BY <1>1 DEF Types, RowTypes
<1>. PICK new : new = rows'[j.row]
  OBVIOUS
<1>2. RowKept(row, new) /\ row.token \in Ref
  BY <1>1 DEF Evolve, RowsKept, Types, RowTypes
<1>3. place \in DeliverPlaces =>
        /\ j.gen <= new.gen
        /\ j.gen = new.gen /\ new.status \in InDelivery => new.token = j.want
  <2>1. j.at \in DeliverPlaces =>
          /\ j.gen <= row.gen
          /\ j.gen = row.gen /\ row.status \in InDelivery => row.token = j.want
    BY DEF SignupSound
  <2>2. j.gen \in Nat /\ row.gen \in Nat /\ new.gen \in Nat /\ row.gen <= new.gen
    BY <1>2 DEF Job, Row, RowKept
  <2>. QED BY <1>2, <2>1, <2>2 DEF RowKept
<1>4. place \in {"reserve", "consume"} /\ j.tok = j.want =>
        new.token = j.tok \/ tokens'[j.tok].state = "revoked"
  <2>. SUFFICES ASSUME place \in {"reserve", "consume"}, j.tok = j.want
               PROVE  new.token = j.tok \/ tokens'[j.tok].state = "revoked"
    OBVIOUS
  <2>1. row.token = j.tok \/ tokens[j.tok].state = "revoked"
    BY DEF SignupSound
  <2>2. j.tok # 0
    BY DEF Types, TokenTypes
  <2>3. tokens[j.tok].state = "revoked" => tokens'[j.tok].state = "revoked"
    BY <1>1, <2>2, RevokedStays DEF Types
  <2>. QED BY <1>2, <2>1, <2>2, <2>3 DEF RowKept
<1>. QED BY <1>1, <1>3, <1>4 DEF SignupSound, MovesTo

LEMMA SignupStays ==
    ASSUME Types, Evolve, NEW w \in Worker, SignupSound(w), UNCHANGED job[w],
           job[w].at \in {"reserve", "consume"} => job[w].tok \in mailed,
           job[w].at = "consumed" => UsedBy(job[w].tok, job[w].by)
    PROVE  SignupSound(w)'
<1>. PICK j \in Job : j = job[w]
  BY DEF Types, JobTypes
<1>1. j.tok \in Ref /\ j.want \in Ref /\ j.row \in DOMAIN rows
  BY DEF Types, JobTypes, SignupSound
<1>. PICK row \in Row : row = rows[j.row]
  BY <1>1 DEF Types, RowTypes
<1>. PICK new : new = rows'[j.row]
  OBVIOUS
<1>2. RowKept(row, new) /\ row.token \in Ref
  BY <1>1 DEF Evolve, RowsKept, Types, RowTypes
<1>3. j.at \in {"recordPromoted", "accept"} => j.want = 0 \/ tokens'[j.want].state = "revoked"
  BY <1>1, RevokedStays DEF SignupSound, Types
<1>4. j.at = "consumed" => new.token = j.tok
  <2>. SUFFICES ASSUME j.at = "consumed" PROVE new.token = j.tok
    OBVIOUS
  <2>1. row.token = j.tok /\ UsedBy(j.tok, j.by)
    BY DEF SignupSound
  <2>2. j.tok # 0 /\ tokens[j.tok].state # "revoked"
    BY <2>1 DEF UsedBy, Types, TokenTypes
  <2>. QED BY <1>2, <2>1, <2>2 DEF RowKept
<1>5. j.at = "provision" => new.ver.phase \in Seen
  <2>1. j.at = "provision" => row.ver.phase \in Seen
    BY DEF SignupSound
  <2>. QED BY <1>2, <2>1 DEF RowKept
<1>6. MovesTo(w, j.at)
  BY DEF MovesTo
<1>7. j.at \in {"record", "submit", "recordSent", "promote"} => j.tok # 0
  BY DEF SignupSound
<1>. QED BY <1>3, <1>4, <1>5, <1>6, <1>7, SignupMoves

LEMMA JobStays ==
    ASSUME Types, Evolve, NEW w \in Worker, JobSound(w), UNCHANGED job[w]
    PROVE  JobSound(w)'
<1>1. job[w].flow = "none" <=> job[w] = NoJob
  BY DEF JobSound
<1>2. job[w].flow = "signup" => SignupSound(w)'
  BY SignupStays DEF JobSound
<1>3. job[w].flow = "invitation" => InvitedSound(w)'
  BY DEF JobSound, InvitedSound, Evolve, InvitesKept
<1>4. job[w].at \in {"reserve", "consume"} => job[w].tok \in mailed'
  BY DEF JobSound, Evolve
<1>5. job[w].at = "consumed" => UsedBy(job[w].tok, job[w].by)'
  BY UsedStays DEF JobSound, Types
<1>6. ASSUME NEW u \in users, MyUser(u, w)
      PROVE  \E new \in users' : UserKept(u, new) /\ MyUser(new, w)'
  BY <1>6 DEF Evolve, UsersKept, UserKept, MyUser, SameRow
<1>7. job[w].at = "player" => \E u \in users' : MyUser(u, w)'
  BY <1>6 DEF JobSound
<1>8. job[w].at = "credit" => \E u \in users' : MyUser(u, w)' /\ u.player # "none"
  BY <1>6 DEF JobSound, UserKept
<1>9. job[w].at = "activatePlayer" =>
        \E u \in users' : MyUser(u, w)' /\ u.player # "none" /\ u.funded
  BY <1>6 DEF JobSound, UserKept
<1>10. job[w].at = "activateUser" =>
        \E u \in users' : MyUser(u, w)' /\ u.player = "active" /\ u.funded
  BY <1>6 DEF JobSound, UserKept
<1>11. job[w].at = "finalize" => \E u \in users' : MyUser(u, w)' /\ Complete(u)
  BY <1>6 DEF JobSound, UserKept, Complete
<1>. QED BY <1>1, <1>2, <1>3, <1>4, <1>5, <1>7, <1>8, <1>9, <1>10, <1>11 DEF JobSound

LEMMA RowStays ==
    ASSUME Types, Evolve, NEW r, r \in DOMAIN rows, RowSound(r), rows'[r] = rows[r]
    PROVE  RowSound(r)'
<1>. PICK row \in Row : row = rows[r] /\ row = rows'[r]
  BY DEF Types, RowTypes
<1>1. row.ver.phase \in Seen =>
        /\ row.status \in {"verifying", "complete"}
        /\ row.ver.tok = row.token /\ UsedBy(row.token, row.ver.by)'
  <2>1. row.ver.phase \in Seen =>
          /\ row.status \in {"verifying", "complete"}
          /\ row.ver.tok = row.token /\ UsedBy(row.token, row.ver.by)
    BY DEF RowSound
  <2>. QED BY <2>1, UsedStays DEF Types
<1>2. row.status = "complete" => \E u \in users' : u.flow = "signup" /\ u.row = r /\ Complete(u)
  <2>1. row.status = "complete" => \E u \in users : u.flow = "signup" /\ u.row = r /\ Complete(u)
    BY DEF RowSound
  <2>. QED BY <2>1 DEF Evolve, UsersKept, UserKept, Complete
<1>. QED BY <1>1, <1>2 DEF RowSound

LEMMA InviteStays ==
    ASSUME Types, Evolve, NEW i, i \in DOMAIN invites, InviteSound(i), invites'[i] = invites[i]
    PROVE  InviteSound(i)'
<1>. PICK row \in Invite : row = invites[i] /\ row = invites'[i]
  BY DEF Types, InviteTypes
<1>1. row.red.phase \in Seen =>
        row.status \in {"redeeming", "redeemed"} /\ UsedBy(row.red.tok, row.red.by)'
  <2>1. row.red.phase \in Seen =>
          row.status \in {"redeeming", "redeemed"} /\ UsedBy(row.red.tok, row.red.by)
    BY DEF InviteSound
  <2>. QED BY <2>1, UsedStays DEF Types
<1>2. row.status = "redeemed" =>
        \E u \in users' : u.flow = "invitation" /\ u.row = i /\ u.uid = row.red.uid /\ Complete(u)
  <2>1. row.status = "redeemed" =>
          \E u \in users : u.flow = "invitation" /\ u.row = i /\ u.uid = row.red.uid /\ Complete(u)
    BY DEF InviteSound
  <2>. QED BY <2>1 DEF Evolve, UsersKept, UserKept, Complete
<1>. QED BY <1>1, <1>2 DEF InviteSound

LEMMA UsersStay ==
    ASSUME Evolve, UsersSound, UNCHANGED users
    PROVE  UsersSound'
<1>1. ASSUME NEW u \in users PROVE UserSound(u)'
  <2>1. UserSound(u)
    BY DEF UsersSound
  <2>. QED BY <2>1 DEF UserSound, Evolve, RowsKept, RowKept, InvitesKept
<1>. QED BY <1>1 DEF UsersSound

(* Deliveries of invitations go on, or end, and their invitations are left to  *)
(* them.                                                                       *)
StillSending(w) ==
    Sending(w)' => /\ Sending(w) /\ job'[w].tok = job[w].tok /\ job'[w].row = job[w].row
                   /\ job'[w].at = "record" <=> job[w].at = "record"
TokenLeft(i) ==
    /\ invites'[i].token = invites[i].token
    /\ invites[i].status \in {"delivery_pending", "revoked"} =>
          invites'[i].status \in {"delivery_pending", "revoked"}

LEMMA SendersStay ==
    ASSUME SendersSound, \A w \in Worker : JobSound(w), \A w \in Worker : StillSending(w),
           \A i \in DOMAIN invites : TokenLeft(i),
           \A i \in DOMAIN invites' : i \in DOMAIN invites \/ invites'[i].token = 0
    PROVE  SendersSound'
<1>1. ASSUME NEW v \in Worker, NEW w \in Worker, Sending(v)', Sending(w)', job'[v].tok = job'[w].tok
      PROVE  v = w
  BY <1>1 DEF SendersSound, StillSending
<1>2. ASSUME NEW w \in Worker, Sending(w)'
      PROVE  /\ job'[w].tok # 0
             /\ job'[w].at = "record" => \A i \in DOMAIN invites' : invites'[i].token # job'[w].tok
             /\ job'[w].at # "record" /\ invites'[job'[w].row].token = job'[w].tok =>
                  invites'[job'[w].row].status \in {"delivery_pending", "revoked"}
  <2>1. Sending(w) /\ job'[w].tok = job[w].tok /\ job'[w].row = job[w].row
        /\ (job'[w].at = "record" <=> job[w].at = "record")
    BY <1>2 DEF StillSending
  <2>2. job[w].tok # 0
    BY <2>1 DEF SendersSound
  <2>3. CASE job[w].at = "record"
    <3>1. \A i \in DOMAIN invites : invites[i].token # job[w].tok
      BY <2>1, <2>3 DEF SendersSound
    <3>. QED BY <2>1, <2>2, <2>3, <3>1 DEF TokenLeft
  <2>4. CASE job[w].at # "record"
    <3>1. invites[job[w].row].token = job[w].tok =>
            invites[job[w].row].status \in {"delivery_pending", "revoked"}
      BY <2>1, <2>4 DEF SendersSound
    <3>2. job[w].row \in DOMAIN invites
      BY <2>1 DEF JobSound, InvitedSound, Sending
    <3>. QED BY <2>1, <2>2, <2>4, <3>1, <3>2 DEF TokenLeft
  <2>. QED BY <2>3, <2>4
<1>. QED BY <1>1, <1>2 DEF SendersSound

LEMMA SendingSame ==
    ASSUME NEW w \in Worker, UNCHANGED job[w] PROVE StillSending(w)
BY DEF StillSending, Sending

LEMMA InvitesLeft ==
    ASSUME UNCHANGED invites
    PROVE  /\ \A i \in DOMAIN invites : TokenLeft(i)
           /\ \A i \in DOMAIN invites' : i \in DOMAIN invites \/ invites'[i].token = 0
BY DEF TokenLeft

-----------------------------------------------------------------------------
(* What a step has to show                                                   *)

OthersKept(w) == \A v \in Worker \ {w} : job'[v] = job[v]

LEMMA SignupConclude ==
    ASSUME Inv, NEW w \in Worker, Types', Evolve, OthersKept(w), JobSound(w)', ~Sending(w)',
           UNCHANGED invites, \A r \in DOMAIN rows' : RowSound(r)', UsersSound'
    PROVE  Inv'
<1>1. ASSUME NEW v \in Worker PROVE JobSound(v)'
  BY JobStays DEF OthersKept, Inv
<1>2. \A i \in DOMAIN invites' : InviteSound(i)'
  BY InviteStays DEF Inv
<1>3. \A v \in Worker : StillSending(v)
  BY SendingSame DEF OthersKept, StillSending
<1>4. SendersSound'
  BY <1>3, InvitesLeft, SendersStay DEF Inv
<1>. QED BY <1>1, <1>2, <1>4 DEF Inv

LEMMA InviteConclude ==
    ASSUME Inv, NEW w \in Worker, Types', Evolve, OthersKept(w), JobSound(w)', SendersSound',
           UNCHANGED rows, \A i \in DOMAIN invites' : InviteSound(i)', UsersSound'
    PROVE  Inv'
<1>1. ASSUME NEW v \in Worker PROVE JobSound(v)'
  BY JobStays DEF OthersKept, Inv
<1>2. \A r \in DOMAIN rows' : RowSound(r)'
  BY RowStays DEF Inv
<1>. QED BY <1>1, <1>2 DEF Inv

-----------------------------------------------------------------------------
(* The parts of a step                                                       *)

(* One row is replaced, no token, mail or account touched.                   *)
RowFits(r, new) ==
    /\ new \in Row /\ new.token \in Ref /\ new.rep.cand \in Ref
    /\ new.rep.phase \in Mailed => new.rep.cand # 0
    /\ RowKept(rows[r], new)
    /\ new.ver.phase \in Seen =>
          /\ new.status \in {"verifying", "complete"}
          /\ new.ver.tok = new.token /\ UsedBy(new.token, new.ver.by)
    /\ new.status = "complete" => \E u \in users : u.flow = "signup" /\ u.row = r /\ Complete(u)

LEMMA RowReplaced ==
    ASSUME Inv, NEW r, r \in DOMAIN rows, NEW new, RowFits(r, new), rows' = [rows EXCEPT ![r] = new],
           UNCHANGED <<tokens, mailed, users, invites, history>>
    PROVE  /\ RowTypes' /\ TokenTypes' /\ InviteTypes' /\ Evolve /\ UsersSound'
           /\ \A q \in DOMAIN rows' : RowSound(q)'
<1>1. /\ rows \in Seq(Row) /\ DOMAIN rows' = DOMAIN rows /\ Len(rows') = Len(rows)
      /\ rows' \in Seq(Row) /\ rows'[r] = new
      /\ \A q \in DOMAIN rows : q # r => rows'[q] = rows[q]
  BY DEF RowFits, Inv, Types, RowTypes
<1>2. RowTypes'
  BY <1>1 DEF RowFits, Inv, Types, RowTypes, Ref
<1>3. \A q \in DOMAIN rows : RowKept(rows[q], rows'[q])
  <2>1. \A row \in Row : RowKept(row, row)
    BY DEF RowKept, Row
  <2>. QED BY <1>1, <2>1 DEF RowFits
<1>4. Evolve
  BY <1>1, <1>3, TokensSame, InvitesSame, UsersSame DEF Evolve, RowsKept, Inv, Types
<1>5. RowSound(r)'
  BY <1>1 DEF RowFits, RowSound, UsedBy, Complete
<1>6. ASSUME NEW q \in DOMAIN rows, q # r PROVE RowSound(q)'
  BY <1>1, <1>4, <1>6, RowStays DEF Inv
<1>7. UsersSound'
  BY <1>4, UsersStay DEF Inv
<1>. QED BY <1>1, <1>2, <1>4, <1>5, <1>6, <1>7 DEF Inv, Types, TokenTypes, InviteTypes, Ref

(* Tokens evolve, and nothing but a request and the mail may change with them. *)
LEMMA TokensReplaced ==
    ASSUME Inv, TokensKept(tokens'), mailed \subseteq mailed', mailed' \subseteq DOMAIN tokens',
           UNCHANGED <<users, rows, invites, history>>
    PROVE  /\ TokenTypes' /\ RowTypes' /\ InviteTypes' /\ Evolve /\ UsersSound'
           /\ \A r \in DOMAIN rows' : RowSound(r)'
           /\ \A i \in DOMAIN invites' : InviteSound(i)'
<1>1. Evolve
  BY RowsSame, InvitesSame, UsersSame DEF Evolve, Inv, Types
<1>2. Ref \subseteq Ref' /\ TokenTypes'
  BY DEF TokensKept, Ref, TokenTypes, Inv, Types
<1>3. RowTypes' /\ InviteTypes'
  BY <1>2 DEF RowTypes, InviteTypes, Inv, Types
<1>4. \A r \in DOMAIN rows' : RowSound(r)'
  BY <1>1, RowStays DEF Inv
<1>5. \A i \in DOMAIN invites' : InviteSound(i)'
  BY <1>1, InviteStays DEF Inv
<1>. QED BY <1>1, <1>2, <1>3, <1>4, <1>5, UsersStay DEF Inv

(* The request of a worker.                                                    *)
JobSet(w, j) == job' = [job EXCEPT ![w] = j]

LEMMA JobReplaced ==
    ASSUME JobTypes, NEW w \in Worker, NEW j \in Job, JobSet(w, j),
           Ref \subseteq Ref', j.tok \in Ref', j.want \in Ref'
    PROVE  JobTypes' /\ OthersKept(w) /\ job'[w] = j
<1>1. job' \in [Worker -> Job] /\ job'[w] = j /\ \A v \in Worker \ {w} : job'[v] = job[v]
  BY DEF JobTypes, JobSet
<1>2. \A v \in Worker : job'[v].tok \in Ref' /\ job'[v].want \in Ref'
  BY <1>1 DEF JobTypes
<1>. QED BY <1>1, <1>2 DEF JobTypes, OthersKept

LEMMA GotoJob ==
    ASSUME JobTypes, NEW w \in Worker, NEW place \in Places, Goto(w, place), Ref \subseteq Ref'
    PROVE  JobTypes' /\ OthersKept(w) /\ MovesTo(w, place)
<1>. PICK j \in Job : j = job[w] /\ j.tok \in Ref /\ j.want \in Ref
  BY DEF JobTypes
<1>. DEFINE new == [j EXCEPT !.at = place]
<1>1. /\ new \in Job /\ new.at = place /\ new.flow = j.flow /\ new.row = j.row
      /\ new.gen = j.gen /\ new.tok = j.tok /\ new.want = j.want
      /\ new.by = j.by /\ new.uid = j.uid /\ new.again = j.again
  BY DEF Job
<1>2. JobSet(w, new)
  BY DEF Goto, JobSet, JobTypes
<1>. HIDE DEF new
<1>3. JobTypes' /\ OthersKept(w) /\ job'[w] = new
  BY <1>1, <1>2, JobReplaced
<1>. QED BY <1>1, <1>3 DEF MovesTo

LEMMA NoJobTypes ==
    /\ NoJob \in Job /\ NoJob.flow = "none" /\ NoJob.at = "idle" /\ NoJob.tok = 0
    /\ NoJob.want = 0 /\ NoJob.row = 0 /\ NoJob.uid = 0 /\ NoJob.gen = 0
BY DEF NoJob, Job, Places

LEMMA AnswerJob ==
    ASSUME JobTypes, NEW w \in Worker, Answer(w), TokenTypes', Ref \subseteq Ref'
    PROVE  JobTypes' /\ OthersKept(w) /\ job'[w] = NoJob /\ JobSound(w)' /\ ~Sending(w)'
<1>1. 0 \in Ref'
  BY DEF TokenTypes, Ref
<1>2. JobTypes' /\ OthersKept(w) /\ job'[w] = NoJob
  BY <1>1, NoJobTypes, JobReplaced DEF Answer, JobSet
<1>3. JobSound(w)' /\ ~Sending(w)'
  BY <1>2, NoJobTypes DEF JobSound, Sending, DeliverPlaces, VerifyPlaces
<1>. QED BY <1>2, <1>3

-----------------------------------------------------------------------------
(* What the operations on tokens do                                          *)

LEMMA TokenChanged ==
    ASSUME TokenTypes, NEW t, NEW new, new \in Seq(Token), Len(new) = Len(tokens),
           \A q \in DOMAIN tokens : q # t => new[q] = tokens[q],
           t \in DOMAIN tokens =>
              /\ tokens[t].state = "revoked" => new[t].state = "revoked"
              /\ tokens[t].state = "consumed" =>
                    new[t].state = "consumed" /\ new[t].by = tokens[t].by
    PROVE  TokensKept(new)
BY DEF TokenTypes, TokensKept

LEMMA TokenAdded ==
    ASSUME TokenTypes, NEW p \in Purpose, NEW s \in {"candidate", "active"}, NEW n \in Nat
    PROVE  /\ TokensKept(Append(tokens, Minted(p, s, n)))
           /\ Len(Append(tokens, Minted(p, s, n))) = Len(tokens) + 1
<1>1. Minted(p, s, n) \in Token
  BY DEF Minted, Token
<1>. PICK x \in Token : x = Minted(p, s, n)
  BY <1>1
<1>2. TokensKept(Append(tokens, x)) /\ Len(Append(tokens, x)) = Len(tokens) + 1
  BY DEF TokenTypes, TokensKept
<1>. QED BY <1>2

LEMMA RevokedTokens ==
    ASSUME TokenTypes, NEW t
    PROVE  /\ TokensKept(Revoked(t)) /\ TokensKept(Discarded(t))
           /\ Len(Revoked(t)) = Len(tokens) /\ Len(Discarded(t)) = Len(tokens)
<1>. DEFINE dead == [tokens EXCEPT ![t].state = "revoked"]
<1>1. /\ dead \in Seq(Token) /\ Len(dead) = Len(tokens)
      /\ \A q \in DOMAIN tokens : q # t => dead[q] = tokens[q]
      /\ t \in DOMAIN tokens => dead[t].state = "revoked"
  <2>1. \A x \in Token : [x EXCEPT !.state = "revoked"] \in Token
    BY DEF Token
  <2>2. /\ tokens \in Seq(Token) /\ DOMAIN dead = DOMAIN tokens
        /\ \A q \in DOMAIN tokens : q # t => dead[q] = tokens[q]
        /\ t \in DOMAIN tokens => dead[t] = [tokens[t] EXCEPT !.state = "revoked"]
    BY DEF TokenTypes
  <2>3. t \in DOMAIN tokens => dead[t] \in Token /\ dead[t].state = "revoked"
    <3>1. t \in DOMAIN tokens => tokens[t] \in Token
      BY <2>2
    <3>. HIDE DEF dead
    <3>. QED BY <2>1, <2>2, <3>1 DEF Token
  <2>4. \A q \in DOMAIN tokens : dead[q] \in Token
    BY <2>2, <2>3
  <2>5. dead = [q \in 1..Len(tokens) |-> dead[q]]
    BY <2>2
  <2>. HIDE DEF dead
  <2>6. dead \in [1..Len(tokens) -> Token] /\ Len(tokens) \in Nat
    BY <2>2, <2>4, <2>5
  <2>7. dead \in Seq(Token) /\ Len(dead) = Len(tokens)
    BY <2>6
  <2>. QED BY <2>2, <2>3, <2>7
<1>2. TokensKept(tokens)
  BY DEF TokenTypes, TokensKept
<1>3. (t \in DOMAIN tokens => tokens[t].state # "consumed") => TokensKept(dead)
  <2>. HIDE DEF dead
  <2>. QED BY <1>1, TokenChanged
<1>4. Active(t) => TokensKept(dead)
  BY <1>3 DEF Active
<1>5. tokens[t].state = "candidate" => TokensKept(dead)
  BY <1>3
<1>. HIDE DEF dead
<1>6. Revoked(t) \in {dead, tokens} /\ Discarded(t) \in {dead, tokens}
  BY DEF Revoked, Discarded, dead
<1>7. TokensKept(Revoked(t)) /\ TokensKept(Discarded(t))
  BY <1>2, <1>4, <1>5 DEF Revoked, Discarded, dead
<1>. QED BY <1>1, <1>6, <1>7

LEMMA PromotedTokens ==
    ASSUME TokenTypes, NEW c \in Ref, NEW p \in Ref, MayPromote(c, p), c # 0
    PROVE  /\ TokensKept(Promoted(c, p)) /\ Len(Promoted(c, p)) = Len(tokens)
           /\ Promoted(c, p)[p].state = "revoked"
<1>. DEFINE mid == [tokens EXCEPT ![c].state = "active"]
            new == [mid EXCEPT ![p].state = "revoked"]
<1>1. c \in DOMAIN tokens /\ p \in DOMAIN tokens /\ c # p /\ tokens \in Seq(Token)
      /\ tokens[c].state = "candidate" /\ tokens[p].state = "active"
  BY DEF MayPromote, Active, TokenTypes, Ref
<1>2. Promoted(c, p) = new
  BY DEF Promoted
<1>3. /\ DOMAIN new = DOMAIN tokens
      /\ \A q \in DOMAIN tokens : q \notin {c, p} => new[q] = tokens[q]
      /\ new[c] = [tokens[c] EXCEPT !.state = "active"]
      /\ new[p] = [tokens[p] EXCEPT !.state = "revoked"]
  BY <1>1
<1>. HIDE DEF new
<1>4. new[c] \in Token /\ new[p] \in Token /\ new[p].state = "revoked"
  <2>1. \A x \in Token : [x EXCEPT !.state = "revoked"] \in Token
                         /\ [x EXCEPT !.state = "active"] \in Token
                         /\ [x EXCEPT !.state = "revoked"].state = "revoked"
    BY DEF Token
  <2>2. tokens[c] \in Token /\ tokens[p] \in Token
    BY <1>1
  <2>. QED BY <1>3, <2>1, <2>2
<1>5. Len(tokens) \in Nat /\ DOMAIN tokens = 1..Len(tokens) /\ \A q \in DOMAIN tokens : new[q] \in Token
  BY <1>1, <1>3, <1>4
<1>6. new = [q \in 1..Len(tokens) |-> new[q]]
  <2>1. new = [q \in DOMAIN new |-> new[q]]
    BY DEF new
  <2>. QED BY <1>3, <1>5, <2>1
<1>7. new \in Seq(Token) /\ Len(new) = Len(tokens)
  BY <1>5, <1>6
<1>8. TokensKept(new)
  BY <1>1, <1>3, <1>7 DEF TokensKept
<1>. QED BY <1>2, <1>4, <1>7, <1>8

LEMMA ConsumedToken ==
    ASSUME TokenTypes, NEW t, t \in DOMAIN tokens, NEW b \in Browser \union {NoBrowser},
           MayConsume(t, b)
    PROVE  /\ TokensKept(Consumed(t, b)) /\ Len(Consumed(t, b)) = Len(tokens)
           /\ Consumed(t, b)[t].state = "consumed" /\ Consumed(t, b)[t].by = b
<1>. DEFINE new == [tokens EXCEPT ![t].state = "consumed", ![t].by = b]
<1>1. tokens \in Seq(Token) /\ tokens[t] \in Token
      /\ (tokens[t].state = "active" \/ (tokens[t].state = "consumed" /\ tokens[t].by = b))
  BY DEF TokenTypes, MayConsume, Active
<1>2. Consumed(t, b) = new
  BY DEF Consumed
<1>3. /\ DOMAIN new = DOMAIN tokens /\ \A q \in DOMAIN tokens : q # t => new[q] = tokens[q]
      /\ new[t] = [tokens[t] EXCEPT !.state = "consumed", !.by = b]
  BY <1>1
<1>4. new = [q \in DOMAIN new |-> new[q]]
  OBVIOUS
<1>. HIDE DEF new
<1>5. new[t] \in Token /\ new[t].state = "consumed" /\ new[t].by = b
  BY <1>1, <1>3 DEF Token
<1>6. Len(tokens) \in Nat /\ DOMAIN tokens = 1..Len(tokens) /\ \A q \in DOMAIN tokens : new[q] \in Token
  BY <1>1, <1>3, <1>5
<1>7. new \in Seq(Token) /\ Len(new) = Len(tokens)
  BY <1>3, <1>4, <1>6
<1>8. TokensKept(new)
  BY <1>1, <1>3, <1>5, <1>7, TokenChanged
<1>. QED BY <1>2, <1>5, <1>7, <1>8

LEMMA ReissuedTokens ==
    ASSUME TokenTypes, NEW p \in Purpose
    PROVE  TokensKept(Reissued(p)) /\ Len(Reissued(p)) = Len(tokens) + 1
<1>. DEFINE mid == [t \in DOMAIN tokens |->
                      IF Active(t) /\ tokens[t].purpose = p
                      THEN [tokens[t] EXCEPT !.state = "revoked"]
                      ELSE tokens[t]]
<1>1. tokens \in Seq(Token) /\ DOMAIN mid = DOMAIN tokens
      /\ \A t \in DOMAIN tokens :
            mid[t] = IF Active(t) /\ tokens[t].purpose = p
                     THEN [tokens[t] EXCEPT !.state = "revoked"] ELSE tokens[t]
  BY DEF TokenTypes
<1>2. \A x \in Token : [x EXCEPT !.state = "revoked"] \in Token
  BY DEF Token
<1>3. Len(tokens) \in Nat /\ DOMAIN tokens = 1..Len(tokens)
      /\ \A t \in DOMAIN tokens : tokens[t] \in Token
  BY <1>1
<1>4. mid \in [1..Len(tokens) -> Token]
  BY <1>2, <1>3
<1>5. Minted(p, "active", 0) \in Token
  BY DEF Minted, Token
<1>. PICK x \in Token : x = Minted(p, "active", 0)
  BY <1>5
<1>6. Reissued(p) = Append(mid, x)
  BY DEF Reissued
<1>. HIDE DEF mid
<1>7. mid \in Seq(Token) /\ Len(mid) = Len(tokens)
  BY <1>3, <1>4
<1>. PICK new : new = Append(mid, x)
  OBVIOUS
<1>8. new \in Seq(Token) /\ Len(new) = Len(tokens) + 1 /\ \A t \in DOMAIN tokens : new[t] = mid[t]
  BY <1>3, <1>7
<1>9. \A t \in DOMAIN tokens :
        /\ tokens[t].state = "revoked" => new[t].state = "revoked"
        /\ tokens[t].state = "consumed" => new[t].state = "consumed" /\ new[t].by = tokens[t].by
  BY <1>1, <1>8 DEF Active
<1>10. TokensKept(new)
  BY <1>3, <1>8, <1>9 DEF TokensKept
<1>. QED BY <1>6, <1>8, <1>10

(* The places that promise an account, and what they promise.                  *)
Promises(w, place) ==
    /\ place = "player" => \E u \in users' : MyUser(u, w)'
    /\ place = "credit" => \E u \in users' : MyUser(u, w)' /\ u.player # "none"
    /\ place = "activatePlayer" =>
          \E u \in users' : MyUser(u, w)' /\ u.player # "none" /\ u.funded
    /\ place = "activateUser" =>
          \E u \in users' : MyUser(u, w)' /\ u.player = "active" /\ u.funded
    /\ place = "finalize" => \E u \in users' : MyUser(u, w)' /\ Complete(u)

LEMMA SignupGoes ==
    ASSUME Inv, Evolve, TokenTypes', NEW w \in Worker, job[w].flow = "signup",
           NEW place \in Places, Goto(w, place),
           place \in DeliverPlaces => job[w].at \in DeliverPlaces,
           place \in {"submit", "recordSent", "promote"} => job[w].tok # 0,
           place # "record",
           place \in {"recordPromoted", "accept"} =>
              job[w].want = 0 \/ tokens'[job[w].want].state = "revoked",
           place \in {"reserve", "consume"} => job[w].at \in {"reserve", "consume"},
           place = "consumed" =>
              UsedBy(job[w].tok, job[w].by)' /\ rows'[job[w].row].token = job[w].tok,
           place = "provision" => rows'[job[w].row].ver.phase \in Seen,
           Promises(w, place)
    PROVE  JobTypes' /\ OthersKept(w) /\ JobSound(w)' /\ ~Sending(w)'
<1>1. Ref \subseteq Ref'
  BY DEF Evolve, TokensKept, TokenTypes, Ref, Inv, Types
<1>2. JobTypes' /\ OthersKept(w) /\ MovesTo(w, place)
  BY <1>1, GotoJob DEF Inv, Types
<1>3. JobSound(w) /\ SignupSound(w)
  BY DEF Inv, JobSound
<1>4. place \in {"reserve", "consume"} => job[w].tok \in mailed
  BY <1>3 DEF JobSound
<1>5. SignupSound(w)'
  BY <1>2, <1>3, <1>4, SignupMoves DEF Inv
<1>6. job'[w].flow = "signup" /\ job'[w] # NoJob
  BY <1>2, NoJobTypes DEF MovesTo
<1>7. job'[w].at \in {"reserve", "consume"} => job'[w].tok \in mailed'
  BY <1>2, <1>4 DEF MovesTo, Evolve
<1>8. job'[w].at = "consumed" => UsedBy(job[w].tok, job[w].by)'
  BY <1>2 DEF MovesTo
<1>9. /\ job'[w].at = place /\ job'[w].tok = job[w].tok /\ job'[w].by = job[w].by
  BY <1>2 DEF MovesTo
<1>10. JobSound(w)'
  BY <1>5, <1>6, <1>7, <1>8, <1>9 DEF JobSound, Promises, UsedBy
<1>. QED BY <1>2, <1>6, <1>10 DEF Sending

\* Places that promise nothing of their own.
LEMMA NoPromises ==
    ASSUME NEW w, NEW place,
           place \notin {"player", "credit", "activatePlayer", "activateUser", "finalize"}
    PROVE  Promises(w, place)
BY DEF Promises

-----------------------------------------------------------------------------
(* What a step of a signup leaves of the documents                           *)

SignupDocs ==
    /\ TokenTypes' /\ RowTypes' /\ InviteTypes' /\ IdentityTypes'
    /\ Evolve /\ UsersSound' /\ (\A r \in DOMAIN rows' : RowSound(r)') /\ UNCHANGED invites

SmallStep == /\ reserved' \in Reservation /\ deliveries' \in 0..history.deliveries
             /\ UNCHANGED <<users, invites, history>>

LEMMA SignupTokens ==
    ASSUME Inv, SmallStep, UNCHANGED rows, TokensKept(tokens'), mailed \subseteq mailed',
           mailed' \subseteq DOMAIN tokens'
    PROVE  SignupDocs
<1>1. UNCHANGED <<users, rows, invites, history>>
  BY DEF SmallStep
<1>2. IdentityTypes'
  BY DEF SmallStep, IdentityTypes, Inv, Types
<1>. QED BY <1>1, <1>2, TokensReplaced DEF SignupDocs, SmallStep

LEMMA SignupSame ==
    ASSUME Inv, SmallStep, UNCHANGED <<rows, tokens, mailed>>
    PROVE  SignupDocs
<1>1. TokensKept(tokens') /\ mailed \subseteq mailed' /\ mailed' \subseteq DOMAIN tokens'
  BY TokensSame DEF Inv, Types, TokenTypes
<1>. QED BY <1>1, SignupTokens

LEMMA SignupRow ==
    ASSUME Inv, SmallStep, UNCHANGED <<tokens, mailed>>, NEW r, r \in DOMAIN rows, NEW new,
           RowFits(r, new), rows' = [rows EXCEPT ![r] = new]
    PROVE  SignupDocs /\ rows'[r] = new /\ DOMAIN rows' = DOMAIN rows
<1>1. UNCHANGED <<tokens, mailed, users, invites, history>>
  BY DEF SmallStep
<1>2. IdentityTypes'
  BY DEF SmallStep, IdentityTypes, Inv, Types
<1>3. rows'[r] = new /\ DOMAIN rows' = DOMAIN rows
  BY DEF Inv, Types, RowTypes
<1>. QED BY <1>1, <1>2, <1>3, RowReplaced DEF SignupDocs, SmallStep

LEMMA SignupAppends ==
    ASSUME Inv, SmallStep, UNCHANGED <<tokens, mailed>>, Len(rows) < history.signups,
           rows' = Append(rows, NewRow)
    PROVE  SignupDocs /\ Len(rows) + 1 \in DOMAIN rows' /\ rows'[Len(rows) + 1] = NewRow
<1>1. UNCHANGED <<tokens, mailed, users, invites, history>>
  BY DEF SmallStep
<1>2. IdentityTypes'
  BY DEF SmallStep, IdentityTypes, Inv, Types
<1>3. NewRow \in Row /\ NewRow.token = 0 /\ NewRow.rep.cand = 0 /\ NewRow.ver.phase = "none"
      /\ NewRow.rep.phase \notin Mailed
      /\ NewRow.status = "reserved"
  BY DEF NewRow, Row, NoDelivery, NoVerification, Status, Open, Mailed
<1>. PICK n \in Nat : n = Len(rows) /\ DOMAIN rows = 1..n /\ rows \in Seq(Row)
  BY DEF Inv, Types, RowTypes
<1>. PICK fresh \in Row : fresh = NewRow
  BY <1>3
<1>4. /\ rows' \in Seq(Row) /\ Len(rows') = n + 1 /\ DOMAIN rows' = 1..(n + 1)
      /\ rows'[n + 1] = fresh /\ \A r \in 1..n : rows'[r] = rows[r]
  OBVIOUS
<1>5. \A row \in Row : RowKept(row, row)
  BY DEF RowKept, Row
<1>6. RowsKept
  BY <1>4, <1>5 DEF RowsKept
<1>7. Evolve
  BY <1>1, <1>6, TokensSame, InvitesSame, UsersSame DEF Evolve, Inv, Types
<1>8. TokenTypes' /\ InviteTypes' /\ 0 \in Ref'
  BY <1>1 DEF Inv, Types, TokenTypes, InviteTypes, Ref
<1>9. history \in Histories /\ history.signups \in Nat
  BY HistoriesAssumption DEF Inv, Types, IdentityTypes
<1>10. RowTypes'
  <2>1. Len(rows') <= history'.signups
    BY <1>1, <1>4, <1>9
  <2>2. ASSUME NEW r \in DOMAIN rows' 
        PROVE  /\ rows'[r].token \in Ref' /\ rows'[r].rep.cand \in Ref'
               /\ rows'[r].rep.phase \in Mailed => rows'[r].rep.cand # 0
    <3>1. CASE r = n + 1
      BY <1>3, <1>4, <1>8, <3>1
    <3>2. CASE r \in 1..n
      BY <1>1, <1>4, <3>2 DEF Inv, Types, RowTypes, Ref
    <3>. QED BY <1>4, <3>1, <3>2
  <2>. QED BY <1>4, <2>1, <2>2 DEF RowTypes
<1>11. \A r \in 1..n : RowSound(r)'
  BY <1>4, <1>7, RowStays DEF Inv
<1>12. RowSound(n + 1)'
  BY <1>3, <1>4 DEF RowSound, Seen
<1>13. \A r \in DOMAIN rows' : RowSound(r)'
  BY <1>4, <1>11, <1>12
<1>14. UsersSound'
  BY <1>1, <1>7, UsersStay DEF Inv
<1>. QED BY <1>1, <1>2, <1>4, <1>7, <1>8, <1>10, <1>13, <1>14 DEF SignupDocs

(* ... and of its request: it goes on, it ends, or it is a new one.            *)
LEMMA SignupProceeds ==
    ASSUME Inv, SignupDocs, NEW w \in Worker, job[w].flow = "signup",
           NEW place \in Places, Goto(w, place),
           place \in DeliverPlaces => job[w].at \in DeliverPlaces,
           place \in {"submit", "recordSent", "promote"} => job[w].tok # 0,
           place # "record",
           place \in {"recordPromoted", "accept"} =>
              job[w].want = 0 \/ tokens'[job[w].want].state = "revoked",
           place \in {"reserve", "consume"} => job[w].at \in {"reserve", "consume"},
           place = "consumed" =>
              UsedBy(job[w].tok, job[w].by)' /\ rows'[job[w].row].token = job[w].tok,
           place = "provision" => rows'[job[w].row].ver.phase \in Seen,
           Promises(w, place)
    PROVE  Inv'
<1>1. JobTypes' /\ OthersKept(w) /\ JobSound(w)' /\ ~Sending(w)'
  BY SignupGoes DEF SignupDocs
<1>. QED BY <1>1, SignupConclude DEF SignupDocs, Types

LEMMA RefGrows == ASSUME Inv, Evolve, TokenTypes' PROVE Ref \subseteq Ref'
BY DEF Evolve, TokensKept, TokenTypes, Ref, Inv, Types

LEMMA SignupEnds ==
    ASSUME Inv, SignupDocs, NEW w \in Worker, Answer(w)
    PROVE  Inv'
<1>1. JobTypes' /\ OthersKept(w) /\ JobSound(w)' /\ ~Sending(w)'
  BY RefGrows, AnswerJob DEF SignupDocs, Inv, Types
<1>. QED BY <1>1, SignupConclude DEF SignupDocs, Types

LEMMA SignupSets ==
    ASSUME Inv, SignupDocs, NEW w \in Worker, NEW j \in Job, JobSet(w, j), j.flow = "signup",
           j.row \in DOMAIN rows', j.uid = 0, j.tok \in Ref', j.want \in Ref',
           j.at \in {"begin", "authorize", "revoke", "reserve", "mint", "record", "promote",
                     "accept", "drop", "reject"},
           j.at \in DeliverPlaces =>
              /\ j.gen <= rows'[j.row].gen
              /\ j.gen = rows'[j.row].gen /\ rows'[j.row].status \in InDelivery =>
                    rows'[j.row].token = j.want,
           j.at \in {"record", "promote"} => j.tok # 0, j.at = "accept" => j.want = 0,
           j.at = "reserve" => j.tok \in mailed' /\ rows'[j.row].token = j.want
    PROVE  Inv'
<1>1. JobTypes' /\ OthersKept(w) /\ job'[w] = j
  BY RefGrows, JobReplaced DEF SignupDocs, Inv, Types
<1>2. SignupSound(w)'
  BY <1>1 DEF SignupSound
<1>3. JobSound(w)' /\ ~Sending(w)'
  BY <1>1, <1>2, NoJobTypes DEF JobSound, Sending
<1>. QED BY <1>1, <1>3, SignupConclude DEF SignupDocs, Types

LEMMA RowFacts ==
    ASSUME Inv, NEW r, r \in DOMAIN rows
    PROVE  /\ rows[r] \in Row /\ rows[r].token \in Ref /\ rows[r].rep.cand \in Ref
           /\ rows[r].gen \in Nat /\ RowSound(r)
           /\ rows[r].rep.phase \in Mailed => rows[r].rep.cand # 0
<1>1. /\ rows[r] \in Row /\ rows[r].token \in Ref /\ rows[r].rep.cand \in Ref /\ RowSound(r)
      /\ rows[r].rep.phase \in Mailed => rows[r].rep.cand # 0
  BY DEF Inv, Types, RowTypes
<1>. QED BY <1>1 DEF Row

LEMMA JobFacts ==
    ASSUME Inv, NEW w \in Worker
    PROVE  /\ job[w] \in Job /\ job[w].tok \in Ref /\ job[w].want \in Ref /\ JobSound(w)
           /\ job[w].flow = "signup" => SignupSound(w) /\ job[w].row \in DOMAIN rows
           /\ job[w].flow = "invitation" => job[w].row \in DOMAIN invites
           /\ job \in [Worker -> Job]
BY DEF Inv, Types, JobTypes, JobSound, SignupSound, InvitedSound

(* A request rewrites its row.                                                 *)
LEMMA SignupWrites ==
    ASSUME Inv, SmallStep, UNCHANGED <<tokens, mailed>>, NEW w \in Worker, job[w].flow = "signup",
           NEW new \in Row, RowFits(job[w].row, new), MyRowTo(w, new)
    PROVE  /\ SignupDocs /\ DOMAIN rows' = DOMAIN rows /\ job[w].row \in DOMAIN rows
           /\ rows'[job[w].row].gen = new.gen /\ rows'[job[w].row].status = new.status
           /\ rows'[job[w].row].token = new.token /\ rows'[job[w].row].ver = new.ver
<1>. PICK r : r = job[w].row /\ r \in DOMAIN rows
  BY JobFacts
<1>. DEFINE settled == [new EXCEPT !.aged = FALSE]
<1>1. /\ settled \in Row /\ settled.status = new.status /\ settled.gen = new.gen
      /\ settled.token = new.token /\ settled.rep = new.rep /\ settled.ver = new.ver
  BY DEF Row
<1>2. rows' = [rows EXCEPT ![r] = settled]
  BY DEF MyRowTo
<1>. HIDE DEF settled
<1>3. RowFits(r, settled)
  BY <1>1 DEF RowFits, RowKept
<1>. QED BY <1>1, <1>2, <1>3, SignupRow

LEMMA JobEdited ==
    ASSUME NEW j \in Job, NEW place \in Places, NEW n \in Nat, NEW t \in Nat
    PROVE  /\ [j EXCEPT !.at = place, !.gen = n, !.want = t] \in Job
           /\ [j EXCEPT !.at = place, !.tok = t] \in Job
           /\ [j EXCEPT !.at = place, !.want = t] \in Job
           /\ [j EXCEPT !.at = place, !.gen = n] \in Job
BY DEF Job

LEMMA SomePlaces ==
    /\ {"begin", "mint", "record", "authorize", "revoke", "reserve"} \subseteq Places
    /\ DeliverPlaces \subseteq Places /\ CancelPlaces \subseteq Places
    /\ VerifyPlaces \subseteq Places /\ SendPlaces \subseteq Places
BY DEF Places, DeliverPlaces, CancelPlaces, VerifyPlaces, SendPlaces

-----------------------------------------------------------------------------
(* The first of several rows is one of them                                  *)

LEMMA FirstIsOne ==
    ASSUME NEW S, S \subseteq Nat, S # {}
    PROVE  First(S) \in S /\ Earliest(S) \in S
<1>1. \E r \in S : \A q \in S : r <= q
  <2>. DEFINE Less == {p \in Nat \X Nat : p[1] < p[2]}
  <2>1. IsWellFoundedOn(Less, Nat)
    <3>1. Less = OpToRel(<, Nat)
      BY DEF OpToRel
    <3>. QED BY <3>1, NatLessThanWellFounded
  <2>2. PICK r \in S : \A q \in S : <<q, r>> \notin Less
    BY <2>1, WFMin
  <2>3. ASSUME NEW q \in S PROVE r <= q
    <3>1. <<q, r>>[1] = q /\ <<q, r>>[2] = r /\ <<q, r>> \in Nat \X Nat
      OBVIOUS
    <3>2. ~(q < r)
      BY <2>2, <3>1
    <3>. QED BY <3>2
  <2>. QED BY <2>3
<1>. QED BY <1>1 DEF First, Earliest

-----------------------------------------------------------------------------
(* Delivering a token of a signup                                            *)

LEMMA BeginKeeps ==
    ASSUME Inv, NEW w \in Worker, Begin(w), UNCHANGED <<invites, history>>
    PROVE  Inv'
<1>. PICK j \in Job : j = job[w] /\ j.flow = "signup" /\ j.at = "begin"
                      /\ j.tok \in Ref /\ j.row \in DOMAIN rows /\ j.uid = 0
  BY JobFacts DEF Begin, At, SignupSound
<1>1. deliveries \in Nat /\ history.deliveries \in Nat /\ deliveries <= history.deliveries
      /\ reserved \in Reservation
  BY HistoriesAssumption DEF Inv, Types, IdentityTypes
<1>2. CASE Deliverable(MyRow(w)) /\ MayDeliver
  <2>. PICK row \in Row : row = rows[j.row] /\ row.token \in Ref /\ row.gen \in Nat
    BY RowFacts
  <2>. PICK n \in Nat : n = row.gen + 1
    OBVIOUS
  <2>. PICK t \in Nat : t = row.token
    BY DEF Row
  <2>. DEFINE new == [row EXCEPT !.status = "issuing", !.gen = n,
                                 !.rep = [phase |-> "preparing", cand |-> 0]]
              next == [j EXCEPT !.at = "mint", !.gen = n, !.want = t]
  <2>1. row.status \in {"reserved", "pending", "delivery_failed"}
    BY <1>2 DEF Deliverable, MyRow
  <2>2. /\ new \in Row /\ new.status = "issuing" /\ new.gen = n /\ new.token = t
        /\ new.ver = row.ver /\ new.rep.cand = 0 /\ new.rep.phase \notin Mailed
    BY ZenonT(60) DEF Row, Status, Open, Mailed
  <2>3. next \in Job
    <3>1. "mint" \in Places
      BY SomePlaces
    <3>. QED BY ZenonT(60), <3>1, JobEdited
  <2>4. /\ next.at = "mint" /\ next.gen = n /\ next.want = t
        /\ next.tok = j.tok /\ next.row = j.row /\ next.uid = 0 /\ next.flow = "signup"
    BY DEF Job
  <2>5. MyRowTo(w, new)
    BY <1>2 DEF Begin, MyRow, MayDeliver
  <2>6. JobSet(w, next)
    BY <1>2, JobFacts DEF Begin, MyRow, JobSet
  <2>. HIDE DEF new, next
  <2>7. row.ver.phase \notin Seen
    BY <2>1, RowFacts DEF RowSound
  <2>8. RowFits(j.row, new)
    BY <2>1, <2>2, <2>7 DEF RowFits, RowKept, Inv, Types, TokenTypes, Ref, InDelivery
  <2>9. SmallStep
    BY <1>1, <1>2 DEF SmallStep, Begin, MayDeliver, CountDelivery
  <2>10. UNCHANGED <<tokens, mailed>>
    BY DEF Begin
  <2>11. SignupDocs /\ rows'[j.row].gen = n /\ rows'[j.row].token = t /\ DOMAIN rows' = DOMAIN rows
    BY <2>2, <2>5, <2>8, <2>9, <2>10, SignupWrites
  <2>12. Ref \subseteq Ref'
    BY <2>11, RefGrows DEF SignupDocs
  <2>. QED BY <2>3, <2>4, <2>6, <2>11, <2>12, SignupSets DEF DeliverPlaces
<1>3. CASE ~(Deliverable(MyRow(w)) /\ MayDeliver)
  <2>1. SmallStep /\ UNCHANGED <<rows, tokens, mailed>> /\ Answer(w)
    BY <1>1, <1>3 DEF Begin, SmallStep
  <2>. QED BY <2>1, SignupSame, SignupEnds
<1>. QED BY <1>2, <1>3

LEMMA Small ==
    ASSUME Inv, UNCHANGED <<reserved, users, deliveries, invites, history>>
    PROVE  SmallStep
BY DEF SmallStep, Inv, Types, IdentityTypes

LEMMA MintKeeps ==
    ASSUME Inv, NEW w \in Worker, Mint(w), UNCHANGED <<invites, history>>
    PROVE  Inv'
<1>. PICK j \in Job : j = job[w] /\ j.flow = "signup" /\ j.at = "mint"
                      /\ j.tok \in Ref /\ j.want \in Ref /\ j.row \in DOMAIN rows /\ j.uid = 0
  BY JobFacts DEF Mint, At, SignupSound
<1>0. SmallStep
  BY Small DEF Mint
<1>1. CASE Answer(w)
  <2>1. tokens' = tokens \/ tokens' = Issued("signup") \/ tokens' = Prepared("signup", j.want)
    BY DEF Mint
  <2>2. TokenTypes /\ mailed' = mailed /\ rows' = rows
    BY DEF Mint, Inv, Types
  <2>3. TokensKept(tokens') /\ Len(tokens') >= Len(tokens)
    <3>1. "signup" \in Purpose /\ j.want \in Nat /\ 0 \in Nat
      BY DEF Purpose, Job
    <3>2. TokensKept(Issued("signup")) /\ TokensKept(Prepared("signup", j.want))
      BY <2>2, <3>1, TokenAdded DEF Issued, Prepared
    <3>. QED BY <2>1, <2>2, <3>2, TokensSame DEF TokensKept
  <2>4. mailed' \subseteq DOMAIN tokens'
    BY <2>2, <2>3 DEF TokenTypes, TokensKept
  <2>. QED BY <1>0, <1>1, <2>2, <2>3, <2>4, SignupTokens, SignupEnds
<1>2. CASE ~Answer(w)
  <2>. PICK n \in Nat : n = Len(tokens)
    BY DEF Inv, Types, TokenTypes
  <2>. PICK t \in Nat : t = n + 1
    OBVIOUS
  <2>. DEFINE next == [j EXCEPT !.at = "record", !.tok = t]
  <2>1. TokenTypes /\ mailed' = mailed /\ rows' = rows
    BY DEF Mint, Inv, Types
  <2>2. tokens' = Issued("signup") \/ tokens' = Prepared("signup", j.want)
    BY <1>2 DEF Mint
  <2>3. JobSet(w, next)
    BY <1>2, JobFacts DEF Mint, JobSet
  <2>4. next \in Job
    <3>1. "record" \in Places
      BY SomePlaces
    <3>. QED BY <3>1, JobEdited
  <2>5. /\ next.at = "record" /\ next.tok = t /\ next.gen = j.gen /\ next.want = j.want
        /\ next.row = j.row /\ next.uid = 0 /\ next.flow = "signup"
    BY DEF Job
  <2>. HIDE DEF next
  <2>6. TokensKept(tokens') /\ Len(tokens') = t
    <3>1. "signup" \in Purpose /\ j.want \in Nat /\ 0 \in Nat
      BY DEF Purpose, Job
    <3>. QED BY <2>1, <2>2, <3>1, TokenAdded DEF Issued, Prepared
  <2>7. mailed' \subseteq DOMAIN tokens'
    BY <2>1, <2>6 DEF TokenTypes, TokensKept
  <2>8. SignupDocs
    BY <1>0, <2>1, <2>6, <2>7, SignupTokens
  <2>9. j.want \in Ref' /\ t \in Ref'
    BY <2>6, <2>8, RefGrows DEF SignupDocs, Ref
  <2>10. /\ j.gen <= rows'[j.row].gen
         /\ j.gen = rows'[j.row].gen /\ rows'[j.row].status \in InDelivery =>
               rows'[j.row].token = j.want
    BY <2>1, JobFacts DEF SignupSound, DeliverPlaces
  <2>. QED BY <2>1, <2>3, <2>4, <2>5, <2>8, <2>9, <2>10, SignupSets
<1>. QED BY <1>1, <1>2

LEMMA DeliveringRow ==
    ASSUME Inv, NEW w \in Worker, job[w].flow = "signup", NEW s \in InDelivery, NEW phase,
           Delivering(w, s, phase), job[w].at \in DeliverPlaces
    PROVE  /\ MyRow(w) \in Row /\ MyRow(w).token \in Ref /\ MyRow(w).rep.cand \in Ref
           /\ MyRow(w).ver.phase \notin Seen /\ MyRow(w).token = job[w].want
           /\ MyRow(w).gen = job[w].gen /\ MyRow(w).status = s
           /\ \A new \in Row : /\ new.gen = MyRow(w).gen /\ new.token = MyRow(w).token
                               /\ new.ver = MyRow(w).ver /\ new.rep.cand \in Ref
                               /\ (new.rep.phase \in Mailed => new.rep.cand # 0)
                               /\ new.status \in InDelivery
                               => RowFits(job[w].row, new)
<1>. PICK r : r = job[w].row /\ r \in DOMAIN rows
  BY JobFacts
<1>. PICK row \in Row : row = rows[r] /\ row.token \in Ref /\ row.rep.cand \in Ref /\ row.gen \in Nat
  BY RowFacts
<1>1. row.ver.phase \notin Seen
  BY RowFacts DEF RowSound, InDelivery, Delivering, MyRow
<1>2. row.gen = job[w].gen /\ row.status = s
  BY DEF Delivering, MyRow
<1>3. row.token = job[w].want
  BY <1>2, JobFacts DEF SignupSound, MyRow
<1>. QED BY <1>1, <1>2, <1>3 DEF RowFits, RowKept, InDelivery, MyRow

LEMMA RecordCandidateKeeps ==
    ASSUME Inv, NEW w \in Worker, RecordCandidate(w), UNCHANGED <<invites, history>>
    PROVE  Inv'
<1>1. SmallStep /\ UNCHANGED <<tokens, mailed>>
  BY Small DEF RecordCandidate, othersUnchanged
<1>2. job[w].flow = "signup" /\ job[w].at = "record" /\ job[w].tok \in Ref /\ job[w].tok # 0
  BY JobFacts DEF RecordCandidate, At, SignupSound
<1>3. CASE Delivering(w, "issuing", "preparing")
  <2>. PICK c \in Nat : c = job[w].tok
    BY <1>2 DEF Ref
  <2>1. MyRow(w) \in Row
    BY <1>2, <1>3, DeliveringRow DEF InDelivery, DeliverPlaces
  <2>. PICK row \in Row : row = MyRow(w)
    BY <2>1
  <2>. DEFINE new == [row EXCEPT !.status = "delivery_pending",
                                 !.rep = [phase |-> "candidate_prepared", cand |-> c]]
  <2>2. /\ new \in Row /\ new.gen = row.gen /\ new.token = row.token /\ new.ver = row.ver
        /\ new.rep.cand = c /\ new.status = "delivery_pending" /\ new.rep.phase \notin Mailed
    BY DEF Row, Status, Open, Mailed
  <2>3. MyRowTo(w, new) /\ Goto(w, "submit")
    BY <1>3 DEF RecordCandidate
  <2>. HIDE DEF new
  <2>4. RowFits(job[w].row, new)
    BY <1>2, <1>3, <2>2, DeliveringRow DEF InDelivery, DeliverPlaces
  <2>5. SignupDocs
    BY <1>1, <1>2, <2>2, <2>3, <2>4, SignupWrites
  <2>. QED BY <1>2, <2>3, <2>5, SignupProceeds, NoPromises, SomePlaces DEF DeliverPlaces
<1>4. CASE ~Delivering(w, "issuing", "preparing")
  <2>1. Goto(w, "dropUnrecorded") /\ rows' = rows
    BY <1>4 DEF RecordCandidate
  <2>2. SignupDocs
    BY <1>1, <2>1, SignupSame
  <2>. QED BY <1>2, <2>1, <2>2, SignupProceeds, NoPromises, SomePlaces DEF DeliverPlaces
<1>. QED BY <1>3, <1>4

LEMMA SubmitKeeps ==
    ASSUME Inv, NEW w \in Worker, Submit(w), UNCHANGED <<invites, history>>
    PROVE  Inv'
<1>. PICK t \in Ref : t = job[w].tok
  BY JobFacts
<1>1. SmallStep /\ UNCHANGED <<rows, tokens>>
  BY Small DEF Submit
<1>2. job[w].flow = "signup" /\ job[w].at = "submit" /\ t # 0
  BY JobFacts DEF Submit, At, SignupSound
<1>3. PICK place \in {"recordSent", "recordUnsent", "drop"} : Goto(w, place)
  BY DEF Submit
<1>4. mailed' \in {mailed, mailed \union {t}}
  BY DEF Submit
<1>5. TokensKept(tokens') /\ mailed \subseteq mailed' /\ mailed' \subseteq DOMAIN tokens'
  BY <1>1, <1>2, <1>4, TokensSame DEF Inv, Types, TokenTypes, Ref
<1>6. SignupDocs
  BY <1>1, <1>5, SignupTokens
<1>. QED BY <1>2, <1>3, <1>6, SignupProceeds, NoPromises, SomePlaces DEF DeliverPlaces

LEMMA RecordReceiptKeeps ==
    ASSUME Inv, NEW w \in Worker, RecordReceipt(w), UNCHANGED <<invites, history>>
    PROVE  Inv'
<1>. PICK t \in Ref : t = job[w].tok
  BY JobFacts
<1>1. SmallStep /\ UNCHANGED <<tokens, mailed>>
  BY Small DEF RecordReceipt, othersUnchanged
<1>2. /\ job[w].flow = "signup" /\ job[w].at \in {"recordSent", "recordUnsent"}
      /\ job[w].at = "recordSent" => t # 0
  BY JobFacts DEF RecordReceipt, At, SignupSound
<1>. DEFINE here == Delivering(w, "delivery_pending", "candidate_prepared")
<1>3. ASSUME here
      PROVE  /\ MyRow(w) \in Row /\ MyRow(w).rep.cand = t /\ MyRow(w).rep.phase = "candidate_prepared"
             /\ MyRow(w).status = "delivery_pending"
             /\ \A new \in Row : /\ new.gen = MyRow(w).gen /\ new.token = MyRow(w).token
                                 /\ new.ver = MyRow(w).ver /\ new.rep.cand = t
                                 /\ (new.rep.phase \in Mailed => t # 0)
                                 /\ new.status = "delivery_pending"
                                 => RowFits(job[w].row, new)
  BY <1>2, <1>3, DeliveringRow DEF InDelivery, DeliverPlaces, Delivering
<1>4. ASSUME job[w].at = "recordSent", here,
             MyRowTo(w, [MyRow(w) EXCEPT !.rep.phase = "delivered"]),
             Goto(w, IF job[w].want # 0 THEN "promote" ELSE "recordPromoted")
      PROVE  Inv'
  <2>. PICK row \in Row : row = MyRow(w)
    BY <1>3, <1>4
  <2>. DEFINE new == [row EXCEPT !.rep.phase = "delivered"]
  <2>1. /\ new \in Row /\ new.gen = row.gen /\ new.token = row.token /\ new.ver = row.ver
        /\ new.rep.cand = row.rep.cand /\ new.status = row.status
    BY DEF Row
  <2>2. MyRowTo(w, new)
    BY <1>4
  <2>. HIDE DEF new
  <2>3. RowFits(job[w].row, new)
    BY <1>2, <1>3, <1>4, <2>1
  <2>4. SignupDocs
    BY <1>1, <1>2, <2>1, <2>2, <2>3, SignupWrites
  <2>5. PICK place \in {"promote", "recordPromoted"} :
           Goto(w, place) /\ (place = "recordPromoted" => job[w].want = 0)
    BY <1>4
  <2>. QED BY <1>2, <1>4, <2>4, <2>5, SignupProceeds, NoPromises, SomePlaces DEF DeliverPlaces
<1>5. ASSUME job[w].at = "recordUnsent", here, MyRowTo(w, MyRow(w)), Goto(w, "drop")
      PROVE  Inv'
  <2>1. MyRow(w).rep.phase \notin Mailed
    BY <1>3, <1>5 DEF Mailed
  <2>2. RowFits(job[w].row, MyRow(w))
    BY <1>3, <1>5, <2>1
  <2>3. SignupDocs
    BY <1>1, <1>2, <1>3, <1>5, <2>2, SignupWrites
  <2>. QED BY <1>2, <1>5, <2>3, SignupProceeds, NoPromises, SomePlaces DEF DeliverPlaces
<1>6. ASSUME rows' = rows, Answer(w) PROVE Inv'
  BY <1>1, <1>6, SignupSame, SignupEnds
<1>. HIDE DEF here
<1>. QED BY <1>4, <1>5, <1>6 DEF RecordReceipt, At, here

LEMMA PromoteKeeps ==
    ASSUME Inv, NEW w \in Worker, Promote(w), UNCHANGED <<invites, history>>
    PROVE  Inv'
<1>. PICK c \in Ref : c = job[w].tok
  BY JobFacts
<1>. PICK p \in Ref : p = job[w].want
  BY JobFacts
<1>1. SmallStep /\ UNCHANGED <<rows, mailed>> /\ TokenTypes
  BY Small DEF Promote, Inv, Types
<1>2. job[w].flow = "signup" /\ job[w].at = "promote" /\ c # 0
  BY JobFacts DEF Promote, At, SignupSound
<1>3. TokensKept(tokens') /\ Len(tokens') = Len(tokens)
  BY <1>1, <1>2, PromotedTokens, TokensSame DEF Promote
<1>4. mailed' \subseteq DOMAIN tokens'
  BY <1>1, <1>3 DEF TokenTypes, TokensKept
<1>5. SignupDocs
  BY <1>1, <1>3, <1>4, SignupTokens
<1>6. CASE MayPromote(c, p) \/ WasPromoted(c, p)
  <2>1. tokens'[p].state = "revoked"
    BY <1>1, <1>2, <1>6, PromotedTokens DEF Promote, WasPromoted
  <2>2. PICK place \in {"accept", "recordPromoted"} : Goto(w, place)
    BY <1>6 DEF Promote
  <2>. QED BY <1>2, <1>5, <2>1, <2>2, SignupProceeds, NoPromises, SomePlaces DEF DeliverPlaces
<1>7. CASE ~(MayPromote(c, p) \/ WasPromoted(c, p))
  <2>1. Goto(w, "discard")
    BY <1>7 DEF Promote
  <2>. QED BY <1>2, <1>5, <2>1, SignupProceeds, NoPromises, SomePlaces DEF DeliverPlaces
<1>. QED BY <1>6, <1>7

LEMMA DropKeeps ==
    ASSUME Inv, NEW w \in Worker, Drop(w), UNCHANGED <<invites, history>>
    PROVE  Inv'
<1>1. SmallStep /\ UNCHANGED <<rows, mailed>> /\ TokenTypes
  BY Small DEF Drop, Inv, Types
<1>2. job[w].flow = "signup" /\ job[w].at \in {"drop", "dropUnrecorded", "discard"}
  BY DEF Drop, At
<1>3. TokensKept(tokens') /\ Len(tokens') = Len(tokens)
  BY <1>1, RevokedTokens DEF Drop
<1>4. mailed' \subseteq DOMAIN tokens'
  BY <1>1, <1>3 DEF TokenTypes, TokensKept
<1>5. SignupDocs
  BY <1>1, <1>3, <1>4, SignupTokens
<1>6. PICK place \in {"rejectUnrecorded", "reject"} : Goto(w, place)
  BY DEF Drop
<1>. QED BY <1>2, <1>5, <1>6, SignupProceeds, NoPromises, SomePlaces DEF DeliverPlaces

LEMMA RecordPromotedKeeps ==
    ASSUME Inv, NEW w \in Worker, RecordPromoted(w), UNCHANGED <<invites, history>>
    PROVE  Inv'
<1>1. SmallStep /\ UNCHANGED <<tokens, mailed>>
  BY Small DEF RecordPromoted, othersUnchanged
<1>2. /\ job[w].flow = "signup" /\ job[w].at = "recordPromoted" /\ job[w].want \in Ref
      /\ job[w].want = 0 \/ tokens[job[w].want].state = "revoked"
  BY JobFacts DEF RecordPromoted, At, SignupSound
<1>3. CASE Delivering(w, "delivery_pending", "delivered")
  <2>1. /\ MyRow(w) \in Row /\ MyRow(w).rep.cand # 0 /\ MyRow(w).rep.cand \in Ref
        /\ job[w].row \in DOMAIN rows /\ MyRow(w).status = "delivery_pending"
    BY <1>2, <1>3, DeliveringRow, JobFacts, RowFacts
       DEF InDelivery, DeliverPlaces, Delivering, MyRow, Mailed
  <2>. PICK row \in Row : row = MyRow(w)
    BY <2>1
  <2>. DEFINE new == [row EXCEPT !.rep.phase = "promoted"]
  <2>2. /\ new \in Row /\ new.gen = row.gen /\ new.token = row.token /\ new.ver = row.ver
        /\ new.rep.cand = row.rep.cand /\ new.status = row.status
    BY DEF Row
  <2>3. MyRowTo(w, new) /\ Goto(w, "accept")
    BY <1>3 DEF RecordPromoted
  <2>. HIDE DEF new
  <2>4. RowFits(job[w].row, new)
    BY <1>2, <1>3, <2>1, <2>2, DeliveringRow DEF InDelivery, DeliverPlaces
  <2>5. SignupDocs
    BY <1>1, <1>2, <2>2, <2>3, <2>4, SignupWrites
  <2>. QED BY <1>1, <1>2, <2>3, <2>5, SignupProceeds, NoPromises, SomePlaces DEF DeliverPlaces
<1>4. CASE ~Delivering(w, "delivery_pending", "delivered")
  <2>1. rows' = rows /\ Answer(w)
    BY <1>4 DEF RecordPromoted
  <2>. QED BY <1>1, <2>1, SignupSame, SignupEnds
<1>. QED BY <1>3, <1>4

LEMMA FinishKeeps ==
    ASSUME Inv, NEW w \in Worker, Finish(w), UNCHANGED <<invites, history>>
    PROVE  Inv'
<1>1. SmallStep /\ UNCHANGED <<tokens, mailed>> /\ Answer(w)
  BY Small DEF Finish, othersUnchanged
<1>. PICK r : r = job[w].row
  OBVIOUS
<1>. PICK cand \in Ref : cand = IF At(w, "rejectUnrecorded") THEN 0 ELSE job[w].tok
  BY JobFacts DEF Inv, Types, TokenTypes, Ref
<1>2. /\ job[w].flow = "signup" /\ job[w].at \in {"accept", "reject", "rejectUnrecorded"}
      /\ r \in DOMAIN rows /\ MyRow(w) = rows[r]
  BY JobFacts DEF Finish, At, MyRow
<1>. PICK row \in Row : row = rows[r]
  BY <1>2, RowFacts
<1>3. ASSUME Finishing(w, cand)
      PROVE  /\ row.status \in InDelivery /\ row.gen = job[w].gen /\ row.token = job[w].want
             /\ row.ver.phase \notin Seen /\ row.gen \in Nat /\ row.token \in Ref
  <2>1. row.status \in InDelivery /\ row.gen = job[w].gen
    BY <1>2, <1>3 DEF Finishing, InDelivery
  <2>. QED BY <1>2, <2>1, RowFacts, JobFacts DEF SignupSound, RowSound, DeliverPlaces, InDelivery
<1>4. ASSUME job[w].at = "accept", Finishing(w, cand),
             MyRowTo(w, [row EXCEPT !.status = "pending", !.token = cand, !.rep = NoDelivery])
      PROVE  Inv'
  <2>. PICK t \in Nat : t = cand
    BY DEF Ref
  <2>. DEFINE new == [row EXCEPT !.status = "pending", !.token = t, !.rep = NoDelivery]
  <2>1. /\ new \in Row /\ new.gen = row.gen /\ new.token = cand /\ new.ver = row.ver
        /\ new.rep = NoDelivery /\ new.status = "pending"
    BY DEF Row, NoDelivery, Status, Open
  <2>2. MyRowTo(w, new)
    BY <1>4
  <2>. HIDE DEF new
  <2>3. row.token = 0 \/ tokens[row.token].state = "revoked"
    BY <1>2, <1>3, <1>4, JobFacts DEF SignupSound
  <2>4. RowFits(r, new)
    BY <1>1, <1>2, <1>3, <1>4, <2>1, <2>3
       DEF RowFits, RowKept, InDelivery, NoDelivery, Mailed, Inv, Types, TokenTypes, Ref
  <2>5. SignupDocs
    BY <1>1, <1>2, <2>1, <2>2, <2>4, SignupWrites
  <2>. QED BY <1>1, <2>5, SignupEnds
<1>5. ASSUME Finishing(w, cand),
             MyRowTo(w, [row EXCEPT !.rep = NoDelivery,
                           !.status = IF row.token # 0 THEN "pending" ELSE "delivery_failed"])
      PROVE  Inv'
  <2>. PICK s \in {"pending", "delivery_failed"} :
              s = IF row.token # 0 THEN "pending" ELSE "delivery_failed"
    OBVIOUS
  <2>. DEFINE new == [row EXCEPT !.rep = NoDelivery, !.status = s]
  <2>1. /\ new \in Row /\ new.gen = row.gen /\ new.token = row.token /\ new.ver = row.ver
        /\ new.rep = NoDelivery /\ new.status = s
    BY DEF Row, NoDelivery, Status, Open
  <2>2. MyRowTo(w, new)
    BY <1>5
  <2>. HIDE DEF new
  <2>4. RowFits(r, new)
    BY <1>1, <1>2, <1>3, <1>5, <2>1
       DEF RowFits, RowKept, InDelivery, NoDelivery, Mailed, Inv, Types, TokenTypes, Ref
  <2>5. SignupDocs
    BY <1>1, <1>2, <2>1, <2>2, <2>4, SignupWrites
  <2>. QED BY <1>1, <2>5, SignupEnds
<1>6. ASSUME rows' = rows PROVE Inv'
  BY <1>1, <1>6, SignupSame, SignupEnds
<1>. QED BY <1>2, <1>4, <1>5, <1>6 DEF Finish, At

-----------------------------------------------------------------------------
(* initiate, resend, cancel and the start of a repair                        *)

\* The requests a worker may be given.
LEMMA FreshJob ==
    ASSUME NEW place \in Places, NEW f \in Flow, NEW r \in Nat
    PROVE  [NoJob EXCEPT !.at = place, !.flow = f, !.row = r] \in Job
BY DEF Job, NoJob

LEMMA FreshTokenJob ==
    ASSUME NEW place \in Places, NEW f \in Flow, NEW r \in Nat, NEW t \in Nat
    PROVE  [NoJob EXCEPT !.at = place, !.flow = f, !.row = r, !.tok = t] \in Job
BY DEF Job, NoJob

LEMMA FreshCancelJob ==
    ASSUME NEW place \in Places, NEW f \in Flow, NEW r \in Nat, NEW g \in Nat, NEW t \in Nat
    PROVE  [NoJob EXCEPT !.at = place, !.flow = f, !.row = r, !.gen = g, !.tok = t] \in Job
BY DEF Job, NoJob

LEMMA FreshVerifyJob ==
    ASSUME NEW place \in Places, NEW f \in Flow, NEW r \in Nat, NEW t \in Nat,
           NEW b \in Browser, NEW n \in Nat
    PROVE  [NoJob EXCEPT !.at = place, !.flow = f, !.row = r, !.tok = t, !.by = b,
                         !.want = n] \in Job
BY DEF Job, NoJob

LEMMA FreshClaimJob ==
    ASSUME NEW place \in Places, NEW f \in Flow, NEW r \in Nat, NEW t \in Nat,
           NEW b \in Browser \union {NoBrowser}, NEW u \in Nat, NEW n \in Nat
    PROVE  [NoJob EXCEPT !.at = place, !.flow = f, !.row = r, !.tok = t, !.by = b,
                         !.uid = u, !.want = n] \in Job
BY DEF Job, NoJob

LEMMA SignupBegins ==
    ASSUME Inv, SignupDocs, NEW w \in Worker, NEW r, r \in DOMAIN rows', Deliver(w, r)
    PROVE  Inv'
<1>. DEFINE next == [NoJob EXCEPT !.at = "begin", !.flow = "signup", !.row = r]
<1>1. r \in Nat
  <2>1. rows' \in Seq(Row)
    BY DEF SignupDocs, RowTypes
  <2>. QED BY <2>1
<1>2. "begin" \in Places /\ "signup" \in Flow
  BY DEF Flow, Places
<1>3. next \in Job
  BY <1>1, <1>2, FreshJob
<1>4. /\ next.at = "begin" /\ next.flow = "signup" /\ next.row = r /\ next.tok = 0
      /\ next.want = 0 /\ next.uid = 0
  BY DEF NoJob
<1>5. JobSet(w, next)
  BY DEF Deliver, JobSet
<1>6. 0 \in Ref'
  BY DEF SignupDocs, TokenTypes, Ref
<1>. HIDE DEF next
<1>. QED BY <1>3, <1>4, <1>5, <1>6, SignupSets DEF DeliverPlaces

LEMMA InitiateKeeps ==
    ASSUME Inv, NEW w \in Worker, Initiate(w), UNCHANGED <<invites, history>>
    PROVE  Inv'
<1>1. SmallStep /\ UNCHANGED <<tokens, mailed>>
  BY Small DEF Initiate, othersUnchanged
<1>. QED BY <1>1, SignupAppends, SignupBegins DEF Initiate

LEMMA InitiateAgainKeeps ==
    ASSUME Inv, NEW w \in Worker, NEW r, r \in DOMAIN rows, InitiateAgain(w, r),
           UNCHANGED <<invites, history>>
    PROVE  Inv'
<1>1. SmallStep /\ UNCHANGED <<rows, tokens, mailed>>
  BY Small DEF InitiateAgain, othersUnchanged
<1>. QED BY <1>1, SignupSame, SignupBegins DEF InitiateAgain

LEMMA ResendKeeps ==
    ASSUME Inv, NEW w \in Worker, Resend(w), UNCHANGED <<invites, history>>
    PROVE  Inv'
<1>. DEFINE S == {r \in DOMAIN rows : rows[r].status \in {"pending", "delivery_failed"}}
<1>1. SmallStep /\ UNCHANGED <<rows, tokens, mailed>>
  BY Small DEF Resend, othersUnchanged
<1>2. S \subseteq Nat
  BY DEF Inv, Types, RowTypes
<1>3. First(S) \in DOMAIN rows
  BY <1>2, FirstIsOne DEF Resend
<1>. QED BY <1>1, <1>3, SignupSame, SignupBegins DEF Resend

LEMMA ReconcileKeeps ==
    ASSUME Inv, NEW w \in Worker, Reconcile(w), UNCHANGED <<invites, history>>
    PROVE  Inv'
<1>. DEFINE S == {r \in DOMAIN rows : rows[r].status \in {"issuing", "delivery_pending"}}
<1>1. SmallStep /\ UNCHANGED <<rows, tokens, mailed>>
  BY Small DEF Reconcile, othersUnchanged
<1>2. S \subseteq Nat /\ S # {}
  <2>1. S # {}
    BY DEF Reconcile
  <2>2. rows \in Seq(Row)
    BY DEF Inv, Types, RowTypes
  <2>. QED BY <2>1, <2>2
<1>. PICK r \in Nat : r = First(S) /\ r \in DOMAIN rows
  BY <1>2, FirstIsOne
<1>. PICK row \in Row : row = rows[r]
  BY RowFacts
<1>. PICK g \in Nat : g = row.gen
  BY DEF Row
<1>. PICK t \in Nat : t = row.rep.cand
  BY DEF Row
<1>. PICK n \in Nat : n = row.token
  BY DEF Row
<1>. PICK place : place = IF row.rep.phase \in {"delivered", "promoted"}
                          THEN IF n # 0 THEN "promote" ELSE "accept"
                          ELSE IF t # 0 THEN "drop" ELSE "reject"
  OBVIOUS
<1>3. /\ place \in {"promote", "accept", "drop", "reject"}
      /\ place = "accept" => n = 0
      /\ place = "promote" => t # 0
  BY RowFacts DEF Mailed
<1>. DEFINE next == [NoJob EXCEPT !.at = place, !.flow = "signup", !.row = r, !.gen = g,
                                  !.tok = t, !.want = n, !.again = TRUE]
<1>4. JobSet(w, next)
  BY DEF Reconcile, JobSet
<1>5. place \in Places /\ "signup" \in Flow
  BY <1>3 DEF Places, DeliverPlaces, Flow
<1>6. next \in Job
  <2>. HIDE DEF S
  <2>. QED BY <1>5 DEF next, Job, NoJob
<1>7. /\ next.at = place /\ next.flow = "signup" /\ next.row = r /\ next.gen = g /\ next.tok = t
      /\ next.want = n /\ next.uid = 0
  BY DEF NoJob
<1>. HIDE DEF next
<1>8. SignupDocs
  BY <1>1, SignupSame
<1>9. Ref \subseteq Ref' /\ n \in Ref /\ t \in Ref
  BY <1>8, RefGrows, RowFacts DEF SignupDocs
<1>. QED BY <1>1, <1>3, <1>4, <1>6, <1>7, <1>8, <1>9, SignupSets

LEMMA CancelKeeps ==
    ASSUME Inv, NEW w \in Worker, NEW t \in mailed, Cancel(w, t), UNCHANGED <<invites, history>>
    PROVE  Inv'
<1>1. SmallStep /\ UNCHANGED <<rows, tokens, mailed>>
  BY Small DEF Cancel, othersUnchanged
<1>2. 1 \in DOMAIN rows /\ t \in Ref /\ t \in Nat
  BY DEF Cancel, Inv, Types, RowTypes, TokenTypes, Ref
<1>. PICK g \in Nat : g = rows[1].gen
  BY <1>2, RowFacts
<1>. DEFINE next == [NoJob EXCEPT !.at = "authorize", !.flow = "signup", !.row = 1, !.gen = g,
                                  !.tok = t]
<1>3. JobSet(w, next)
  BY DEF Cancel, JobSet
<1>4. "authorize" \in Places /\ "signup" \in Flow
  BY DEF Places, CancelPlaces, Flow
<1>5. next \in Job
  BY <1>2, <1>4, FreshCancelJob
<1>6. /\ next.at = "authorize" /\ next.flow = "signup" /\ next.row = 1 /\ next.tok = t
      /\ next.want = 0 /\ next.uid = 0
  BY DEF NoJob
<1>. HIDE DEF next
<1>7. SignupDocs
  BY <1>1, SignupSame
<1>8. Ref \subseteq Ref' /\ 0 \in Ref'
  BY <1>7, RefGrows DEF SignupDocs, TokenTypes, Ref
<1>. QED BY <1>1, <1>2, <1>3, <1>5, <1>6, <1>7, <1>8, SignupSets DEF DeliverPlaces

LEMMA AuthorizeKeeps ==
    ASSUME Inv, NEW w \in Worker, Authorize(w), UNCHANGED <<invites, history>>
    PROVE  Inv'
<1>1. SmallStep /\ UNCHANGED <<rows, tokens, mailed>> /\ job[w].flow = "signup"
  BY Small DEF Authorize, othersUnchanged, At
<1>2. SignupDocs
  BY <1>1, SignupSame
<1>3. CASE Goto(w, "cancelRow")
  BY <1>1, <1>2, <1>3, SignupProceeds, NoPromises, SomePlaces DEF DeliverPlaces, CancelPlaces
<1>4. CASE Answer(w)
  BY <1>2, <1>4, SignupEnds
<1>. QED BY <1>3, <1>4 DEF Authorize

LEMMA CancelRowKeeps ==
    ASSUME Inv, NEW w \in Worker, CancelRow(w), UNCHANGED <<invites, history>>
    PROVE  Inv'
<1>. PICK j \in Job : j = job[w] /\ j.flow = "signup" /\ j.tok \in Ref /\ j.row \in DOMAIN rows
                      /\ j.uid = 0
  BY JobFacts DEF CancelRow, At, SignupSound
<1>1. SmallStep /\ UNCHANGED <<tokens, mailed>>
  BY Small DEF CancelRow, othersUnchanged
<1>2. CASE MayCancel(w)
  <2>. PICK row \in Row : row = rows[j.row] /\ row.token \in Ref /\ row.rep.cand \in Ref
                          /\ row.gen \in Nat
    BY RowFacts
  <2>. PICK c \in Nat : c = row.rep.cand
    BY DEF Row
  <2>. DEFINE new == [row EXCEPT !.status = "cancelled", !.rep = NoDelivery]
              next == [j EXCEPT !.at = "revoke", !.want = c]
  <2>1. row.status \in Cancellable
    BY <1>2 DEF MayCancel, MyRow
  <2>2. /\ new \in Row /\ new.gen = row.gen /\ new.token = row.token /\ new.ver = row.ver
        /\ new.rep = NoDelivery /\ new.status = "cancelled"
    BY ZenonT(60) DEF Row, NoDelivery, Status, Open
  <2>3. MyRowTo(w, new)
    BY <1>2 DEF CancelRow, MyRow
  <2>4. JobSet(w, next)
    BY <1>2, JobFacts DEF CancelRow, MyRow, JobSet
  <2>5. next \in Job
    <3>1. "revoke" \in Places
      BY DEF Places, CancelPlaces
    <3>. QED BY <3>1, JobEdited
  <2>6. /\ next.at = "revoke" /\ next.want = c /\ next.tok = j.tok /\ next.row = j.row
        /\ next.uid = 0 /\ next.flow = "signup"
    BY DEF Job
  <2>. HIDE DEF new, next
  <2>7. row.ver.phase \notin Seen
    BY <2>1, RowFacts DEF RowSound, Cancellable
  <2>8. RowFits(j.row, new)
    BY <2>1, <2>2, <2>7
       DEF RowFits, RowKept, NoDelivery, Mailed, InDelivery, Inv, Types, TokenTypes, Ref
  <2>9. SignupDocs /\ DOMAIN rows' = DOMAIN rows
    BY <1>1, <2>2, <2>3, <2>8, SignupWrites
  <2>10. Ref \subseteq Ref'
    BY <2>9, RefGrows DEF SignupDocs
  <2>. QED BY <2>4, <2>5, <2>6, <2>9, <2>10, SignupSets DEF DeliverPlaces
<1>3. CASE ~MayCancel(w)
  <2>1. rows' = rows /\ Answer(w)
    BY <1>3 DEF CancelRow
  <2>. QED BY <1>1, <2>1, SignupSame, SignupEnds
<1>. QED BY <1>2, <1>3

LEMMA RevokeKeeps ==
    ASSUME Inv, NEW w \in Worker, RevokeCurrent(w) \/ RevokeCandidate(w),
           UNCHANGED <<invites, history>>
    PROVE  Inv'
<1>1. SmallStep /\ UNCHANGED <<rows, mailed>> /\ TokenTypes /\ job[w].flow = "signup"
  BY Small DEF RevokeCurrent, RevokeCandidate, At, Inv, Types
<1>2. TokensKept(tokens') /\ Len(tokens') = Len(tokens)
  BY <1>1, RevokedTokens DEF RevokeCurrent, RevokeCandidate, Withdrawn
<1>3. mailed' \subseteq DOMAIN tokens'
  BY <1>1, <1>2 DEF TokenTypes, TokensKept
<1>4. SignupDocs
  BY <1>1, <1>2, <1>3, SignupTokens
<1>5. CASE Goto(w, "revokeCandidate")
  BY <1>1, <1>4, <1>5, SignupProceeds, NoPromises, SomePlaces DEF DeliverPlaces, CancelPlaces
<1>6. CASE Answer(w)
  BY <1>4, <1>6, SignupEnds
<1>. QED BY <1>5, <1>6 DEF RevokeCurrent, RevokeCandidate

-----------------------------------------------------------------------------
(* verify                                                                    *)

(* A request claims the row of its key, or else a pending one.                 *)
VerifiesWith(w, t, b, r) ==
    /\ rows[r].status \in {"verifying", "pending"}
    /\ rows' = IF rows[r].status = "verifying" THEN rows
               ELSE [rows EXCEPT ![r].status = "verifying", ![r].aged = FALSE,
                         ![r].ver = [phase |-> "claimed", tok |-> t, by |-> b]]
    /\ job' = [job EXCEPT ![w] = [NoJob EXCEPT
                  !.at = "reserve", !.flow = "signup", !.row = r, !.tok = t,
                  !.by = b, !.want = rows[r].token]]

LEMMA VerifyDoes ==
    ASSUME Inv, NEW w \in Worker, NEW t, NEW b, Verify(w, t, b)
    PROVE  \E r \in DOMAIN rows : r \in Nat /\ VerifiesWith(w, t, b, r)
<1>. DEFINE mine == {r \in DOMAIN rows : rows[r].status \in {"verifying", "complete"}
                                         /\ rows[r].ver.tok = t /\ rows[r].ver.by = b}
            free == {r \in DOMAIN rows : rows[r].status = "pending"}
            S == IF mine # {} THEN mine ELSE free
<1>1. S \subseteq Nat /\ S # {}
  <2>1. mine \union free # {}
    BY DEF Verify
  <2>2. DOMAIN rows \subseteq Nat
    BY DEF Inv, Types, RowTypes
  <2>. QED BY <2>1, <2>2
<1>2. First(S) \in S
  <2>. HIDE DEF S
  <2>. QED BY <1>1, FirstIsOne
<1>3. /\ First(S) \in DOMAIN rows /\ First(S) \in Nat
      /\ rows[First(S)].status \in {"verifying", "complete", "pending"}
  BY <1>1, <1>2
<1>. QED BY <1>3 DEF Verify, VerifiesWith

LEMMA VerifyKeeps ==
    ASSUME Inv, NEW w \in Worker, NEW t \in mailed, NEW b \in Browser, Verify(w, t, b),
           UNCHANGED <<invites, history>>
    PROVE  Inv'
<1>1. SmallStep /\ UNCHANGED <<tokens, mailed>>
  BY Small DEF Verify, othersUnchanged
<1>2. PICK r \in DOMAIN rows : r \in Nat /\ VerifiesWith(w, t, b, r)
  BY VerifyDoes
<1>. PICK row \in Row : row = rows[r] /\ row.gen \in Nat
  BY RowFacts
<1>. PICK n \in Nat : n = row.token
  BY DEF Row
<1>3. row.status \in {"verifying", "pending"}
  BY <1>2 DEF VerifiesWith
<1>. DEFINE next == [NoJob EXCEPT !.at = "reserve", !.flow = "signup", !.row = r, !.tok = t,
                                  !.by = b, !.want = n]
<1>4. JobSet(w, next)
  BY <1>2 DEF VerifiesWith, JobSet
<1>5. t \in Nat /\ t \in Ref /\ n \in Ref
  BY RowFacts DEF Inv, Types, TokenTypes, Ref
<1>6. next \in Job
  <2>1. "reserve" \in Places /\ "signup" \in Flow
    BY DEF Places, VerifyPlaces, Flow
  <2>. QED BY <1>2, <1>5, <2>1, FreshVerifyJob
<1>7. /\ next.at = "reserve" /\ next.flow = "signup" /\ next.row = r /\ next.tok = t
      /\ next.want = n /\ next.uid = 0
  BY DEF NoJob
<1>8. rows' = IF rows[r].status = "verifying" THEN rows
              ELSE [rows EXCEPT ![r].status = "verifying", ![r].aged = FALSE,
                                ![r].ver = [phase |-> "claimed", tok |-> t, by |-> b]]
  BY <1>2 DEF VerifiesWith
<1>. HIDE DEF next
<1>9. SignupDocs /\ r \in DOMAIN rows' /\ rows'[r].token = n
  <2>1. CASE row.status = "verifying"
    BY <1>1, <1>8, <2>1, SignupSame
  <2>2. CASE row.status = "pending"
    <3>. DEFINE ver == [phase |-> "claimed", tok |-> t, by |-> b]
                new == [row EXCEPT !.status = "verifying", !.aged = FALSE, !.ver = ver]
    <3>1. /\ new \in Row /\ new.gen = row.gen /\ new.token = row.token /\ new.rep = row.rep
          /\ new.status = "verifying" /\ new.ver.phase = "claimed"
      BY <1>5 DEF Row, Status, Open
    <3>2. rows' = [rows EXCEPT ![r] = new]
      BY <1>8, <2>2 DEF Inv, Types, RowTypes
    <3>. HIDE DEF new
    <3>3. row.ver.phase \notin Seen
      BY <2>2, RowFacts DEF RowSound
    <3>4. RowFits(r, new)
      BY <3>1, <3>3, RowFacts DEF RowFits, RowKept, InDelivery, Seen
    <3>. QED BY <1>1, <3>1, <3>2, <3>4, SignupRow
  <2>. QED BY <1>3, <2>1, <2>2
<1>10. Ref \subseteq Ref'
  BY <1>9, RefGrows DEF SignupDocs
<1>. QED BY <1>1, <1>4, <1>5, <1>6, <1>7, <1>9, <1>10, SignupSets DEF DeliverPlaces

LEMMA ReservationMade ==
    ASSUME NEW j \in Job, j.flow \in Flow PROVE Of(j) \in Reservation
BY DEF Of, Reservation, Job

LEMMA ReserveKeeps ==
    ASSUME Inv, NEW w \in Worker, Reserve(w), UNCHANGED <<invites, history>>
    PROVE  Inv'
<1>1. job[w].flow = "signup" /\ job[w].at = "reserve"
  BY DEF Reserve, At
<1>2. reserved' = Of(job[w]) \/ reserved' = reserved
  BY DEF Reserve
<1>3. reserved' \in Reservation
  BY <1>1, <1>2, JobFacts, ReservationMade DEF Flow, Inv, Types, IdentityTypes
<1>4. SmallStep /\ UNCHANGED <<rows, tokens, mailed>>
  BY <1>3 DEF Reserve, SmallStep, Inv, Types, IdentityTypes
<1>5. SignupDocs
  BY <1>4, SignupSame
<1>6. PICK place \in {"consume", "abandon"} : Goto(w, place)
  BY DEF Reserve
<1>. QED BY <1>1, <1>5, <1>6, SignupProceeds, NoPromises, SomePlaces DEF DeliverPlaces, VerifyPlaces

LEMMA ConsumeKeeps ==
    ASSUME Inv, NEW w \in Worker, Consume(w), UNCHANGED <<invites, history>>
    PROVE  Inv'
<1>. PICK j \in Job : j = job[w] /\ j.row \in DOMAIN rows
  BY JobFacts DEF Consume, At
<1>. PICK b \in Browser \union {NoBrowser} : b = j.by
  BY DEF Job
<1>. PICK t : t = j.tok
  OBVIOUS
<1>1. SmallStep /\ UNCHANGED <<rows, mailed>> /\ TokenTypes
  BY Small DEF Consume, Inv, Types
<1>2. job[w].flow = "signup" /\ job[w].at = "consume" /\ t \in mailed /\ t \in DOMAIN tokens
  BY <1>1, JobFacts DEF Consume, At, JobSound, TokenTypes
<1>3. TokensKept(tokens') /\ Len(tokens') = Len(tokens)
  BY <1>1, <1>2, ConsumedToken, TokensSame DEF Consume
<1>4. mailed' \subseteq DOMAIN tokens'
  BY <1>1, <1>3 DEF TokenTypes, TokensKept
<1>5. SignupDocs
  BY <1>1, <1>3, <1>4, SignupTokens
<1>6. CASE MayConsume(t, b) /\ t = j.want
  <2>1. tokens' = Consumed(t, b) /\ Goto(w, "consumed")
    BY <1>6 DEF Consume
  <2>2. UsedBy(t, b)'
    BY <1>1, <1>2, <1>6, <2>1, ConsumedToken DEF UsedBy
  <2>3. rows[j.row].token = t
    BY <1>2, <1>6, JobFacts DEF SignupSound, MayConsume, Active
  <2>4. rows'[j.row].token = t
    BY <1>1, <2>3
  <2>5. job'[w].tok = t /\ job'[w].by = b
    BY <1>5, <2>1, RefGrows, GotoJob, SomePlaces
       DEF MovesTo, SignupDocs, VerifyPlaces, Inv, Types
  <2>6. UsedBy(job[w].tok, job[w].by)'
    BY <2>2, <2>5
  <2>. QED BY <1>2, <1>5, <2>1, <2>4, <2>6, SignupProceeds, NoPromises, SomePlaces
           DEF DeliverPlaces, VerifyPlaces
<1>7. CASE ~(MayConsume(t, b) /\ t = j.want)
  <2>1. Goto(w, "abandon")
    BY <1>7 DEF Consume
  <2>. QED BY <1>2, <1>5, <2>1, SignupProceeds, NoPromises, SomePlaces
           DEF DeliverPlaces, VerifyPlaces
<1>. QED BY <1>6, <1>7

LEMMA AbandonKeeps ==
    ASSUME Inv, NEW w \in Worker, Abandon(w), UNCHANGED <<invites, history>>
    PROVE  Inv'
<1>1. SmallStep /\ UNCHANGED <<tokens, mailed>> /\ Goto(w, "release")
  BY Small DEF Abandon, othersUnchanged
<1>2. job[w].flow = "signup" /\ job[w].row \in DOMAIN rows
  BY JobFacts DEF Abandon, At
<1>3. SignupDocs
  <2>1. CASE MayAbandon(w)
    <3>. PICK row \in Row : row = rows[job[w].row] /\ row.gen \in Nat
      BY <1>2, RowFacts
    <3>. DEFINE new == [row EXCEPT !.status = "pending", !.ver = NoVerification]
    <3>1. /\ new \in Row /\ new.gen = row.gen /\ new.token = row.token /\ new.rep = row.rep
          /\ new.status = "pending" /\ new.ver = NoVerification
      BY DEF Row, NoVerification, Status, Open
    <3>2. MyRowTo(w, new)
      BY <2>1 DEF Abandon, MyRow
    <3>3. row.ver.phase \notin Seen
      BY <2>1 DEF MayAbandon, MyRow, Seen
    <3>. HIDE DEF new
    <3>4. RowFits(job[w].row, new)
      BY <1>2, <3>1, <3>3, RowFacts DEF RowFits, RowKept, InDelivery, NoVerification, Seen
    <3>. QED BY <1>1, <1>2, <3>1, <3>2, <3>4, SignupWrites
  <2>2. CASE ~MayAbandon(w)
    <3>1. rows' = rows
      BY <2>2 DEF Abandon
    <3>. QED BY <1>1, <3>1, SignupSame
  <2>. QED BY <2>1, <2>2
<1>. QED BY <1>1, <1>2, <1>3, SignupProceeds, NoPromises, SomePlaces DEF DeliverPlaces, VerifyPlaces

LEMMA ReleaseKeeps ==
    ASSUME Inv, NEW w \in Worker, Release(w), UNCHANGED <<invites, history>>
    PROVE  Inv'
<1>1. reserved' \in Reservation
  BY DEF Release, Released, Reservation, Inv, Types, IdentityTypes
<1>2. SmallStep /\ UNCHANGED <<rows, tokens, mailed>> /\ Answer(w)
  BY <1>1 DEF Release, SmallStep, Inv, Types, IdentityTypes
<1>. QED BY <1>2, SignupSame, SignupEnds

LEMMA RecordConsumedKeeps ==
    ASSUME Inv, NEW w \in Worker, RecordConsumed(w), UNCHANGED <<invites, history>>
    PROVE  Inv'
<1>1. SmallStep /\ UNCHANGED <<tokens, mailed>>
  BY Small DEF RecordConsumed, othersUnchanged
<1>2. /\ job[w].flow = "signup" /\ job[w].row \in DOMAIN rows
      /\ UsedBy(job[w].tok, job[w].by) /\ rows[job[w].row].token = job[w].tok
  BY JobFacts DEF RecordConsumed, At, JobSound, SignupSound
<1>3. CASE MyRow(w).status = "verifying" /\ MyClaim(w)
  <2>. PICK row \in Row : row = rows[job[w].row] /\ row.gen \in Nat
    BY <1>2, RowFacts
  <2>. DEFINE new == [row EXCEPT !.ver.phase = "token_consumed"]
  <2>1. /\ new \in Row /\ new.gen = row.gen /\ new.token = row.token /\ new.rep = row.rep
        /\ new.status = row.status /\ new.ver.phase = "token_consumed"
        /\ new.ver.tok = row.ver.tok /\ new.ver.by = row.ver.by
    BY DEF Row
  <2>2. MyRowTo(w, new) /\ Goto(w, "provision")
    BY <1>3 DEF RecordConsumed, MyRow
  <2>3. row.status = "verifying" /\ row.ver.tok = job[w].tok /\ row.ver.by = job[w].by
    BY <1>3 DEF MyRow, MyClaim
  <2>. HIDE DEF new
  <2>4. RowFits(job[w].row, new)
    BY <1>2, <2>1, <2>3, RowFacts DEF RowFits, RowKept, InDelivery, Seen
  <2>5. SignupDocs /\ rows'[job[w].row].ver = new.ver
    BY <1>1, <1>2, <2>1, <2>2, <2>4, SignupWrites
  <2>6. rows'[job[w].row].ver.phase \in Seen
    BY <2>1, <2>5 DEF Seen
  <2>. QED BY <1>2, <2>2, <2>5, <2>6, SignupProceeds, NoPromises, SomePlaces
           DEF DeliverPlaces, VerifyPlaces
<1>4. CASE ~(MyRow(w).status = "verifying" /\ MyClaim(w))
  <2>1. rows' = rows /\ Answer(w)
    BY <1>4 DEF RecordConsumed
  <2>. QED BY <1>1, <2>1, SignupSame, SignupEnds
<1>. QED BY <1>3, <1>4

LEMMA FinalizeKeeps ==
    ASSUME Inv, NEW w \in Worker, Finalize(w), UNCHANGED <<invites, history>>
    PROVE  Inv'
<1>1. SmallStep /\ UNCHANGED <<tokens, mailed>> /\ Answer(w)
  BY Small DEF Finalize, othersUnchanged
<1>. PICK r : r = job[w].row
  OBVIOUS
<1>2. job[w].flow = "signup" /\ r \in DOMAIN rows
  BY JobFacts DEF Finalize, At
<1>3. CASE MyRow(w).status = "verifying" /\ MyClaim(w)
  <2>. PICK row \in Row : row = rows[r] /\ row.gen \in Nat
    BY <1>2, RowFacts
  <2>. DEFINE new == [row EXCEPT !.status = "complete", !.ver.phase = "complete"]
  <2>1. /\ new \in Row /\ new.gen = row.gen /\ new.token = row.token /\ new.rep = row.rep
        /\ new.status = "complete" /\ new.ver.phase = "complete"
        /\ new.ver.tok = row.ver.tok /\ new.ver.by = row.ver.by
    BY DEF Row, Status, Open
  <2>2. MyRowTo(w, new)
    BY <1>3 DEF Finalize, MyRow
  <2>3. PICK u \in users : MyUser(u, w) /\ Complete(u)
    BY JobFacts DEF Finalize, At, JobSound
  <2>4. u.flow = "signup" /\ u.row = r
    BY <1>2, <2>3 DEF MyUser, SameRow
  <2>5. row.ver.phase \in Seen
    BY <2>4 DEF Inv, UsersSound, UserSound
  <2>6. row.ver.tok = row.token /\ UsedBy(row.token, row.ver.by)
    BY <1>2, <2>5, RowFacts DEF RowSound
  <2>. HIDE DEF new
  <2>7. RowFits(r, new)
    BY <1>2, <2>1, <2>3, <2>4, <2>6, RowFacts DEF RowFits, RowKept, InDelivery, Seen
  <2>. QED BY <1>1, <1>2, <2>1, <2>2, <2>7, SignupWrites, SignupEnds
<1>4. CASE ~(MyRow(w).status = "verifying" /\ MyClaim(w))
  <2>1. rows' = rows
    BY <1>4 DEF Finalize
  <2>. QED BY <1>1, <2>1, SignupSame, SignupEnds
<1>. QED BY <1>3, <1>4

-----------------------------------------------------------------------------
(* Making the account                                                        *)

\* What a step that only touches the account leaves of the documents.
AccountDocs ==
    /\ TokenTypes' /\ RowTypes' /\ InviteTypes' /\ IdentityTypes' /\ Evolve /\ UsersSound'
    /\ \A r \in DOMAIN rows' : RowSound(r)'
    /\ \A i \in DOMAIN invites' : InviteSound(i)'
    /\ UNCHANGED <<invites, rows>>

LEMMA UsersReplaced ==
    ASSUME Inv, UNCHANGED <<tokens, mailed, rows, invites, deliveries, history>>,
           reserved' \in Reservation, users' \subseteq User, UsersKept,
           \A u, v \in users' : u = v, \A u \in users' : UserSound(u)
    PROVE  AccountDocs
<1>1. Evolve
  BY TokensSame, RowsSame, InvitesSame DEF Evolve, Inv, Types
<1>2. TokenTypes' /\ RowTypes' /\ InviteTypes' /\ IdentityTypes'
  BY DEF TokenTypes, RowTypes, InviteTypes, IdentityTypes, Inv, Types, Ref
<1>3. \A r \in DOMAIN rows' : RowSound(r)'
  BY <1>1, RowStays DEF Inv
<1>4. \A i \in DOMAIN invites' : InviteSound(i)'
  BY <1>1, InviteStays DEF Inv
<1>5. UsersSound'
  BY DEF UsersSound, UserSound
<1>. QED BY <1>1, <1>2, <1>3, <1>4, <1>5 DEF AccountDocs

LEMMA UsersUpdated ==
    ASSUME Inv, UNCHANGED <<tokens, mailed, rows, invites, deliveries, history>>,
           reserved' \in Reservation, NEW f, users' = {f[u] : u \in users},
           \A u \in users : f[u] \in User /\ UserKept(u, f[u]) /\ UserSound(f[u])
    PROVE  AccountDocs
<1>1. users' \subseteq User /\ UsersKept /\ \A u \in users' : UserSound(u)
  BY DEF UsersKept
<1>2. \A u, v \in users' : u = v
  BY DEF Inv, UsersSound
<1>. QED BY <1>1, <1>2, UsersReplaced

LEMMA AccountProvisioned ==
    ASSUME Inv, UNCHANGED <<tokens, mailed, rows, invites, deliveries, history, reserved>>,
           NEW j \in Job, j.flow \in Flow, MayProvision(j), users' = Provisioned(j),
           j.flow = "signup" => j.row \in DOMAIN rows /\ rows[j.row].ver.phase \in Seen,
           j.flow = "invitation" => j.row \in DOMAIN invites /\ invites[j.row].red.phase \in Seen
    PROVE  AccountDocs /\ \E u \in users' : SameRow(u, j) /\ u.uid = j.uid
<1>0. reserved' \in Reservation
  BY DEF Inv, Types, IdentityTypes
<1>1. CASE \E u \in users : SameRow(u, j) /\ u.uid = j.uid
  <2>1. users' = users
    BY <1>1 DEF Provisioned
  <2>2. UsersKept
    BY <2>1, UsersSame
  <2>. QED BY <1>0, <1>1, <2>1, <2>2, UsersReplaced DEF Inv, UsersSound, Types, IdentityTypes
<1>2. CASE users = {}
  <2>. PICK u : u = [flow |-> j.flow, row |-> j.row, uid |-> j.uid,
                     status |-> "provisioning", player |-> "none", funded |-> FALSE]
    OBVIOUS
  <2>1. users' = {u}
    BY <1>2 DEF Provisioned
  <2>2. u \in User
    BY DEF User, Job
  <2>3. u.flow = j.flow /\ u.row = j.row /\ u.uid = j.uid /\ u.player = "none"
    OBVIOUS
  <2>4. UserSound(u)
    BY <2>3 DEF UserSound
  <2>5. UsersKept
    BY <1>2 DEF UsersKept
  <2>6. AccountDocs
    BY <1>0, <2>1, <2>2, <2>4, <2>5, UsersReplaced
  <2>. QED BY <2>1, <2>3, <2>6 DEF SameRow
<1>. QED BY <1>1, <1>2 DEF MayProvision

\* How the parts of an account make progress.
LEMMA AccountProgress ==
    ASSUME NEW u \in User
    PROVE  /\ u.flow = "signup" =>
                 /\ PlayerEnsured(u) \in User /\ UserKept(u, PlayerEnsured(u))
                 /\ PlayerEnsured(u).player # "none"
           /\ Credited(u) \in User /\ UserKept(u, Credited(u)) /\ Credited(u).funded
           /\ Credited(u).player = u.player
           /\ PlayerActivated(u) \in User /\ UserKept(u, PlayerActivated(u))
           /\ PlayerActivated(u).player = "active" /\ PlayerActivated(u).funded = u.funded
           /\ Activated(u) \in User /\ UserKept(u, Activated(u))
           /\ Activated(u).player = u.player /\ Activated(u).funded = u.funded
           /\ Activated(u).status = "active"
BY DEF User, UserKept, PlayerEnsured, Credited, PlayerActivated, Activated, Flow

LEMMA InvitedPlayer ==
    ASSUME NEW u \in User, u.flow = "invitation", u.player # "none" => u.player = "active" /\ u.funded
    PROVE  /\ PlayerEnsured(u) \in User /\ UserKept(u, PlayerEnsured(u))
           /\ PlayerEnsured(u).player = "active" /\ PlayerEnsured(u).funded
BY DEF User, UserKept, PlayerEnsured

LEMMA UserSame == ASSUME NEW u \in User PROVE UserKept(u, u)
BY DEF UserKept

LEMMA SignupAccount ==
    ASSUME Inv, AccountDocs, NEW w \in Worker, job[w].flow = "signup", NEW place \in Places,
           Goto(w, place), place \in {"player", "credit", "activatePlayer", "activateUser", "finalize"},
           NEW u \in users', SameRow(u, job[w]), u.uid = job[w].uid,
           place \in {"credit", "activatePlayer"} => u.player # "none",
           place \in {"activateUser", "finalize"} => u.player = "active",
           place \in {"activatePlayer", "activateUser", "finalize"} => u.funded,
           place = "finalize" => u.status = "active"
    PROVE  Inv'
<1>1. SignupDocs
  BY DEF AccountDocs, SignupDocs
<1>2. job'[w].row = job[w].row /\ job'[w].uid = job[w].uid /\ job'[w].flow = job[w].flow
  BY <1>1, RefGrows, GotoJob DEF MovesTo, SignupDocs, Inv, Types
<1>3. MyUser(u, w)'
  BY <1>2 DEF MyUser, SameRow
<1>4. Promises(w, place)
  BY <1>3 DEF Promises, Complete
<1>. QED BY <1>1, <1>4, SignupProceeds DEF DeliverPlaces

LEMMA ProvisionKeeps ==
    ASSUME Inv, NEW w \in Worker, Provision(w), UNCHANGED <<invites, history>>
    PROVE  Inv'
<1>. PICK j \in Job : j = job[w] /\ j.row \in DOMAIN rows /\ j.flow = "signup"
                      /\ rows[j.row].ver.phase \in Seen
  BY JobFacts DEF Provision, At, SignupSound
<1>1. CASE MayProvision(j)
  <2>1. users' = Provisioned(j) /\ Goto(w, "player")
    BY <1>1 DEF Provision
  <2>2. AccountDocs /\ \E u \in users' : SameRow(u, j) /\ u.uid = j.uid
    BY <1>1, <2>1, AccountProvisioned DEF Provision, Flow
  <2>3. "player" \in Places
    BY DEF Places, VerifyPlaces
  <2>. QED BY <2>1, <2>2, <2>3, SignupAccount
<1>2. CASE ~MayProvision(j)
  <2>1. SmallStep /\ UNCHANGED <<rows, tokens, mailed>> /\ Answer(w)
    BY <1>2, Small DEF Provision
  <2>. QED BY <2>1, SignupSame, SignupEnds
<1>. QED BY <1>1, <1>2

LEMMA SignupUpdates ==
    ASSUME Inv, UNCHANGED <<tokens, mailed, rows, invites, deliveries, history>>,
           reserved' \in Reservation, NEW w \in Worker, job[w].flow = "signup",
           NEW f, users' = {f[u] : u \in users},
           \A u \in users :
              IF SameRow(u, job[w]) THEN f[u] \in User /\ UserKept(u, f[u]) ELSE f[u] = u
    PROVE  AccountDocs
<1>1. ASSUME NEW u \in users PROVE f[u] \in User /\ UserKept(u, f[u]) /\ UserSound(f[u])
  <2>1. u \in User /\ UserSound(u)
    BY DEF Inv, Types, IdentityTypes, UsersSound
  <2>2. CASE SameRow(u, job[w])
    <3>1. u.flow = "signup" /\ f[u] \in User /\ UserKept(u, f[u])
      BY <2>2 DEF SameRow
    <3>2. f[u].flow = "signup" /\ f[u].row = u.row
      BY <3>1 DEF UserKept
    <3>. QED BY <2>1, <3>1, <3>2 DEF UserSound
  <2>3. CASE ~SameRow(u, job[w])
    BY <2>1, <2>3, UserSame
  <2>. QED BY <2>2, <2>3
<1>. QED BY <1>1, UsersUpdated

LEMMA FundPlayerKeeps ==
    ASSUME Inv, NEW w \in Worker, FundPlayer(w), UNCHANGED <<invites, history>>
    PROVE  Inv'
<1>. PICK j \in Job : j = job[w]
  BY JobFacts
<1>1. /\ UNCHANGED <<tokens, mailed, rows, invites, deliveries, history>>
      /\ reserved' \in Reservation /\ j.flow = "signup" /\ users \subseteq User
  BY DEF FundPlayer, At, Inv, Types, IdentityTypes
<1>2. ASSUME j.at = "player", Update(j, PlayerEnsured), Goto(w, "credit") PROVE Inv'
  <2>. DEFINE f == [u \in users |-> IF SameRow(u, j) THEN PlayerEnsured(u) ELSE u]
  <2>1. users' = {f[u] : u \in users}
    <3>1. users' = {IF SameRow(u, j) THEN PlayerEnsured(u) ELSE u : u \in users}
      BY <1>2 DEF Update
    <3>2. \A u \in users : f[u] = IF SameRow(u, j) THEN PlayerEnsured(u) ELSE u
      OBVIOUS
    <3>. HIDE DEF f
    <3>. QED BY <3>1, <3>2
  <2>2. PICK me \in users : SameRow(me, j) /\ me.uid = j.uid
    BY <1>2, JobFacts DEF JobSound, MyUser
  <2>3. \A u \in users : f[u] = IF SameRow(u, j) THEN PlayerEnsured(u) ELSE u
    OBVIOUS
  <2>. HIDE DEF f
  <2>4. ASSUME NEW u \in users, SameRow(u, j)
        PROVE  f[u] \in User /\ UserKept(u, f[u]) /\ f[u].player # "none"
    <3>1. u \in User /\ f[u] = PlayerEnsured(u) /\ u.flow = "signup"
      BY <1>1, <2>3, <2>4 DEF SameRow
    <3>. QED BY <3>1, AccountProgress
  <2>5. AccountDocs
    BY <1>1, <2>1, <2>3, <2>4, SignupUpdates
  <2>6. f[me] \in users' /\ SameRow(f[me], j) /\ f[me].uid = j.uid /\ f[me].player # "none"
    BY <2>1, <2>2, <2>4 DEF UserKept, SameRow
  <2>7. "credit" \in Places
    BY DEF Places, VerifyPlaces
  <2>. QED BY <1>1, <1>2, <2>5, <2>6, <2>7, SignupAccount
<1>3. ASSUME j.at = "credit", Update(j, Credited), Goto(w, "activatePlayer") PROVE Inv'
  <2>. DEFINE f == [u \in users |-> IF SameRow(u, j) THEN Credited(u) ELSE u]
  <2>1. users' = {f[u] : u \in users}
    <3>1. users' = {IF SameRow(u, j) THEN Credited(u) ELSE u : u \in users}
      BY <1>3 DEF Update
    <3>2. \A u \in users : f[u] = IF SameRow(u, j) THEN Credited(u) ELSE u
      OBVIOUS
    <3>. HIDE DEF f
    <3>. QED BY <3>1, <3>2
  <2>2. PICK me \in users : SameRow(me, j) /\ me.uid = j.uid /\ me.player # "none"
    BY <1>3, JobFacts DEF JobSound, MyUser
  <2>3. \A u \in users : f[u] = IF SameRow(u, j) THEN Credited(u) ELSE u
    OBVIOUS
  <2>. HIDE DEF f
  <2>4. ASSUME NEW u \in users, SameRow(u, j)
        PROVE  f[u] \in User /\ UserKept(u, f[u]) /\ f[u].funded
    <3>1. u \in User /\ f[u] = Credited(u) /\ u.flow = "signup"
      BY <1>1, <2>3, <2>4 DEF SameRow
    <3>. QED BY <3>1, AccountProgress
  <2>5. AccountDocs
    BY <1>1, <2>1, <2>3, <2>4, SignupUpdates
  <2>6. /\ f[me] \in users' /\ SameRow(f[me], j) /\ f[me].uid = j.uid /\ f[me].player # "none"
        /\ f[me].funded
    BY <2>1, <2>2, <2>4 DEF UserKept, SameRow
  <2>7. "activatePlayer" \in Places
    BY DEF Places, VerifyPlaces
  <2>. QED BY <1>1, <1>3, <2>5, <2>6, <2>7, SignupAccount
<1>4. ASSUME j.at = "activatePlayer", Update(j, PlayerActivated), Goto(w, "activateUser")
      PROVE  Inv'
  <2>. DEFINE f == [u \in users |-> IF SameRow(u, j) THEN PlayerActivated(u) ELSE u]
  <2>1. users' = {f[u] : u \in users}
    <3>1. users' = {IF SameRow(u, j) THEN PlayerActivated(u) ELSE u : u \in users}
      BY <1>4 DEF Update
    <3>2. \A u \in users : f[u] = IF SameRow(u, j) THEN PlayerActivated(u) ELSE u
      OBVIOUS
    <3>. HIDE DEF f
    <3>. QED BY <3>1, <3>2
  <2>2. PICK me \in users : SameRow(me, j) /\ me.uid = j.uid /\ me.funded
    BY <1>4, JobFacts DEF JobSound, MyUser
  <2>3. \A u \in users : f[u] = IF SameRow(u, j) THEN PlayerActivated(u) ELSE u
    OBVIOUS
  <2>. HIDE DEF f
  <2>4. ASSUME NEW u \in users, SameRow(u, j)
        PROVE  f[u] \in User /\ UserKept(u, f[u]) /\ f[u].player = "active"
    <3>1. u \in User /\ f[u] = PlayerActivated(u) /\ u.flow = "signup"
      BY <1>1, <2>3, <2>4 DEF SameRow
    <3>. QED BY <3>1, AccountProgress
  <2>5. AccountDocs
    BY <1>1, <2>1, <2>3, <2>4, SignupUpdates
  <2>6. /\ f[me] \in users' /\ SameRow(f[me], j) /\ f[me].uid = j.uid /\ f[me].player = "active"
        /\ f[me].funded
    BY <2>1, <2>2, <2>4 DEF UserKept, SameRow
  <2>7. "activateUser" \in Places
    BY DEF Places, VerifyPlaces
  <2>. QED BY <1>1, <1>4, <2>5, <2>6, <2>7, SignupAccount
<1>. QED BY <1>2, <1>3, <1>4 DEF FundPlayer, At

LEMMA ActivateUserKeeps ==
    ASSUME Inv, NEW w \in Worker, ActivateUser(w), UNCHANGED <<invites, history>>
    PROVE  Inv'
<1>. PICK j \in Job : j = job[w]
  BY JobFacts
<1>1. /\ UNCHANGED <<tokens, mailed, rows, invites, deliveries, history>>
      /\ j.flow = "signup" /\ j.at = "activateUser" /\ users \subseteq User
      /\ Goto(w, "finalize")
  BY DEF ActivateUser, At, Inv, Types, IdentityTypes
<1>2. reserved' \in Reservation
  BY DEF ActivateUser, Reservation, Inv, Types, IdentityTypes
<1>. DEFINE f == [u \in users |-> IF SameRow(u, j) THEN Activated(u) ELSE u]
<1>3. users' = {f[u] : u \in users}
  <2>1. users' = {IF SameRow(u, j) THEN Activated(u) ELSE u : u \in users}
    BY DEF Update, ActivateUser
  <2>2. \A u \in users : f[u] = IF SameRow(u, j) THEN Activated(u) ELSE u
    OBVIOUS
  <2>. HIDE DEF f
  <2>. QED BY <2>1, <2>2
<1>4. PICK me \in users : SameRow(me, j) /\ me.uid = j.uid /\ me.player = "active" /\ me.funded
  BY <1>1, JobFacts DEF JobSound, MyUser
<1>5. \A u \in users : f[u] = IF SameRow(u, j) THEN Activated(u) ELSE u
  OBVIOUS
<1>. HIDE DEF f
<1>6. ASSUME NEW u \in users, SameRow(u, j)
      PROVE  f[u] \in User /\ UserKept(u, f[u]) /\ f[u].status = "active"
  <2>1. u \in User /\ f[u] = Activated(u)
    BY <1>1, <1>5, <1>6
  <2>. QED BY <2>1, AccountProgress
<1>7. AccountDocs
  BY <1>1, <1>2, <1>3, <1>5, <1>6, SignupUpdates
<1>8. /\ f[me] \in users' /\ SameRow(f[me], j) /\ f[me].uid = j.uid /\ f[me].player = "active"
      /\ f[me].funded /\ f[me].status = "active"
  BY <1>3, <1>4, <1>6 DEF UserKept, SameRow
<1>9. "finalize" \in Places
  BY DEF Places, VerifyPlaces
<1>. QED BY <1>1, <1>7, <1>8, <1>9, SignupAccount

LEMMA SignupWorkerKeeps ==
    ASSUME Inv, NEW w \in Worker, SignupWorker(w)
    PROVE  Inv'
<1>1. UNCHANGED <<invites, history>>
  BY DEF SignupWorker
<1>2. CASE SignupRequest(w)
  <2>1. CASE Reconcile(w) \/ Initiate(w) \/ Resend(w)
    BY <1>1, <2>1, ReconcileKeeps, InitiateKeeps, ResendKeeps
  <2>2. CASE \E r \in DOMAIN rows : InitiateAgain(w, r)
    BY <1>1, <2>2, InitiateAgainKeeps
  <2>3. CASE \E t \in mailed : Cancel(w, t) \/ \E b \in Browser : Verify(w, t, b)
    BY <1>1, <2>3, CancelKeeps, VerifyKeeps
  <2>. QED BY <1>2, <2>1, <2>2, <2>3 DEF SignupRequest
<1>3. CASE DeliveryStep(w)
  <2>1. CASE Begin(w) \/ Mint(w) \/ RecordCandidate(w) \/ Submit(w) \/ RecordReceipt(w)
    BY <1>1, <2>1, BeginKeeps, MintKeeps, RecordCandidateKeeps, SubmitKeeps, RecordReceiptKeeps
  <2>2. CASE Promote(w) \/ Drop(w) \/ RecordPromoted(w) \/ Finish(w)
    BY <1>1, <2>2, PromoteKeeps, DropKeeps, RecordPromotedKeeps, FinishKeeps
  <2>. QED BY <1>3, <2>1, <2>2 DEF DeliveryStep
<1>4. CASE CancelStep(w)
  BY <1>1, <1>4, AuthorizeKeeps, CancelRowKeeps, RevokeKeeps DEF CancelStep
<1>5. CASE VerifyStep(w)
  <2>1. CASE Reserve(w) \/ Consume(w) \/ Abandon(w) \/ Release(w) \/ RecordConsumed(w)
    BY <1>1, <2>1, ReserveKeeps, ConsumeKeeps, AbandonKeeps, ReleaseKeeps, RecordConsumedKeeps
  <2>2. CASE Provision(w) \/ FundPlayer(w) \/ ActivateUser(w) \/ Finalize(w)
    BY <1>1, <2>2, ProvisionKeeps, FundPlayerKeeps, ActivateUserKeeps, FinalizeKeeps
  <2>. QED BY <1>5, <2>1, <2>2 DEF VerifyStep
<1>. QED BY <1>2, <1>3, <1>4, <1>5 DEF SignupWorker, SignupStep

-----------------------------------------------------------------------------
(* Workers die, and time passes                                              *)

LEMMA QuietConclude ==
    ASSUME Inv, TokenTypes', RowTypes', InviteTypes', IdentityTypes', Evolve, UNCHANGED job,
           \A i \in DOMAIN invites : TokenLeft(i), DOMAIN invites' = DOMAIN invites,
           \A r \in DOMAIN rows' : RowSound(r)', \A i \in DOMAIN invites' : InviteSound(i)',
           UsersSound'
    PROVE  Inv'
<1>1. \A w \in Worker : JobSound(w)'
  BY JobStays DEF Inv
<1>2. \A w \in Worker : StillSending(w)
  BY SendingSame
<1>3. SendersSound'
  BY <1>2, SendersStay DEF Inv
<1>4. JobTypes'
  <2>1. Ref \subseteq Ref'
    BY RefGrows
  <2>. QED BY <2>1 DEF JobTypes, Inv, Types
<1>. QED BY <1>1, <1>3, <1>4 DEF Inv, Types

LEMMA AgeRowKeeps ==
    ASSUME Inv, NEW r \in DOMAIN rows, AgeRow(r), UNCHANGED <<invites, history>>
    PROVE  Inv'
<1>1. SmallStep /\ UNCHANGED <<tokens, mailed, job>>
  BY Small DEF AgeRow, othersUnchanged
<1>. PICK row \in Row : row = rows[r] /\ row.gen \in Nat
  BY RowFacts
<1>. DEFINE new == [row EXCEPT !.aged = TRUE]
<1>2. /\ new \in Row /\ new.gen = row.gen /\ new.token = row.token /\ new.rep = row.rep
      /\ new.status = row.status /\ new.ver = row.ver
  BY DEF Row
<1>3. rows' = [rows EXCEPT ![r] = new]
  BY DEF AgeRow
<1>. HIDE DEF new
<1>4. row.status \notin {"verifying", "complete"}
  BY DEF AgeRow
<1>5. RowFits(r, new)
  BY <1>2, <1>4, RowFacts DEF RowFits, RowKept, RowSound
<1>6. SignupDocs
  BY <1>1, <1>2, <1>3, <1>5, SignupRow
<1>7. \A i \in DOMAIN invites' : InviteSound(i)'
  BY <1>6, InviteStays DEF Inv, SignupDocs
<1>. QED BY <1>1, <1>6, <1>7, InvitesLeft, QuietConclude DEF SignupDocs

LEMMA ExpireKeeps ==
    ASSUME Inv, NEW t \in DOMAIN tokens, ExpireToken(t),
           UNCHANGED <<reserved, users, job, deliveries, rows, invites, history>>
    PROVE  Inv'
<1>1. UNCHANGED mailed /\ TokenTypes
  BY DEF ExpireToken, Inv, Types
<1>. DEFINE new == [tokens EXCEPT ![t].expired = TRUE]
<1>2. tokens' = new /\ tokens \in Seq(Token) /\ tokens[t] \in Token
  BY <1>1 DEF ExpireToken, TokenTypes
<1>3. /\ DOMAIN new = DOMAIN tokens /\ \A q \in DOMAIN tokens : q # t => new[q] = tokens[q]
      /\ new[t] = [tokens[t] EXCEPT !.expired = TRUE]
  BY <1>2
<1>4. new = [q \in DOMAIN new |-> new[q]]
  OBVIOUS
<1>. HIDE DEF new
<1>5. new[t] \in Token /\ new[t].state = tokens[t].state /\ new[t].by = tokens[t].by
  BY <1>2, <1>3 DEF Token
<1>6. Len(tokens) \in Nat /\ DOMAIN tokens = 1..Len(tokens) /\ \A q \in DOMAIN tokens : new[q] \in Token
  <2>1. Len(tokens) \in Nat /\ DOMAIN tokens = 1..Len(tokens)
    BY <1>2
  <2>2. ASSUME NEW q \in DOMAIN tokens PROVE new[q] \in Token
    <3>1. tokens[q] \in Token
      BY <1>2
    <3>. QED BY <1>3, <1>5, <3>1
  <2>. QED BY <2>1, <2>2
<1>7. new \in Seq(Token) /\ Len(new) = Len(tokens)
  BY <1>3, <1>4, <1>6
<1>8. TokensKept(new)
  BY <1>1, <1>3, <1>5, <1>7, TokenChanged
<1>9. mailed' \subseteq DOMAIN tokens'
  BY <1>1, <1>2, <1>3 DEF TokenTypes
<1>10. SmallStep
  BY Small
<1>11. SignupDocs
  BY <1>1, <1>2, <1>8, <1>9, <1>10, SignupTokens
<1>12. \A i \in DOMAIN invites' : InviteSound(i)'
  BY <1>11, InviteStays DEF Inv, SignupDocs
<1>. QED BY <1>11, <1>12, InvitesLeft, QuietConclude DEF SignupDocs

LEMMA DieKeeps ==
    ASSUME Inv, NEW w \in Worker, WorkerDies(w)
    PROVE  Inv'
<1>1. SmallStep /\ UNCHANGED <<rows, tokens, mailed>> /\ Answer(w)
  BY Small DEF WorkerDies, Die
<1>. QED BY <1>1, SignupSame, SignupEnds

-----------------------------------------------------------------------------
(* What a step of an invitation leaves of the documents                      *)

InviteDocs ==
    /\ TokenTypes' /\ RowTypes' /\ InviteTypes' /\ IdentityTypes'
    /\ Evolve /\ UsersSound' /\ (\A i \in DOMAIN invites' : InviteSound(i)') /\ UNCHANGED rows

\* It leaves deliveries their invitations.
SendersLeft ==
    /\ \A i \in DOMAIN invites : TokenLeft(i)
    /\ \A i \in DOMAIN invites' : i \in DOMAIN invites \/ invites'[i].token = 0

SmallInvite == /\ reserved' \in Reservation /\ deliveries' \in 0..history.deliveries
               /\ UNCHANGED <<users, rows, history>>

LEMMA SmallI ==
    ASSUME Inv, UNCHANGED <<reserved, users, deliveries, rows, history>>
    PROVE  SmallInvite
BY DEF SmallInvite, Inv, Types, IdentityTypes

LEMMA InviteTokens ==
    ASSUME Inv, SmallInvite, UNCHANGED invites, TokensKept(tokens'), mailed \subseteq mailed',
           mailed' \subseteq DOMAIN tokens'
    PROVE  InviteDocs /\ SendersLeft
<1>1. UNCHANGED <<users, rows, invites, history>>
  BY DEF SmallInvite
<1>2. IdentityTypes'
  BY DEF SmallInvite, IdentityTypes, Inv, Types
<1>3. SendersLeft
  BY InvitesLeft DEF SendersLeft
<1>. QED BY <1>1, <1>2, <1>3, TokensReplaced DEF InviteDocs, SmallInvite

LEMMA InviteSame ==
    ASSUME Inv, SmallInvite, UNCHANGED <<invites, tokens, mailed>>
    PROVE  InviteDocs /\ SendersLeft
<1>1. TokensKept(tokens') /\ mailed \subseteq mailed' /\ mailed' \subseteq DOMAIN tokens'
  BY TokensSame DEF Inv, Types, TokenTypes
<1>. QED BY <1>1, InviteTokens

\* What one may turn into.
InviteFits(i, new) ==
    /\ new \in Invite /\ new.token \in Ref
    /\ new.red.uid <= new.ids /\ new.ids <= history.claims
    /\ invites[i].red.phase \in Seen => new.red.phase \in Seen
    /\ new.red.phase \in Seen =>
          new.status \in {"redeeming", "redeemed"} /\ UsedBy(new.red.tok, new.red.by)
    /\ new.status = "redeemed" =>
          \E u \in users : /\ u.flow = "invitation" /\ u.row = i
                          /\ u.uid = new.red.uid /\ Complete(u)

LEMMA InviteReplaced ==
    ASSUME Inv, SmallInvite, UNCHANGED <<tokens, mailed>>, NEW i, i \in DOMAIN invites, NEW new,
           InviteFits(i, new), invites' = [invites EXCEPT ![i] = new]
    PROVE  /\ InviteDocs /\ invites'[i] = new /\ DOMAIN invites' = DOMAIN invites
           /\ \A k \in DOMAIN invites : k # i => invites'[k] = invites[k]
<1>0. UNCHANGED <<tokens, mailed, users, rows, history>> /\ IdentityTypes'
  BY DEF SmallInvite, IdentityTypes, Inv, Types
<1>1. /\ invites \in Seq(Invite) /\ DOMAIN invites' = DOMAIN invites /\ Len(invites') = Len(invites)
      /\ invites' \in Seq(Invite) /\ invites'[i] = new
      /\ \A k \in DOMAIN invites : k # i => invites'[k] = invites[k]
  BY DEF InviteFits, Inv, Types, InviteTypes
<1>2. InviteTypes'
  BY <1>0, <1>1 DEF InviteFits, Inv, Types, InviteTypes, Ref
<1>3. InvitesKept
  BY <1>1 DEF InvitesKept, InviteFits
<1>4. Evolve
  BY <1>0, <1>3, TokensSame, RowsSame, UsersSame DEF Evolve, Inv, Types
<1>5. InviteSound(i)'
  BY <1>0, <1>1 DEF InviteFits, InviteSound, UsedBy, Complete
<1>6. ASSUME NEW k \in DOMAIN invites, k # i PROVE InviteSound(k)'
  BY <1>1, <1>4, <1>6, InviteStays DEF Inv
<1>7. UsersSound'
  BY <1>0, <1>4, UsersStay DEF Inv
<1>8. TokenTypes' /\ RowTypes'
  BY <1>0 DEF Inv, Types, TokenTypes, RowTypes, Ref
<1>. QED BY <1>0, <1>1, <1>2, <1>4, <1>5, <1>6, <1>7, <1>8 DEF InviteDocs

\* A request rewrites its invitation.
LEMMA InviteWrites ==
    ASSUME Inv, SmallInvite, UNCHANGED <<tokens, mailed>>, NEW w \in Worker,
           job[w].flow = "invitation", NEW new \in Invite, InviteFits(job[w].row, new), MineTo(w, new)
    PROVE  /\ InviteDocs /\ DOMAIN invites' = DOMAIN invites /\ job[w].row \in DOMAIN invites
           /\ invites'[job[w].row].status = new.status /\ invites'[job[w].row].token = new.token
           /\ invites'[job[w].row].red = new.red
           /\ \A k \in DOMAIN invites : k # job[w].row => invites'[k] = invites[k]
<1>. PICK i : i = job[w].row /\ i \in DOMAIN invites
  BY JobFacts
<1>. DEFINE settled == [new EXCEPT !.aged = FALSE]
<1>1. /\ settled \in Invite /\ settled.status = new.status /\ settled.token = new.token
      /\ settled.red = new.red /\ settled.ids = new.ids
  BY DEF Invite
<1>2. invites' = [invites EXCEPT ![i] = settled]
  BY DEF MineTo
<1>. HIDE DEF settled
<1>3. InviteFits(i, settled)
  BY <1>1 DEF InviteFits
<1>. QED BY <1>1, <1>2, <1>3, InviteReplaced

\* Deliveries keep an invitation whose token stays.
LEMMA LeftByWrite ==
    ASSUME NEW i, i \in DOMAIN invites, DOMAIN invites' = DOMAIN invites,
           \A k \in DOMAIN invites : k # i => invites'[k] = invites[k],
           invites'[i].token = invites[i].token,
           invites[i].status \in {"delivery_pending", "revoked"} =>
              invites'[i].status \in {"delivery_pending", "revoked"}
    PROVE  SendersLeft
BY DEF SendersLeft, TokenLeft

LEMMA InviteFacts ==
    ASSUME Inv, NEW i, i \in DOMAIN invites
    PROVE  /\ invites[i] \in Invite /\ invites[i].token \in Ref /\ InviteSound(i)
           /\ invites[i].gen \in Nat /\ invites[i].ids \in Nat /\ invites[i].red.uid \in Nat
           /\ invites[i].red.uid <= invites[i].ids /\ invites[i].ids <= history.claims
           /\ history.claims \in Nat
<1>1. /\ invites[i] \in Invite /\ invites[i].token \in Ref /\ InviteSound(i)
      /\ invites[i].red.uid <= invites[i].ids /\ invites[i].ids <= history.claims
  BY DEF Inv, Types, InviteTypes
<1>2. history.claims \in Nat
  BY HistoriesAssumption DEF Inv, Types, IdentityTypes
<1>. QED BY <1>1, <1>2 DEF Invite

LEMMA InviteAppends ==
    ASSUME Inv, SmallInvite, UNCHANGED <<tokens, mailed>>, Len(invites) < history.invites,
           invites' = Append(invites, NewInvite)
    PROVE  InviteDocs /\ SendersLeft /\ Len(invites) + 1 \in DOMAIN invites'
<1>0. UNCHANGED <<tokens, mailed, users, rows, history>> /\ IdentityTypes'
  BY DEF SmallInvite, IdentityTypes, Inv, Types
<1>1. NewInvite \in Invite /\ NewInvite.token = 0 /\ NewInvite.red.phase = "none"
      /\ NewInvite.status = "reserved" /\ NewInvite.red.uid = 0 /\ NewInvite.ids = 0
  BY DEF NewInvite, Invite, NoRedemption
<1>. PICK n \in Nat : n = Len(invites) /\ DOMAIN invites = 1..n /\ invites \in Seq(Invite)
  BY DEF Inv, Types, InviteTypes
<1>. PICK fresh \in Invite : fresh = NewInvite
  BY <1>1
<1>2. /\ invites' \in Seq(Invite) /\ Len(invites') = n + 1 /\ DOMAIN invites' = 1..(n + 1)
      /\ invites'[n + 1] = fresh /\ \A i \in 1..n : invites'[i] = invites[i]
  OBVIOUS
<1>3. InvitesKept
  BY <1>2 DEF InvitesKept
<1>4. Evolve
  BY <1>0, <1>3, TokensSame, RowsSame, UsersSame DEF Evolve, Inv, Types
<1>5. TokenTypes' /\ RowTypes' /\ 0 \in Ref'
  BY <1>0 DEF Inv, Types, TokenTypes, RowTypes, Ref
<1>6. history \in Histories /\ history.invites \in Nat /\ history.claims \in Nat
  BY HistoriesAssumption DEF Inv, Types, IdentityTypes
<1>7. InviteTypes'
  <2>1. Len(invites') <= history'.invites
    BY <1>0, <1>2, <1>6
  <2>2. ASSUME NEW i \in DOMAIN invites'
        PROVE  /\ invites'[i].token \in Ref' /\ invites'[i].red.uid <= invites'[i].ids
               /\ invites'[i].ids <= history'.claims
    <3>1. CASE i = n + 1
      BY <1>0, <1>1, <1>2, <1>5, <1>6, <3>1
    <3>2. CASE i \in 1..n
      BY <1>0, <1>2, <3>2 DEF Inv, Types, InviteTypes, Ref
    <3>. QED BY <1>2, <3>1, <3>2
  <2>. QED BY <1>2, <2>1, <2>2 DEF InviteTypes
<1>8. \A i \in 1..n : InviteSound(i)'
  BY <1>2, <1>4, InviteStays DEF Inv
<1>9. InviteSound(n + 1)'
  BY <1>1, <1>2 DEF InviteSound, Seen
<1>10. \A i \in DOMAIN invites' : InviteSound(i)'
  BY <1>2, <1>8, <1>9
<1>11. UsersSound'
  BY <1>0, <1>4, UsersStay DEF Inv
<1>12. SendersLeft
  BY <1>1, <1>2 DEF SendersLeft, TokenLeft
<1>. QED BY <1>0, <1>2, <1>4, <1>5, <1>7, <1>10, <1>11, <1>12 DEF InviteDocs

(* ... and of its request.                                                     *)
LEMMA InviteGoes ==
    ASSUME Inv, InviteDocs, NEW w \in Worker, job[w].flow = "invitation",
           NEW place \in Places, Goto(w, place),
           place \in {"reserve", "consume"} => job[w].at \in {"reserve", "consume"},
           place = "consumed" => UsedBy(job[w].tok, job[w].by)',
           place = "provision" => invites'[job[w].row].red.phase \in Seen,
           Promises(w, place)
    PROVE  JobTypes' /\ OthersKept(w) /\ MovesTo(w, place) /\ JobSound(w)'
<1>1. JobTypes' /\ OthersKept(w) /\ MovesTo(w, place)
  BY RefGrows, GotoJob DEF InviteDocs, Inv, Types
<1>2. JobSound(w) /\ InvitedSound(w)
  BY DEF Inv, JobSound
<1>3. job[w].row \in DOMAIN invites'
  BY <1>2 DEF InvitedSound, InviteDocs, Evolve, InvitesKept
<1>4. /\ job'[w].at = place /\ job'[w].tok = job[w].tok /\ job'[w].by = job[w].by
      /\ job'[w].flow = "invitation" /\ job'[w].row = job[w].row
  BY <1>1 DEF MovesTo
<1>5. InvitedSound(w)'
  BY <1>3, <1>4 DEF InvitedSound
<1>6. job'[w].at \in {"reserve", "consume"} => job'[w].tok \in mailed'
  BY <1>2, <1>4 DEF JobSound, InviteDocs, Evolve
<1>7. JobSound(w)'
  BY <1>4, <1>5, <1>6, NoJobTypes DEF JobSound, Promises
<1>. QED BY <1>1, <1>7

LEMMA InviteProceeds ==
    ASSUME Inv, InviteDocs, SendersLeft, NEW w \in Worker, job[w].flow = "invitation",
           NEW place \in Places, Goto(w, place),
           place \in {"reserve", "consume"} => job[w].at \in {"reserve", "consume"},
           place = "consumed" => UsedBy(job[w].tok, job[w].by)',
           place = "provision" => invites'[job[w].row].red.phase \in Seen,
           Promises(w, place),
           place \in SendPlaces => job[w].at \in SendPlaces /\ (place = "record" <=> job[w].at = "record")
    PROVE  Inv'
<1>1. JobTypes' /\ OthersKept(w) /\ MovesTo(w, place) /\ JobSound(w)'
  BY InviteGoes
<1>2. StillSending(w)
  BY <1>1 DEF MovesTo, StillSending, Sending
<1>3. \A v \in Worker : StillSending(v)
  BY <1>1, <1>2, SendingSame DEF OthersKept
<1>4. SendersSound'
  BY <1>3, SendersStay DEF SendersLeft, Inv
<1>. QED BY <1>1, <1>4, InviteConclude DEF InviteDocs, Types

LEMMA InviteEnds ==
    ASSUME Inv, InviteDocs, SendersLeft, NEW w \in Worker, Answer(w)
    PROVE  Inv'
<1>1. JobTypes' /\ OthersKept(w) /\ JobSound(w)' /\ ~Sending(w)'
  BY RefGrows, AnswerJob DEF InviteDocs, Inv, Types
<1>2. \A v \in Worker : StillSending(v)
  BY <1>1, SendingSame DEF OthersKept, StillSending
<1>3. SendersSound'
  BY <1>2, SendersStay DEF SendersLeft, Inv
<1>. QED BY <1>1, <1>3, InviteConclude DEF InviteDocs, Types

LEMMA InviteSets ==
    ASSUME Inv, InviteDocs, SendersLeft, NEW w \in Worker, NEW j \in Job, JobSet(w, j),
           j.flow = "invitation", j.row \in DOMAIN invites', j.tok \in Ref', j.want \in Ref',
           j.at \in {"begin", "mint", "revoke", "reserve"},
           j.at = "reserve" => j.tok \in mailed'
    PROVE  Inv'
<1>1. JobTypes' /\ OthersKept(w) /\ job'[w] = j
  BY RefGrows, JobReplaced DEF InviteDocs, Inv, Types
<1>2. JobSound(w)' /\ ~Sending(w)'
  BY <1>1, NoJobTypes DEF JobSound, InvitedSound, Sending, SendPlaces
<1>3. \A v \in Worker : StillSending(v)
  BY <1>1, <1>2, SendingSame DEF OthersKept, StillSending
<1>4. SendersSound'
  BY <1>3, SendersStay DEF SendersLeft, Inv
<1>. QED BY <1>1, <1>2, <1>4, InviteConclude DEF InviteDocs, Types

-----------------------------------------------------------------------------
(* create, resend, revoke and the delivery of an invitation                  *)

LEMMA InviteBegins ==
    ASSUME Inv, InviteDocs, SendersLeft, NEW w \in Worker, NEW i, i \in DOMAIN invites', Send(w, i)
    PROVE  Inv'
<1>. DEFINE next == [NoJob EXCEPT !.at = "begin", !.flow = "invitation", !.row = i]
<1>1. i \in Nat
  <2>1. invites' \in Seq(Invite)
    BY DEF InviteDocs, InviteTypes
  <2>. QED BY <2>1
<1>2. "begin" \in Places /\ "invitation" \in Flow
  BY DEF Flow, Places
<1>3. next \in Job
  BY <1>1, <1>2, FreshJob
<1>4. /\ next.at = "begin" /\ next.flow = "invitation" /\ next.row = i /\ next.tok = 0
      /\ next.want = 0
  BY DEF NoJob
<1>5. JobSet(w, next)
  BY DEF Send, JobSet
<1>6. 0 \in Ref'
  BY DEF InviteDocs, TokenTypes, Ref
<1>. HIDE DEF next
<1>. QED BY <1>3, <1>4, <1>5, <1>6, InviteSets

LEMMA CreateKeeps ==
    ASSUME Inv, NEW w \in Worker, Create(w), UNCHANGED <<rows, history>>
    PROVE  Inv'
<1>1. SmallInvite /\ UNCHANGED <<tokens, mailed>>
  BY SmallI DEF Create, otherUnchanged
<1>. QED BY <1>1, InviteAppends, InviteBegins DEF Create

LEMMA SendAgainKeeps ==
    ASSUME Inv, NEW w \in Worker, NEW i, i \in DOMAIN invites,
           CreateAgain(w, i) \/ ResendInvite(w, i), UNCHANGED <<rows, history>>
    PROVE  Inv'
<1>1. SmallInvite /\ UNCHANGED <<invites, tokens, mailed>>
  BY SmallI DEF CreateAgain, ResendInvite, otherUnchanged
<1>. QED BY <1>1, InviteSame, InviteBegins DEF CreateAgain, ResendInvite

LEMMA RevokeInviteKeeps ==
    ASSUME Inv, NEW w \in Worker, NEW i, i \in DOMAIN invites, RevokeInvite(w, i),
           UNCHANGED <<rows, history>>
    PROVE  Inv'
<1>1. SmallInvite /\ UNCHANGED <<tokens, mailed>>
  BY SmallI DEF RevokeInvite, otherUnchanged
<1>. PICK row \in Invite : row = invites[i] /\ row.token \in Ref
  BY InviteFacts
<1>. PICK t \in Nat : t = row.token
  BY DEF Invite
<1>. DEFINE new == [row EXCEPT !.status = "revoked", !.aged = FALSE]
<1>2. /\ new \in Invite /\ new.status = "revoked" /\ new.token = row.token /\ new.red = row.red
      /\ new.ids = row.ids
  BY DEF Invite
<1>3. invites' = [invites EXCEPT ![i] = new]
  BY DEF RevokeInvite, Inv, Types, InviteTypes
<1>. HIDE DEF new
<1>4. row.red.phase \notin Seen
  BY InviteFacts DEF InviteSound, RevokeInvite
<1>5. InviteFits(i, new)
  BY <1>2, <1>4, InviteFacts DEF InviteFits
<1>6. InviteDocs /\ DOMAIN invites' = DOMAIN invites /\ invites'[i] = new
      /\ \A k \in DOMAIN invites : k # i => invites'[k] = invites[k]
  BY <1>1, <1>3, <1>5, InviteReplaced
<1>7. SendersLeft
  BY <1>2, <1>6, LeftByWrite
<1>8. CASE t = 0
  <2>1. Answer(w)
    BY <1>8 DEF RevokeInvite, Answer
  <2>. QED BY <1>6, <1>7, <2>1, InviteEnds
<1>9. CASE t # 0
  <2>. DEFINE next == [NoJob EXCEPT !.at = "revoke", !.flow = "invitation", !.row = i, !.tok = t]
  <2>1. JobSet(w, next)
    BY <1>9 DEF RevokeInvite, JobSet
  <2>2. "revoke" \in Places /\ "invitation" \in Flow /\ i \in Nat
    BY DEF Places, CancelPlaces, Flow, Inv, Types, InviteTypes
  <2>3. next \in Job
    BY <2>2, FreshTokenJob
  <2>4. /\ next.at = "revoke" /\ next.flow = "invitation" /\ next.row = i /\ next.tok = t
        /\ next.want = 0
    BY DEF NoJob
  <2>. HIDE DEF next
  <2>5. t \in Ref' /\ 0 \in Ref'
    BY <1>6, RefGrows DEF InviteDocs, TokenTypes, Ref
  <2>. QED BY <1>6, <1>7, <2>1, <2>3, <2>4, <2>5, InviteSets
<1>. QED BY <1>8, <1>9

LEMMA BeginSendKeeps ==
    ASSUME Inv, NEW w \in Worker, BeginSend(w), UNCHANGED <<rows, history>>
    PROVE  Inv'
<1>. PICK j \in Job : j = job[w] /\ j.flow = "invitation" /\ j.tok \in Ref /\ j.want \in Ref
                      /\ j.row \in DOMAIN invites
  BY JobFacts DEF BeginSend, Doing
<1>1. deliveries \in Nat /\ history.deliveries \in Nat /\ deliveries <= history.deliveries
      /\ reserved \in Reservation
  BY HistoriesAssumption DEF Inv, Types, IdentityTypes
<1>2. CASE MaySend(Mine(w)) /\ MayDeliver
  <2>. PICK row \in Invite : row = invites[j.row] /\ row.gen \in Nat
    BY InviteFacts
  <2>. PICK n \in Nat : n = row.gen + 1
    OBVIOUS
  <2>. DEFINE new == [row EXCEPT !.status = "issuing", !.gen = n]
              next == [j EXCEPT !.at = "mint", !.gen = n]
  <2>1. row.status \in {"reserved", "delivery_failed", "pending", "issuing"}
    BY <1>2 DEF MaySend, Mine
  <2>2. /\ new \in Invite /\ new.status = "issuing" /\ new.token = row.token /\ new.red = row.red
        /\ new.ids = row.ids
    BY DEF Invite
  <2>3. next \in Job
    <3>1. "mint" \in Places
      BY DEF Places, DeliverPlaces
    <3>. QED BY <3>1 DEF Job
  <2>4. /\ next.at = "mint" /\ next.tok = j.tok /\ next.want = j.want /\ next.row = j.row
        /\ next.flow = "invitation"
    BY DEF Job
  <2>5. MineTo(w, new)
    BY <1>2 DEF BeginSend, Mine, MayDeliver
  <2>6. JobSet(w, next)
    BY <1>2, JobFacts DEF BeginSend, Mine, JobSet
  <2>. HIDE DEF new, next
  <2>7. row.red.phase \notin Seen
    BY <2>1, InviteFacts DEF InviteSound
  <2>8. InviteFits(j.row, new)
    BY <2>2, <2>7, InviteFacts DEF InviteFits
  <2>9. SmallInvite
    BY <1>1, <1>2 DEF SmallInvite, BeginSend, MayDeliver, CountDelivery
  <2>10. UNCHANGED <<tokens, mailed>>
    BY DEF BeginSend
  <2>11. /\ InviteDocs /\ DOMAIN invites' = DOMAIN invites
         /\ invites'[j.row].status = new.status /\ invites'[j.row].token = new.token
         /\ \A k \in DOMAIN invites : k # j.row => invites'[k] = invites[k]
    BY <2>2, <2>5, <2>8, <2>9, <2>10, InviteWrites
  <2>12. SendersLeft
    BY <2>1, <2>2, <2>11, LeftByWrite
  <2>13. Ref \subseteq Ref'
    BY <2>11, RefGrows DEF InviteDocs
  <2>. QED BY <2>3, <2>4, <2>6, <2>11, <2>12, <2>13, InviteSets
<1>3. CASE ~(MaySend(Mine(w)) /\ MayDeliver)
  <2>1. SmallInvite /\ UNCHANGED <<invites, tokens, mailed>> /\ Answer(w)
    BY <1>1, <1>3 DEF BeginSend, SmallInvite
  <2>. QED BY <2>1, InviteSame, InviteEnds
<1>. QED BY <1>2, <1>3

LEMMA MintInviteKeeps ==
    ASSUME Inv, NEW w \in Worker, MintInvite(w), UNCHANGED <<rows, history>>
    PROVE  Inv'
<1>. PICK j \in Job : j = job[w] /\ j.flow = "invitation" /\ j.at = "mint" /\ j.want \in Ref
                      /\ j.row \in DOMAIN invites
  BY JobFacts DEF MintInvite, Doing
<1>1. SmallInvite /\ UNCHANGED <<invites, mailed>> /\ TokenTypes
  BY SmallI DEF MintInvite, Inv, Types
<1>. PICK n \in Nat : n = Len(tokens)
  BY <1>1 DEF TokenTypes
<1>. PICK t \in Nat : t = n + 1
  OBVIOUS
<1>. DEFINE next == [j EXCEPT !.at = "record", !.tok = t]
<1>2. TokensKept(tokens') /\ Len(tokens') = t
  BY <1>1, ReissuedTokens DEF MintInvite, Purpose
<1>3. mailed' \subseteq DOMAIN tokens'
  BY <1>1, <1>2 DEF TokenTypes, TokensKept
<1>4. InviteDocs
  BY <1>1, <1>2, <1>3, InviteTokens
<1>5. JobSet(w, next)
  BY JobFacts DEF MintInvite, JobSet
<1>6. next \in Job
  <2>1. "record" \in Places
    BY SomePlaces
  <2>. QED BY <2>1, JobEdited
<1>7. /\ next.at = "record" /\ next.tok = t /\ next.row = j.row /\ next.flow = "invitation"
      /\ next.want = j.want
  BY DEF Job
<1>. HIDE DEF next
<1>8. Ref \subseteq Ref' /\ t \in Ref'
  BY <1>2, <1>4, RefGrows DEF InviteDocs, Ref
<1>9. JobTypes' /\ OthersKept(w) /\ job'[w] = next
  BY <1>5, <1>6, <1>7, <1>8, JobReplaced DEF Inv, Types
<1>10. JobSound(w)'
  BY <1>1, <1>7, <1>9, NoJobTypes DEF JobSound, InvitedSound
<1>11. \A q \in Ref : q # t
  BY DEF Ref
<1>12. SendersSound'
  <2>1. ASSUME NEW v \in Worker, v # w
        PROVE  job'[v] = job[v] /\ job'[v].tok # t /\ (Sending(v)' <=> Sending(v))
    BY <1>9, <1>11, <2>1, JobFacts DEF OthersKept, Sending
  <2>2. ASSUME NEW v \in Worker, NEW x \in Worker, Sending(v)', Sending(x)',
               job'[v].tok = job'[x].tok
        PROVE  v = x
    BY <1>7, <1>9, <2>1, <2>2 DEF SendersSound, Inv
  <2>3. ASSUME NEW v \in Worker, Sending(v)'
        PROVE  /\ job'[v].tok # 0
               /\ IF job'[v].at = "record"
                  THEN \A i \in DOMAIN invites' : invites'[i].token # job'[v].tok
                  ELSE invites'[job'[v].row].token = job'[v].tok =>
                          invites'[job'[v].row].status \in {"delivery_pending", "revoked"}
    <3>1. CASE v = w
      BY <1>1, <1>7, <1>9, <1>11, <3>1, InviteFacts
    <3>2. CASE v # w
      BY <1>1, <2>1, <2>3, <3>2 DEF SendersSound, Inv
    <3>. QED BY <3>1, <3>2
  <2>. QED BY <2>2, <2>3 DEF SendersSound
<1>. QED BY <1>4, <1>9, <1>10, <1>12, InviteConclude DEF InviteDocs, Types

LEMMA RecordTokenKeeps ==
    ASSUME Inv, NEW w \in Worker, RecordToken(w), UNCHANGED <<rows, history>>
    PROVE  Inv'
<1>. PICK i : i = job[w].row
  OBVIOUS
<1>. PICK t \in Nat : t = job[w].tok
  BY JobFacts DEF Job
<1>1. SmallInvite /\ UNCHANGED <<tokens, mailed>>
  BY SmallI DEF RecordToken, otherUnchanged
<1>2. job[w].flow = "invitation" /\ job[w].at = "record" /\ i \in DOMAIN invites /\ t \in Ref
  BY JobFacts DEF RecordToken, Doing
<1>3. CASE Mine(w).status = "issuing" /\ Mine(w).gen = job[w].gen
  <2>. PICK row \in Invite : row = invites[i]
    BY <1>2, InviteFacts
  <2>. DEFINE new == [row EXCEPT !.status = "delivery_pending", !.token = t]
  <2>1. /\ new \in Invite /\ new.status = "delivery_pending" /\ new.token = t /\ new.red = row.red
        /\ new.ids = row.ids
    BY DEF Invite
  <2>2. MineTo(w, new) /\ Goto(w, "submit")
    BY <1>3 DEF RecordToken, Mine
  <2>. HIDE DEF new
  <2>3. row.red.phase \notin Seen
    BY <1>2, <1>3, InviteFacts DEF InviteSound, Mine
  <2>4. InviteFits(i, new)
    BY <1>2, <2>1, <2>3, InviteFacts DEF InviteFits
  <2>5. /\ InviteDocs /\ DOMAIN invites' = DOMAIN invites
        /\ invites'[i].status = "delivery_pending" /\ invites'[i].token = t
        /\ \A k \in DOMAIN invites : k # i => invites'[k] = invites[k]
    BY <1>1, <1>2, <2>1, <2>2, <2>4, InviteWrites
  <2>6. JobTypes' /\ OthersKept(w) /\ MovesTo(w, "submit") /\ JobSound(w)'
    BY <1>2, <2>2, <2>5, InviteGoes, NoPromises, SomePlaces DEF DeliverPlaces
  <2>7. Sending(w) /\ Sending(w)' /\ job'[w].tok = t /\ job'[w].row = i /\ job'[w].at = "submit"
    BY <1>2, <2>6 DEF Sending, MovesTo, SendPlaces
  <2>8. ASSUME NEW v \in Worker, v # w
        PROVE  job'[v] = job[v] /\ (Sending(v)' <=> Sending(v))
    BY <2>6, <2>8 DEF OthersKept, Sending
  <2>9. SendersSound'
    <3>1. ASSUME NEW v \in Worker, NEW x \in Worker, Sending(v)', Sending(x)',
                 job'[v].tok = job'[x].tok
          PROVE  v = x
      BY <2>7, <2>8, <3>1 DEF SendersSound, Inv
    <3>2. ASSUME NEW v \in Worker, Sending(v)'
          PROVE  /\ job'[v].tok # 0
                 /\ IF job'[v].at = "record"
                    THEN \A k \in DOMAIN invites' : invites'[k].token # job'[v].tok
                    ELSE invites'[job'[v].row].token = job'[v].tok =>
                            invites'[job'[v].row].status \in {"delivery_pending", "revoked"}
      <4>1. CASE v = w
        BY <2>5, <2>7, <4>1 DEF SendersSound, Inv
      <4>2. CASE v # w
        <5>1. Sending(v) /\ job'[v] = job[v] /\ job[v].tok # t /\ job[v].row \in DOMAIN invites
          BY <2>7, <2>8, <3>2, <4>2, JobFacts DEF SendersSound, Sending, Inv
        <5>. QED BY <2>5, <5>1 DEF SendersSound, Inv
      <4>. QED BY <4>1, <4>2
    <3>. QED BY <3>1, <3>2 DEF SendersSound
  <2>. QED BY <2>5, <2>6, <2>9, InviteConclude DEF InviteDocs, Types
<1>4. CASE ~(Mine(w).status = "issuing" /\ Mine(w).gen = job[w].gen)
  <2>1. Goto(w, "revoke") /\ invites' = invites
    BY <1>4 DEF RecordToken
  <2>2. InviteDocs /\ SendersLeft
    BY <1>1, <2>1, InviteSame
  <2>. QED BY <1>2, <2>1, <2>2, InviteProceeds, NoPromises, SomePlaces DEF CancelPlaces, SendPlaces
<1>. QED BY <1>3, <1>4

LEMMA SubmitInviteKeeps ==
    ASSUME Inv, NEW w \in Worker, SubmitInvite(w), UNCHANGED <<rows, history>>
    PROVE  Inv'
<1>. PICK t \in Ref : t = job[w].tok
  BY JobFacts
<1>1. SmallInvite /\ UNCHANGED <<invites, tokens>>
  BY SmallI DEF SubmitInvite
<1>2. job[w].flow = "invitation" /\ job[w].at = "submit"
  BY DEF SubmitInvite, Doing
<1>3. t # 0
  BY <1>2 DEF Inv, SendersSound, Sending, SendPlaces
<1>4. PICK place \in {"sent", "failed", "raised"} : Goto(w, place)
  BY DEF SubmitInvite
<1>5. mailed' \in {mailed, mailed \union {t}}
  BY DEF SubmitInvite
<1>6. TokensKept(tokens') /\ mailed \subseteq mailed' /\ mailed' \subseteq DOMAIN tokens'
  BY <1>1, <1>3, <1>5, TokensSame DEF Inv, Types, TokenTypes, Ref
<1>7. InviteDocs /\ SendersLeft
  BY <1>1, <1>6, InviteTokens
<1>. QED BY <1>2, <1>4, <1>7, InviteProceeds, NoPromises, SomePlaces DEF SendPlaces

LEMMA RevokeTokenKeeps ==
    ASSUME Inv, NEW w \in Worker, RevokeToken(w), UNCHANGED <<rows, history>>
    PROVE  Inv'
<1>1. SmallInvite /\ UNCHANGED <<invites, mailed>> /\ TokenTypes
  BY SmallI DEF RevokeToken, Inv, Types
<1>2. TokensKept(tokens') /\ Len(tokens') = Len(tokens)
  BY <1>1, RevokedTokens DEF RevokeToken
<1>3. mailed' \subseteq DOMAIN tokens'
  BY <1>1, <1>2 DEF TokenTypes, TokensKept
<1>4. InviteDocs /\ SendersLeft
  BY <1>1, <1>2, <1>3, InviteTokens
<1>5. CASE Doing(w, "raised")
  <2>1. Goto(w, "failed") /\ job[w].flow = "invitation" /\ job[w].at = "raised"
    BY <1>5 DEF RevokeToken, Doing
  <2>. QED BY <1>4, <2>1, InviteProceeds, NoPromises, SomePlaces DEF SendPlaces
<1>6. CASE ~Doing(w, "raised")
  <2>1. Answer(w)
    BY <1>6 DEF RevokeToken
  <2>. QED BY <1>4, <2>1, InviteEnds
<1>. QED BY <1>5, <1>6

LEMMA RecordSentKeeps ==
    ASSUME Inv, NEW w \in Worker, RecordSent(w), UNCHANGED <<rows, history>>
    PROVE  Inv'
<1>. PICK i : i = job[w].row
  OBVIOUS
<1>. PICK t \in Nat : t = job[w].tok
  BY JobFacts DEF Job
<1>1. SmallInvite /\ UNCHANGED <<tokens, mailed>> /\ Answer(w)
  BY SmallI DEF RecordSent, otherUnchanged
<1>2. job[w].flow = "invitation" /\ job[w].at \in {"sent", "failed"} /\ i \in DOMAIN invites
  BY JobFacts DEF RecordSent, Doing
<1>3. CASE Mine(w).token = t
  <2>. PICK row \in Invite : row = invites[i]
    BY <1>2, InviteFacts
  <2>. PICK s \in {"pending", "delivery_failed"} :
              s = IF Doing(w, "sent") THEN "pending" ELSE "delivery_failed"
    OBVIOUS
  <2>. DEFINE new == [row EXCEPT !.status = s]
  <2>1. /\ new \in Invite /\ new.status = s /\ new.token = row.token /\ new.red = row.red
        /\ new.ids = row.ids
    BY DEF Invite
  <2>2. MineTo(w, new)
    BY <1>3 DEF RecordSent, Mine
  <2>. HIDE DEF new
  <2>3. row.status \in {"delivery_pending", "revoked"} /\ row.token = t
    BY <1>2, <1>3 DEF Mine, Inv, SendersSound, Sending, SendPlaces
  <2>4. row.red.phase \notin Seen
    BY <1>2, <2>3, InviteFacts DEF InviteSound
  <2>5. InviteFits(i, new)
    BY <1>2, <2>1, <2>4, InviteFacts DEF InviteFits
  <2>6. /\ InviteDocs /\ DOMAIN invites' = DOMAIN invites
        /\ invites'[i].token = t
        /\ \A k \in DOMAIN invites : k # i => invites'[k] = invites[k]
    BY <1>1, <1>2, <2>1, <2>2, <2>3, <2>5, InviteWrites
  <2>7. JobTypes' /\ OthersKept(w) /\ JobSound(w)' /\ ~Sending(w)'
    BY <1>1, <2>6, RefGrows, AnswerJob DEF InviteDocs, Inv, Types
  <2>8. ASSUME NEW v \in Worker, Sending(v)'
        PROVE  /\ v # w /\ job'[v] = job[v] /\ Sending(v) /\ job[v].tok # t
               /\ job[v].row \in DOMAIN invites
    <3>1. v # w /\ job'[v] = job[v] /\ Sending(v)
      BY <2>7, <2>8 DEF OthersKept, Sending
    <3>2. Sending(w)
      BY <1>2 DEF Sending, SendPlaces
    <3>. QED BY <3>1, <3>2, JobFacts DEF Inv, SendersSound, Sending
  <2>9. SendersSound'
    <3>1. ASSUME NEW v \in Worker, NEW x \in Worker, Sending(v)', Sending(x)',
                 job'[v].tok = job'[x].tok
          PROVE  v = x
      BY <2>8, <3>1 DEF SendersSound, Inv
    <3>2. ASSUME NEW v \in Worker, Sending(v)'
          PROVE  /\ job'[v].tok # 0
                 /\ IF job'[v].at = "record"
                    THEN \A k \in DOMAIN invites' : invites'[k].token # job'[v].tok
                    ELSE invites'[job'[v].row].token = job'[v].tok =>
                            invites'[job'[v].row].status \in {"delivery_pending", "revoked"}
      BY <2>6, <2>8, <3>2 DEF SendersSound, Inv
    <3>. QED BY <3>1, <3>2 DEF SendersSound
  <2>. QED BY <2>6, <2>7, <2>9, InviteConclude DEF InviteDocs, Types
<1>4. CASE Mine(w).token # t
  <2>1. invites' = invites
    BY <1>4 DEF RecordSent
  <2>. QED BY <1>1, <2>1, InviteSame, InviteEnds
<1>. QED BY <1>3, <1>4

-----------------------------------------------------------------------------
(* redeem                                                                    *)

Redemption == [phase : {"none", "claimed", "token_consumed", "complete"}, tok : Nat,
               by : Browser \union {NoBrowser}, uid : Nat]

\* A redemption starts from an invitation that saw no token consumed.
LEMMA ClaimKeeps ==
    ASSUME Inv, SmallInvite, UNCHANGED <<tokens, mailed>>, NEW w \in Worker,
           NEW i, i \in DOMAIN invites, NEW t \in mailed, NEW b \in Browser,
           NEW u \in Nat, NEW n \in Nat, u <= n, n <= history.claims,
           invites[i].status \in {"pending", "redeeming"}, invites[i].red.phase \notin Seen,
           NEW red \in Redemption, red.phase = "claimed", red.tok = t, red.by = b, red.uid = u,
           Claim(w, i, red, n)
    PROVE  Inv'
<1>. PICK row \in Invite : row = invites[i] /\ row.token \in Ref
  BY InviteFacts
<1>. PICK p \in Nat : p = row.token
  BY DEF Invite
<1>. DEFINE new == [row EXCEPT !.status = "redeeming", !.red = red, !.ids = n, !.aged = FALSE]
            next == [NoJob EXCEPT !.at = "reserve", !.flow = "invitation", !.row = i, !.tok = t,
                                  !.by = b, !.uid = u, !.want = p]
<1>1. t \in Nat /\ t \in Ref /\ i \in Nat
  BY DEF Inv, Types, TokenTypes, InviteTypes, Ref
<1>2. /\ new \in Invite /\ new.status = "redeeming" /\ new.token = row.token
      /\ new.red.phase = "claimed" /\ new.red.uid = u /\ new.ids = n
  BY <1>1 DEF Invite, Redemption
<1>3. invites' = [invites EXCEPT ![i] = new]
  BY DEF Claim, Inv, Types, InviteTypes
<1>4. JobSet(w, next)
  BY DEF Claim, JobSet
<1>5. next \in Job
  <2>1. "reserve" \in Places /\ "invitation" \in Flow /\ b \in Browser \union {NoBrowser}
    BY DEF Places, VerifyPlaces, Flow
  <2>. QED BY <1>1, <2>1 DEF Job, NoJob
<1>6. /\ next.at = "reserve" /\ next.flow = "invitation" /\ next.row = i /\ next.tok = t
      /\ next.want = p
  BY DEF NoJob
<1>. HIDE DEF new, next
<1>7. InviteFits(i, new)
  BY <1>2, InviteFacts DEF InviteFits, Seen
<1>8. /\ InviteDocs /\ DOMAIN invites' = DOMAIN invites /\ invites'[i] = new
      /\ \A k \in DOMAIN invites : k # i => invites'[k] = invites[k]
  BY <1>3, <1>7, InviteReplaced
<1>9. SendersLeft
  BY <1>2, <1>8, LeftByWrite
<1>10. Ref \subseteq Ref'
  BY <1>8, RefGrows DEF InviteDocs
<1>. QED BY <1>1, <1>4, <1>5, <1>6, <1>8, <1>9, <1>10, InviteSets

LEMMA RedeemKeeps ==
    ASSUME Inv, NEW w \in Worker, NEW t \in mailed, NEW b \in Browser, Redeem(w, t, b),
           UNCHANGED <<rows, history>>
    PROVE  Inv'
<1>. DEFINE mine == {i \in DOMAIN invites : invites[i].status \in {"redeeming", "redeemed"}
                                /\ invites[i].red.tok = t /\ invites[i].red.by = b}
            free == {i \in DOMAIN invites : invites[i].status = "pending"}
            late == {i \in DOMAIN invites : Overdue(i)}
<1>1. SmallInvite /\ UNCHANGED <<tokens, mailed>>
  BY SmallI DEF Redeem, otherUnchanged
<1>2. mine \subseteq Nat /\ free \subseteq Nat /\ late \subseteq Nat
  BY DEF Inv, Types, InviteTypes
<1>3. ASSUME mine # {}, NEW i, i = Earliest(mine), UNCHANGED invites,
             job' = [job EXCEPT ![w] = [NoJob EXCEPT
                        !.at = "reserve", !.flow = "invitation", !.row = i, !.tok = t,
                        !.by = b, !.uid = invites[i].red.uid, !.want = invites[i].token]]
      PROVE  Inv'
  <2>1. i \in DOMAIN invites /\ i \in Nat /\ t \in Nat /\ t \in Ref
    <3>1. i \in mine
      <4>. HIDE DEF mine
      <4>. QED BY <1>2, <1>3, FirstIsOne
    <3>2. t \in DOMAIN tokens /\ t \in Nat
      BY DEF Inv, Types, TokenTypes
    <3>. QED BY <1>2, <3>1, <3>2 DEF Ref
  <2>. PICK row \in Invite : row = invites[i] /\ row.token \in Ref
    BY <2>1, InviteFacts
  <2>. PICK p \in Nat : p = row.token
    BY DEF Invite
  <2>. PICK u \in Nat : u = row.red.uid
    BY DEF Invite
  <2>. DEFINE next == [NoJob EXCEPT !.at = "reserve", !.flow = "invitation", !.row = i, !.tok = t,
                                    !.by = b, !.uid = u, !.want = p]
  <2>2. JobSet(w, next)
    BY <1>3 DEF JobSet
  <2>3. next \in Job
    <3>1. "reserve" \in Places /\ "invitation" \in Flow /\ b \in Browser \union {NoBrowser}
      BY DEF Places, VerifyPlaces, Flow
    <3>. HIDE DEF mine, free, late
    <3>. QED BY ZenonT(60), <2>1, <3>1, FreshClaimJob
  <2>4. /\ next.at = "reserve" /\ next.flow = "invitation" /\ next.row = i /\ next.tok = t
        /\ next.want = p
    BY DEF NoJob
  <2>. HIDE DEF next, mine, free, late
  <2>5. InviteDocs /\ SendersLeft
    BY <1>1, <1>3, InviteSame
  <2>6. Ref \subseteq Ref'
    BY <2>5, RefGrows DEF InviteDocs
  <2>. QED BY <1>1, <1>3, <2>1, <2>2, <2>3, <2>4, <2>5, <2>6, InviteSets
<1>4. ASSUME free # {}, NEW i, i = Earliest(free), NEW n, n = invites[i].ids + 1,
             n <= history.claims,
             Claim(w, i, [phase |-> "claimed", tok |-> t, by |-> b, uid |-> n], n)
      PROVE  Inv'
  <2>1. i \in DOMAIN invites /\ invites[i].status = "pending"
    BY <1>2, <1>4, FirstIsOne
  <2>. HIDE DEF mine, free, late
  <2>2. n \in Nat /\ invites[i].red.phase \notin Seen
    BY <1>4, <2>1, InviteFacts DEF InviteSound
  <2>. DEFINE red == [phase |-> "claimed", tok |-> t, by |-> b, uid |-> n]
  <2>3. /\ red \in Redemption /\ red.phase = "claimed" /\ red.tok = t /\ red.by = b /\ red.uid = n
    BY <2>2 DEF Redemption, Inv, Types, TokenTypes
  <2>4. Claim(w, i, red, n)
    BY <1>4
  <2>. HIDE DEF red
  <2>. QED BY <1>1, <1>4, <2>1, <2>2, <2>3, <2>4, ClaimKeeps
<1>5. ASSUME late # {}, NEW i, i = Earliest(late),
             Claim(w, i, [invites[i].red EXCEPT !.tok = t, !.by = b], invites[i].ids)
      PROVE  Inv'
  <2>1. i \in DOMAIN invites /\ invites[i].status = "redeeming" /\ invites[i].red.phase = "claimed"
    BY <1>2, <1>5, FirstIsOne DEF Overdue
  <2>. HIDE DEF mine, free, late
  <2>. PICK row \in Invite : row = invites[i]
    BY <2>1, InviteFacts
  <2>. PICK n \in Nat : n = row.ids
    BY DEF Invite
  <2>. PICK u \in Nat : u = row.red.uid
    BY DEF Invite
  <2>2. t \in Nat /\ row.red \in Redemption
    BY DEF Redemption, Invite, Inv, Types, TokenTypes
  <2>. PICK old \in Redemption : old = row.red
    BY <2>2
  <2>. DEFINE red == [old EXCEPT !.tok = t, !.by = b]
  <2>3. /\ red \in Redemption /\ red.phase = "claimed" /\ red.tok = t /\ red.by = b
        /\ red.uid = u /\ Claim(w, i, red, n)
    BY <1>5, <2>1, <2>2 DEF Redemption
  <2>. HIDE DEF red
  <2>4. u <= n /\ n <= history.claims /\ row.red.phase \notin Seen
    BY <2>1, InviteFacts DEF Seen
  <2>. QED BY <1>1, <2>1, <2>3, <2>4, ClaimKeeps
<1>. HIDE DEF mine, free, late
<1>. QED BY <1>3, <1>4, <1>5 DEF Redeem, mine, free, late

LEMMA ReserveInvitedKeeps ==
    ASSUME Inv, NEW w \in Worker, ReserveInvited(w), UNCHANGED <<rows, history>>
    PROVE  Inv'
<1>1. job[w].flow = "invitation" /\ job[w].at = "reserve"
  BY DEF ReserveInvited, Doing
<1>2. reserved' = Of(job[w]) \/ reserved' = reserved
  BY DEF ReserveInvited
<1>3. reserved' \in Reservation
  BY <1>1, <1>2, JobFacts, ReservationMade DEF Flow, Inv, Types, IdentityTypes
<1>4. SmallInvite /\ UNCHANGED <<invites, tokens, mailed>>
  BY <1>3 DEF ReserveInvited, SmallInvite, Inv, Types, IdentityTypes
<1>5. InviteDocs /\ SendersLeft
  BY <1>4, InviteSame
<1>6. PICK place \in {"consume", "abandon"} : Goto(w, place)
  BY DEF ReserveInvited
<1>. QED BY <1>1, <1>5, <1>6, InviteProceeds, NoPromises, SomePlaces DEF VerifyPlaces, SendPlaces

LEMMA ConsumeInvitationKeeps ==
    ASSUME Inv, NEW w \in Worker, ConsumeInvitation(w), UNCHANGED <<rows, history>>
    PROVE  Inv'
<1>. PICK j \in Job : j = job[w]
  BY JobFacts
<1>. PICK b \in Browser \union {NoBrowser} : b = j.by
  BY DEF Job
<1>. PICK t : t = j.tok
  OBVIOUS
<1>1. SmallInvite /\ UNCHANGED <<invites, mailed>> /\ TokenTypes
  BY SmallI DEF ConsumeInvitation, Inv, Types
<1>2. job[w].flow = "invitation" /\ job[w].at = "consume" /\ t \in mailed /\ t \in DOMAIN tokens
  BY <1>1, JobFacts DEF ConsumeInvitation, Doing, JobSound, TokenTypes
<1>3. TokensKept(tokens') /\ Len(tokens') = Len(tokens)
  BY <1>1, <1>2, ConsumedToken, TokensSame DEF ConsumeInvitation
<1>4. mailed' \subseteq DOMAIN tokens'
  BY <1>1, <1>3 DEF TokenTypes, TokensKept
<1>5. InviteDocs /\ SendersLeft
  BY <1>1, <1>3, <1>4, InviteTokens
<1>6. CASE MayConsume(t, b) /\ t = j.want
  <2>1. tokens' = Consumed(t, b) /\ Goto(w, "consumed")
    BY <1>6 DEF ConsumeInvitation
  <2>2. UsedBy(t, b)'
    BY <1>1, <1>2, <1>6, <2>1, ConsumedToken DEF UsedBy
  <2>3. job'[w].tok = t /\ job'[w].by = b
    BY <1>5, <2>1, RefGrows, GotoJob, SomePlaces
       DEF MovesTo, InviteDocs, VerifyPlaces, Inv, Types
  <2>4. UsedBy(job[w].tok, job[w].by)'
    BY <2>2, <2>3
  <2>. QED BY <1>2, <1>5, <2>1, <2>4, InviteProceeds, NoPromises, SomePlaces
           DEF VerifyPlaces, SendPlaces
<1>7. CASE ~(MayConsume(t, b) /\ t = j.want)
  <2>1. Goto(w, "abandon")
    BY <1>7 DEF ConsumeInvitation
  <2>. QED BY <1>2, <1>5, <2>1, InviteProceeds, NoPromises, SomePlaces
           DEF VerifyPlaces, SendPlaces
<1>. QED BY <1>6, <1>7

LEMMA AbandonRedemptionKeeps ==
    ASSUME Inv, NEW w \in Worker, AbandonRedemption(w), UNCHANGED <<rows, history>>
    PROVE  Inv'
<1>. PICK i : i = job[w].row
  OBVIOUS
<1>1. SmallInvite /\ UNCHANGED <<tokens, mailed>> /\ Goto(w, "release")
  BY SmallI DEF AbandonRedemption, otherUnchanged
<1>2. job[w].flow = "invitation" /\ i \in DOMAIN invites
  BY JobFacts DEF AbandonRedemption, Doing
<1>3. InviteDocs /\ SendersLeft
  <2>1. CASE Mine(w).status = "redeeming" /\ Mine(w).red.phase = "claimed" /\ MyRedemption(w)
    <3>. PICK row \in Invite : row = invites[i]
      BY <1>2, InviteFacts
    <3>. DEFINE new == [row EXCEPT !.status = "pending", !.red = NoRedemption]
    <3>1. /\ new \in Invite /\ new.status = "pending" /\ new.token = row.token
          /\ new.red = NoRedemption /\ new.ids = row.ids
      BY DEF Invite, NoRedemption
    <3>2. MineTo(w, new)
      BY <2>1 DEF AbandonRedemption, Mine
    <3>3. row.red.phase \notin Seen /\ row.status = "redeeming"
      BY <2>1 DEF Mine, Seen
    <3>. HIDE DEF new
    <3>4. InviteFits(i, new)
      BY <1>2, <3>1, <3>3, InviteFacts DEF InviteFits, NoRedemption, Seen
    <3>5. /\ InviteDocs /\ DOMAIN invites' = DOMAIN invites
          /\ invites'[i].status = new.status /\ invites'[i].token = new.token
          /\ \A k \in DOMAIN invites : k # i => invites'[k] = invites[k]
      BY <1>1, <1>2, <3>1, <3>2, <3>4, InviteWrites
    <3>. QED BY <1>2, <3>1, <3>3, <3>5, LeftByWrite
  <2>2. CASE ~(Mine(w).status = "redeeming" /\ Mine(w).red.phase = "claimed" /\ MyRedemption(w))
    <3>1. invites' = invites
      BY <2>2 DEF AbandonRedemption
    <3>. QED BY <1>1, <3>1, InviteSame
  <2>. QED BY <2>1, <2>2
<1>. QED BY <1>1, <1>2, <1>3, InviteProceeds, NoPromises, SomePlaces DEF VerifyPlaces, SendPlaces

LEMMA ReleaseInvitedKeeps ==
    ASSUME Inv, NEW w \in Worker, ReleaseInvited(w), UNCHANGED <<rows, history>>
    PROVE  Inv'
<1>1. reserved' \in Reservation
  BY DEF ReleaseInvited, Released, Reservation, Inv, Types, IdentityTypes
<1>2. SmallInvite /\ UNCHANGED <<invites, tokens, mailed>> /\ Answer(w)
  BY <1>1 DEF ReleaseInvited, SmallInvite, Inv, Types, IdentityTypes
<1>. QED BY <1>2, InviteSame, InviteEnds

LEMMA RecordRedemptionKeeps ==
    ASSUME Inv, NEW w \in Worker, RecordRedemption(w), UNCHANGED <<rows, history>>
    PROVE  Inv'
<1>. PICK i : i = job[w].row
  OBVIOUS
<1>1. SmallInvite /\ UNCHANGED <<tokens, mailed>>
  BY SmallI DEF RecordRedemption, otherUnchanged
<1>2. job[w].flow = "invitation" /\ i \in DOMAIN invites /\ UsedBy(job[w].tok, job[w].by)
  BY JobFacts DEF RecordRedemption, Doing, JobSound
<1>3. CASE Mine(w).status = "redeeming" /\ MyRedemption(w)
  <2>. PICK row \in Invite : row = invites[i]
    BY <1>2, InviteFacts
  <2>. DEFINE new == [row EXCEPT !.red.phase = "token_consumed"]
  <2>1. /\ new \in Invite /\ new.status = row.status /\ new.token = row.token
        /\ new.red.phase = "token_consumed" /\ new.red.tok = row.red.tok
        /\ new.red.by = row.red.by /\ new.red.uid = row.red.uid /\ new.ids = row.ids
    BY DEF Invite
  <2>2. MineTo(w, new) /\ Goto(w, "provision")
    BY <1>3 DEF RecordRedemption, Mine
  <2>3. row.status = "redeeming" /\ row.red.tok = job[w].tok /\ row.red.by = job[w].by
    BY <1>3 DEF Mine, MyRedemption
  <2>. HIDE DEF new
  <2>4. InviteFits(i, new)
    BY <1>2, <2>1, <2>3, InviteFacts DEF InviteFits, Seen
  <2>5. /\ InviteDocs /\ DOMAIN invites' = DOMAIN invites
        /\ invites'[i].status = new.status /\ invites'[i].token = new.token
        /\ invites'[i].red = new.red
        /\ \A k \in DOMAIN invites : k # i => invites'[k] = invites[k]
    BY <1>1, <1>2, <2>1, <2>2, <2>4, InviteWrites
  <2>6. SendersLeft
    BY <1>2, <2>1, <2>3, <2>5, LeftByWrite
  <2>7. invites'[i].red.phase \in Seen
    BY <2>1, <2>5 DEF Seen
  <2>. QED BY <1>2, <2>2, <2>5, <2>6, <2>7, InviteProceeds, NoPromises, SomePlaces
           DEF VerifyPlaces, SendPlaces
<1>4. CASE ~(Mine(w).status = "redeeming" /\ MyRedemption(w))
  <2>1. invites' = invites /\ Answer(w)
    BY <1>4 DEF RecordRedemption
  <2>. QED BY <1>1, <2>1, InviteSame, InviteEnds
<1>. QED BY <1>3, <1>4

LEMMA InviteAccount ==
    ASSUME Inv, AccountDocs, NEW w \in Worker, job[w].flow = "invitation", NEW place \in Places,
           Goto(w, place), place \in {"player", "activateUser", "finalize"},
           NEW u \in users', SameRow(u, job[w]), u.uid = job[w].uid,
           place \in {"activateUser", "finalize"} => u.player = "active" /\ u.funded,
           place = "finalize" => u.status = "active"
    PROVE  Inv'
<1>1. InviteDocs /\ SendersLeft
  BY InvitesLeft DEF AccountDocs, InviteDocs, SendersLeft
<1>2. job'[w].row = job[w].row /\ job'[w].uid = job[w].uid /\ job'[w].flow = job[w].flow
  BY <1>1, RefGrows, GotoJob DEF MovesTo, InviteDocs, Inv, Types
<1>3. MyUser(u, w)'
  BY <1>2 DEF MyUser, SameRow
<1>4. Promises(w, place)
  BY <1>3 DEF Promises, Complete
<1>. QED BY <1>1, <1>4, InviteProceeds DEF SendPlaces

LEMMA ProvisionInvitedKeeps ==
    ASSUME Inv, NEW w \in Worker, ProvisionInvited(w), UNCHANGED <<rows, history>>
    PROVE  Inv'
<1>. PICK j \in Job : j = job[w] /\ j.row \in DOMAIN invites /\ j.flow = "invitation"
                      /\ invites[j.row].red.phase \in Seen
  BY JobFacts DEF ProvisionInvited, Doing, JobSound, InvitedSound
<1>1. CASE MayProvision(j)
  <2>1. users' = Provisioned(j) /\ Goto(w, "player")
    BY <1>1 DEF ProvisionInvited
  <2>2. AccountDocs /\ \E u \in users' : SameRow(u, j) /\ u.uid = j.uid
    BY <1>1, <2>1, AccountProvisioned DEF ProvisionInvited, Flow
  <2>3. "player" \in Places
    BY DEF Places, VerifyPlaces
  <2>. QED BY <2>1, <2>2, <2>3, InviteAccount
<1>2. CASE ~MayProvision(j)
  <2>1. SmallInvite /\ UNCHANGED <<invites, tokens, mailed>> /\ Answer(w)
    BY <1>2, SmallI DEF ProvisionInvited
  <2>. QED BY <2>1, InviteSame, InviteEnds
<1>. QED BY <1>1, <1>2

LEMMA ActivateInvitedKeeps ==
    ASSUME Inv, NEW w \in Worker, ActivateInvited(w), UNCHANGED <<rows, history>>
    PROVE  Inv'
<1>. PICK j \in Job : j = job[w]
  BY JobFacts
<1>1. /\ UNCHANGED <<tokens, mailed, rows, invites, deliveries, history>>
      /\ j.flow = "invitation" /\ users \subseteq User
  BY DEF ActivateInvited, Doing, Inv, Types, IdentityTypes
<1>2. reserved' \in Reservation
  BY DEF ActivateInvited, Reservation, Inv, Types, IdentityTypes
<1>3. \A u \in users : u \in User /\ UserSound(u) /\ UserKept(u, u)
  BY UserSame DEF Inv, Types, IdentityTypes, UsersSound
<1>4. ASSUME j.at = "player", Update(j, PlayerEnsured), Goto(w, "activateUser") PROVE Inv'
  <2>. DEFINE f == [u \in users |-> IF SameRow(u, j) THEN PlayerEnsured(u) ELSE u]
  <2>1. users' = {IF SameRow(u, j) THEN PlayerEnsured(u) ELSE u : u \in users}
    BY <1>4 DEF Update
  <2>2. \A u \in users : f[u] = IF SameRow(u, j) THEN PlayerEnsured(u) ELSE u
    OBVIOUS
  <2>. HIDE DEF f
  <2>3. users' = {f[u] : u \in users}
    BY <2>1, <2>2
  <2>4. PICK me \in users : SameRow(me, j) /\ me.uid = j.uid
    BY <1>4, JobFacts DEF JobSound, MyUser
  <2>5. ASSUME NEW u \in users, SameRow(u, j)
        PROVE  /\ f[u] \in User /\ UserKept(u, f[u]) /\ f[u].player = "active" /\ f[u].funded
               /\ UserSound(f[u])
    <3>1. u \in User /\ UserSound(u) /\ f[u] = PlayerEnsured(u) /\ u.flow = "invitation"
      BY <1>1, <1>3, <2>2, <2>5 DEF SameRow
    <3>2. u.player # "none" => u.player = "active" /\ u.funded
      BY <3>1 DEF UserSound
    <3>3. /\ f[u] \in User /\ UserKept(u, f[u]) /\ f[u].player = "active" /\ f[u].funded
      BY <3>1, <3>2, InvitedPlayer
    <3>. QED BY <3>1, <3>3 DEF UserSound, UserKept
  <2>6. \A u \in users : f[u] \in User /\ UserKept(u, f[u]) /\ UserSound(f[u])
    BY <1>3, <2>2, <2>5
  <2>7. AccountDocs
    BY <1>1, <1>2, <2>3, <2>6, UsersUpdated
  <2>8. /\ f[me] \in users' /\ SameRow(f[me], j) /\ f[me].uid = j.uid /\ f[me].player = "active"
        /\ f[me].funded
    BY <2>3, <2>4, <2>5 DEF UserKept, SameRow
  <2>9. "activateUser" \in Places
    BY DEF Places, VerifyPlaces
  <2>. QED BY <1>1, <1>4, <2>7, <2>8, <2>9, InviteAccount
<1>5. ASSUME j.at = "activateUser", Update(j, Activated), Goto(w, "finalize") PROVE Inv'
  <2>. DEFINE f == [u \in users |-> IF SameRow(u, j) THEN Activated(u) ELSE u]
  <2>1. users' = {IF SameRow(u, j) THEN Activated(u) ELSE u : u \in users}
    BY <1>5 DEF Update
  <2>2. \A u \in users : f[u] = IF SameRow(u, j) THEN Activated(u) ELSE u
    OBVIOUS
  <2>. HIDE DEF f
  <2>3. users' = {f[u] : u \in users}
    BY <2>1, <2>2
  <2>4. PICK me \in users : SameRow(me, j) /\ me.uid = j.uid /\ me.player = "active" /\ me.funded
    BY <1>5, JobFacts DEF JobSound, MyUser
  <2>5. ASSUME NEW u \in users, SameRow(u, j)
        PROVE  /\ f[u] \in User /\ UserKept(u, f[u]) /\ f[u].status = "active" /\ UserSound(f[u])
    <3>1. u \in User /\ UserSound(u) /\ f[u] = Activated(u)
      BY <1>1, <1>3, <2>2, <2>5
    <3>2. /\ f[u] \in User /\ UserKept(u, f[u]) /\ f[u].status = "active"
          /\ f[u].player = u.player /\ f[u].funded = u.funded
      BY <3>1, AccountProgress
    <3>. QED BY <3>1, <3>2 DEF UserSound, UserKept
  <2>6. \A u \in users : f[u] \in User /\ UserKept(u, f[u]) /\ UserSound(f[u])
    BY <1>3, <2>2, <2>5
  <2>7. AccountDocs
    BY <1>1, <1>2, <2>3, <2>6, UsersUpdated
  <2>8. /\ f[me] \in users' /\ SameRow(f[me], j) /\ f[me].uid = j.uid /\ f[me].player = "active"
        /\ f[me].funded /\ f[me].status = "active"
    BY <2>3, <2>4, <2>5 DEF UserKept, SameRow
  <2>9. "finalize" \in Places
    BY DEF Places, VerifyPlaces
  <2>. QED BY <1>1, <1>5, <2>7, <2>8, <2>9, InviteAccount
<1>. QED BY <1>4, <1>5 DEF ActivateInvited, Doing

LEMMA FinalizeRedemptionKeeps ==
    ASSUME Inv, NEW w \in Worker, FinalizeRedemption(w), UNCHANGED <<rows, history>>
    PROVE  Inv'
<1>. PICK i : i = job[w].row
  OBVIOUS
<1>1. SmallInvite /\ UNCHANGED <<tokens, mailed>> /\ Answer(w)
  BY SmallI DEF FinalizeRedemption, otherUnchanged
<1>2. job[w].flow = "invitation" /\ i \in DOMAIN invites
  BY JobFacts DEF FinalizeRedemption, Doing
<1>3. CASE Mine(w).status = "redeeming" /\ MyRedemption(w) /\ MyIds(w)
  <2>. PICK row \in Invite : row = invites[i]
    BY <1>2, InviteFacts
  <2>. DEFINE new == [row EXCEPT !.status = "redeemed", !.red.phase = "complete"]
  <2>1. /\ new \in Invite /\ new.status = "redeemed" /\ new.token = row.token
        /\ new.red.phase = "complete" /\ new.red.tok = row.red.tok
        /\ new.red.by = row.red.by /\ new.red.uid = row.red.uid /\ new.ids = row.ids
    BY DEF Invite
  <2>2. MineTo(w, new)
    BY <1>3 DEF FinalizeRedemption, Mine
  <2>3. PICK u \in users : MyUser(u, w) /\ Complete(u)
    BY JobFacts DEF FinalizeRedemption, Doing, JobSound
  <2>4. u.flow = "invitation" /\ u.row = i /\ u.uid = row.red.uid /\ row.status = "redeeming"
    BY <1>2, <1>3, <2>3 DEF MyUser, SameRow, MyIds, Mine
  <2>5. row.red.phase \in Seen
    BY <2>4 DEF Inv, UsersSound, UserSound
  <2>6. UsedBy(row.red.tok, row.red.by)
    BY <1>2, <2>5, InviteFacts DEF InviteSound
  <2>. HIDE DEF new
  <2>7. InviteFits(i, new)
    BY <1>2, <2>1, <2>3, <2>4, <2>6, InviteFacts DEF InviteFits, Seen
  <2>8. /\ InviteDocs /\ DOMAIN invites' = DOMAIN invites
        /\ invites'[i].status = new.status /\ invites'[i].token = new.token
        /\ \A k \in DOMAIN invites : k # i => invites'[k] = invites[k]
    BY <1>1, <1>2, <2>1, <2>2, <2>7, InviteWrites
  <2>9. SendersLeft
    BY <1>2, <2>1, <2>4, <2>8, LeftByWrite
  <2>. QED BY <1>1, <2>8, <2>9, InviteEnds
<1>4. CASE ~(Mine(w).status = "redeeming" /\ MyRedemption(w) /\ MyIds(w))
  <2>1. invites' = invites
    BY <1>4 DEF FinalizeRedemption
  <2>. QED BY <1>1, <2>1, InviteSame, InviteEnds
<1>. QED BY <1>3, <1>4

LEMMA InvitationWorkerKeeps ==
    ASSUME Inv, NEW w \in Worker, InvitationWorker(w)
    PROVE  Inv'
<1>1. UNCHANGED <<rows, history>>
  BY DEF InvitationWorker
<1>2. CASE InviteRequest(w)
  <2>1. CASE Create(w)
    BY <1>1, <2>1, CreateKeeps
  <2>2. CASE \E i \in DOMAIN invites : CreateAgain(w, i) \/ ResendInvite(w, i) \/ RevokeInvite(w, i)
    BY <1>1, <2>2, SendAgainKeeps, RevokeInviteKeeps
  <2>3. CASE \E t \in mailed : \E b \in Browser : Redeem(w, t, b)
    BY <1>1, <2>3, RedeemKeeps
  <2>. QED BY <1>2, <2>1, <2>2, <2>3 DEF InviteRequest
<1>3. CASE SendStep(w)
  BY <1>1, <1>3, BeginSendKeeps, MintInviteKeeps, RecordTokenKeeps, SubmitInviteKeeps,
     RevokeTokenKeeps, RecordSentKeeps DEF SendStep
<1>4. CASE RedeemStep(w)
  <2>1. CASE ReserveInvited(w) \/ ConsumeInvitation(w) \/ AbandonRedemption(w) \/ ReleaseInvited(w)
    BY <1>1, <2>1, ReserveInvitedKeeps, ConsumeInvitationKeeps, AbandonRedemptionKeeps,
       ReleaseInvitedKeeps
  <2>2. CASE RecordRedemption(w) \/ ProvisionInvited(w) \/ ActivateInvited(w) \/ FinalizeRedemption(w)
    BY <1>1, <2>2, RecordRedemptionKeeps, ProvisionInvitedKeeps, ActivateInvitedKeeps,
       FinalizeRedemptionKeeps
  <2>. QED BY <1>4, <2>1, <2>2 DEF RedeemStep
<1>. QED BY <1>2, <1>3, <1>4 DEF InvitationWorker, InviteStep

LEMMA AgeInviteKeeps ==
    ASSUME Inv, NEW i \in DOMAIN invites, AgeInvite(i), UNCHANGED <<rows, history>>
    PROVE  Inv'
<1>1. SmallInvite /\ UNCHANGED <<tokens, mailed, job>>
  BY SmallI DEF AgeInvite, otherUnchanged
<1>. PICK row \in Invite : row = invites[i]
  BY InviteFacts
<1>. DEFINE new == [row EXCEPT !.aged = TRUE]
<1>2. /\ new \in Invite /\ new.status = row.status /\ new.token = row.token /\ new.red = row.red
      /\ new.ids = row.ids
  BY DEF Invite
<1>3. invites' = [invites EXCEPT ![i] = new]
  BY DEF AgeInvite
<1>. HIDE DEF new
<1>4. row.status # "redeemed" /\ InviteSound(i)
  BY InviteFacts DEF AgeInvite
<1>5. InviteFits(i, new)
  BY <1>2, <1>4, InviteFacts DEF InviteFits, InviteSound
<1>6. /\ InviteDocs /\ DOMAIN invites' = DOMAIN invites /\ invites'[i] = new
      /\ \A k \in DOMAIN invites : k # i => invites'[k] = invites[k]
  BY <1>1, <1>3, <1>5, InviteReplaced
<1>7. \A k \in DOMAIN invites : TokenLeft(k)
  BY <1>2, <1>6 DEF TokenLeft
<1>8. \A r \in DOMAIN rows' : RowSound(r)'
  BY <1>6, RowStays DEF Inv, InviteDocs
<1>. QED BY <1>1, <1>6, <1>7, <1>8, QuietConclude DEF InviteDocs

-----------------------------------------------------------------------------
(* The theorems                                                              *)

LEMMA InvHolds == Spec => []Inv
<1>1. Init => Inv
  <2>. SUFFICES ASSUME Init PROVE Inv
    OBVIOUS
  <2>1. /\ tokens = <<>> /\ mailed = {} /\ reserved = NoReservation /\ users = {}
        /\ job = [w \in Worker |-> NoJob] /\ deliveries = 0 /\ history \in Histories
        /\ rows = <<>> /\ invites = <<>>
    BY DEF Init, TokensInit, IdentityInit
  <2>2. history.deliveries \in Nat /\ history.signups \in Nat /\ history.invites \in Nat
    BY <2>1, HistoriesAssumption
  <2>3. NoJob \in Job /\ NoJob.at = "idle" /\ NoJob.flow = "none" /\ NoJob.tok = 0
        /\ NoJob.want = 0
    BY DEF NoJob, Job, Places
  <2>4. \A w \in Worker : job[w] = NoJob
    BY <2>1
  <2>5. TokenTypes /\ RowTypes /\ InviteTypes
    BY <2>1, <2>2 DEF TokenTypes, RowTypes, InviteTypes
  <2>6. IdentityTypes
    BY <2>1, <2>2 DEF IdentityTypes, Reservation
  <2>7. JobTypes
    BY <2>1, <2>3, <2>4 DEF JobTypes, Ref
  <2>8. \A w \in Worker : JobSound(w) /\ ~Sending(w)
    BY <2>3, <2>4 DEF JobSound, Sending
  <2>9. SendersSound /\ UsersSound
    BY <2>1, <2>8 DEF SendersSound, UsersSound
  <2>10. (\A r \in DOMAIN rows : RowSound(r)) /\ \A i \in DOMAIN invites : InviteSound(i)
    BY <2>1
  <2>. QED BY <2>5, <2>6, <2>7, <2>8, <2>9, <2>10 DEF Inv, Types
<1>2. Inv /\ [Next]_vars => Inv'
  <2>. SUFFICES ASSUME Inv, [Next]_vars PROVE Inv'
    OBVIOUS
  <2>1. ASSUME NEW w \in Worker, SignupWorker(w) PROVE Inv'
    BY <2>1, SignupWorkerKeeps
  <2>2. ASSUME NEW w \in Worker, InvitationWorker(w) PROVE Inv'
    BY <2>2, InvitationWorkerKeeps
  <2>3. ASSUME NEW w \in Worker, WorkerDies(w) PROVE Inv'
    BY <2>3, DieKeeps DEF WorkerDies
  <2>4. CASE TimePasses
    BY <2>4, AgeRowKeeps, AgeInviteKeeps, ExpireKeeps DEF TimePasses
  <2>5. CASE UNCHANGED vars
    <3>1. UNCHANGED <<tokens, mailed, reserved, users, job, deliveries, rows, invites, history>>
      BY <2>5 DEF vars
    <3>2. Types'
      BY <3>1 DEF Inv, Types, TokenTypes, IdentityTypes, JobTypes, RowTypes, InviteTypes, Ref
    <3>3. ASSUME NEW w \in Worker PROVE JobSound(w)'
      BY <3>1 DEF Inv, JobSound, SignupSound, InvitedSound, MyUser, SameRow, UsedBy, Complete
    <3>4. ASSUME NEW r \in DOMAIN rows PROVE RowSound(r)'
      BY <3>1 DEF Inv, RowSound, UsedBy, Complete
    <3>5. ASSUME NEW i \in DOMAIN invites PROVE InviteSound(i)'
      BY <3>1 DEF Inv, InviteSound, UsedBy, Complete
    <3>6. SendersSound'
      BY <3>1 DEF Inv, SendersSound, Sending
    <3>7. UsersSound'
      BY <3>1 DEF Inv, UsersSound, UserSound
    <3>. QED BY <3>1, <3>2, <3>3, <3>4, <3>5, <3>6, <3>7 DEF Inv
  <2>. QED BY <2>1, <2>2, <2>3, <2>4, <2>5 DEF Next
<1>. QED BY <1>1, <1>2, PTL DEF Spec

(* Whatever signups, redemptions and deliveries interleave or die, tokens, rows, *)
(* invitations, accounts and requests keep their shapes: references lead to      *)
(* documents that exist, and bounds are kept (one_time_tokens.py,                *)
(* pending_enrollment.py, invitations.py, auth.py).                              *)
THEOREM OnboardingTypes == Spec => []TypeOK
<1>1. Inv => TypeOK
  <2>. SUFFICES ASSUME Inv PROVE TypeOK
    OBVIOUS
  <2>1. TokensTypeOK
    BY DEF Inv, Types, TokenTypes, TokensTypeOK
  <2>2. IdentityTypeOK
    BY DEF Inv, Types, IdentityTypes, JobTypes, Job, Ref, IdentityTypeOK
  <2>3. EnrollmentTypeOK
    BY DEF Inv, Types, RowTypes, EnrollmentTypeOK
  <2>4. InvitationsTypeOK
    BY DEF Inv, Types, InviteTypes, InvitationsTypeOK
  <2>. QED BY <2>1, <2>2, <2>3, <2>4 DEF TypeOK
<1>. QED BY <1>1, InvHolds, PTL

(* However signups and redemptions of a mailbox race, take each other over or    *)
(* are cancelled, it has at most one account; the enrollment or invitation it    *)
(* was made from consumed a token that was mailed to it; and what is reported as *)
(* enrolled or redeemed has an active, funded account (auth.py                   *)
(* provision_verified_email_user and provision_invited_user, and the claims of   *)
(* pending_enrollment.py and invitations.py).                                    *)
THEOREM EveryAccountIsProved == Spec => []AccountsAreProved
<1>1. Inv => AccountsAreProved
  <2>. SUFFICES ASSUME Inv PROVE AccountsAreProved
    OBVIOUS
  <2>1. Cardinality(users) <= 1
    <3>1. CASE users = {}
      BY <3>1, FS_EmptySet
    <3>2. CASE users # {}
      <4>1. PICK u \in users : TRUE
        BY <3>2
      <4>2. users = {u}
        BY <4>1 DEF Inv, UsersSound
      <4>. QED BY <4>2, FS_Singleton
    <3>. QED BY <3>1, <3>2
  <2>2. ASSUME NEW u \in users PROVE Proved(u)
    <3>1. u.flow \in Flow /\ UserSound(u)
      BY DEF Inv, Types, IdentityTypes, User, UsersSound
    <3>2. CASE u.flow = "signup"
      BY <3>1, <3>2 DEF UserSound, Inv, RowSound, UsedBy, Seen, Proved
    <3>3. CASE u.flow = "invitation"
      BY <3>1, <3>3 DEF UserSound, Inv, InviteSound, UsedBy, Seen, Proved
    <3>. QED BY <3>1, <3>2, <3>3 DEF Flow
  <2>3. ASSUME NEW r \in DOMAIN rows, rows[r].status = "complete"
        PROVE  \E u \in users : u.flow = "signup" /\ u.row = r /\ Complete(u)
    BY <2>3 DEF Inv, RowSound
  <2>4. ASSUME NEW i \in DOMAIN invites, invites[i].status = "redeemed"
        PROVE  \E u \in users : /\ u.flow = "invitation" /\ u.row = i
                                /\ u.uid = invites[i].red.uid /\ Complete(u)
    BY <2>4 DEF Inv, InviteSound
  <2>. QED BY <2>1, <2>2, <2>3, <2>4 DEF AccountsAreProved
<1>. QED BY <1>1, InvHolds, PTL

-----------------------------------------------------------------------------
(* The bearers of a signup                                                   *)

(* Requests that deliver a bearer of their row, or take back the row's bearers. *)
Delivers(w) == job[w].flow = "signup" /\ job[w].at \in DeliverPlaces
Cancels(w) == job[w].flow = "signup" /\ job[w].at \in {"revoke", "revokeCandidate"}

(* Bearers of row r; those of another row are others.                        *)
Named(t, r) ==
    \/ r \in DOMAIN rows /\ t \in {rows[r].token, rows[r].rep.cand}
    \/ \E w \in Worker : /\ Delivers(w) \/ Cancels(w)
                         /\ job[w].row = r /\ t \in {job[w].tok, job[w].want}
NamesSound ==
    \A t \in DOMAIN tokens : \A r, s \in Nat : Named(t, r) /\ Named(t, s) => r = s

(* A promoted bearer has taken over from its predecessor.                    *)
OneWorking == \A t, u \in Working : t = u
LinkSound(t) ==
    /\ tokens[t].state = "candidate" => tokens[t].pred # 0
    /\ tokens[t].pred # 0 =>
          /\ tokens[t].pred \in DOMAIN tokens
          /\ tokens[t].state = "active" => tokens[tokens[t].pred].state = "revoked"

IsOf(t, p) == t # 0 => tokens[t].purpose = p
OnlySuccessor(p, c) ==
    \A t \in DOMAIN tokens : tokens[t].state = "active" /\ tokens[t].pred = p => t = c

RowBears(r) ==
    LET row == rows[r]
        c == rows[r].rep.cand
    IN  /\ IsOf(row.token, "signup") /\ IsOf(c, "signup")
        /\ row.token # 0 => tokens[row.token].state # "candidate"
        /\ c # 0 => /\ row.status = "delivery_pending"
                    /\ c # row.token /\ tokens[c].pred = row.token
                    /\ row.token # 0 => OnlySuccessor(row.token, c)
        /\ row.rep.phase \in Mailed => c \in mailed

(* The request that minted a bearer, as long as it was not recorded as sent.  *)
Minter(w) ==
    /\ job[w].flow = "signup"
    /\ \/ job[w].at \in {"record", "submit", "recordSent", "recordUnsent", "dropUnrecorded"}
       \/ job[w].at = "drop" /\ ~job[w].again
MinterAlone(w) ==
    /\ job[w].tok # 0
    /\ \A r \in DOMAIN rows : /\ rows[r].token # job[w].tok
                              /\ rows[r].rep.cand = job[w].tok => rows[r].rep.phase \notin Mailed
    /\ \A v \in Worker : v # w /\ Delivers(v) /\ job[v].tok = job[w].tok =>
            job[v].again /\ job[v].at \in {"drop", "reject"}

(* A candidate may be promoted by who waits to only while its row is in its   *)
(* delivery, or was cancelled in it.                                         *)
Promotes(v) ==
    job[v].flow = "signup" /\ job[v].at = "promote" /\ tokens[job[v].tok].state = "candidate"
InTime(v) ==
    LET row == rows[job[v].row]
    IN  \/ row.status = "cancelled"
        \/ row.rep.phase \in Mailed /\ row.rep.cand = job[v].tok

DeliveryBears(w) ==
    LET j == job[w]
        row == rows[j.row]
    IN  /\ j.tok # 0 => tokens[j.tok].pred = j.want
        /\ j.at \in {"recordPromoted", "accept", "reject"} /\ j.tok # 0 =>
              tokens[j.tok].state # "candidate"
        /\ j.at \in {"recordSent", "promote"} => j.tok \in mailed
        /\ j.at = "record" /\ row.gen = j.gen /\ row.status = "issuing" /\ j.want # 0 =>
              OnlySuccessor(j.want, 0)

CancelBears(w) ==
    LET j == job[w]
        row == rows[j.row]
    IN  /\ j.tok # 0 /\ j.tok # j.want /\ row.status = "cancelled" /\ row.token = j.tok
        /\ j.want # 0 => /\ OnlySuccessor(j.tok, j.want)
                         /\ \A v \in Worker : Promotes(v) /\ job[v].want = j.tok =>
                               job[v].tok = j.want
        /\ j.at = "revokeCandidate" => j.want # 0 /\ ~Active(j.tok)

JobBears(w) ==
    LET j == job[w]
    IN  /\ j.flow = "signup" => IsOf(j.tok, "signup") /\ IsOf(j.want, "signup")
        /\ j.flow = "invitation" => IsOf(j.tok, "invitation")
        /\ j.flow = "signup" /\ j.at = "begin" => j.tok = 0
        /\ j.flow = "signup" /\ j.at \in {"authorize", "cancelRow"} => j.tok # 0
        /\ Delivers(w) => DeliveryBears(w)
        /\ Minter(w) => MinterAlone(w)
        /\ Promotes(w) => InTime(w)
        /\ Cancels(w) => CancelBears(w)

InviteBears(i) == IsOf(invites[i].token, "invitation")

Bearers ==
    /\ OneWorking /\ NamesSound
    /\ \A t \in DOMAIN tokens : LinkSound(t)
    /\ \A r \in DOMAIN rows : RowBears(r)
    /\ \A i \in DOMAIN invites : InviteBears(i)
    /\ \A w \in Worker : JobBears(w)

(* The tokens fade, but for one that is promoted, or one that is added.       *)
Calm ==
    /\ \A t \in DOMAIN tokens :
          /\ t \in DOMAIN tokens'
          /\ tokens'[t].purpose = tokens[t].purpose /\ tokens'[t].pred = tokens[t].pred
          /\ tokens[t].state = "revoked" => tokens'[t].state = "revoked"
          /\ tokens[t].expired => tokens'[t].expired
          /\ tokens'[t].state = "candidate" => tokens[t].state = "candidate"
          /\ tokens'[t].state = "active" =>
                \/ tokens[t].state = "active"
                \/ \E w \in Worker : Promotes(w) /\ job[w].tok = t
    /\ \A t \in DOMAIN tokens' \ DOMAIN tokens :
          tokens'[t].state = "active" => tokens'[t].pred = 0

TokensTurn == Calm /\ OneWorking' /\ \A t \in DOMAIN tokens' : LinkSound(t)'

(* What the new request of a worker is to others.                            *)
Harmless(w) ==
    /\ Delivers(w)' =>
          \A v \in Worker : v # w /\ Minter(v) /\ job[v].tok = job'[w].tok =>
              job'[w].again /\ job'[w].at \in {"drop", "reject"}
    /\ Promotes(w)' =>
          \A v \in Worker : v # w /\ Cancels(v) /\ job'[w].want = job[v].tok =>
              job'[w].tok = job[v].want
    /\ (Delivers(w) \/ Cancels(w))' =>
          \A t \in DOMAIN tokens : t \in {job'[w].tok, job'[w].want} => Named(t, job'[w].row)

OneMoves == UNCHANGED job \/ \E w \in Worker : OthersKept(w) /\ Harmless(w) /\ JobBears(w)'

(* What a row may become, for requests that read it before.                  *)
RowLets(r) ==
    /\ rows[r].gen <= rows'[r].gen
    /\ rows'[r].gen = rows[r].gen /\ rows'[r].status = "issuing" => rows[r].status = "issuing"
    /\ rows[r].status = "cancelled" =>
          rows'[r].status = "cancelled" /\ rows'[r].token = rows[r].token
    /\ rows[r].rep.phase \in Mailed =>
          \/ rows'[r].status = "cancelled"
          \/ rows'[r].rep.phase \in Mailed /\ rows'[r].rep.cand = rows[r].rep.cand
          \/ tokens'[rows[r].rep.cand].state # "candidate"

RowTurns(r) ==
    /\ RowBears(r)'
    /\ \A t \in DOMAIN tokens : t \in {rows'[r].token, rows'[r].rep.cand} => Named(t, r)
    /\ r \in DOMAIN rows => RowLets(r)
    /\ \A v \in Worker : Minter(v) /\ job'[v] = job[v] =>
          /\ rows'[r].token # job[v].tok
          /\ rows'[r].rep.cand = job[v].tok => rows'[r].rep.phase \notin Mailed

RowsTurn == DOMAIN rows \subseteq DOMAIN rows' /\ \A r \in DOMAIN rows' : RowTurns(r)

BearersTurn ==
    /\ TokensTurn /\ mailed \subseteq mailed' /\ RowsTurn /\ OneMoves
    /\ DOMAIN tokens' = DOMAIN tokens \/ UNCHANGED rows
    /\ \A i \in DOMAIN invites' : InviteBears(i)'

-----------------------------------------------------------------------------
LEMMA NamesKept ==
    ASSUME Inv, Inv', Bearers, BearersTurn
    PROVE  NamesSound'
<1>1. /\ Ref = {0} \union DOMAIN tokens /\ Ref' = {0} \union DOMAIN tokens'
      /\ DOMAIN tokens \subseteq DOMAIN tokens'
  BY DEF Inv, Types, TokenTypes, Ref, BearersTurn, TokensTurn, Calm
<1>2. ASSUME NEW t \in DOMAIN tokens, NEW r \in Nat, Named(t, r)' PROVE Named(t, r)
  <2>1. CASE r \in DOMAIN rows' /\ t \in {rows'[r].token, rows'[r].rep.cand}
    BY <2>1 DEF BearersTurn, RowsTurn, RowTurns
  <2>2. ASSUME NEW u \in Worker, (Delivers(u) \/ Cancels(u))', job'[u].row = r,
               t \in {job'[u].tok, job'[u].want}
        PROVE  Named(t, r)
    <3>1. CASE job'[u] = job[u]
      BY <2>2, <3>1 DEF Named, Delivers, Cancels
    <3>2. CASE Harmless(u)
      BY <2>2, <3>2 DEF Harmless
    <3>. QED BY <3>1, <3>2 DEF BearersTurn, OneMoves, OthersKept
  <2>. QED BY <1>2, <2>1, <2>2 DEF Named
<1>3. ASSUME NEW t \in DOMAIN tokens', t \notin DOMAIN tokens,
             NEW r \in Nat, NEW s \in Nat, Named(t, r)', Named(t, s)'
      PROVE  r = s
  <2>1. UNCHANGED rows /\ t # 0
    BY <1>1, <1>3 DEF BearersTurn, Inv, Types, TokenTypes
  <2>2. ASSUME NEW q \in DOMAIN rows' PROVE t \notin {rows'[q].token, rows'[q].rep.cand}
    BY <1>1, <1>3, <2>1, <2>2, RowFacts
  <2>3. ASSUME NEW u \in Worker, job'[u] = job[u] PROVE t \notin {job'[u].tok, job'[u].want}
    BY <1>1, <1>3, <2>1, <2>3, JobFacts
  <2>4. (\E u \in Worker : job'[u].row = r /\ t \in {job'[u].tok, job'[u].want})
        /\ (\E u \in Worker : job'[u].row = s /\ t \in {job'[u].tok, job'[u].want})
    BY <1>3, <2>2 DEF Named
  <2>. QED BY <2>3, <2>4 DEF BearersTurn, OneMoves, OthersKept
<1>. QED BY <1>2, <1>3 DEF NamesSound, Bearers

(* What was known of a bearer and its successor is still known.              *)
LEMMA SuccessorStays ==
    ASSUME Inv, Bearers, Calm, NEW p \in DOMAIN tokens, NEW c, OnlySuccessor(p, c),
           \A w \in Worker : Promotes(w) /\ job[w].want = p => job[w].tok = c
    PROVE  OnlySuccessor(p, c)'
<1>. SUFFICES ASSUME NEW t \in DOMAIN tokens', tokens'[t].state = "active", tokens'[t].pred = p
              PROVE  t = c
  BY DEF OnlySuccessor
<1>1. p # 0
  BY DEF Inv, Types, TokenTypes
<1>2. t \in DOMAIN tokens /\ tokens[t].pred = p
  BY <1>1 DEF Calm
<1>3. CASE tokens[t].state = "active"
  BY <1>2, <1>3 DEF OnlySuccessor
<1>4. ASSUME NEW w \in Worker, Promotes(w), job[w].tok = t PROVE t = c
  <2>1. t # 0 /\ Delivers(w)
    BY <1>2, <1>4 DEF Inv, Types, TokenTypes, Promotes, Delivers, DeliverPlaces
  <2>2. job[w].want = p
    BY <1>2, <1>4, <2>1 DEF Bearers, JobBears, DeliveryBears
  <2>. QED BY <1>4, <2>2
<1>. QED BY <1>2, <1>3, <1>4 DEF Calm

LEMMA NotCandidate ==
    ASSUME Inv, Calm, NEW t \in DOMAIN tokens, tokens[t].state # "candidate"
    PROVE  tokens'[t].state # "candidate"
BY DEF Calm

LEMMA RefParts ==
    ASSUME Inv
    PROVE  0 \notin DOMAIN tokens /\ Ref = {0} \union DOMAIN tokens
BY DEF Inv, Types, TokenTypes, Ref

LEMMA OfStays ==
    ASSUME Inv, Calm, NEW t \in Ref, NEW p, IsOf(t, p)
    PROVE  IsOf(t, p)'
BY RefParts DEF IsOf, Calm

(* Two requests or rows that name the same bearer are about the same row.    *)
LEMMA SameNamed ==
    ASSUME Inv, Bearers, NEW t \in DOMAIN tokens, NEW r \in Nat, NEW s \in Nat,
           Named(t, r), Named(t, s)
    PROVE  r = s
BY DEF Bearers, NamesSound

(* A bearer cannot be promoted while its predecessor's row is at the start of *)
(* a delivery.                                                               *)
LEMMA InTimeRow ==
    ASSUME Inv, Bearers, NEW w \in Worker, Promotes(w)
    PROVE  /\ job[w].row \in DOMAIN rows /\ Delivers(w) /\ job[w].tok # 0
           /\ rows[job[w].row].status # "cancelled" => rows[job[w].row].rep.cand = job[w].tok
           /\ rows[job[w].row].status \in {"cancelled", "delivery_pending"}
<1>1. job[w].row \in DOMAIN rows /\ Delivers(w) /\ InTime(w) /\ job[w].tok # 0
  BY JobFacts DEF Promotes, SignupSound, Delivers, DeliverPlaces, Bearers, JobBears
<1>2. rows[job[w].row].rep.cand # 0 => rows[job[w].row].status = "delivery_pending"
  BY <1>1 DEF Bearers, RowBears
<1>. QED BY <1>1, <1>2 DEF InTime

-----------------------------------------------------------------------------
(* What the requests of other workers count on                               *)

LEMMA DeliveryStays ==
    ASSUME Inv, Inv', Bearers, BearersTurn, NEW v \in Worker, job'[v] = job[v], Delivers(v)
    PROVE  DeliveryBears(v)'
<1>. PICK j \in Job : j = job[v] /\ j.tok \in Ref /\ j.want \in Ref
  BY JobFacts
<1>. PICK r : r = j.row /\ r \in DOMAIN rows /\ r \in DOMAIN rows'
  BY JobFacts DEF Delivers, BearersTurn, RowsTurn
<1>0. /\ DeliveryBears(v) /\ Calm /\ RowLets(r) /\ mailed \subseteq mailed'
      /\ j.at \in DeliverPlaces /\ j.gen \in Nat /\ j.gen <= rows[r].gen
  BY JobFacts DEF Bearers, JobBears, BearersTurn, TokensTurn, RowsTurn, RowTurns, Delivers,
                  SignupSound, Job
<1>1. ASSUME j.tok # 0
      PROVE  /\ tokens'[j.tok].pred = j.want
             /\ j.at \in {"recordPromoted", "accept", "reject"} =>
                   tokens'[j.tok].state # "candidate"
  BY <1>0, <1>1, RefParts DEF DeliveryBears, Calm
<1>2. j.at \in {"recordSent", "promote"} => j.tok \in mailed'
  BY <1>0 DEF DeliveryBears
<1>3. ASSUME j.at = "record", rows'[r].gen = j.gen, rows'[r].status = "issuing", j.want # 0
      PROVE  OnlySuccessor(j.want, 0)'
  <2>1. rows[r].gen = j.gen /\ rows[r].status = "issuing"
    BY <1>0, <1>3, RowFacts DEF RowLets
  <2>2. OnlySuccessor(j.want, 0) /\ j.want \in DOMAIN tokens
    BY <1>0, <1>3, <2>1, RefParts DEF DeliveryBears
  <2>3. ASSUME NEW w \in Worker, Promotes(w), job[w].want = j.want PROVE FALSE
    <3>1. Named(j.want, job[w].row) /\ Named(j.want, r) /\ job[w].row \in Nat
      BY <2>3, InTimeRow, JobFacts DEF Named, Job
    <3>2. job[w].row = r
      BY <2>2, <3>1, SameNamed, JobFacts DEF Job
    <3>. QED BY <2>1, <2>3, <3>2, InTimeRow
  <2>. QED BY <1>0, <2>2, <2>3, SuccessorStays
<1>. QED BY <1>1, <1>2, <1>3 DEF DeliveryBears

LEMMA MinterStays ==
    ASSUME Inv, Inv', Bearers, BearersTurn, NEW v \in Worker, job'[v] = job[v], Minter(v)
    PROVE  MinterAlone(v)'
<1>1. MinterAlone(v)
  BY DEF Bearers, JobBears
<1>2. ASSUME NEW u \in Worker, u # v, Delivers(u)', job'[u].tok = job[v].tok
      PROVE  job'[u].again /\ job'[u].at \in {"drop", "reject"}
  <2>1. CASE job'[u] = job[u]
    BY <1>1, <1>2, <2>1 DEF MinterAlone, Delivers
  <2>2. CASE Harmless(u)
    BY <1>2, <2>2 DEF Harmless
  <2>. QED BY <2>1, <2>2 DEF BearersTurn, OneMoves, OthersKept
<1>3. ASSUME NEW r \in DOMAIN rows'
      PROVE  /\ rows'[r].token # job[v].tok
             /\ rows'[r].rep.cand = job[v].tok => rows'[r].rep.phase \notin Mailed
  BY DEF BearersTurn, RowsTurn, RowTurns
<1>. QED BY <1>1, <1>2, <1>3 DEF MinterAlone

LEMMA PromotesBefore ==
    ASSUME Inv, Calm, NEW v \in Worker, job'[v] = job[v], Promotes(v)'
    PROVE  Promotes(v)
<1>1. job[v].flow = "signup" /\ job[v].at = "promote" /\ tokens'[job[v].tok].state = "candidate"
  BY DEF Promotes
<1>2. job[v].tok \in DOMAIN tokens
  BY <1>1, JobFacts, RefParts DEF SignupSound
<1>. QED BY <1>1, <1>2 DEF Promotes, Calm

LEMMA InTimeStays ==
    ASSUME Inv, Inv', Bearers, BearersTurn, NEW v \in Worker, job'[v] = job[v], Promotes(v)'
    PROVE  InTime(v)'
<1>. PICK r : r = job[v].row
  OBVIOUS
<1>1. Promotes(v)
  BY PromotesBefore DEF BearersTurn, TokensTurn
<1>2. r \in DOMAIN rows /\ InTime(v)
  BY <1>1, InTimeRow DEF Bearers, JobBears
<1>3. RowLets(r)
  BY <1>2 DEF BearersTurn, RowsTurn, RowTurns
<1>4. tokens'[job[v].tok].state = "candidate"
  BY DEF Promotes
<1>. QED BY <1>2, <1>3, <1>4 DEF InTime, RowLets

LEMMA CancelStays ==
    ASSUME Inv, Inv', Bearers, BearersTurn, NEW v \in Worker, job'[v] = job[v], Cancels(v)
    PROVE  CancelBears(v)'
<1>. PICK j \in Job : j = job[v] /\ j.tok \in Ref /\ j.want \in Ref
  BY JobFacts
<1>. PICK r : r = j.row /\ r \in DOMAIN rows
  BY JobFacts DEF Cancels
<1>0. CancelBears(v) /\ Calm /\ RowLets(r)
  BY DEF Bearers, JobBears, BearersTurn, TokensTurn, RowsTurn, RowTurns
<1>1. /\ j.tok # 0 /\ j.tok # j.want /\ rows'[r].status = "cancelled" /\ rows'[r].token = j.tok
      /\ j.tok \in DOMAIN tokens
  BY <1>0, RefParts DEF CancelBears, RowLets
<1>2. ASSUME j.want # 0 PROVE OnlySuccessor(j.tok, j.want)'
  <2>1. ASSUME NEW w \in Worker, Promotes(w), job[w].want = j.tok PROVE job[w].tok = j.want
    BY <1>0, <1>2, <2>1 DEF CancelBears
  <2>2. OnlySuccessor(j.tok, j.want)
    BY <1>0, <1>2 DEF CancelBears
  <2>. QED BY <1>0, <1>1, <2>1, <2>2, SuccessorStays
<1>3. ASSUME j.want # 0, NEW u \in Worker, Promotes(u)', job'[u].want = j.tok
      PROVE  job'[u].tok = j.want
  <2>1. CASE job'[u] = job[u]
    BY <1>0, <1>3, <2>1, PromotesBefore DEF CancelBears
  <2>2. CASE Harmless(u) /\ u # v
    BY <1>3, <2>2 DEF Harmless
  <2>. QED BY <2>1, <2>2 DEF BearersTurn, OneMoves, OthersKept
<1>4. ASSUME j.at = "revokeCandidate" PROVE j.want # 0 /\ ~Active(j.tok)'
  <2>1. j.want # 0 /\ ~Active(j.tok)
    BY <1>0, <1>4 DEF CancelBears
  <2>2. tokens[j.tok].state # "candidate"
    BY <1>0, <1>1 DEF Bearers, RowBears, CancelBears
  <2>3. ~\E w \in Worker : Promotes(w) /\ job[w].tok = j.tok
    BY <2>2 DEF Promotes
  <2>. QED BY <1>0, <1>1, <2>1, <2>3 DEF Calm, Active
<1>. QED BY <1>1, <1>2, <1>3, <1>4 DEF CancelBears

LEMMA OthersBear ==
    ASSUME Inv, Inv', Bearers, BearersTurn, NEW v \in Worker, job'[v] = job[v]
    PROVE  JobBears(v)'
<1>1. /\ job[v].flow = "signup" => IsOf(job[v].tok, "signup")' /\ IsOf(job[v].want, "signup")'
      /\ job[v].flow = "invitation" => IsOf(job[v].tok, "invitation")'
  BY JobFacts, OfStays DEF BearersTurn, TokensTurn, Bearers, JobBears
<1>2. /\ job[v].flow = "signup" /\ job[v].at = "begin" => job[v].tok = 0
      /\ job[v].flow = "signup" /\ job[v].at \in {"authorize", "cancelRow"} => job[v].tok # 0
  BY DEF Bearers, JobBears
<1>3. Delivers(v)' => DeliveryBears(v)'
  BY DeliveryStays DEF Delivers
<1>4. Minter(v)' => MinterAlone(v)'
  BY MinterStays DEF Minter
<1>5. Promotes(v)' => InTime(v)'
  BY InTimeStays
<1>6. Cancels(v)' => CancelBears(v)'
  BY CancelStays DEF Cancels
<1>. QED BY <1>1, <1>2, <1>3, <1>4, <1>5, <1>6 DEF JobBears

LEMMA BearersConclude ==
    ASSUME Inv, Inv', Bearers, BearersTurn
    PROVE  Bearers'
<1>1. ASSUME NEW v \in Worker PROVE JobBears(v)'
  BY OthersBear DEF BearersTurn, OneMoves, OthersKept
<1>2. NamesSound'
  BY NamesKept
<1>. QED BY <1>1, <1>2 DEF Bearers, BearersTurn, TokensTurn, RowsTurn, RowTurns

-----------------------------------------------------------------------------
(* Tokens                                                                    *)

(* No token is promoted, and none added.                                     *)
Fades ==
    \A t \in DOMAIN tokens :
        /\ tokens'[t].purpose = tokens[t].purpose /\ tokens'[t].pred = tokens[t].pred
        /\ tokens[t].state = "revoked" => tokens'[t].state = "revoked"
        /\ tokens[t].expired => tokens'[t].expired
        /\ tokens'[t].state = "candidate" => tokens[t].state = "candidate"
        /\ tokens'[t].state = "active" => tokens[t].state = "active"
Fade == DOMAIN tokens' = DOMAIN tokens /\ Fades

LEMMA FadeTurns == ASSUME Inv, Bearers, Fade PROVE TokensTurn /\ Working' \subseteq Working
<1>1. Calm
  BY DEF Fade, Fades, Calm
<1>2. ASSUME NEW t \in Working' PROVE t \in Working
  BY <1>2 DEF Fade, Fades, Working, Active
<1>3. OneWorking'
  BY <1>2 DEF OneWorking, Bearers
<1>4. ASSUME NEW t \in DOMAIN tokens' PROVE LinkSound(t)'
  BY <1>4 DEF Fade, Fades, Bearers, LinkSound
<1>. QED BY <1>1, <1>2, <1>3, <1>4 DEF TokensTurn

LEMMA SameFades == UNCHANGED tokens => Fade
BY DEF Fade, Fades

LEMMA RevokedFades ==
    ASSUME Inv, NEW t, tokens' \in {tokens, Revoked(t), Discarded(t), Withdrawn(t)}
    PROVE  Fade
<1>1. CASE tokens' = tokens
  BY <1>1, SameFades
<1>2. CASE tokens' = [tokens EXCEPT ![t].state = "revoked"]
  <2>1. \A x \in Token : LET y == [x EXCEPT !.state = "revoked"] IN
           /\ y.purpose = x.purpose /\ y.pred = x.pred /\ y.expired = x.expired
           /\ y.state = "revoked"
    BY DEF Token
  <2>2. /\ \A q \in DOMAIN tokens : tokens[q] \in Token
        /\ DOMAIN tokens' = DOMAIN tokens
        /\ \A q \in DOMAIN tokens : q # t => tokens'[q] = tokens[q]
        /\ t \in DOMAIN tokens => tokens'[t] = [tokens[t] EXCEPT !.state = "revoked"]
    BY <1>2 DEF Inv, Types, TokenTypes
  <2>3. t \in DOMAIN tokens =>
           /\ tokens'[t].purpose = tokens[t].purpose /\ tokens'[t].pred = tokens[t].pred
           /\ tokens'[t].expired = tokens[t].expired /\ tokens'[t].state = "revoked"
    BY <2>1, <2>2
  <2>. QED BY <2>2, <2>3 DEF Fade, Fades
<1>3. \/ tokens' = tokens \/ tokens' = [tokens EXCEPT ![t].state = "revoked"]
  BY DEF Revoked, Discarded, Withdrawn
<1>. QED BY <1>1, <1>2, <1>3

LEMMA ConsumedFades ==
    ASSUME Inv, NEW t \in DOMAIN tokens, NEW b,
           tokens' = IF MayConsume(t, b) THEN Consumed(t, b) ELSE tokens
    PROVE  Fade /\ \A q \in DOMAIN tokens : tokens'[q] = tokens[q] \/ tokens'[q].state = "consumed"
<1>1. CASE tokens' = tokens
  BY <1>1, SameFades
<1>2. CASE tokens' = [tokens EXCEPT ![t].state = "consumed", ![t].by = b] /\ MayConsume(t, b)
  <2>1. \A x \in Token : LET y == [x EXCEPT !.state = "consumed", !.by = b] IN
           /\ y.purpose = x.purpose /\ y.pred = x.pred /\ y.expired = x.expired
           /\ y.state = "consumed"
    BY DEF Token
  <2>2. /\ \A q \in DOMAIN tokens : tokens[q] \in Token
        /\ DOMAIN tokens' = DOMAIN tokens
        /\ \A q \in DOMAIN tokens : q # t => tokens'[q] = tokens[q]
        /\ tokens'[t] = [tokens[t] EXCEPT !.state = "consumed", !.by = b]
    BY <1>2 DEF Inv, Types, TokenTypes
  <2>3. /\ tokens'[t].purpose = tokens[t].purpose /\ tokens'[t].pred = tokens[t].pred
        /\ tokens'[t].expired = tokens[t].expired /\ tokens'[t].state = "consumed"
    BY ZenonT(60), <2>1, <2>2
  <2>4. tokens[t].state # "revoked"
    BY <1>2 DEF MayConsume, Active
  <2>. QED BY <2>2, <2>3, <2>4 DEF Fade, Fades
<1>3. tokens' = tokens \/ (MayConsume(t, b) /\ tokens' = Consumed(t, b))
  OBVIOUS
<1>. QED BY <1>1, <1>2, <1>3 DEF Consumed

LEMMA ExpiredFades ==
    ASSUME Inv, NEW t \in DOMAIN tokens, ExpireToken(t)
    PROVE  Fade /\ \A q \in DOMAIN tokens : tokens'[q] = tokens[q] \/ tokens'[q].expired
<1>1. \A x \in Token : LET y == [x EXCEPT !.expired = TRUE] IN
         /\ y.purpose = x.purpose /\ y.pred = x.pred /\ y.state = x.state /\ y.expired
  BY DEF Token
<1>2. /\ \A q \in DOMAIN tokens : tokens[q] \in Token
      /\ DOMAIN tokens' = DOMAIN tokens
      /\ \A q \in DOMAIN tokens : q # t => tokens'[q] = tokens[q]
      /\ tokens'[t] = [tokens[t] EXCEPT !.expired = TRUE]
  BY DEF ExpireToken, Inv, Types, TokenTypes
<1>3. /\ tokens'[t].purpose = tokens[t].purpose /\ tokens'[t].pred = tokens[t].pred
      /\ tokens'[t].state = tokens[t].state /\ tokens'[t].expired
  BY <1>1, <1>2
<1>. QED BY <1>2, <1>3 DEF Fade, Fades

LEMMA AddedTurns ==
    ASSUME Inv, Bearers, Fades, NEW n, n \notin DOMAIN tokens,
           DOMAIN tokens' = DOMAIN tokens \union {n},
           tokens'[n].state = "active" => tokens'[n].pred = 0,
           tokens'[n].state = "candidate" => tokens'[n].pred # 0,
           tokens'[n].pred # 0 => tokens'[n].pred \in DOMAIN tokens,
           tokens'[n].purpose = "signup" /\ tokens'[n].state = "active" => Working = {}
    PROVE  TokensTurn /\ (tokens'[n].purpose # "signup" => Working' \subseteq Working)
<1>1. Calm
  BY DEF Fades, Calm
<1>2. ASSUME NEW t \in Working', t # n PROVE t \in Working
  BY <1>2 DEF Fades, Working, Active
<1>3. n \in Working' => tokens'[n].purpose = "signup" /\ tokens'[n].state = "active"
  BY DEF Working, Active
<1>4. OneWorking'
  BY <1>2, <1>3 DEF OneWorking, Bearers
<1>5. ASSUME NEW t \in DOMAIN tokens' PROVE LinkSound(t)'
  BY <1>5 DEF Fades, Bearers, LinkSound
<1>. QED BY <1>1, <1>2, <1>3, <1>4, <1>5 DEF TokensTurn

LEMMA AppendedTokens ==
    ASSUME Inv, NEW p, NEW s, NEW q, p \in Purpose, s \in {"candidate", "active"}, q \in Nat,
           tokens' = Append(tokens, Minted(p, s, q))
    PROVE  /\ Fades /\ Len(tokens) + 1 \notin DOMAIN tokens
           /\ DOMAIN tokens' = DOMAIN tokens \union {Len(tokens) + 1}
           /\ \A t \in DOMAIN tokens : tokens'[t] = tokens[t]
           /\ tokens'[Len(tokens) + 1].purpose = p /\ tokens'[Len(tokens) + 1].state = s
           /\ tokens'[Len(tokens) + 1].pred = q
<1>. PICK x \in Token : x = Minted(p, s, q)
  BY DEF Minted, Token
<1>1. x.purpose = p /\ x.state = s /\ x.pred = q
  BY DEF Minted
<1>2. /\ Len(tokens) + 1 \notin DOMAIN tokens
      /\ DOMAIN tokens' = DOMAIN tokens \union {Len(tokens) + 1}
      /\ \A t \in DOMAIN tokens : tokens'[t] = tokens[t]
      /\ tokens'[Len(tokens) + 1] = x
  BY DEF Inv, Types, TokenTypes
<1>. QED BY <1>1, <1>2 DEF Fades

LEMMA IssuedTurns ==
    ASSUME Inv, Bearers, MayIssue("signup"), tokens' = Issued("signup")
    PROVE  TokensTurn
<1>1. tokens' = Append(tokens, Minted("signup", "active", 0)) /\ "signup" \in Purpose /\ 0 \in Nat
  BY DEF Issued, Purpose
<1>2. Working = {}
  BY DEF MayIssue, Working
<1>. QED BY <1>1, <1>2, AppendedTokens, AddedTurns

LEMMA PreparedTurns ==
    ASSUME Inv, Bearers, NEW p \in Ref, p # 0, MayPrepare("signup", p),
           tokens' = Prepared("signup", p)
    PROVE  TokensTurn
<1>1. /\ tokens' = Append(tokens, Minted("signup", "candidate", p)) /\ "signup" \in Purpose
      /\ p \in Nat /\ p \in DOMAIN tokens
  BY RefParts DEF Prepared, Purpose, Ref
<1>. QED BY <1>1, AppendedTokens, AddedTurns

LEMMA ReissuedTurns ==
    ASSUME Inv, Bearers, tokens' = Reissued("invitation")
    PROVE  /\ TokensTurn /\ Working' = Working /\ Len(tokens) + 1 \notin DOMAIN tokens
           /\ DOMAIN tokens' = DOMAIN tokens \union {Len(tokens) + 1}
           /\ tokens'[Len(tokens) + 1].purpose = "invitation"
<1>. PICK k \in Nat : k = Len(tokens) /\ DOMAIN tokens = 1..k
  BY DEF Inv, Types, TokenTypes
<1>. PICK n \in Nat : n = k + 1
  OBVIOUS
<1>. PICK x \in Token : x = Minted("invitation", "active", 0)
  BY DEF Minted, Token, Purpose
<1>. DEFINE mid == [t \in DOMAIN tokens |->
                      IF Active(t) /\ tokens[t].purpose = "invitation"
                      THEN [tokens[t] EXCEPT !.state = "revoked"]
                      ELSE tokens[t]]
<1>1. /\ DOMAIN mid = DOMAIN tokens
      /\ \A t \in DOMAIN tokens :
            mid[t] = IF Active(t) /\ tokens[t].purpose = "invitation"
                     THEN [tokens[t] EXCEPT !.state = "revoked"] ELSE tokens[t]
  OBVIOUS
<1>2. \A y \in Token : LET z == [y EXCEPT !.state = "revoked"] IN
         /\ z \in Token /\ z.purpose = y.purpose /\ z.pred = y.pred /\ z.expired = y.expired
         /\ z.state = "revoked"
  BY DEF Token
<1>3. \A t \in DOMAIN tokens : tokens[t] \in Token
  BY DEF Inv, Types, TokenTypes
<1>4. mid \in [1..Len(tokens) -> Token]
  BY <1>2, <1>3
<1>5. tokens' = Append(mid, x)
  BY DEF Reissued
<1>6. ASSUME NEW t \in DOMAIN tokens
      PROVE  \/ mid[t] = tokens[t]
             \/ /\ Active(t) /\ tokens[t].purpose = "invitation"
                /\ mid[t].purpose = tokens[t].purpose /\ mid[t].pred = tokens[t].pred
                /\ mid[t].expired = tokens[t].expired /\ mid[t].state = "revoked"
  BY <1>1, <1>2, <1>3
<1>. HIDE DEF mid
<1>7. mid \in Seq(Token) /\ Len(mid) = Len(tokens)
  BY <1>4 DEF Inv, Types, TokenTypes
<1>8. n \notin DOMAIN tokens /\ DOMAIN tokens' = DOMAIN tokens \union {n}
  <2>. PICK new : new = Append(mid, x)
    OBVIOUS
  <2>1. DOMAIN new = 1..(k + 1) /\ tokens' = new
    BY <1>5, <1>7
  <2>2. n \notin 1..k /\ 1..(k + 1) = (1..k) \union {n}
    OBVIOUS
  <2>. QED BY <2>1, <2>2
<1>9. tokens'[n] = x /\ \A t \in DOMAIN tokens : tokens'[t] = mid[t]
  BY <1>5, <1>7
<1>10. x.purpose = "invitation" /\ x.state = "active" /\ x.pred = 0
  BY DEF Minted
<1>11. Fades
  BY <1>6, <1>9 DEF Fades
<1>12. TokensTurn /\ Working' \subseteq Working
  BY <1>8, <1>9, <1>10, <1>11, AddedTurns
<1>13. Working \subseteq Working'
  <2>. SUFFICES ASSUME NEW t \in Working PROVE t \in Working'
    OBVIOUS
  <2>1. t \in DOMAIN tokens /\ tokens[t].purpose = "signup" /\ Active(t)
    BY DEF Working
  <2>2. tokens'[t] = tokens[t]
    BY <1>6, <1>9, <2>1
  <2>. QED BY <1>8, <2>1, <2>2 DEF Working, Active
<1>. QED BY <1>8, <1>9, <1>10, <1>12, <1>13

-----------------------------------------------------------------------------
(* Rows and requests that are left alone, or have no bearer                  *)

(* The row keeps its bearers, and is in a delivery if it was.                *)
Idle(row, new) ==
    /\ new.token = row.token /\ new.rep = row.rep /\ new.gen = row.gen
    /\ \/ new.status = row.status
       \/ /\ row.status \notin {"issuing", "delivery_pending", "cancelled"}
          /\ new.status \notin {"issuing", "delivery_pending", "cancelled"}

LEMMA IdleTurns ==
    ASSUME Inv, Inv', Bearers, Calm, mailed \subseteq mailed', NEW r \in DOMAIN rows,
           r \in DOMAIN rows', Idle(rows[r], rows'[r])
    PROVE  RowTurns(r)
<1>. PICK t, c : t = rows[r].token /\ c = rows[r].rep.cand /\ t \in Ref /\ c \in Ref
  BY RowFacts
<1>1. RowBears(r) /\ rows'[r].token = t /\ rows'[r].rep.cand = c
      /\ rows'[r].rep.phase = rows[r].rep.phase
  BY DEF Bearers, Idle
<1>2. RowBears(r)'
  <2>1. IsOf(t, "signup")' /\ IsOf(c, "signup")'
    BY <1>1, OfStays DEF RowBears
  <2>2. t # 0 => tokens'[t].state # "candidate"
    BY <1>1, NotCandidate, RefParts DEF RowBears
  <2>3. ASSUME c # 0
        PROVE  /\ rows'[r].status = "delivery_pending" /\ c # t /\ tokens'[c].pred = t
               /\ rows[r].status = "delivery_pending"
    BY <1>1, <2>3, RefParts DEF RowBears, Idle, Calm
  <2>4. ASSUME c # 0, t # 0 PROVE OnlySuccessor(t, c)'
    <3>1. ASSUME NEW w \in Worker, Promotes(w), job[w].want = t PROVE job[w].tok = c
      <4>1. Named(t, job[w].row) /\ Named(t, r) /\ job[w].row \in Nat /\ r \in Nat
        BY <3>1, InTimeRow, JobFacts DEF Named, Job, Inv, Types, RowTypes
      <4>2. job[w].row = r
        BY <2>4, <4>1, SameNamed, RefParts
      <4>. QED BY <2>3, <2>4, <3>1, <4>2, InTimeRow
    <3>2. OnlySuccessor(t, c)
      BY <1>1, <2>4 DEF RowBears
    <3>. QED BY <2>4, <3>1, <3>2, RefParts, SuccessorStays
  <2>5. rows'[r].rep.phase \in Mailed => c \in mailed'
    BY <1>1 DEF RowBears
  <2>. QED BY <1>1, <2>1, <2>2, <2>3, <2>4, <2>5 DEF RowBears
<1>3. \A q \in DOMAIN tokens : q \in {t, c} => Named(q, r)
  BY DEF Named
<1>4. RowLets(r)
  BY RowFacts DEF RowLets, Idle
<1>5. ASSUME NEW v \in Worker, Minter(v)
      PROVE  t # job[v].tok /\ (c = job[v].tok => rows[r].rep.phase \notin Mailed)
  BY <1>5 DEF Bearers, JobBears, MinterAlone
<1>. QED BY <1>1, <1>2, <1>3, <1>4, <1>5 DEF RowTurns

LEMMA SameRowsTurn ==
    ASSUME Inv, Inv', Bearers, Calm, mailed \subseteq mailed', UNCHANGED rows
    PROVE  RowsTurn
<1>1. \A r \in DOMAIN rows : Idle(rows[r], rows'[r])
  BY DEF Idle
<1>. QED BY <1>1, IdleTurns DEF RowsTurn

(* A row is written, the others stay.                                        *)
LEMMA RowWritten ==
    ASSUME Inv, Inv', Bearers, Calm, mailed \subseteq mailed', NEW r \in DOMAIN rows, NEW row,
           rows' = [rows EXCEPT ![r] = row],
           Idle(rows[r], row) \/ RowTurns(r)
    PROVE  RowsTurn
<1>1. DOMAIN rows' = DOMAIN rows /\ rows'[r] = row /\ \A q \in DOMAIN rows : q # r => rows'[q] = rows[q]
  BY DEF Inv, Types, RowTypes
<1>2. ASSUME NEW q \in DOMAIN rows, q # r PROVE Idle(rows[q], rows'[q])
  BY <1>1, <1>2 DEF Idle
<1>. QED BY <1>1, <1>2, IdleTurns DEF RowsTurn

LEMMA RowAdded ==
    ASSUME Inv, Inv', Bearers, Calm, mailed \subseteq mailed', rows' = Append(rows, NewRow)
    PROVE  RowsTurn
<1>. PICK n \in Nat : n = Len(rows) + 1
  BY DEF Inv, Types, RowTypes
<1>. PICK row \in Row : row = NewRow
  BY DEF NewRow, Row, Status, Open, NoDelivery, NoVerification
<1>1. row.token = 0 /\ row.rep.cand = 0 /\ row.rep.phase = "none"
  BY DEF NewRow, NoDelivery
<1>2. /\ DOMAIN rows' = DOMAIN rows \union {n} /\ n \notin DOMAIN rows /\ rows'[n] = row
      /\ \A q \in DOMAIN rows : rows'[q] = rows[q]
  BY DEF Inv, Types, RowTypes
<1>3. \A q \in DOMAIN rows : Idle(rows[q], rows'[q])
  BY <1>2 DEF Idle
<1>4. RowTurns(n)
  <2>1. RowBears(n)'
    BY <1>1, <1>2 DEF RowBears, IsOf, Mailed
  <2>2. \A v \in Worker : Minter(v) => job[v].tok # 0
    BY DEF Bearers, JobBears, MinterAlone
  <2>. QED BY <1>1, <1>2, <2>1, <2>2, RefParts DEF RowTurns, Mailed
<1>. QED BY <1>2, <1>3, <1>4, IdleTurns DEF RowsTurn

(* A request without a bearer to deliver or to take back.                    *)
Plain(w) ==
    /\ ~Delivers(w) /\ ~Cancels(w)
    /\ job[w].flow = "signup" => IsOf(job[w].tok, "signup") /\ IsOf(job[w].want, "signup")
    /\ job[w].flow = "invitation" => IsOf(job[w].tok, "invitation")
    /\ job[w].flow = "signup" /\ job[w].at = "begin" => job[w].tok = 0
    /\ job[w].flow = "signup" /\ job[w].at \in {"authorize", "cancelRow"} => job[w].tok # 0

LEMMA PlainMoves ==
    ASSUME NEW w \in Worker, OthersKept(w), Plain(w)'
    PROVE  OneMoves
<1>1. ~Minter(w)' /\ ~Promotes(w)' /\ ~Delivers(w)' /\ ~Cancels(w)'
  BY DEF Plain, Minter, Promotes, Delivers, DeliverPlaces
<1>2. JobBears(w)'
  BY <1>1 DEF JobBears, Plain
<1>. QED BY <1>1, <1>2 DEF OneMoves, Harmless

LEMMA NoJobPlain == ASSUME NEW w \in Worker, job'[w] = NoJob PROVE Plain(w)'
BY DEF NoJob, Plain, Delivers, Cancels, DeliverPlaces

LEMMA InvitesSameBear ==
    ASSUME Inv, Bearers, Calm, UNCHANGED invites
    PROVE  \A i \in DOMAIN invites' : InviteBears(i)'
<1>. SUFFICES ASSUME NEW i \in DOMAIN invites PROVE InviteBears(i)'
  OBVIOUS
<1>. PICK t \in Ref : t = invites[i].token
  BY DEF Inv, Types, InviteTypes
<1>1. IsOf(t, "invitation")'
  BY OfStays DEF Bearers, InviteBears
<1>. QED BY <1>1 DEF InviteBears

-----------------------------------------------------------------------------
(* Steps that deliver or take back no bearer                                 *)

LEMMA FadeStep ==
    ASSUME Inv, Inv', Bearers, Fade, mailed \subseteq mailed', RowsTurn, OneMoves,
           UNCHANGED invites
    PROVE  Bearers'
<1>1. TokensTurn /\ DOMAIN tokens' = DOMAIN tokens
  BY FadeTurns DEF Fade
<1>2. \A i \in DOMAIN invites' : InviteBears(i)'
  BY <1>1, InvitesSameBear DEF TokensTurn
<1>. QED BY <1>1, <1>2, BearersConclude DEF BearersTurn

LEMMA CalmRefs == ASSUME Inv, Inv', Calm PROVE Ref \subseteq Ref'
BY RefParts DEF Inv, Types, TokenTypes, Ref, Calm

LEMMA Answers ==
    ASSUME Inv, Inv', Calm, NEW w \in Worker, Answer(w)
    PROVE  OneMoves /\ OthersKept(w) /\ job'[w] = NoJob
<1>1. OthersKept(w) /\ job'[w] = NoJob
  BY CalmRefs, AnswerJob DEF Inv, Types
<1>. QED BY <1>1, NoJobPlain, PlainMoves

LEMMA Goes ==
    ASSUME Inv, Inv', Calm, NEW w \in Worker, NEW place \in Places, Goto(w, place)
    PROVE  /\ OthersKept(w) /\ job'[w].at = place /\ job'[w].flow = job[w].flow
           /\ job'[w].row = job[w].row /\ job'[w].gen = job[w].gen /\ job'[w].tok = job[w].tok
           /\ job'[w].want = job[w].want /\ job'[w].again = job[w].again
BY CalmRefs, GotoJob DEF Inv, Types, MovesTo

LEMMA GoesPlain ==
    ASSUME Inv, Inv', Bearers, Calm, NEW w \in Worker, NEW place \in Places, Goto(w, place),
           job[w].flow # "none",
           job[w].flow = "signup" =>
              /\ place \notin DeliverPlaces /\ place \notin {"revoke", "revokeCandidate", "begin"}
              /\ place \in {"authorize", "cancelRow"} => job[w].tok # 0
    PROVE  OneMoves
<1>. PICK t, u : t = job[w].tok /\ u = job[w].want /\ t \in Ref /\ u \in Ref
  BY JobFacts
<1>1. JobBears(w)
  BY DEF Bearers
<1>2. /\ job[w].flow = "signup" => IsOf(t, "signup")' /\ IsOf(u, "signup")'
      /\ job[w].flow = "invitation" => IsOf(t, "invitation")'
  BY <1>1, OfStays DEF JobBears
<1>3. OthersKept(w) /\ job'[w].at = place /\ job'[w].flow = job[w].flow /\ job'[w].tok = t
      /\ job'[w].want = u
  BY Goes
<1>4. Plain(w)'
  BY <1>2, <1>3 DEF Plain, Delivers, Cancels
<1>. QED BY <1>3, <1>4, PlainMoves

LEMMA WrittenRow ==
    ASSUME Inv, NEW w \in Worker, job[w].row \in DOMAIN rows, NEW new \in Row, MyRowTo(w, new)
    PROVE  /\ DOMAIN rows' = DOMAIN rows
           /\ \A q \in DOMAIN rows : q # job[w].row => rows'[q] = rows[q]
           /\ rows'[job[w].row].status = new.status /\ rows'[job[w].row].gen = new.gen
           /\ rows'[job[w].row].token = new.token /\ rows'[job[w].row].rep = new.rep
<1>. DEFINE settled == [new EXCEPT !.aged = FALSE]
<1>1. /\ settled.status = new.status /\ settled.gen = new.gen
      /\ settled.token = new.token /\ settled.rep = new.rep
  BY DEF Row
<1>2. rows' = [rows EXCEPT ![job[w].row] = settled]
  BY DEF MyRowTo
<1>. HIDE DEF settled
<1>3. /\ DOMAIN rows' = DOMAIN rows /\ rows'[job[w].row] = settled
      /\ \A q \in DOMAIN rows : q # job[w].row => rows'[q] = rows[q]
  BY <1>2 DEF Inv, Types, RowTypes
<1>. QED BY <1>1, <1>3

LEMMA RowWrites ==
    ASSUME Inv, Inv', Bearers, Calm, mailed \subseteq mailed', NEW w \in Worker,
           job[w].row \in DOMAIN rows, NEW new \in Row, MyRowTo(w, new),
           Idle(MyRow(w), new) \/ RowTurns(job[w].row)
    PROVE  RowsTurn
<1>. PICK r \in DOMAIN rows : r = job[w].row
  OBVIOUS
<1>1. /\ DOMAIN rows' = DOMAIN rows /\ \A q \in DOMAIN rows : q # r => rows'[q] = rows[q]
      /\ rows'[r].status = new.status /\ rows'[r].gen = new.gen
      /\ rows'[r].token = new.token /\ rows'[r].rep = new.rep
  BY WrittenRow
<1>2. ASSUME NEW q \in DOMAIN rows, q # r PROVE Idle(rows[q], rows'[q])
  BY <1>1, <1>2 DEF Idle
<1>3. Idle(MyRow(w), new) => Idle(rows[r], rows'[r])
  BY <1>1 DEF Idle, MyRow
<1>. QED BY <1>1, <1>2, <1>3, IdleTurns DEF RowsTurn

LEMMA VerifyStepBears ==
    ASSUME Inv, Inv', Bearers, NEW w \in Worker, VerifyStep(w), UNCHANGED invites
    PROVE  Bearers'
<1>1. job[w].flow = "signup" /\ job[w].at \in VerifyPlaces /\ mailed' = mailed
  BY DEF VerifyStep, Reserve, Consume, Abandon, Release, RecordConsumed, Provision, FundPlayer,
         ActivateUser, Finalize, At, VerifyPlaces, othersUnchanged
<1>2. Fade
  <2>1. CASE Consume(w)
    <3>1. job[w].tok \in DOMAIN tokens
      BY <2>1, JobFacts DEF Consume, At, JobSound, Inv, Types, TokenTypes
    <3>2. tokens' = IF MayConsume(job[w].tok, job[w].by)
                    THEN Consumed(job[w].tok, job[w].by) ELSE tokens
      BY <2>1 DEF Consume
    <3>. QED BY <3>1, <3>2, ConsumedFades
  <2>2. CASE tokens' = tokens
    BY <2>2, SameFades
  <2>. QED BY <2>1, <2>2 DEF VerifyStep, Reserve, Abandon, Release, RecordConsumed, Provision,
                             FundPlayer, ActivateUser, Finalize, othersUnchanged
<1>3. Calm
  BY <1>2, FadeTurns DEF TokensTurn
<1>4. OneMoves
  <2>1. Answer(w) \/ \E place \in VerifyPlaces : Goto(w, place)
    BY DEF VerifyStep, Reserve, Consume, Abandon, Release, RecordConsumed, Provision, FundPlayer,
           ActivateUser, Finalize, VerifyPlaces
  <2>2. CASE Answer(w)
    BY <1>3, <2>2, Answers
  <2>3. ASSUME NEW place \in VerifyPlaces, Goto(w, place) PROVE OneMoves
    <3>1. /\ place \in Places /\ place \notin DeliverPlaces
          /\ place \notin {"revoke", "revokeCandidate", "begin", "authorize", "cancelRow"}
      BY SomePlaces DEF VerifyPlaces, DeliverPlaces
    <3>. QED BY <1>1, <1>3, <2>3, <3>1, GoesPlain
  <2>. QED BY <2>1, <2>2, <2>3
<1>5. RowsTurn
  <2>1. job[w].row \in DOMAIN rows
    BY <1>1, JobFacts
  <2>. PICK row \in Row : row = MyRow(w)
    BY <2>1, RowFacts DEF MyRow
  <2>2. CASE Abandon(w) /\ MayAbandon(w)
    <3>. DEFINE new == [row EXCEPT !.status = "pending", !.ver = NoVerification]
    <3>1. MyRowTo(w, new) /\ row.status = "verifying"
      BY <2>2 DEF Abandon, MayAbandon
    <3>2. new \in Row /\ Idle(row, new)
      BY <3>1 DEF Row, Status, Open, NoVerification, Idle
    <3>. HIDE DEF new
    <3>. QED BY <1>1, <1>3, <2>1, <3>1, <3>2, RowWrites
  <2>3. CASE RecordConsumed(w) /\ MyRow(w).status = "verifying" /\ MyClaim(w)
    <3>. DEFINE new == [row EXCEPT !.ver.phase = "token_consumed"]
    <3>1. MyRowTo(w, new)
      BY <2>3 DEF RecordConsumed
    <3>2. new \in Row /\ Idle(row, new)
      BY DEF Row, Idle
    <3>. HIDE DEF new
    <3>. QED BY <1>1, <1>3, <2>1, <3>1, <3>2, RowWrites
  <2>4. CASE Finalize(w) /\ MyRow(w).status = "verifying" /\ MyClaim(w)
    <3>. DEFINE new == [row EXCEPT !.status = "complete", !.ver.phase = "complete"]
    <3>1. MyRowTo(w, new) /\ row.status = "verifying"
      BY <2>4 DEF Finalize
    <3>2. new \in Row /\ Idle(row, new)
      BY <3>1 DEF Row, Status, Idle
    <3>. HIDE DEF new
    <3>. QED BY <1>1, <1>3, <2>1, <3>1, <3>2, RowWrites
  <2>5. CASE rows' = rows
    BY <1>1, <1>3, <2>5, SameRowsTurn
  <2>. QED BY <2>2, <2>3, <2>4, <2>5
           DEF VerifyStep, Reserve, Consume, Abandon, Release, RecordConsumed, Provision,
               FundPlayer, ActivateUser, Finalize
<1>. QED BY <1>1, <1>2, <1>4, <1>5, FadeStep

(* A request starts.                                                         *)
LEMMA Starts ==
    ASSUME Inv, Inv', NEW w \in Worker, NEW j, job' = [job EXCEPT ![w] = j]
    PROVE  OthersKept(w) /\ job'[w] = j
BY JobFacts DEF OthersKept

LEMMA DeliverBears ==
    ASSUME Inv, Inv', NEW w \in Worker, NEW r, Deliver(w, r)
    PROVE  OneMoves
<1>. DEFINE j == [NoJob EXCEPT !.at = "begin", !.flow = "signup", !.row = r]
<1>1. OthersKept(w) /\ job'[w] = j
  BY Starts DEF Deliver
<1>2. j.at = "begin" /\ j.flow = "signup" /\ j.tok = 0 /\ j.want = 0
  BY DEF NoJob
<1>. HIDE DEF j
<1>3. Plain(w)'
  BY <1>1, <1>2 DEF Plain, Delivers, Cancels, DeliverPlaces, IsOf
<1>. QED BY <1>1, <1>3, PlainMoves

LEMMA InitiateBears ==
    ASSUME Inv, Inv', Bearers, NEW w \in Worker, NEW r, UNCHANGED invites,
           Initiate(w) \/ InitiateAgain(w, r) \/ Resend(w)
    PROVE  Bearers'
<1>1. Fade /\ mailed' = mailed
  BY SameFades DEF Initiate, InitiateAgain, Resend, othersUnchanged
<1>2. OneMoves
  BY DeliverBears DEF Initiate, InitiateAgain, Resend
<1>3. RowsTurn
  <2>1. rows' = rows \/ rows' = Append(rows, NewRow)
    BY DEF Initiate, InitiateAgain, Resend
  <2>. QED BY <1>1, <2>1, FadeTurns, SameRowsTurn, RowAdded DEF TokensTurn
<1>. QED BY <1>1, <1>2, <1>3, FadeStep

LEMMA CancelStarts ==
    ASSUME Inv, Inv', Bearers, NEW w \in Worker, NEW t \in DOMAIN tokens,
           tokens[t].purpose = "signup", Cancel(w, t), UNCHANGED invites
    PROVE  Bearers'
<1>. DEFINE j == [NoJob EXCEPT !.at = "authorize", !.flow = "signup",
                               !.row = 1, !.gen = rows[1].gen, !.tok = t]
<1>1. Fade /\ mailed' = mailed /\ rows' = rows
  BY SameFades DEF Cancel, othersUnchanged
<1>2. OthersKept(w) /\ job'[w] = j
  BY Starts DEF Cancel
<1>3. j.at = "authorize" /\ j.flow = "signup" /\ j.tok = t /\ j.want = 0
  BY DEF NoJob
<1>. HIDE DEF j
<1>4. IsOf(t, "signup")' /\ t # 0 /\ IsOf(0, "signup")'
  BY <1>1, RefParts DEF IsOf, Fade, Fades
<1>5. Plain(w)'
  BY <1>2, <1>3, <1>4 DEF Plain, Delivers, Cancels, DeliverPlaces
<1>6. RowsTurn /\ OneMoves
  BY <1>1, <1>2, <1>5, FadeTurns, SameRowsTurn, PlainMoves DEF TokensTurn
<1>. QED BY <1>1, <1>6, FadeStep

LEMMA AuthorizeBears ==
    ASSUME Inv, Inv', Bearers, NEW w \in Worker, Authorize(w), UNCHANGED invites
    PROVE  Bearers'
<1>1. Fade /\ mailed' = mailed /\ rows' = rows
  BY SameFades DEF Authorize, othersUnchanged
<1>2. Calm /\ RowsTurn
  BY <1>1, FadeTurns, SameRowsTurn DEF TokensTurn
<1>3. job[w].flow = "signup" /\ job[w].tok # 0
  BY DEF Authorize, At, Bearers, JobBears
<1>4. OneMoves
  <2>1. CASE Answer(w)
    BY <1>2, <2>1, Answers
  <2>2. CASE Goto(w, "cancelRow")
    <3>1. "cancelRow" \in Places /\ "cancelRow" \notin DeliverPlaces
      BY SomePlaces DEF CancelPlaces, DeliverPlaces
    <3>. QED BY <1>2, <1>3, <2>2, <3>1, GoesPlain
  <2>. QED BY <2>1, <2>2 DEF Authorize
<1>. QED BY <1>1, <1>2, <1>4, FadeStep

LEMMA VerifyStarts ==
    ASSUME Inv, Inv', Bearers, NEW w \in Worker, NEW t \in DOMAIN tokens, NEW b \in Browser,
           tokens[t].purpose = "signup", Verify(w, t, b), UNCHANGED invites
    PROVE  Bearers'
<1>1. PICK r \in DOMAIN rows : VerifiesWith(w, t, b, r)
  BY VerifyDoes
<1>. DEFINE j == [NoJob EXCEPT !.at = "reserve", !.flow = "signup", !.row = r, !.tok = t,
                               !.by = b, !.want = rows[r].token]
<1>2. r \in DOMAIN rows /\ rows[r].status \in {"verifying", "pending"}
  BY <1>1 DEF VerifiesWith
<1>3. /\ Fade /\ mailed' = mailed
      /\ \/ rows' = rows
         \/ rows' = [rows EXCEPT ![r].status = "verifying", ![r].aged = FALSE,
                                 ![r].ver = [phase |-> "claimed", tok |-> t, by |-> b]]
      /\ job' = [job EXCEPT ![w] = j]
  BY <1>1, SameFades DEF Verify, VerifiesWith, othersUnchanged
<1>4. Calm
  BY <1>3, FadeTurns DEF TokensTurn
<1>5. RowsTurn
  <2>1. CASE rows' = rows
    BY <1>3, <1>4, <2>1, SameRowsTurn
  <2>2. CASE rows' = [rows EXCEPT ![r].status = "verifying", ![r].aged = FALSE,
                                  ![r].ver = [phase |-> "claimed", tok |-> t, by |-> b]]
    <3>. PICK row \in Row : row = rows[r]
      BY <1>2, RowFacts
    <3>. DEFINE new == [row EXCEPT !.status = "verifying", !.aged = FALSE,
                                   !.ver = [phase |-> "claimed", tok |-> t, by |-> b]]
    <3>1. rows' = [rows EXCEPT ![r] = new]
      BY <1>2, <2>2
    <3>2. Idle(row, new)
      BY <1>2, <1>3 DEF Row, Idle
    <3>. HIDE DEF new
    <3>. QED BY <1>2, <1>3, <1>4, <3>1, <3>2, RowWritten
  <2>. QED BY <1>3, <2>1, <2>2
<1>6. j.at = "reserve" /\ j.flow = "signup" /\ j.tok = t /\ j.want = rows[r].token
  BY DEF NoJob
<1>7. OthersKept(w) /\ job'[w] = j
  BY <1>3, Starts
<1>. HIDE DEF j
<1>. PICK p \in Ref : p = rows[r].token
  BY <1>2, RowFacts
<1>8. IsOf(p, "signup")' /\ IsOf(t, "signup")'
  <2>1. IsOf(p, "signup") /\ t \in Ref /\ IsOf(t, "signup")
    BY <1>2, RefParts DEF Bearers, RowBears, IsOf
  <2>. QED BY <1>4, <2>1, OfStays
<1>9. Plain(w)'
  BY <1>6, <1>7, <1>8 DEF Plain, Delivers, Cancels, DeliverPlaces
<1>. QED BY <1>3, <1>5, <1>7, <1>9, PlainMoves, FadeStep

LEMMA SignupTimeBears ==
    ASSUME Inv, Inv', Bearers, NEW r \in DOMAIN rows, AgeRow(r), UNCHANGED invites
    PROVE  Bearers'
<1>1. Fade /\ mailed' = mailed /\ OneMoves
  BY SameFades DEF AgeRow, othersUnchanged, OneMoves
<1>. PICK row \in Row : row = rows[r]
  BY RowFacts
<1>. DEFINE new == [row EXCEPT !.aged = TRUE]
<1>2. rows' = [rows EXCEPT ![r] = new]
  BY DEF AgeRow
<1>3. Idle(row, new)
  BY DEF Row, Idle
<1>. HIDE DEF new
<1>4. RowsTurn
  BY <1>1, <1>2, <1>3, FadeTurns, RowWritten DEF TokensTurn
<1>. QED BY <1>1, <1>4, FadeStep

LEMMA ExpireBears ==
    ASSUME Inv, Inv', Bearers, NEW t \in DOMAIN tokens, ExpireToken(t),
           UNCHANGED <<job, rows, invites>>
    PROVE  Bearers'
<1>1. Fade /\ mailed' = mailed /\ OneMoves
  BY ExpiredFades DEF ExpireToken, OneMoves
<1>2. RowsTurn
  BY <1>1, FadeTurns, SameRowsTurn DEF TokensTurn
<1>. QED BY <1>1, <1>2, FadeStep

LEMMA DieBears ==
    ASSUME Inv, Inv', Bearers, NEW w \in Worker, Die(w), UNCHANGED <<rows, invites>>
    PROVE  Bearers'
<1>1. Fade /\ mailed' = mailed /\ Answer(w)
  BY SameFades DEF Die
<1>2. RowsTurn /\ OneMoves
  BY <1>1, FadeTurns, SameRowsTurn, Answers DEF TokensTurn
<1>. QED BY <1>1, <1>2, FadeStep

-----------------------------------------------------------------------------
(* Invitations have bearers of their own                                     *)

InviteKeeps(i) ==
    \/ invites'[i].token = 0
    \/ i \in DOMAIN invites /\ invites'[i].token = invites[i].token
    \/ \E w \in Worker : job[w].flow = "invitation" /\ invites'[i].token = job[w].tok

LEMMA InviteStepBears ==
    ASSUME Inv, Inv', Bearers, TokensTurn, mailed \subseteq mailed', UNCHANGED rows, OneMoves,
           \A i \in DOMAIN invites' : InviteKeeps(i)
    PROVE  Bearers'
<1>1. RowsTurn
  BY SameRowsTurn DEF TokensTurn
<1>2. ASSUME NEW i \in DOMAIN invites' PROVE InviteBears(i)'
  <2>. PICK t : t = invites'[i].token
    OBVIOUS
  <2>1. CASE t = 0
    BY <2>1 DEF InviteBears, IsOf
  <2>2. CASE i \in DOMAIN invites /\ t = invites[i].token
    <3>1. t \in Ref /\ IsOf(t, "invitation")
      BY <2>2 DEF Inv, Types, InviteTypes, Bearers, InviteBears
    <3>. QED BY <3>1, OfStays DEF InviteBears, TokensTurn
  <2>3. ASSUME NEW w \in Worker, job[w].flow = "invitation", t = job[w].tok
        PROVE  InviteBears(i)'
    <3>1. t \in Ref /\ IsOf(t, "invitation")
      BY <2>3, JobFacts DEF Bearers, JobBears
    <3>. QED BY <3>1, OfStays DEF InviteBears, TokensTurn
  <2>. QED BY <1>2, <2>1, <2>2, <2>3 DEF InviteKeeps
<1>. QED BY <1>1, <1>2, BearersConclude DEF BearersTurn

LEMMA MineWritten ==
    ASSUME Inv, NEW w \in Worker, job[w].row \in DOMAIN invites, NEW new \in Invite,
           MineTo(w, new)
    PROVE  /\ DOMAIN invites' = DOMAIN invites /\ invites'[job[w].row].token = new.token
           /\ \A i \in DOMAIN invites : i # job[w].row => invites'[i] = invites[i]
<1>. DEFINE settled == [new EXCEPT !.aged = FALSE]
<1>1. settled.token = new.token
  BY DEF Invite
<1>2. invites' = [invites EXCEPT ![job[w].row] = settled]
  BY DEF MineTo
<1>. HIDE DEF settled
<1>3. invites \in Seq(Invite)
  BY DEF Inv, Types, InviteTypes
<1>4. /\ DOMAIN invites' = DOMAIN invites /\ invites'[job[w].row] = settled
      /\ \A i \in DOMAIN invites : i # job[w].row => invites'[i] = invites[i]
  BY <1>2, <1>3
<1>. QED BY <1>1, <1>4

LEMMA AgeInviteBears ==
    ASSUME Inv, Inv', Bearers, NEW i \in DOMAIN invites, AgeInvite(i), UNCHANGED rows
    PROVE  Bearers'
<1>1. TokensTurn /\ mailed' = mailed /\ OneMoves
  BY SameFades, FadeTurns DEF AgeInvite, otherUnchanged, OneMoves
<1>. PICK row \in Invite : row = invites[i]
  BY DEF Inv, Types, InviteTypes
<1>. DEFINE new == [row EXCEPT !.aged = TRUE]
<1>2. invites' = [invites EXCEPT ![i] = new]
  BY DEF AgeInvite
<1>3. new.token = row.token
  BY DEF Invite
<1>. HIDE DEF new
<1>4. \A k \in DOMAIN invites' : InviteKeeps(k)
  BY <1>2, <1>3 DEF InviteKeeps, Inv, Types, InviteTypes
<1>. QED BY <1>1, <1>4, InviteStepBears

(* A request of an invitation starts, or goes on.                            *)
LEMMA InvitedMoves ==
    ASSUME Inv, Inv', NEW w \in Worker, OthersKept(w), job'[w].flow = "invitation",
           IsOf(job[w].tok, "invitation")'
    PROVE  OneMoves
<1>1. Plain(w)'
  BY DEF Plain, Delivers, Cancels
<1>. QED BY <1>1, PlainMoves

LEMMA InvitedGoes ==
    ASSUME Inv, Inv', Bearers, Calm, NEW w \in Worker, job[w].flow = "invitation",
           Answer(w) \/ \E place \in Places : Goto(w, place)
    PROVE  OneMoves
<1>1. ASSUME NEW place \in Places, Goto(w, place) PROVE OneMoves
  BY <1>1, GoesPlain
<1>. QED BY <1>1, Answers

LEMMA InviteStarts ==
    ASSUME Inv, Inv', Bearers, NEW w \in Worker, UNCHANGED rows,
           NEW i \in DOMAIN invites,
           CreateAgain(w, i) \/ ResendInvite(w, i) \/ RevokeInvite(w, i)
    PROVE  Bearers'
<1>1. TokensTurn /\ mailed' = mailed
  BY SameFades, FadeTurns DEF CreateAgain, ResendInvite, RevokeInvite, otherUnchanged
<1>2. \A k \in DOMAIN invites' : InviteKeeps(k)
  <2>1. CASE invites' = invites
    BY <2>1 DEF InviteKeeps
  <2>2. CASE invites' = [invites EXCEPT ![i].status = "revoked", ![i].aged = FALSE]
    <3>. PICK row \in Invite : row = invites[i]
      BY DEF Inv, Types, InviteTypes
    <3>. DEFINE new == [row EXCEPT !.status = "revoked", !.aged = FALSE]
    <3>1. invites' = [invites EXCEPT ![i] = new]
      BY <2>2
    <3>2. new.token = row.token
      BY DEF Invite
    <3>. HIDE DEF new
    <3>. QED BY <3>1, <3>2 DEF InviteKeeps, Inv, Types, InviteTypes
  <2>. QED BY <2>1, <2>2 DEF CreateAgain, ResendInvite, RevokeInvite
<1>3. OneMoves
  <2>1. CASE Send(w, i)
    <3>. DEFINE j == [NoJob EXCEPT !.at = "begin", !.flow = "invitation", !.row = i]
    <3>1. OthersKept(w) /\ job'[w] = j
      BY <2>1, Starts DEF Send
    <3>2. j.flow = "invitation" /\ j.tok = 0
      BY DEF NoJob
    <3>. HIDE DEF j
    <3>. QED BY <3>1, <3>2, InvitedMoves DEF IsOf
  <2>2. CASE job' = [job EXCEPT ![w] = NoJob]
    BY <1>1, <2>2, Answers DEF Answer, TokensTurn
  <2>3. CASE job' = [job EXCEPT ![w] =
                       [NoJob EXCEPT !.at = "revoke", !.flow = "invitation", !.row = i,
                                     !.tok = invites[i].token]]
    <3>. DEFINE j == [NoJob EXCEPT !.at = "revoke", !.flow = "invitation", !.row = i,
                                   !.tok = invites[i].token]
    <3>1. OthersKept(w) /\ job'[w] = j
      BY <2>3, Starts
    <3>2. j.flow = "invitation" /\ j.tok = invites[i].token
      BY DEF NoJob
    <3>3. invites[i].token \in Ref /\ IsOf(invites[i].token, "invitation")
      BY DEF Inv, Types, InviteTypes, Bearers, InviteBears
    <3>4. PICK t : t = invites[i].token
      OBVIOUS
    <3>5. IsOf(t, "invitation")'
      BY <1>1, <3>3, <3>4, OfStays DEF TokensTurn
    <3>. HIDE DEF j
    <3>. QED BY <3>1, <3>2, <3>4, <3>5, InvitedMoves
  <2>. QED BY <2>1, <2>2, <2>3 DEF CreateAgain, ResendInvite, RevokeInvite
<1>. QED BY <1>1, <1>2, <1>3, InviteStepBears

LEMMA CreateBears ==
    ASSUME Inv, Inv', Bearers, NEW w \in Worker, Create(w), UNCHANGED rows
    PROVE  Bearers'
<1>1. TokensTurn /\ mailed' = mailed
  BY SameFades, FadeTurns DEF Create, otherUnchanged
<1>2. \A k \in DOMAIN invites' : InviteKeeps(k)
  <2>. PICK row \in Invite : row = NewInvite
    BY DEF NewInvite, Invite, NoRedemption
  <2>1. row.token = 0 /\ invites' = Append(invites, row)
    BY DEF NewInvite, Create
  <2>. QED BY <2>1 DEF InviteKeeps, Inv, Types, InviteTypes
<1>3. OneMoves
  <2>. PICK r : r = Len(invites) + 1
    OBVIOUS
  <2>. DEFINE j == [NoJob EXCEPT !.at = "begin", !.flow = "invitation", !.row = r]
  <2>1. OthersKept(w) /\ job'[w] = j
    BY Starts DEF Create, Send
  <2>2. j.flow = "invitation" /\ j.tok = 0
    BY DEF NoJob
  <2>. HIDE DEF j
  <2>. QED BY <2>1, <2>2, InvitedMoves DEF IsOf
<1>. QED BY <1>1, <1>2, <1>3, InviteStepBears

LEMMA InvitedTurns ==
    ASSUME Inv, Bearers, NEW t \in DOMAIN tokens, tokens[t].purpose = "invitation",
           UNCHANGED tokens
    PROVE  TokensTurn /\ IsOf(t, "invitation")'
BY SameFades, FadeTurns DEF IsOf

LEMMA ClaimBears ==
    ASSUME Inv, Inv', Bearers, NEW w \in Worker, NEW t \in DOMAIN tokens,
           tokens[t].purpose = "invitation", UNCHANGED <<tokens, mailed, rows>>,
           NEW i \in DOMAIN invites, NEW red, NEW ids, red.tok = t, Claim(w, i, red, ids)
    PROVE  Bearers'
<1>. PICK p : p = invites[i].token
  OBVIOUS
<1>. DEFINE j == [NoJob EXCEPT !.at = "reserve", !.flow = "invitation", !.row = i, !.tok = red.tok,
                               !.by = red.by, !.uid = red.uid, !.want = p]
<1>1. OthersKept(w) /\ job'[w] = j
  BY Starts DEF Claim
<1>2. j.flow = "invitation" /\ j.tok = t
  BY DEF NoJob
<1>. HIDE DEF j
<1>3. TokensTurn /\ OneMoves
  BY <1>1, <1>2, InvitedTurns, InvitedMoves
<1>4. \A k \in DOMAIN invites' : InviteKeeps(k)
  <2>. PICK row \in Invite : row = invites[i]
    BY DEF Inv, Types, InviteTypes
  <2>. DEFINE new == [row EXCEPT !.status = "redeeming", !.red = red, !.ids = ids, !.aged = FALSE]
  <2>1. invites' = [invites EXCEPT ![i] = new]
    BY DEF Claim
  <2>2. new.token = row.token
    BY DEF Invite
  <2>. HIDE DEF new
  <2>. QED BY <2>1, <2>2 DEF InviteKeeps, Inv, Types, InviteTypes
<1>. QED BY <1>3, <1>4, InviteStepBears

LEMMA RedeemBears ==
    ASSUME Inv, Inv', Bearers, NEW w \in Worker, NEW t \in DOMAIN tokens, NEW b,
           tokens[t].purpose = "invitation", Redeem(w, t, b), UNCHANGED rows
    PROVE  Bearers'
<1>. DEFINE mine == {i \in DOMAIN invites : invites[i].status \in {"redeeming", "redeemed"}
                                /\ invites[i].red.tok = t /\ invites[i].red.by = b}
            free == {i \in DOMAIN invites : invites[i].status = "pending"}
            late == {i \in DOMAIN invites : Overdue(i)}
<1>1. UNCHANGED <<tokens, mailed, rows>>
  BY DEF Redeem, otherUnchanged
<1>2. mine \subseteq Nat /\ free \subseteq Nat /\ late \subseteq Nat
      /\ free \subseteq DOMAIN invites /\ late \subseteq DOMAIN invites
  BY DEF Inv, Types, InviteTypes
<1>3. ASSUME NEW i, UNCHANGED invites,
             job' = [job EXCEPT ![w] = [NoJob EXCEPT
                        !.at = "reserve", !.flow = "invitation", !.row = i, !.tok = t,
                        !.by = b, !.uid = invites[i].red.uid, !.want = invites[i].token]]
      PROVE  Bearers'
  <2>. PICK u, p : u = invites[i].red.uid /\ p = invites[i].token
    OBVIOUS
  <2>. DEFINE j == [NoJob EXCEPT !.at = "reserve", !.flow = "invitation", !.row = i, !.tok = t,
                                 !.by = b, !.uid = u, !.want = p]
  <2>1. OthersKept(w) /\ job'[w] = j
    BY <1>3, Starts
  <2>2. j.flow = "invitation" /\ j.tok = t
    BY DEF NoJob
  <2>. HIDE DEF j, mine, free, late
  <2>3. TokensTurn /\ OneMoves
    BY <1>1, <2>1, <2>2, InvitedTurns, InvitedMoves
  <2>4. \A k \in DOMAIN invites' : InviteKeeps(k)
    BY <1>3 DEF InviteKeeps
  <2>. QED BY <1>1, <2>3, <2>4, InviteStepBears
<1>4. ASSUME free # {}, NEW i, i = Earliest(free), NEW n,
             Claim(w, i, [phase |-> "claimed", tok |-> t, by |-> b, uid |-> n], n)
      PROVE  Bearers'
  <2>. HIDE DEF mine, free, late
  <2>1. i \in DOMAIN invites
    BY <1>2, <1>4, FirstIsOne
  <2>. QED BY <1>1, <1>4, <2>1, ClaimBears
<1>5. ASSUME late # {}, NEW i, i = Earliest(late), NEW n,
             Claim(w, i, [invites[i].red EXCEPT !.tok = t, !.by = b], n)
      PROVE  Bearers'
  <2>. HIDE DEF mine, free, late
  <2>1. i \in DOMAIN invites
    BY <1>2, <1>5, FirstIsOne
  <2>. PICK row \in Invite : row = invites[i]
    BY <2>1, InviteFacts
  <2>. PICK old \in Redemption : old = row.red
    BY DEF Invite, Redemption
  <2>. DEFINE red == [old EXCEPT !.tok = t, !.by = b]
  <2>2. red.tok = t /\ Claim(w, i, red, n)
    BY <1>5 DEF Redemption
  <2>. HIDE DEF red
  <2>. QED BY <1>1, <2>1, <2>2, ClaimBears
<1>. HIDE DEF mine, free, late
<1>. QED BY <1>3, <1>4, <1>5 DEF Redeem, mine, free, late

LEMMA InviteStepsBear ==
    ASSUME Inv, Inv', Bearers, NEW w \in Worker, InviteStep(w), UNCHANGED rows
    PROVE  Bearers'
<1>1. job[w].flow = "invitation" /\ mailed \subseteq mailed'
  BY DEF InviteStep, SendStep, RedeemStep, BeginSend, MintInvite, RecordToken, SubmitInvite,
         RevokeToken, RecordSent, ReserveInvited, ConsumeInvitation, AbandonRedemption,
         ReleaseInvited, RecordRedemption, ProvisionInvited, ActivateInvited,
         FinalizeRedemption, Doing, otherUnchanged
<1>2. CASE MintInvite(w)
  <2>. PICK n : n = Len(tokens) + 1
    OBVIOUS
  <2>. PICK j \in Job : j = job[w]
    BY JobFacts
  <2>. DEFINE next == [j EXCEPT !.at = "record", !.tok = n]
  <2>1. /\ TokensTurn /\ n \in DOMAIN tokens' /\ tokens'[n].purpose = "invitation"
    BY <1>2, ReissuedTurns DEF MintInvite
  <2>2. OthersKept(w) /\ job'[w] = next
    <3>1. job' = [job EXCEPT ![w] = next]
      BY <1>2, JobFacts DEF MintInvite
    <3>. HIDE DEF next
    <3>. QED BY <3>1, Starts
  <2>3. next.flow = "invitation" /\ next.tok = n
    BY <1>1 DEF Job
  <2>. HIDE DEF next
  <2>4. OneMoves
    BY <2>1, <2>2, <2>3, InvitedMoves DEF IsOf
  <2>5. UNCHANGED invites
    BY <1>2 DEF MintInvite
  <2>. QED BY <1>1, <2>1, <2>4, <2>5, InviteStepBears DEF InviteKeeps
<1>3. CASE ~MintInvite(w)
  <2>1. Fade
    <3>1. CASE RevokeToken(w)
      BY <3>1, RevokedFades DEF RevokeToken
    <3>2. CASE ConsumeInvitation(w)
      <4>1. job[w].tok \in DOMAIN tokens
        BY <3>2, JobFacts DEF ConsumeInvitation, Doing, JobSound, Inv, Types, TokenTypes
      <4>2. tokens' = IF MayConsume(job[w].tok, job[w].by)
                      THEN Consumed(job[w].tok, job[w].by) ELSE tokens
        BY <3>2 DEF ConsumeInvitation
      <4>. QED BY <4>1, <4>2, ConsumedFades
    <3>3. CASE tokens' = tokens
      BY <3>3, SameFades
    <3>. QED BY <1>3, <3>1, <3>2, <3>3
             DEF InviteStep, SendStep, RedeemStep, BeginSend, RecordToken, SubmitInvite,
                 RecordSent, ReserveInvited, AbandonRedemption, ReleaseInvited,
                 RecordRedemption, ProvisionInvited, ActivateInvited, FinalizeRedemption,
                 otherUnchanged
  <2>2. TokensTurn
    BY <2>1, FadeTurns
  <2>3. OneMoves
    <3>1. CASE BeginSend(w) /\ ~Answer(w)
      <4>. PICK j \in Job : j = job[w] /\ j.tok \in Ref /\ IsOf(j.tok, "invitation")
        BY <1>1, JobFacts DEF Bearers, JobBears
      <4>. PICK n : n = Mine(w).gen + 1
        OBVIOUS
      <4>. DEFINE next == [j EXCEPT !.at = "mint", !.gen = n]
      <4>1. job' = [job EXCEPT ![w] = next]
        BY <3>1, JobFacts DEF BeginSend
      <4>2. next.flow = "invitation" /\ next.tok = j.tok
        BY <1>1 DEF Job
      <4>. HIDE DEF next
      <4>3. OthersKept(w) /\ job'[w] = next
        BY <4>1, Starts
      <4>4. IsOf(j.tok, "invitation")'
        <5>. PICK t \in Ref : t = j.tok
          OBVIOUS
        <5>. QED BY <2>2, OfStays DEF TokensTurn
      <4>. QED BY <4>2, <4>3, <4>4, InvitedMoves DEF IsOf
    <3>2. CASE Answer(w) \/ \E place \in Places : Goto(w, place)
      BY <1>1, <2>2, <3>2, InvitedGoes DEF TokensTurn
    <3>3. {"submit", "revoke", "sent", "failed", "raised", "consume", "abandon", "release",
           "consumed", "provision", "player", "activateUser", "finalize"} \subseteq Places
      BY DEF Places, DeliverPlaces, CancelPlaces, VerifyPlaces, SendPlaces
    <3>. QED BY <1>3, <3>1, <3>2, <3>3
             DEF InviteStep, SendStep, RedeemStep, BeginSend, RecordToken, SubmitInvite,
                 RevokeToken, RecordSent, ReserveInvited, ConsumeInvitation, AbandonRedemption,
                 ReleaseInvited, RecordRedemption, ProvisionInvited, ActivateInvited,
                 FinalizeRedemption
  <2>4. \A k \in DOMAIN invites' : InviteKeeps(k)
    <3>1. CASE invites' = invites
      BY <3>1 DEF InviteKeeps
    <3>2. ASSUME NEW new \in Invite, MineTo(w, new), new.token \in {Mine(w).token, job[w].tok}
          PROVE  \A k \in DOMAIN invites' : InviteKeeps(k)
      BY <1>1, <3>2, JobFacts, MineWritten DEF InviteKeeps, Mine
    <3>. PICK row \in Invite : row = Mine(w)
      BY <1>1, JobFacts, InviteFacts DEF Mine
    <3>. PICK t \in Nat : t = job[w].tok
      BY JobFacts DEF Job
    <3>3. CASE BeginSend(w)
      <4>. PICK n \in Nat : n = row.gen
        BY DEF Invite
      <4>. PICK m \in Nat : m = n + 1
        OBVIOUS
      <4>1. /\ [row EXCEPT !.status = "issuing", !.gen = m] \in Invite
            /\ [row EXCEPT !.status = "issuing", !.gen = m].token = row.token
        BY DEF Invite
      <4>2. [row EXCEPT !.status = "issuing", !.gen = @ + 1]
               = [row EXCEPT !.status = "issuing", !.gen = m]
        BY DEF Invite
      <4>. QED BY <3>1, <3>2, <3>3, <4>1, <4>2 DEF BeginSend
    <3>4. /\ \A s \in {"delivery_pending", "pending", "delivery_failed", "redeemed"} :
                [row EXCEPT !.status = s] \in Invite /\ [row EXCEPT !.status = s].token = row.token
          /\ [row EXCEPT !.status = "delivery_pending", !.token = t] \in Invite
          /\ [row EXCEPT !.status = "delivery_pending", !.token = t].token = t
          /\ [row EXCEPT !.status = "pending", !.red = NoRedemption] \in Invite
          /\ [row EXCEPT !.status = "pending", !.red = NoRedemption].token = row.token
      BY DEF Invite, NoRedemption
    <3>5. /\ [row EXCEPT !.red.phase = "token_consumed"] \in Invite
          /\ [row EXCEPT !.red.phase = "token_consumed"].token = row.token
          /\ [row EXCEPT !.status = "redeemed", !.red.phase = "complete"] \in Invite
          /\ [row EXCEPT !.status = "redeemed", !.red.phase = "complete"].token = row.token
      BY DEF Invite
    <3>6. CASE RecordToken(w)
      BY <3>1, <3>2, <3>4, <3>6 DEF RecordToken
    <3>7. CASE RecordSent(w)
      BY <3>1, <3>2, <3>4, <3>7 DEF RecordSent
    <3>8. CASE AbandonRedemption(w)
      BY <3>1, <3>2, <3>4, <3>8 DEF AbandonRedemption
    <3>9. CASE RecordRedemption(w) \/ FinalizeRedemption(w)
      BY <3>1, <3>2, <3>5, <3>9 DEF RecordRedemption, FinalizeRedemption
    <3>. QED BY <1>3, <3>1, <3>3, <3>6, <3>7, <3>8, <3>9
             DEF InviteStep, SendStep, RedeemStep, SubmitInvite, RevokeToken,
                 ReserveInvited, ConsumeInvitation, ReleaseInvited, ProvisionInvited,
                 ActivateInvited
  <2>. QED BY <1>1, <2>2, <2>3, <2>4, InviteStepBears
<1>. QED BY <1>2, <1>3

-----------------------------------------------------------------------------
(* Steps of a delivery                                                       *)

MintPlaces == {"submit", "recordSent", "recordUnsent", "dropUnrecorded", "drop"}

LEMMA DeliverGoes ==
    ASSUME Inv, Inv', Bearers, Calm, NEW w \in Worker, Delivers(w),
           NEW place \in DeliverPlaces, Goto(w, place), place # "record",
           job[w].at \in {"drop", "reject"} => place \in {"drop", "reject"},
           place \in {"recordPromoted", "accept", "reject"} /\ job[w].tok # 0 =>
              tokens'[job[w].tok].state # "candidate",
           place \in {"recordSent", "promote"} => job[w].tok \in mailed',
           place \in MintPlaces =>
              /\ Minter(w)
              /\ \A r \in DOMAIN rows' :
                    /\ rows'[r].token # job[w].tok
                    /\ rows'[r].rep.cand = job[w].tok => rows'[r].rep.phase \notin Mailed,
           place = "promote" =>
              /\ MyRow(w).status # "cancelled" /\ job[w].want # 0
              /\ rows'[job[w].row].rep.phase \in Mailed
              /\ rows'[job[w].row].rep.cand = job[w].tok
    PROVE  OneMoves
<1>. PICK j \in Job : j = job[w] /\ j.tok \in Ref /\ j.want \in Ref
  BY JobFacts
<1>1. /\ OthersKept(w) /\ job'[w].at = place /\ job'[w].flow = "signup" /\ job'[w].row = j.row
      /\ job'[w].gen = j.gen /\ job'[w].tok = j.tok /\ job'[w].want = j.want
      /\ job'[w].again = j.again
  BY SomePlaces, Goes DEF Delivers
<1>2. /\ j.row \in DOMAIN rows /\ j.flow = "signup" /\ j.at \in DeliverPlaces /\ j.row \in Nat
      /\ DeliveryBears(w)
  BY JobFacts DEF Delivers, Bearers, JobBears, Job
<1>3. Harmless(w)
  <2>1. ASSUME NEW v \in Worker, v # w, Minter(v), job[v].tok = j.tok
        PROVE  j.again /\ place \in {"drop", "reject"}
    BY <1>2, <2>1 DEF Bearers, JobBears, MinterAlone, Delivers
  <2>2. ASSUME place = "promote", NEW v \in Worker, Cancels(v), j.want = job[v].tok PROVE FALSE
    <3>1. j.want \in DOMAIN tokens /\ Named(j.want, j.row) /\ Named(j.want, job[v].row)
          /\ job[v].row \in Nat
      BY <2>2, RefParts, JobFacts DEF Named, Job
    <3>2. job[v].row = j.row
      BY <1>2, <3>1, SameNamed
    <3>. QED BY <2>2, <3>2 DEF Bearers, JobBears, CancelBears, MyRow
  <2>3. \A t \in DOMAIN tokens : t \in {j.tok, j.want} => Named(t, j.row)
    BY DEF Named
  <2>4. Promotes(w)' => place = "promote"
    BY <1>1 DEF Promotes
  <2>. QED BY <1>1, <2>1, <2>2, <2>3, <2>4 DEF Harmless
<1>4. JobBears(w)'
  <2>1. IsOf(j.tok, "signup")' /\ IsOf(j.want, "signup")'
    BY <1>2, OfStays DEF Bearers, JobBears
  <2>2. place \notin {"begin", "authorize", "cancelRow", "revoke", "revokeCandidate"}
    BY DEF DeliverPlaces
  <2>3. DeliveryBears(w)'
    <3>1. j.tok # 0 => tokens'[j.tok].pred = j.want
      BY <1>2, RefParts DEF DeliveryBears, Calm
    <3>. QED BY <1>1, <3>1 DEF DeliveryBears
  <2>4. ASSUME Minter(w)' PROVE MinterAlone(w)'
    <3>1. place \in MintPlaces
      BY <1>1, <2>4 DEF Minter, MintPlaces
    <3>2. MinterAlone(w)
      BY <3>1 DEF Bearers, JobBears
    <3>3. \A v \in Worker : v # w => job'[v] = job[v]
      BY <1>1 DEF OthersKept
    <3>. QED BY <1>1, <3>1, <3>2, <3>3 DEF MinterAlone, Delivers
  <2>5. Promotes(w)' => InTime(w)'
    BY <1>1 DEF Promotes, InTime
  <2>. QED BY <1>1, <2>1, <2>2, <2>3, <2>4, <2>5 DEF JobBears, Cancels
<1>. QED BY <1>1, <1>3, <1>4 DEF OneMoves

(* What is known of a delivery under way.                                    *)
LEMMA DeliverFacts ==
    ASSUME Inv, Bearers, NEW w \in Worker, job[w].flow = "signup", job[w].at \in DeliverPlaces
    PROVE  /\ Delivers(w) /\ DeliveryBears(w) /\ job[w].row \in DOMAIN rows
           /\ job[w].row \in Nat /\ job[w].tok \in Ref /\ job[w].want \in Ref
           /\ MyRow(w) \in Row /\ RowBears(job[w].row)
           /\ IsOf(job[w].tok, "signup") /\ IsOf(job[w].want, "signup")
           /\ Named(job[w].tok, job[w].row) /\ Named(job[w].want, job[w].row)
           /\ Minter(w) => MinterAlone(w)
<1>1. Delivers(w) /\ DeliveryBears(w) /\ job[w].row \in DOMAIN rows
  BY JobFacts DEF Delivers, Bearers, JobBears
<1>2. MyRow(w) \in Row /\ RowBears(job[w].row)
  BY <1>1, RowFacts DEF MyRow, Bearers
<1>3. job[w].tok \in Ref /\ job[w].want \in Ref /\ job[w].row \in Nat
  BY JobFacts DEF Job
<1>4. IsOf(job[w].tok, "signup") /\ IsOf(job[w].want, "signup") /\ (Minter(w) => MinterAlone(w))
  BY DEF Bearers, JobBears
<1>5. Named(job[w].tok, job[w].row) /\ Named(job[w].want, job[w].row)
  BY <1>1 DEF Named
<1>. QED BY <1>1, <1>2, <1>3, <1>4, <1>5

(* No other request that minted it has a bearer that is delivered for good.  *)
LEMMA NotMinted ==
    ASSUME Inv, Bearers, NEW w \in Worker, Delivers(w), NEW v \in Worker, v # w, Minter(v),
           ~job[w].again \/ job[w].at \notin {"drop", "reject"}
    PROVE  job[v].tok # job[w].tok /\ job[v].tok # 0
BY DEF Bearers, JobBears, MinterAlone

LEMMA BeginBears ==
    ASSUME Inv, Inv', Bearers, NEW w \in Worker, Begin(w), UNCHANGED invites
    PROVE  Bearers'
<1>1. Fade /\ Calm /\ mailed' = mailed
  BY SameFades, FadeTurns DEF Begin, TokensTurn
<1>2. CASE Answer(w) /\ rows' = rows
  <2>1. RowsTurn /\ OneMoves
    BY <1>1, <1>2, SameRowsTurn, Answers
  <2>. QED BY <1>1, <2>1, FadeStep
<1>3. CASE Deliverable(MyRow(w)) /\ ~(Answer(w) /\ rows' = rows)
  <2>. PICK j \in Job : j = job[w] /\ j.flow = "signup" /\ j.at = "begin" /\ j.row \in DOMAIN rows
                        /\ j.tok = 0
    BY JobFacts DEF Begin, At, Bearers, JobBears
  <2>. PICK row \in Row : row = rows[j.row] /\ row.token \in Ref /\ row.rep.cand \in Ref
                          /\ RowBears(j.row) /\ row.gen \in Nat
                          /\ (row.rep.phase \in Mailed => row.rep.cand # 0)
    BY RowFacts DEF Bearers
  <2>. PICK t \in Nat : t = row.token
    BY DEF Ref
  <2>. PICK g \in Nat : g = row.gen + 1
    OBVIOUS
  <2>1. row.status \in {"reserved", "pending", "delivery_failed"}
    BY <1>3 DEF Deliverable, MyRow
  <2>. DEFINE new == [row EXCEPT !.status = "issuing", !.gen = g,
                                 !.rep = [phase |-> "preparing", cand |-> 0]]
              next == [j EXCEPT !.at = "mint", !.gen = g, !.want = t]
  <2>2. MyRowTo(w, new)
    <3>1. [row EXCEPT !.status = "issuing", !.gen = @ + 1,
                      !.rep = [phase |-> "preparing", cand |-> 0]] = new
      BY DEF Row
    <3>. HIDE DEF new
    <3>. QED BY <1>3, <3>1 DEF Begin, MyRow
  <2>3. /\ new \in Row /\ new.status = "issuing" /\ new.gen = g /\ new.token = t
        /\ new.rep = [phase |-> "preparing", cand |-> 0]
    BY ZenonT(60) DEF Row, Status, Open
  <2>4. job' = [job EXCEPT ![w] = next]
    BY <1>3, JobFacts DEF Begin, MyRow
  <2>5. /\ next.at = "mint" /\ next.flow = "signup" /\ next.row = j.row /\ next.tok = 0
        /\ next.want = t
    BY DEF Job
  <2>. HIDE DEF new, next
  <2>6. OthersKept(w) /\ job'[w] = next
    BY <2>4, Starts
  <2>7. /\ DOMAIN rows' = DOMAIN rows
        /\ \A q \in DOMAIN rows : q # j.row => rows'[q] = rows[q]
        /\ rows'[j.row].status = "issuing" /\ rows'[j.row].gen = g
        /\ rows'[j.row].token = t /\ rows'[j.row].rep = [phase |-> "preparing", cand |-> 0]
    BY <2>2, <2>3, WrittenRow
  <2>8. row.rep.cand = 0 /\ row.rep.phase \notin Mailed
    BY <2>1 DEF RowBears
  <2>9. RowTurns(j.row)
    <3>1. RowBears(j.row)'
      <4>1. IsOf(t, "signup")'
        BY <1>1, OfStays DEF RowBears
      <4>2. t # 0 => tokens'[t].state # "candidate"
        BY <1>1, RefParts, NotCandidate DEF RowBears
      <4>. QED BY <2>7, <4>1, <4>2 DEF RowBears, IsOf, Mailed
    <3>2. \A q \in DOMAIN tokens : q \in {t, 0} => Named(q, j.row)
      BY RefParts DEF Named
    <3>3. RowLets(j.row)
      BY <2>1, <2>7, <2>8 DEF RowLets
    <3>4. \A v \in Worker : Minter(v) => t # job[v].tok
      BY DEF Bearers, JobBears, MinterAlone
    <3>. QED BY <2>7, <3>1, <3>2, <3>3, <3>4 DEF RowTurns, Mailed
  <2>10. RowsTurn
    BY <1>1, <2>2, <2>3, <2>9, RowWrites
  <2>11. OneMoves
    <3>1. Harmless(w)
      <4>1. \A v \in Worker : Minter(v) => job[v].tok # 0
        BY DEF Bearers, JobBears, MinterAlone
      <4>2. \A q \in DOMAIN tokens : q \in {t, 0} => Named(q, j.row)
        BY RefParts DEF Named
      <4>. QED BY <2>5, <2>6, <4>1, <4>2 DEF Harmless, Promotes
    <3>2. JobBears(w)'
      <4>1. IsOf(t, "signup")' /\ IsOf(0, "signup")'
        BY <1>1, OfStays DEF RowBears, IsOf
      <4>2. DeliveryBears(w)'
        BY <2>5, <2>6 DEF DeliveryBears
      <4>. QED BY <2>5, <2>6, <4>1, <4>2 DEF JobBears, Minter, Promotes, Cancels
    <3>. QED BY <2>6, <3>1, <3>2 DEF OneMoves
  <2>. QED BY <1>1, <2>10, <2>11, FadeStep
<1>. QED BY <1>2, <1>3 DEF Begin

LEMMA MintBears ==
    ASSUME Inv, Inv', Bearers, NEW w \in Worker, Mint(w), UNCHANGED invites
    PROVE  Bearers'
<1>1. mailed' = mailed /\ rows' = rows
  BY DEF Mint
<1>2. CASE Answer(w) /\ tokens' = tokens
  <2>1. Fade /\ Calm
    BY <1>2, SameFades, FadeTurns DEF TokensTurn
  <2>2. RowsTurn /\ OneMoves
    BY <1>1, <1>2, <2>1, SameRowsTurn, Answers
  <2>. QED BY <1>1, <2>1, <2>2, FadeStep
<1>3. CASE ~(Answer(w) /\ tokens' = tokens)
  <2>. PICK j \in Job : j = job[w] /\ j.flow = "signup" /\ j.at = "mint" /\ j.tok \in Ref
                        /\ j.want \in Ref /\ j.row \in DOMAIN rows /\ j.row \in Nat
    BY JobFacts DEF Mint, At, Job
  <2>. PICK p \in Nat : p = j.want
    BY DEF Ref
  <2>. PICK n \in Nat : n = Len(tokens) + 1
    BY DEF Inv, Types, TokenTypes
  <2>0. /\ IF p = 0 THEN MayIssue("signup") ELSE MayPrepare("signup", p)
        /\ tokens' = IF p = 0 THEN Issued("signup") ELSE Prepared("signup", p)
        /\ job' = [job EXCEPT ![w].at = "record", ![w].tok = n]
    BY <1>3 DEF Mint
  <2>1. TokensTurn
    BY <2>0, IssuedTurns, PreparedTurns
  <2>2. /\ n \notin DOMAIN tokens /\ DOMAIN tokens' = DOMAIN tokens \union {n}
        /\ tokens'[n].purpose = "signup" /\ tokens'[n].pred = p
        /\ tokens'[n].state = IF p = 0 THEN "active" ELSE "candidate"
        /\ \A t \in DOMAIN tokens : tokens'[t] = tokens[t]
    <3>1. tokens' = Append(tokens, Minted("signup", IF p = 0 THEN "active" ELSE "candidate", p))
      BY <2>0 DEF Issued, Prepared
    <3>2. "signup" \in Purpose
      BY DEF Purpose
    <3>. QED BY <3>1, <3>2, AppendedTokens
  <2>. DEFINE next == [j EXCEPT !.at = "record", !.tok = n]
  <2>3. job' = [job EXCEPT ![w] = next]
    BY <2>0, JobFacts
  <2>4. /\ next.at = "record" /\ next.flow = "signup" /\ next.row = j.row /\ next.tok = n
        /\ next.want = p /\ next.gen = j.gen
    BY DEF Job
  <2>. HIDE DEF next
  <2>5. OthersKept(w) /\ job'[w] = next
    BY <2>3, Starts
  <2>6. n # 0 /\ n \notin Ref
    BY <2>2, RefParts
  <2>7. Delivers(w) /\ Named(p, j.row) /\ IsOf(p, "signup")
    BY DEF Delivers, DeliverPlaces, Named, Bearers, JobBears
  <2>8. Harmless(w)
    <3>1. \A v \in Worker : job[v].tok # n
      BY <2>6, JobFacts
    <3>. QED BY <2>2, <2>4, <2>5, <2>7, <3>1 DEF Harmless, Promotes
  <2>9. JobBears(w)'
    <3>1. IsOf(n, "signup")'
      BY <2>2 DEF IsOf
    <3>2. IsOf(p, "signup")'
      BY <2>1, <2>7, OfStays DEF TokensTurn
    <3>3. DeliveryBears(w)'
      <4>1. ASSUME p # 0 PROVE OnlySuccessor(p, 0)'
        <5>. SUFFICES ASSUME NEW t \in DOMAIN tokens', tokens'[t].state = "active", tokens'[t].pred = p
                      PROVE  FALSE
          BY DEF OnlySuccessor
        <5>1. t \in DOMAIN tokens /\ tokens[t].state = "active" /\ tokens[t].pred = p
          BY <2>2, <4>1
        <5>2. tokens[p].state = "active"
          BY <2>0, <4>1 DEF MayPrepare, Active
        <5>. QED BY <4>1, <5>1, <5>2 DEF Bearers, LinkSound
      <4>. QED BY <2>2, <2>4, <2>5, <4>1 DEF DeliveryBears
    <3>4. MinterAlone(w)'
      <4>1. \A r \in DOMAIN rows' : rows'[r].token # n /\ rows'[r].rep.cand # n
        BY <1>1, <2>6, RowFacts
      <4>2. \A v \in Worker : v # w => job'[v].tok # n
        BY <2>5, <2>6, JobFacts DEF OthersKept
      <4>. QED BY <2>4, <2>5, <2>6, <4>1, <4>2 DEF MinterAlone
    <3>. QED BY <2>4, <2>5, <3>1, <3>2, <3>3, <3>4 DEF JobBears, Promotes, Cancels
  <2>10. OneMoves
    BY <2>5, <2>8, <2>9 DEF OneMoves
  <2>11. \A i \in DOMAIN invites' : InviteBears(i)'
    BY <2>1, InvitesSameBear DEF TokensTurn
  <2>12. RowsTurn
    BY <1>1, <2>1, SameRowsTurn DEF TokensTurn
  <2>. QED BY <1>1, <2>1, <2>10, <2>11, <2>12, BearersConclude DEF BearersTurn
<1>. QED BY <1>2, <1>3

LEMMA RecordCandidateBears ==
    ASSUME Inv, Inv', Bearers, NEW w \in Worker, RecordCandidate(w), UNCHANGED invites
    PROVE  Bearers'
<1>1. Fade /\ Calm /\ mailed' = mailed /\ tokens' = tokens
  BY SameFades, FadeTurns DEF RecordCandidate, TokensTurn, othersUnchanged
<1>2. job[w].flow = "signup" /\ job[w].at = "record" /\ job[w].tok # 0
  BY JobFacts DEF RecordCandidate, At, SignupSound
<1>. PICK r \in DOMAIN rows : r = job[w].row
  BY <1>2, JobFacts
<1>. PICK c, p : c = job[w].tok /\ p = job[w].want
  OBVIOUS
<1>3. /\ Delivers(w) /\ DeliveryBears(w) /\ MyRow(w) \in Row /\ RowBears(r) /\ c \in Ref
      /\ p \in Ref /\ IsOf(c, "signup") /\ Named(c, r) /\ Named(p, r) /\ Minter(w) /\ MinterAlone(w)
  BY <1>2, DeliverFacts DEF DeliverPlaces, Minter
<1>4. c \in DOMAIN tokens
  BY <1>2, <1>3, RefParts
<1>5. CASE Delivering(w, "issuing", "preparing")
  <2>. PICK row \in Row : row = MyRow(w)
    BY <1>3
  <2>0. row = rows[r] /\ row.status = "issuing" /\ row.gen = job[w].gen /\ row.token = p
    BY <1>2, <1>5, DeliveringRow DEF Delivering, MyRow, InDelivery, DeliverPlaces
  <2>. PICK d \in Nat : d = c
    BY <1>3 DEF Ref
  <2>. DEFINE new == [row EXCEPT !.status = "delivery_pending",
                                 !.rep = [phase |-> "candidate_prepared", cand |-> d]]
  <2>1. /\ new \in Row /\ new.gen = row.gen /\ new.token = p
        /\ new.rep = [phase |-> "candidate_prepared", cand |-> c]
        /\ new.status = "delivery_pending"
    BY <2>0 DEF Row, Status, Open
  <2>2. MyRowTo(w, new) /\ Goto(w, "submit")
    BY <1>5 DEF RecordCandidate
  <2>. HIDE DEF new
  <2>3. /\ DOMAIN rows' = DOMAIN rows
        /\ \A q \in DOMAIN rows : q # r => rows'[q] = rows[q]
        /\ rows'[r].status = "delivery_pending" /\ rows'[r].gen = row.gen
        /\ rows'[r].token = p /\ rows'[r].rep = [phase |-> "candidate_prepared", cand |-> c]
    BY <2>1, <2>2, WrittenRow
  <2>4. c # p /\ tokens[c].pred = p
    BY <1>2, <1>3, <2>0 DEF MinterAlone, DeliveryBears
  <2>5. RowTurns(r)
    <3>1. RowBears(r)'
      <4>1. p # 0 => tokens[p].state # "candidate"
        BY <1>3, <2>0 DEF RowBears
      <4>2. p # 0 => OnlySuccessor(p, c)
        <5>1. p # 0 => OnlySuccessor(p, 0)
          BY <1>2, <1>3, <2>0 DEF DeliveryBears, MyRow
        <5>. QED BY <5>1, RefParts DEF OnlySuccessor
      <4>3. OnlySuccessor(p, c) => OnlySuccessor(p, c)'
        BY <1>1 DEF OnlySuccessor
      <4>4. IsOf(p, "signup")' /\ IsOf(c, "signup")'
        BY <1>1, <1>3, <2>0, OfStays DEF RowBears
      <4>. QED BY <1>1, <1>2, <2>3, <2>4, <4>1, <4>2, <4>3, <4>4 DEF RowBears, Mailed
    <3>2. RowLets(r)
      BY <1>3, <1>5, <2>0, <2>3 DEF RowLets, Delivering, Mailed, MyRow, Row
    <3>3. \A v \in Worker : Minter(v) => p # job[v].tok
      BY <1>3, <2>0 DEF Bearers, JobBears, MinterAlone
    <3>. QED BY <1>3, <2>3, <3>1, <3>2, <3>3 DEF RowTurns, Mailed
  <2>6. RowsTurn
    BY <1>1, <2>1, <2>2, <2>5, RowWrites
  <2>7. \A q \in DOMAIN rows' : /\ rows'[q].token # c
                                /\ rows'[q].rep.cand = c => rows'[q].rep.phase \notin Mailed
    BY <1>3, <2>3, <2>4 DEF MinterAlone, Mailed
  <2>8. OneMoves
    BY <1>1, <1>2, <1>3, <2>2, <2>7, DeliverGoes DEF DeliverPlaces
  <2>. QED BY <1>1, <2>6, <2>8, FadeStep
<1>6. CASE ~Delivering(w, "issuing", "preparing")
  <2>1. Goto(w, "dropUnrecorded") /\ rows' = rows
    BY <1>6 DEF RecordCandidate
  <2>2. \A q \in DOMAIN rows' : /\ rows'[q].token # c
                                /\ rows'[q].rep.cand = c => rows'[q].rep.phase \notin Mailed
    BY <1>3, <2>1 DEF MinterAlone
  <2>3. OneMoves
    BY <1>1, <1>2, <1>3, <2>1, <2>2, DeliverGoes DEF DeliverPlaces
  <2>4. RowsTurn
    BY <1>1, <2>1, SameRowsTurn
  <2>. QED BY <1>1, <2>3, <2>4, FadeStep
<1>. QED BY <1>5, <1>6

LEMMA SubmitBears ==
    ASSUME Inv, Inv', Bearers, NEW w \in Worker, Submit(w), UNCHANGED invites
    PROVE  Bearers'
<1>1. Fade /\ Calm /\ mailed \subseteq mailed' /\ rows' = rows
  BY SameFades, FadeTurns DEF Submit, TokensTurn
<1>2. job[w].flow = "signup" /\ job[w].at = "submit"
  BY DEF Submit, At
<1>3. Delivers(w) /\ Minter(w) /\ MinterAlone(w)
  BY <1>2, DeliverFacts DEF DeliverPlaces, Minter
<1>4. \A q \in DOMAIN rows' : /\ rows'[q].token # job[w].tok
                              /\ rows'[q].rep.cand = job[w].tok => rows'[q].rep.phase \notin Mailed
  BY <1>1, <1>3 DEF MinterAlone
<1>5. OneMoves
  <2>1. CASE Goto(w, "recordSent") /\ job[w].tok \in mailed'
    BY <1>1, <1>2, <1>3, <1>4, <2>1, DeliverGoes DEF DeliverPlaces
  <2>2. CASE Goto(w, "recordUnsent")
    BY <1>1, <1>2, <1>3, <1>4, <2>2, DeliverGoes DEF DeliverPlaces
  <2>3. CASE Goto(w, "drop")
    BY <1>1, <1>2, <1>3, <1>4, <2>3, DeliverGoes DEF DeliverPlaces
  <2>. QED BY <2>1, <2>2, <2>3 DEF Submit
<1>6. RowsTurn
  BY <1>1, SameRowsTurn
<1>. QED BY <1>1, <1>5, <1>6, FadeStep

(* A bearer is noted as sent, or as promoted.                                *)
LEMMA PhaseWritten ==
    ASSUME Inv, Inv', Bearers, UNCHANGED <<tokens, mailed>>, NEW w \in Worker, Delivers(w),
           job[w].at \notin {"drop", "reject"}, NEW phase \in Mailed,
           MyRow(w).status = "delivery_pending", MyRow(w).rep.cand = job[w].tok,
           job[w].tok # 0, job[w].tok \in mailed, job'[w] # job[w],
           MyRowTo(w, [MyRow(w) EXCEPT !.rep.phase = phase])
    PROVE  /\ RowsTurn /\ rows'[job[w].row].rep.phase \in Mailed
           /\ rows'[job[w].row].rep.cand = job[w].tok
<1>1. Fade /\ Calm
  BY SameFades, FadeTurns DEF TokensTurn
<1>. PICK r \in DOMAIN rows : r = job[w].row
  BY JobFacts DEF Delivers
<1>. PICK row \in Row : row = MyRow(w) /\ row = rows[r] /\ row.token \in Ref /\ row.rep.cand \in Ref
  BY RowFacts DEF MyRow
<1>. PICK c, p : c = job[w].tok /\ p = row.token
  OBVIOUS
<1>. DEFINE new == [row EXCEPT !.rep.phase = phase]
<1>2. /\ new \in Row /\ new.gen = row.gen /\ new.token = p /\ new.rep.phase = phase
      /\ new.rep.cand = c /\ new.status = "delivery_pending"
  BY DEF Row, Mailed
<1>3. MyRowTo(w, new)
  OBVIOUS
<1>. HIDE DEF new
<1>4. /\ DOMAIN rows' = DOMAIN rows
      /\ \A q \in DOMAIN rows : q # r => rows'[q] = rows[q]
      /\ rows'[r].status = "delivery_pending" /\ rows'[r].gen = row.gen
      /\ rows'[r].token = p /\ rows'[r].rep.phase = phase /\ rows'[r].rep.cand = c
  BY <1>2, <1>3, WrittenRow
<1>5. RowTurns(r)
  <2>1. RowBears(r) /\ (OnlySuccessor(p, c) => OnlySuccessor(p, c)')
    BY DEF Bearers, OnlySuccessor
  <2>2. RowBears(r)'
    BY <1>4, <2>1 DEF RowBears, IsOf
  <2>3. RowLets(r)
    BY <1>4, RowFacts DEF RowLets
  <2>4. ASSUME NEW v \in Worker, Minter(v), job'[v] = job[v]
        PROVE  p # job[v].tok /\ c # job[v].tok
    <3>1. p # job[v].tok
      BY <2>4 DEF Bearers, JobBears, MinterAlone
    <3>2. v # w
      BY <2>4
    <3>. QED BY <2>4, <3>1, <3>2, NotMinted
  <2>5. \A q \in DOMAIN tokens : q \in {p, c} => Named(q, r)
    BY DEF Named
  <2>. QED BY <1>4, <2>2, <2>3, <2>4, <2>5 DEF RowTurns
<1>6. RowsTurn
  BY <1>1, <1>2, <1>3, <1>5, RowWrites
<1>. QED BY <1>4, <1>6

(* A candidate has a predecessor.                                            *)
LEMMA FirstIsActive ==
    ASSUME Inv, Bearers, NEW w \in Worker, Delivers(w), job[w].want = 0, job[w].tok # 0
    PROVE  tokens[job[w].tok].state # "candidate"
<1>1. job[w].tok \in DOMAIN tokens /\ DeliveryBears(w)
  BY JobFacts, RefParts DEF Bearers, JobBears
<1>. QED BY <1>1 DEF DeliveryBears, Bearers, LinkSound

LEMMA RecordReceiptBears ==
    ASSUME Inv, Inv', Bearers, NEW w \in Worker, RecordReceipt(w), UNCHANGED invites
    PROVE  Bearers'
<1>1. Fade /\ Calm /\ mailed' = mailed /\ tokens' = tokens
  BY SameFades, FadeTurns DEF RecordReceipt, TokensTurn, othersUnchanged
<1>2. CASE Answer(w) /\ rows' = rows
  <2>1. RowsTurn /\ OneMoves
    BY <1>1, <1>2, SameRowsTurn, Answers
  <2>. QED BY <1>1, <2>1, FadeStep
<1>3. CASE /\ At(w, "recordSent") /\ Delivering(w, "delivery_pending", "candidate_prepared")
           /\ MyRowTo(w, [MyRow(w) EXCEPT !.rep.phase = "delivered"])
           /\ Goto(w, IF job[w].want # 0 THEN "promote" ELSE "recordPromoted")
  <2>1. job[w].flow = "signup" /\ job[w].at = "recordSent" /\ job[w].tok # 0
    BY <1>3, JobFacts DEF At, SignupSound
  <2>2. Delivers(w) /\ job[w].tok \in mailed
    BY <2>1, DeliverFacts DEF DeliverPlaces, DeliveryBears
  <2>. PICK place \in DeliverPlaces : place = IF job[w].want # 0 THEN "promote" ELSE "recordPromoted"
    BY DEF DeliverPlaces
  <2>3. job'[w] # job[w]
    BY <1>1, <1>3, <2>1, Goes, SomePlaces
  <2>4. MyRow(w).status = "delivery_pending" /\ MyRow(w).rep.cand = job[w].tok
    BY <1>3 DEF Delivering
  <2>5. /\ RowsTurn /\ rows'[job[w].row].rep.phase \in Mailed
        /\ rows'[job[w].row].rep.cand = job[w].tok
    BY <1>1, <1>3, <2>1, <2>2, <2>3, <2>4, PhaseWritten DEF Mailed
  <2>6. OneMoves
    <3>1. job[w].want = 0 => tokens'[job[w].tok].state # "candidate"
      BY <1>1, <2>1, <2>2, FirstIsActive
    <3>2. place \notin MintPlaces /\ place \notin {"record", "recordSent", "accept", "reject"}
          /\ (place = "promote" <=> job[w].want # 0)
          /\ job[w].at \notin {"drop", "reject"}
      BY <2>1 DEF MintPlaces
    <3>. QED BY <1>1, <1>3, <2>2, <2>4, <2>5, <3>1, <3>2, DeliverGoes
  <2>. QED BY <1>1, <2>5, <2>6, FadeStep
<1>4. CASE /\ At(w, "recordUnsent") /\ MyRowTo(w, MyRow(w)) /\ Goto(w, "drop")
  <2>1. job[w].flow = "signup" /\ job[w].at = "recordUnsent"
    BY <1>4 DEF At
  <2>2. Delivers(w) /\ Minter(w) /\ MinterAlone(w) /\ MyRow(w) \in Row /\ job[w].row \in DOMAIN rows
    BY <2>1, DeliverFacts DEF DeliverPlaces, Minter
  <2>3. RowsTurn
    BY <1>1, <1>4, <2>2, RowWrites DEF Idle
  <2>4. \A q \in DOMAIN rows' : rows'[q].token = rows[q].token /\ rows'[q].rep = rows[q].rep
    BY <1>4, <2>2, WrittenRow DEF MyRow
  <2>5. \A q \in DOMAIN rows' : /\ rows'[q].token # job[w].tok
                                /\ rows'[q].rep.cand = job[w].tok => rows'[q].rep.phase \notin Mailed
    BY <1>4, <2>2, <2>4, WrittenRow DEF MinterAlone
  <2>6. OneMoves
    BY <1>1, <1>4, <2>1, <2>2, <2>5, DeliverGoes DEF DeliverPlaces
  <2>. QED BY <1>1, <2>3, <2>6, FadeStep
<1>. QED BY <1>2, <1>3, <1>4 DEF RecordReceipt

(* A candidate takes over from its predecessor.                              *)
LEMMA SwappedTokens ==
    ASSUME Inv, NEW c \in DOMAIN tokens, NEW p \in DOMAIN tokens, c # p, tokens' = Promoted(c, p)
    PROVE  /\ DOMAIN tokens' = DOMAIN tokens
           /\ \A t \in DOMAIN tokens : t # c /\ t # p => tokens'[t] = tokens[t]
           /\ \A t \in DOMAIN tokens : /\ tokens'[t].purpose = tokens[t].purpose
                                       /\ tokens'[t].pred = tokens[t].pred
                                       /\ (tokens'[t].expired <=> tokens[t].expired)
           /\ tokens'[c].state = "active" /\ tokens'[p].state = "revoked"
<1>1. \A x \in Token : \A s \in {"active", "revoked"} :
         LET y == [x EXCEPT !.state = s] IN
            /\ y.purpose = x.purpose /\ y.pred = x.pred /\ y.expired = x.expired /\ y.state = s
  BY DEF Token
<1>2. /\ \A t \in DOMAIN tokens : tokens[t] \in Token
      /\ DOMAIN tokens' = DOMAIN tokens
      /\ \A t \in DOMAIN tokens : t # c /\ t # p => tokens'[t] = tokens[t]
      /\ tokens'[c] = [tokens[c] EXCEPT !.state = "active"]
      /\ tokens'[p] = [tokens[p] EXCEPT !.state = "revoked"]
  <2>. PICK x, y : /\ x = [tokens[c] EXCEPT !.state = "active"]
                   /\ y = [tokens[p] EXCEPT !.state = "revoked"]
    OBVIOUS
  <2>1. tokens \in [1..Len(tokens) -> Token] /\ DOMAIN tokens = 1..Len(tokens)
    BY DEF Inv, Types, TokenTypes
  <2>2. tokens' = [[tokens EXCEPT ![c] = x] EXCEPT ![p] = y]
    BY DEF Promoted
  <2>. QED BY <2>1, <2>2
<1>3. /\ tokens'[c].purpose = tokens[c].purpose /\ tokens'[c].pred = tokens[c].pred
      /\ (tokens'[c].expired <=> tokens[c].expired) /\ tokens'[c].state = "active"
  BY <1>1, <1>2
<1>4. /\ tokens'[p].purpose = tokens[p].purpose /\ tokens'[p].pred = tokens[p].pred
      /\ (tokens'[p].expired <=> tokens[p].expired) /\ tokens'[p].state = "revoked"
  BY <1>1, <1>2
<1>. QED BY <1>2, <1>3, <1>4

LEMMA PromotedTurns ==
    ASSUME Inv, Bearers, NEW w \in Worker, At(w, "promote"), MayPromote(job[w].tok, job[w].want),
           tokens' = Promoted(job[w].tok, job[w].want)
    PROVE  /\ TokensTurn /\ DOMAIN tokens' = DOMAIN tokens
           /\ tokens'[job[w].tok].state = "active"
           /\ job[w].want \in Working /\ job[w].tok \in mailed
           /\ tokens'[job[w].tok].pred = job[w].want
           /\ ~tokens'[job[w].tok].expired /\ tokens'[job[w].tok].purpose = "signup"
<1>. PICK c, p : c = job[w].tok /\ p = job[w].want
  OBVIOUS
<1>1. job[w].flow = "signup" /\ job[w].at = "promote" /\ c # 0
  BY JobFacts DEF At, SignupSound
<1>2. /\ c \in mailed /\ IsOf(c, "signup") /\ IsOf(p, "signup") /\ c \in Ref /\ tokens[c].pred = p
  BY <1>1, DeliverFacts DEF DeliverPlaces, DeliveryBears
<1>3. c \in DOMAIN tokens /\ p \in DOMAIN tokens /\ c # p /\ p # 0
      /\ tokens[c].state = "candidate" /\ ~tokens[c].expired
      /\ tokens[p].state = "active" /\ p \in Working
  <2>1. c \in DOMAIN tokens
    BY <1>1, <1>2, RefParts
  <2>2. MayPromote(c, p)
    OBVIOUS
  <2>3. tokens[c].state = "candidate" /\ ~tokens[c].expired /\ Active(p)
    BY <2>2 DEF MayPromote
  <2>4. p \in DOMAIN tokens /\ tokens[p].state = "active" /\ p # 0
    BY <2>3, RefParts DEF Active
  <2>5. p \in Working
    BY <1>2, <2>3, <2>4 DEF Working, IsOf
  <2>. QED BY <2>1, <2>3, <2>4, <2>5
<1>4. /\ DOMAIN tokens' = DOMAIN tokens
      /\ \A t \in DOMAIN tokens : t # c /\ t # p => tokens'[t] = tokens[t]
      /\ \A t \in DOMAIN tokens : /\ tokens'[t].purpose = tokens[t].purpose
                                  /\ tokens'[t].pred = tokens[t].pred
                                  /\ (tokens'[t].expired <=> tokens[t].expired)
      /\ tokens'[c].state = "active" /\ tokens'[p].state = "revoked"
  <2>1. tokens' = Promoted(c, p)
    OBVIOUS
  <2>. QED BY <1>3, <2>1, SwappedTokens
<1>5. Promotes(w)
  BY <1>1, <1>3 DEF Promotes
<1>6. Calm
  BY <1>3, <1>4, <1>5 DEF Calm
<1>7. ASSUME NEW t \in Working' PROVE t = c
  <2>1. t \in DOMAIN tokens /\ tokens'[t].state = "active" /\ ~tokens'[t].expired
        /\ tokens'[t].purpose = "signup"
    BY <1>4, <1>7 DEF Working, Active
  <2>2. t # c => t \in Working
    BY <1>4, <2>1 DEF Working, Active
  <2>. QED BY <1>3, <1>4, <2>1, <2>2 DEF Bearers, OneWorking
<1>8. OneWorking'
  BY <1>7 DEF OneWorking
<1>9. ASSUME NEW t \in DOMAIN tokens PROVE LinkSound(t)'
  <2>1. LinkSound(t)
    BY DEF Bearers
  <2>2. CASE t = c
    BY <1>1, <1>2, <1>3, <1>4, <2>2 DEF LinkSound
  <2>3. CASE t # c
    BY <1>3, <1>4, <2>1, <2>3 DEF LinkSound
  <2>. QED BY <2>2, <2>3
<1>10. /\ tokens'[c].pred = p /\ ~tokens'[c].expired /\ tokens'[c].purpose = "signup"
  BY <1>1, <1>2, <1>3, <1>4 DEF IsOf
<1>. QED BY <1>2, <1>3, <1>4, <1>6, <1>8, <1>9, <1>10 DEF TokensTurn

LEMMA PromoteBears ==
    ASSUME Inv, Inv', Bearers, NEW w \in Worker, Promote(w), UNCHANGED invites
    PROVE  Bearers'
<1>. PICK c, p : c = job[w].tok /\ p = job[w].want
  OBVIOUS
<1>1. /\ rows' = rows /\ mailed' = mailed /\ job[w].flow = "signup" /\ job[w].at = "promote"
      /\ tokens' = IF MayPromote(c, p) THEN Promoted(c, p) ELSE tokens
  BY DEF Promote, At
<1>. PICK place \in DeliverPlaces :
        place = IF MayPromote(c, p) \/ WasPromoted(c, p)
                THEN IF job[w].again THEN "accept" ELSE "recordPromoted"
                ELSE "discard"
  BY DEF DeliverPlaces
<1>2. Goto(w, place)
  BY DEF Promote
<1>3. TokensTurn /\ DOMAIN tokens' = DOMAIN tokens
  BY <1>1, SameFades, FadeTurns, PromotedTurns DEF Promote, Fade
<1>4. place \in {"recordPromoted", "accept", "reject"} => tokens'[c].state # "candidate"
  <2>1. CASE MayPromote(c, p)
    BY <1>1, <2>1, PromotedTurns DEF At
  <2>2. CASE ~MayPromote(c, p)
    BY <1>1, <2>2 DEF WasPromoted
  <2>. QED BY <2>1, <2>2
<1>5. OneMoves
  <2>1. Delivers(w)
    BY <1>1 DEF Delivers, DeliverPlaces
  <2>2. place \notin MintPlaces /\ place \notin {"record", "recordSent", "promote"}
    BY DEF MintPlaces
  <2>. QED BY <1>1, <1>2, <1>3, <1>4, <2>1, <2>2, DeliverGoes DEF TokensTurn
<1>6. RowsTurn /\ \A i \in DOMAIN invites' : InviteBears(i)'
  BY <1>1, <1>3, SameRowsTurn, InvitesSameBear DEF TokensTurn
<1>. QED BY <1>1, <1>3, <1>5, <1>6, BearersConclude DEF BearersTurn

LEMMA DropBears ==
    ASSUME Inv, Inv', Bearers, NEW w \in Worker, Drop(w), UNCHANGED invites
    PROVE  Bearers'
<1>. PICK t : t = job[w].tok
  OBVIOUS
<1>1. /\ rows' = rows /\ mailed' = mailed /\ job[w].flow = "signup"
      /\ job[w].at \in {"drop", "dropUnrecorded", "discard"}
      /\ tokens' = IF job[w].want # 0 \/ job[w].at = "discard" THEN Discarded(t) ELSE Revoked(t)
  BY DEF Drop, At
<1>2. Fade /\ Calm
  <2>1. tokens' \in {tokens, Revoked(t), Discarded(t), Withdrawn(t)}
    BY <1>1
  <2>2. Fade
    BY <2>1, RevokedFades
  <2>. QED BY <2>2, FadeTurns DEF TokensTurn
<1>3. Delivers(w) /\ t \in Ref
  BY <1>1, JobFacts DEF Delivers, DeliverPlaces
<1>4. t # 0 => tokens'[t].state # "candidate"
  <2>1. CASE job[w].want # 0 \/ job[w].at = "discard"
    <3>1. t # 0 => t \in DOMAIN tokens /\ tokens[t] \in Token
      BY <1>3, RefParts DEF Inv, Types, TokenTypes
    <3>2. t # 0 /\ tokens[t].state = "candidate" => tokens'[t].state = "revoked"
      BY <1>1, <2>1, <3>1 DEF Discarded, Token
    <3>. QED BY <1>1, <2>1, <3>2 DEF Discarded
  <2>2. CASE job[w].want = 0
    <3>1. t # 0 => t \in DOMAIN tokens /\ tokens[t].state # "candidate"
      BY <1>3, <2>2, RefParts, FirstIsActive
    <3>. QED BY <1>2, <3>1, NotCandidate
  <2>. QED BY <2>1, <2>2
<1>5. OneMoves
  <2>. PICK place \in DeliverPlaces :
          place = IF job[w].at = "dropUnrecorded" THEN "rejectUnrecorded" ELSE "reject"
    BY DEF DeliverPlaces
  <2>1. Goto(w, place)
    BY <1>1 DEF Drop, At
  <2>2. place \notin MintPlaces /\ place \notin {"record", "recordSent", "promote"}
        /\ (job[w].at \in {"drop", "reject"} => place \in {"drop", "reject"})
    BY DEF MintPlaces
  <2>. QED BY <1>1, <1>2, <1>3, <1>4, <2>1, <2>2, DeliverGoes
<1>6. RowsTurn
  BY <1>1, <1>2, SameRowsTurn
<1>. QED BY <1>1, <1>2, <1>5, <1>6, FadeStep

LEMMA RecordPromotedBears ==
    ASSUME Inv, Inv', Bearers, NEW w \in Worker, RecordPromoted(w), UNCHANGED invites
    PROVE  Bearers'
<1>1. Fade /\ Calm /\ mailed' = mailed /\ tokens' = tokens
  BY SameFades, FadeTurns DEF RecordPromoted, TokensTurn, othersUnchanged
<1>2. job[w].flow = "signup" /\ job[w].at = "recordPromoted"
  BY DEF RecordPromoted, At
<1>3. CASE Answer(w) /\ rows' = rows
  <2>1. RowsTurn /\ OneMoves
    BY <1>1, <1>3, SameRowsTurn, Answers
  <2>. QED BY <1>1, <2>1, FadeStep
<1>4. CASE /\ Delivering(w, "delivery_pending", "delivered") /\ Goto(w, "accept")
           /\ MyRowTo(w, [MyRow(w) EXCEPT !.rep.phase = "promoted"])
  <2>1. Delivers(w) /\ DeliveryBears(w) /\ RowBears(job[w].row) /\ job[w].row \in DOMAIN rows
    BY <1>2, DeliverFacts DEF DeliverPlaces
  <2>2. /\ MyRow(w).status = "delivery_pending" /\ MyRow(w).rep.cand = job[w].tok
        /\ MyRow(w).rep.phase = "delivered"
    BY <1>4 DEF Delivering
  <2>3. job[w].tok # 0 /\ job[w].tok \in mailed
    BY <2>1, <2>2, RowFacts DEF RowBears, MyRow, Mailed
  <2>4. job'[w] # job[w]
    BY <1>1, <1>2, <1>4, Goes, SomePlaces DEF DeliverPlaces
  <2>5. RowsTurn
    BY <1>1, <1>2, <1>4, <2>1, <2>2, <2>3, <2>4, PhaseWritten DEF Mailed
  <2>6. tokens'[job[w].tok].state # "candidate"
    BY <1>1, <1>2, <2>1, <2>3 DEF DeliveryBears
  <2>7. OneMoves
    BY <1>1, <1>2, <1>4, <2>1, <2>6, DeliverGoes DEF DeliverPlaces, MintPlaces
  <2>. QED BY <1>1, <2>5, <2>7, FadeStep
<1>. QED BY <1>3, <1>4 DEF RecordPromoted

LEMMA FinishBears ==
    ASSUME Inv, Inv', Bearers, NEW w \in Worker, Finish(w), UNCHANGED invites
    PROVE  Bearers'
<1>1. Fade /\ Calm /\ mailed' = mailed /\ tokens' = tokens
  BY SameFades, FadeTurns DEF Finish, TokensTurn, othersUnchanged
<1>2. /\ job[w].flow = "signup" /\ job[w].at \in {"accept", "reject", "rejectUnrecorded"}
      /\ Answer(w)
  BY DEF Finish, At
<1>. PICK r \in DOMAIN rows : r = job[w].row
  BY <1>2, JobFacts
<1>. PICK c : c = job[w].tok
  OBVIOUS
<1>3. /\ Delivers(w) /\ DeliveryBears(w) /\ RowBears(r) /\ MyRow(w) \in Row
      /\ c \in Ref /\ IsOf(c, "signup") /\ Named(c, r) /\ ~Minter(w)
  BY <1>2, DeliverFacts DEF DeliverPlaces, Minter
<1>. PICK row \in Row : row = MyRow(w) /\ row = rows[r] /\ row.token \in Ref /\ row.gen \in Nat
                        /\ (row.rep.phase \in Mailed => row.rep.cand # 0)
  BY <1>3, RowFacts DEF MyRow
<1>4. OneMoves
  BY <1>1, <1>2, Answers
<1>5. ASSUME NEW new \in Row, MyRowTo(w, new), new.status \in {"pending", "delivery_failed"},
             new.gen = row.gen, new.rep = NoDelivery, row.status \in {"issuing", "delivery_pending"},
             row.rep.phase \in Mailed => row.rep.cand = c /\ job[w].at \in {"accept", "reject"},
             new.token = row.token \/ (new.token = c /\ job[w].at = "accept")
      PROVE  RowsTurn
  <2>. PICK t \in Ref : t = new.token
    BY <1>3, <1>5
  <2>1. /\ rows'[r].status = new.status /\ rows'[r].gen = row.gen /\ rows'[r].token = t
        /\ rows'[r].rep.phase = "none" /\ rows'[r].rep.cand = 0
    BY <1>5, WrittenRow DEF NoDelivery
  <2>2. RowBears(r)'
    <3>1. IsOf(t, "signup")'
      BY <1>1, <1>3, <1>5, OfStays DEF RowBears
    <3>2. t # 0 => tokens'[t].state # "candidate"
      BY <1>1, <1>3, <1>5 DEF RowBears, DeliveryBears
    <3>. QED BY <2>1, <3>1, <3>2 DEF RowBears, IsOf, Mailed
  <2>3. Named(t, r) /\ 0 \notin DOMAIN tokens
    BY <1>3, <1>5, RefParts DEF Named
  <2>4. RowLets(r)
    <3>1. row.rep.phase \in Mailed => tokens'[row.rep.cand].state # "candidate"
      BY <1>1, <1>3, <1>5 DEF DeliveryBears
    <3>. QED BY <1>5, <2>1, <3>1 DEF RowLets
  <2>5. ASSUME NEW v \in Worker, Minter(v) PROVE t # job[v].tok
    <3>1. row.token # job[v].tok
      BY <2>5 DEF Bearers, JobBears, MinterAlone
    <3>2. job[w].at = "accept" => c # job[v].tok
      BY <1>3, <2>5, NotMinted
    <3>. QED BY <1>5, <3>1, <3>2
  <2>6. RowTurns(r)
    BY <2>1, <2>2, <2>3, <2>4, <2>5 DEF RowTurns, Mailed
  <2>. QED BY <1>1, <1>5, <2>6, RowWrites
<1>6. RowsTurn
  <2>1. CASE job[w].at = "accept" /\ Finishing(w, c)
    <3>. PICK d \in Nat : d = c
      BY <1>3 DEF Ref
    <3>. DEFINE new == [row EXCEPT !.status = "pending", !.token = d, !.rep = NoDelivery]
    <3>1. MyRowTo(w, new)
      BY <1>2, <2>1 DEF Finish, At
    <3>2. /\ new \in Row /\ new.status = "pending" /\ new.gen = row.gen /\ new.token = c
          /\ new.rep = NoDelivery
      BY DEF Row, Status, Open, NoDelivery
    <3>3. row.status \in {"issuing", "delivery_pending"} /\ row.rep.cand = c
      BY <2>1 DEF Finishing
    <3>. HIDE DEF new
    <3>. QED BY <1>5, <2>1, <3>1, <3>2, <3>3
  <2>2. CASE /\ job[w].at \in {"reject", "rejectUnrecorded"}
             /\ Finishing(w, IF job[w].at = "rejectUnrecorded" THEN 0 ELSE c)
    <3>. PICK s \in {"pending", "delivery_failed"} :
            s = IF row.token # 0 THEN "pending" ELSE "delivery_failed"
      OBVIOUS
    <3>. DEFINE new == [row EXCEPT !.rep = NoDelivery, !.status = s]
    <3>1. MyRowTo(w, new)
      BY <1>2, <2>2 DEF Finish, At
    <3>2. /\ new \in Row /\ new.status = s /\ new.gen = row.gen /\ new.token = row.token
          /\ new.rep = NoDelivery
      BY DEF Row, Status, Open, NoDelivery
    <3>3. row.status \in {"issuing", "delivery_pending"}
          /\ (row.rep.phase \in Mailed => row.rep.cand = c /\ job[w].at \in {"accept", "reject"})
      BY <2>2 DEF Finishing
    <3>. HIDE DEF new
    <3>. QED BY <1>5, <2>2, <3>1, <3>2, <3>3
  <2>3. CASE rows' = rows
    BY <1>1, <2>3, SameRowsTurn
  <2>. QED BY <1>2, <2>1, <2>2, <2>3 DEF Finish, At
<1>. QED BY <1>1, <1>4, <1>6, FadeStep

-----------------------------------------------------------------------------
(* Steps of a cancellation                                                   *)

LEMMA CancelRowBears ==
    ASSUME Inv, Inv', Bearers, NEW w \in Worker, CancelRow(w), UNCHANGED invites
    PROVE  Bearers'
<1>1. Fade /\ Calm /\ mailed' = mailed /\ tokens' = tokens
  BY SameFades, FadeTurns DEF CancelRow, TokensTurn, othersUnchanged
<1>2. CASE Answer(w) /\ rows' = rows
  <2>1. RowsTurn /\ OneMoves
    BY <1>1, <1>2, SameRowsTurn, Answers
  <2>. QED BY <1>1, <2>1, FadeStep
<1>3. CASE MayCancel(w) /\ ~(Answer(w) /\ rows' = rows)
  <2>. PICK j \in Job : j = job[w] /\ j.flow = "signup" /\ j.at = "cancelRow" /\ j.tok # 0
                        /\ j.row \in DOMAIN rows /\ j.row \in Nat /\ j.tok \in Ref
    BY JobFacts DEF CancelRow, At, Bearers, JobBears, Job
  <2>. PICK r \in DOMAIN rows : r = j.row /\ r \in Nat
    OBVIOUS
  <2>. PICK row \in Row : row = rows[r] /\ row = MyRow(w) /\ row.rep.cand \in Ref /\ row.gen \in Nat
                          /\ RowBears(r)
    BY RowFacts DEF Bearers, MyRow
  <2>. PICK t, c \in Nat : t = j.tok /\ c = row.rep.cand /\ t \in Ref /\ c \in Ref
    BY DEF Ref
  <2>1. row.status \in Cancellable /\ row.token = t
    BY <1>3 DEF MayCancel
  <2>. DEFINE new == [row EXCEPT !.status = "cancelled", !.rep = NoDelivery]
              next == [j EXCEPT !.at = "revoke", !.want = c]
  <2>2. MyRowTo(w, new) /\ job' = [job EXCEPT ![w] = next]
    BY <1>3, JobFacts DEF CancelRow
  <2>3. /\ new \in Row /\ new.status = "cancelled" /\ new.token = t /\ new.gen = row.gen
        /\ new.rep = NoDelivery
    BY <2>1 DEF Row, Status, NoDelivery
  <2>4. /\ next.at = "revoke" /\ next.flow = "signup" /\ next.row = r /\ next.tok = t
        /\ next.want = c
    BY DEF Job
  <2>. HIDE DEF new, next
  <2>5. OthersKept(w) /\ job'[w] = next
    BY <2>2, Starts
  <2>6. /\ rows'[r].status = "cancelled" /\ rows'[r].token = t /\ rows'[r].gen = row.gen
        /\ rows'[r].rep.phase = "none" /\ rows'[r].rep.cand = 0
    BY <2>2, <2>3, WrittenRow DEF NoDelivery
  <2>7. RowTurns(r)
    <3>1. RowBears(r)'
      BY <1>1, <2>1, <2>6 DEF RowBears, IsOf, Mailed
    <3>2. RowLets(r)
      BY <2>1, <2>6 DEF RowLets, Cancellable
    <3>3. \A v \in Worker : Minter(v) => t # job[v].tok
      BY <2>1 DEF Bearers, JobBears, MinterAlone
    <3>. QED BY <2>1, <2>6, <3>1, <3>2, <3>3, RefParts DEF RowTurns, Mailed, Named
  <2>8. RowsTurn
    BY <1>1, <2>2, <2>3, <2>7, RowWrites
  <2>9. Named(t, r) /\ Named(c, r)
    BY <2>1 DEF Named
  <2>10. Harmless(w)
    BY <2>4, <2>5, <2>9 DEF Harmless, Delivers, DeliverPlaces, Promotes
  <2>11. CancelBears(w)'
    <3>1. t # c
      BY <2>1 DEF RowBears
    <3>2. ASSUME c # 0 PROVE OnlySuccessor(t, c)'
      BY <1>1, <2>1, <3>2 DEF RowBears, OnlySuccessor
    <3>3. ASSUME c # 0, NEW v \in Worker, Promotes(v)', job'[v].want = t PROVE job'[v].tok = c
      <4>1. v # w
        BY <2>4, <2>5, <3>3 DEF Promotes
      <4>2. job'[v] = job[v] /\ Promotes(v)
        BY <1>1, <2>5, <3>3, <4>1, PromotesBefore DEF OthersKept
      <4>3. /\ Named(t, job[v].row) /\ job[v].row \in Nat /\ t \in DOMAIN tokens
        BY <3>3, <4>2, InTimeRow, JobFacts, RefParts DEF Named, Job
      <4>4. job[v].row = r
        BY <2>9, <4>3, SameNamed
      <4>. QED BY <2>1, <4>2, <4>4, InTimeRow DEF Cancellable
    <3>. QED BY <2>4, <2>5, <2>6, <3>1, <3>2, <3>3 DEF CancelBears
  <2>12. JobBears(w)'
    <3>1. IsOf(t, "signup")' /\ IsOf(c, "signup")'
      BY <1>1, <2>1, OfStays DEF RowBears
    <3>. QED BY <2>4, <2>5, <2>11, <3>1
             DEF JobBears, Minter, Promotes, Delivers, DeliverPlaces
  <2>13. OneMoves
    BY <2>5, <2>10, <2>12 DEF OneMoves
  <2>. QED BY <1>1, <2>8, <2>13, FadeStep
<1>. QED BY <1>2, <1>3 DEF CancelRow

LEMMA RevokeCurrentBears ==
    ASSUME Inv, Inv', Bearers, NEW w \in Worker, RevokeCurrent(w), UNCHANGED invites
    PROVE  Bearers'
<1>. PICK t, c : t = job[w].tok /\ c = job[w].want
  OBVIOUS
<1>1. /\ mailed' = mailed /\ rows' = rows /\ tokens' = Revoked(t)
      /\ job[w].flow = "signup" /\ job[w].at = "revoke"
  BY DEF RevokeCurrent, At
<1>2. Fade /\ Calm
  <2>1. tokens' \in {tokens, Revoked(t), Discarded(t), Withdrawn(t)}
    BY <1>1
  <2>2. Fade
    BY <2>1, RevokedFades
  <2>. QED BY <2>2, FadeTurns DEF TokensTurn
<1>3. RowsTurn
  BY <1>1, <1>2, SameRowsTurn
<1>4. CASE Answer(w)
  BY <1>1, <1>2, <1>3, <1>4, Answers, FadeStep
<1>5. CASE c # 0 /\ Goto(w, "revokeCandidate")
  <2>1. /\ OthersKept(w) /\ job'[w].at = "revokeCandidate" /\ job'[w].flow = "signup"
        /\ job'[w].row = job[w].row /\ job'[w].tok = t /\ job'[w].want = c
    BY <1>1, <1>2, <1>5, SomePlaces, Goes DEF CancelPlaces
  <2>2. Cancels(w) /\ CancelBears(w) /\ t \in Ref /\ c \in Ref
        /\ IsOf(t, "signup") /\ IsOf(c, "signup")
    BY <1>1, JobFacts DEF Cancels, Bearers, JobBears
  <2>3. t \in DOMAIN tokens /\ t # 0
    BY <2>2, RefParts DEF CancelBears
  <2>4. Harmless(w)
    BY <2>1, <2>2 DEF Harmless, Delivers, DeliverPlaces, Promotes, Named
  <2>5. CancelBears(w)'
    <3>1. ~Active(t)'
      <4>1. tokens[t] \in Token
        BY <2>3 DEF Inv, Types, TokenTypes
      <4>2. Active(t) => tokens'[t].state = "revoked"
        BY <1>1, <2>3, <4>1 DEF Revoked, Token
      <4>3. ~Active(t) => ~Active(t)'
        BY <1>1 DEF Revoked, Active
      <4>. QED BY <4>2, <4>3 DEF Active
    <3>2. \A v \in Worker : Promotes(v) /\ job[v].want = t => job[v].tok = c
      BY <1>5, <2>2 DEF CancelBears
    <3>3. OnlySuccessor(t, c)'
      <4>1. OnlySuccessor(t, c)
        BY <1>5, <2>2 DEF CancelBears
      <4>. QED BY <1>2, <2>3, <3>2, <4>1, SuccessorStays
    <3>4. ASSUME NEW v \in Worker, Promotes(v)', job'[v].want = t PROVE job'[v].tok = c
      <4>1. job'[v] = job[v]
        BY <2>1, <3>4 DEF OthersKept, Promotes
      <4>. QED BY <1>2, <3>2, <3>4, <4>1, PromotesBefore
    <3>. QED BY <1>1, <1>5, <2>1, <2>2, <3>1, <3>3, <3>4 DEF CancelBears
  <2>6. JobBears(w)'
    <3>1. IsOf(t, "signup")' /\ IsOf(c, "signup")'
      BY <1>2, <2>2, OfStays
    <3>. QED BY <2>1, <2>5, <3>1 DEF JobBears, Minter, Promotes, Delivers, DeliverPlaces
  <2>7. OneMoves
    BY <2>1, <2>4, <2>6 DEF OneMoves
  <2>. QED BY <1>1, <1>2, <1>3, <2>7, FadeStep
<1>. QED BY <1>4, <1>5 DEF RevokeCurrent

LEMMA RevokeCandidateBears ==
    ASSUME Inv, Inv', Bearers, NEW w \in Worker, RevokeCandidate(w), UNCHANGED invites
    PROVE  Bearers'
<1>1. /\ mailed' = mailed /\ rows' = rows /\ Answer(w)
      /\ tokens' \in {tokens, Revoked(job[w].want), Discarded(job[w].want), Withdrawn(job[w].want)}
  BY DEF RevokeCandidate
<1>2. Fade
  BY <1>1, RevokedFades
<1>3. Calm
  BY <1>2, FadeTurns DEF TokensTurn
<1>. QED BY <1>1, <1>2, <1>3, SameRowsTurn, Answers, FadeStep

-----------------------------------------------------------------------------
(* A delivery is found unfinished                                            *)

LEMMA ReconcileBears ==
    ASSUME Inv, Inv', Bearers, NEW w \in Worker, Reconcile(w), UNCHANGED invites
    PROVE  Bearers'
<1>1. Fade /\ Calm /\ mailed' = mailed /\ tokens' = tokens /\ rows' = rows
  BY SameFades, FadeTurns DEF Reconcile, TokensTurn, othersUnchanged
<1>. DEFINE S == {q \in DOMAIN rows : rows[q].status \in {"issuing", "delivery_pending"}}
<1>. PICK r : r = First(S)
  OBVIOUS
<1>2. r \in DOMAIN rows /\ r \in Nat /\ rows[r].status \in {"issuing", "delivery_pending"}
  <2>1. S # {} /\ S \subseteq Nat
    <3>1. S # {}
      BY DEF Reconcile
    <3>2. rows \in Seq(Row)
      BY DEF Inv, Types, RowTypes
    <3>. QED BY <3>1, <3>2
  <2>2. r \in S
    <3>. HIDE DEF S
    <3>. QED BY <2>1, FirstIsOne
  <2>. QED BY <2>1, <2>2
<1>. PICK row \in Row : row = rows[r] /\ row.token \in Ref /\ row.rep.cand \in Ref /\ RowBears(r)
                        /\ row.gen \in Nat
  BY <1>2, RowFacts DEF Bearers
<1>. PICK t \in Nat : t = row.rep.cand /\ t \in Ref
  BY DEF Row
<1>. PICK p \in Nat : p = row.token /\ p \in Ref
  BY DEF Row
<1>. PICK g \in Nat : g = row.gen
  OBVIOUS
<1>. PICK place : place = IF row.rep.phase \in Mailed THEN IF p # 0 THEN "promote" ELSE "accept"
                          ELSE IF t # 0 THEN "drop" ELSE "reject"
  OBVIOUS
<1>. DEFINE j == [NoJob EXCEPT !.at = place, !.flow = "signup", !.row = r, !.gen = g,
                               !.tok = t, !.want = p, !.again = TRUE]
<1>3. job' = [job EXCEPT ![w] = j]
  BY DEF Reconcile, Mailed
<1>4. /\ j.at = place /\ j.flow = "signup" /\ j.row = r /\ j.gen = g /\ j.tok = t
      /\ j.want = p /\ j.again = TRUE
  BY DEF NoJob
<1>. HIDE DEF j, S
<1>5. OthersKept(w) /\ job'[w] = j
  BY <1>3, Starts
<1>6. Named(t, r) /\ Named(p, r)
  BY <1>2 DEF Named
<1>7. Harmless(w)
  <2>1. ASSUME NEW v \in Worker, Minter(v), job[v].tok = t PROVE place \in {"drop", "reject"}
    BY <1>2, <2>1 DEF Bearers, JobBears, MinterAlone
  <2>2. ASSUME NEW v \in Worker, Cancels(v), p = job[v].tok PROVE FALSE
    <3>1. /\ p \in DOMAIN tokens /\ rows[job[v].row].status = "cancelled"
          /\ Named(p, job[v].row) /\ job[v].row \in Nat
      BY <2>2, RefParts, JobFacts DEF Bearers, JobBears, CancelBears, Named, Job
    <3>. QED BY <1>2, <1>6, <3>1, SameNamed
  <2>. QED BY <1>4, <1>5, <1>6, <2>1, <2>2 DEF Harmless
<1>8. JobBears(w)'
  <2>1. IsOf(t, "signup")' /\ IsOf(p, "signup")'
    BY <1>1, OfStays DEF RowBears
  <2>2. DeliveryBears(w)'
    <3>1. t # 0 => tokens[t].pred = p /\ t \in DOMAIN tokens
      BY RefParts DEF RowBears
    <3>2. p = 0 /\ t # 0 => tokens[t].state # "candidate"
      BY <3>1 DEF Bearers, LinkSound
    <3>3. place = "promote" => t \in mailed
      BY DEF RowBears
    <3>. QED BY <1>1, <1>4, <1>5, <3>1, <3>2, <3>3 DEF DeliveryBears
  <2>3. place = "promote" => InTime(w)'
    BY <1>1, <1>4, <1>5 DEF InTime
  <2>4. place \in {"promote", "accept", "drop", "reject"}
    OBVIOUS
  <2>. QED BY <1>4, <1>5, <2>1, <2>2, <2>3, <2>4
           DEF JobBears, Minter, Promotes, Cancels, Delivers, DeliverPlaces
<1>9. OneMoves
  BY <1>5, <1>7, <1>8 DEF OneMoves
<1>10. RowsTurn
  BY <1>1, SameRowsTurn
<1>. QED BY <1>1, <1>9, <1>10, FadeStep

-----------------------------------------------------------------------------
(* Every step                                                                *)

LEMMA SignupWorkerBears ==
    ASSUME Inv, Inv', Bearers, NEW w \in Worker, SignupWorker(w)
    PROVE  Bearers'
<1>1. UNCHANGED invites
  BY DEF SignupWorker
<1>2. CASE SignupStep(w)
  BY <1>1, <1>2, BeginBears, MintBears, RecordCandidateBears, SubmitBears, RecordReceiptBears,
     PromoteBears, DropBears, RecordPromotedBears, FinishBears, AuthorizeBears, CancelRowBears,
     RevokeCurrentBears, RevokeCandidateBears, VerifyStepBears
  DEF SignupStep, DeliveryStep, CancelStep
<1>3. CASE SignupRequest(w)
  <2>1. mailed \subseteq DOMAIN tokens
    BY DEF Inv, Types, TokenTypes
  <2>2. CASE Reconcile(w)
    BY <1>1, <2>2, ReconcileBears
  <2>3. ASSUME NEW r, Initiate(w) \/ InitiateAgain(w, r) \/ Resend(w) PROVE Bearers'
    BY <1>1, <2>3, InitiateBears
  <2>4. ASSUME NEW t \in mailed, tokens[t].purpose = "signup", Cancel(w, t) PROVE Bearers'
    BY <1>1, <2>1, <2>4, CancelStarts
  <2>5. ASSUME NEW t \in mailed, tokens[t].purpose = "signup", NEW b \in Browser, Verify(w, t, b)
        PROVE  Bearers'
    BY <1>1, <2>1, <2>5, VerifyStarts
  <2>. QED BY <1>3, <2>2, <2>3, <2>4, <2>5 DEF SignupRequest
<1>. QED BY <1>2, <1>3 DEF SignupWorker

LEMMA InvitationWorkerBears ==
    ASSUME Inv, Inv', Bearers, NEW w \in Worker, InvitationWorker(w)
    PROVE  Bearers'
<1>1. UNCHANGED rows
  BY DEF InvitationWorker
<1>2. mailed \subseteq DOMAIN tokens
  BY DEF Inv, Types, TokenTypes
<1>3. CASE InviteStep(w)
  BY <1>1, <1>3, InviteStepsBear
<1>4. ASSUME NEW i \in DOMAIN invites, CreateAgain(w, i) \/ ResendInvite(w, i) \/ RevokeInvite(w, i)
      PROVE  Bearers'
  BY <1>1, <1>4, InviteStarts
<1>5. CASE Create(w)
  BY <1>1, <1>5, CreateBears
<1>6. ASSUME NEW t \in mailed, tokens[t].purpose = "invitation", NEW b \in Browser, Redeem(w, t, b)
      PROVE  Bearers'
  BY <1>1, <1>2, <1>6, RedeemBears
<1>. QED BY <1>3, <1>4, <1>5, <1>6 DEF InvitationWorker, InviteRequest

LEMMA NextBears ==
    ASSUME Inv, Inv', Bearers, [Next]_vars
    PROVE  Bearers'
<1>1. ASSUME NEW w \in Worker, WorkerDies(w) PROVE Bearers'
  BY <1>1, DieBears DEF WorkerDies
<1>2. CASE TimePasses
  <2>1. ASSUME NEW r \in DOMAIN rows, AgeRow(r), UNCHANGED invites PROVE Bearers'
    BY <2>1, SignupTimeBears
  <2>2. ASSUME NEW i \in DOMAIN invites, AgeInvite(i), UNCHANGED rows PROVE Bearers'
    BY <2>2, AgeInviteBears
  <2>3. ASSUME NEW t \in DOMAIN tokens, ExpireToken(t), UNCHANGED <<job, rows, invites>>
        PROVE  Bearers'
    BY <2>3, ExpireBears
  <2>. QED BY <1>2, <2>1, <2>2, <2>3 DEF TimePasses
<1>3. CASE UNCHANGED vars
  <2>1. Fade /\ mailed' = mailed /\ UNCHANGED <<rows, invites>> /\ OneMoves
    BY <1>3, SameFades DEF vars, OneMoves
  <2>2. RowsTurn
    BY <2>1, FadeTurns, SameRowsTurn DEF TokensTurn
  <2>. QED BY <2>1, <2>2, FadeStep
<1>. QED BY <1>1, <1>2, <1>3, SignupWorkerBears, InvitationWorkerBears DEF Next

LEMMA InitBears == ASSUME Init PROVE Bearers
<1>1. \A w \in Worker : JobBears(w)
  BY DEF Init, IdentityInit, NoJob, JobBears, Delivers, Cancels, Minter, Promotes, DeliverPlaces
<1>2. DOMAIN tokens = {} /\ DOMAIN rows = {} /\ DOMAIN invites = {}
  BY DEF Init, TokensInit
<1>. QED BY <1>1, <1>2 DEF Bearers, OneWorking, Working, NamesSound

LEMMA BearersHold == Spec => []Bearers
<1>1. Init => Bearers
  BY InitBears
<1>2. Inv /\ Inv' /\ Bearers /\ [Next]_vars => Bearers'
  BY NextBears
<1>. QED BY <1>1, <1>2, InvHolds, PTL DEF Spec

-----------------------------------------------------------------------------
(* Who loses a bearer                                                        *)

LEMMA WorkingKept ==
    ASSUME NEW p \in Working, p \in DOMAIN tokens', tokens'[p] = tokens[p]
    PROVE  p \in Working'
BY DEF Working, Active

LEMMA RevokedLost ==
    ASSUME Inv, NEW t, tokens' \in {tokens, Revoked(t), Discarded(t), Withdrawn(t)},
           NEW p \in Working, p \notin Working'
    PROVE  p = t /\ tokens' # Discarded(t)
<1>1. /\ p \in DOMAIN tokens /\ tokens[p].state = "active"
      /\ tokens' = tokens \/ tokens' = [tokens EXCEPT ![t].state = "revoked"]
  BY DEF Working, Active, Revoked, Discarded, Withdrawn
<1>2. p = t
  BY <1>1, WorkingKept
<1>3. Discarded(t) = tokens
  BY <1>1, <1>2 DEF Discarded
<1>. QED BY <1>1, <1>2, <1>3, WorkingKept

LEMMA DropLoses ==
    ASSUME Inv, Bearers, NEW w \in Worker, Drop(w), NEW r \in DOMAIN rows,
           rows[r].token \in Working, rows[r].token \notin Working'
    PROVE  Superseded(rows[r].token)
<1>. PICK p, t : p = rows[r].token /\ t = job[w].tok
  OBVIOUS
<1>1. /\ job[w].flow = "signup" /\ job[w].at \in {"drop", "dropUnrecorded", "discard"}
      /\ tokens' = IF job[w].want # 0 \/ job[w].at = "discard" THEN Discarded(t) ELSE Revoked(t)
  BY DEF Drop, At
<1>2. p = t /\ tokens' # Discarded(t)
  <2>1. tokens' \in {tokens, Revoked(t), Discarded(t), Withdrawn(t)}
    BY <1>1
  <2>. QED BY <2>1, RevokedLost
<1>3. job[w].want = 0 /\ job[w].at \in {"drop", "dropUnrecorded"}
  BY <1>1, <1>2
<1>4. ~Minter(w)
  BY <1>2 DEF Bearers, JobBears, MinterAlone
<1>5. job[w].again /\ At(w, "drop")
  BY <1>1, <1>3, <1>4 DEF Minter, At
<1>. QED BY <1>2, <1>3, <1>5 DEF Superseded

LEMMA CancelLoses ==
    ASSUME Inv, Bearers, NEW w \in Worker, RevokeCurrent(w) \/ RevokeCandidate(w),
           NEW r \in DOMAIN rows, rows[r].token \in Working, rows[r].token \notin Working'
    PROVE  Superseded(rows[r].token)
<1>. PICK p, t, c : p = rows[r].token /\ t = job[w].tok /\ c = job[w].want
  OBVIOUS
<1>1. /\ job[w].flow = "signup" /\ job[w].at \in {"revoke", "revokeCandidate"}
      /\ tokens' = IF job[w].at = "revoke" THEN Revoked(t) ELSE Withdrawn(c)
  BY DEF RevokeCurrent, RevokeCandidate, At
<1>2. Cancels(w) /\ CancelBears(w) /\ job[w].row \in DOMAIN rows /\ job[w].row \in Nat
  BY <1>1, JobFacts DEF Cancels, Bearers, JobBears, Job
<1>3. CASE job[w].at = "revoke"
  <2>1. p = t
    <3>1. tokens' \in {tokens, Revoked(t), Discarded(t), Withdrawn(t)}
      BY <1>1, <1>3
    <3>. QED BY <3>1, RevokedLost
  <2>. QED BY <1>2, <2>1 DEF Superseded, CancelBears
<1>4. CASE job[w].at = "revokeCandidate"
  <2>1. p = c
    <3>1. tokens' \in {tokens, Revoked(c), Discarded(c), Withdrawn(c)}
      BY <1>1, <1>4
    <3>. QED BY <3>1, RevokedLost
  <2>2. Named(c, r) /\ Named(c, job[w].row) /\ r \in Nat /\ c \in DOMAIN tokens
    BY <1>2, <2>1 DEF Named, Inv, Types, RowTypes, Working
  <2>3. r = job[w].row
    BY <1>2, <2>2, SameNamed
  <2>. QED BY <1>2, <2>1, <2>3 DEF CancelBears
<1>. QED BY <1>1, <1>3, <1>4

LEMMA PromoteLoses ==
    ASSUME Inv, Bearers, NEW w \in Worker, Promote(w), NEW p \in Working, p \notin Working'
    PROVE  Superseded(p)
<1>. PICK c, q : c = job[w].tok /\ q = job[w].want
  OBVIOUS
<1>1. At(w, "promote") /\ tokens' = IF MayPromote(c, q) THEN Promoted(c, q) ELSE tokens
  BY DEF Promote
<1>2. MayPromote(c, q)
  BY <1>1, WorkingKept DEF Working
<1>3. /\ DOMAIN tokens' = DOMAIN tokens /\ tokens'[c].state = "active" /\ q \in Working
      /\ c \in mailed /\ tokens'[c].pred = q /\ ~tokens'[c].expired
      /\ tokens'[c].purpose = "signup"
  BY <1>1, <1>2, PromotedTurns
<1>4. p = q
  BY <1>3 DEF Bearers, OneWorking
<1>5. c \in Working'
  BY <1>3 DEF Working, Active, Inv, Types, TokenTypes
<1>. QED BY <1>3, <1>4, <1>5 DEF Superseded

LEMMA BearerLost ==
    ASSUME Inv, Inv', Bearers, Next, NEW r \in DOMAIN rows,
           rows[r].token \in Working, rows[r].token \notin Working'
    PROVE  Superseded(rows[r].token)
<1>. PICK p \in Working : p = rows[r].token /\ p \in DOMAIN tokens
  BY DEF Working
<1>1. tokens' # tokens
  BY WorkingKept
<1>2. ASSUME NEW w \in Worker, SignupWorker(w) PROVE Superseded(p)
  <2>1. \/ Mint(w) \/ Promote(w) \/ Drop(w) \/ RevokeCurrent(w) \/ RevokeCandidate(w) \/ Consume(w)
    <3>1. ~SignupRequest(w)
      <4>1. ~Reconcile(w) /\ ~Initiate(w) /\ ~Resend(w)
        BY <1>1 DEF Reconcile, Initiate, Resend, othersUnchanged
      <4>2. ASSUME NEW t, NEW b PROVE ~InitiateAgain(w, t) /\ ~Cancel(w, t) /\ ~Verify(w, t, b)
        BY <1>1 DEF InitiateAgain, Cancel, Verify, othersUnchanged
      <4>. QED BY <4>1, <4>2 DEF SignupRequest
    <3>2. CASE DeliveryStep(w)
      <4>1. ~Begin(w) /\ ~RecordCandidate(w) /\ ~RecordReceipt(w) /\ ~RecordPromoted(w)
        BY <1>1 DEF Begin, RecordCandidate, RecordReceipt, RecordPromoted, othersUnchanged
      <4>2. ~Submit(w) /\ ~Finish(w)
        BY <1>1 DEF Submit, Finish, othersUnchanged
      <4>. QED BY <3>2, <4>1, <4>2 DEF DeliveryStep
    <3>3. CASE CancelStep(w)
      BY <1>1, <3>3 DEF CancelStep, Authorize, CancelRow, othersUnchanged
    <3>4. CASE VerifyStep(w)
      BY <1>1, <3>4 DEF VerifyStep, Reserve, Abandon, Release, RecordConsumed, Provision,
                        FundPlayer, ActivateUser, Finalize, othersUnchanged
    <3>. QED BY <1>2, <3>1, <3>2, <3>3, <3>4 DEF SignupWorker, SignupStep
  <2>2. CASE Mint(w)
    <3>1. \A t \in DOMAIN tokens : t \in DOMAIN tokens' /\ tokens'[t] = tokens[t]
      <4>1. PICK s \in {"candidate", "active"}, q \in Nat :
               tokens' = Append(tokens, Minted("signup", s, q))
        BY <1>1, <2>2, JobFacts DEF Mint, Issued, Prepared, Job
      <4>. QED BY <4>1, AppendedTokens DEF Purpose
    <3>. QED BY <3>1, WorkingKept
  <2>3. CASE Consume(w)
    <3>1. job[w].tok \in DOMAIN tokens
      BY <2>3, JobFacts DEF Consume, At, JobSound, Inv, Types, TokenTypes
    <3>2. tokens' = IF MayConsume(job[w].tok, job[w].by)
                    THEN Consumed(job[w].tok, job[w].by) ELSE tokens
      BY <2>3 DEF Consume
    <3>3. Fade /\ (tokens'[p] = tokens[p] \/ tokens'[p].state = "consumed")
      BY <3>1, <3>2, ConsumedFades
    <3>. QED BY <3>3, WorkingKept DEF Superseded, Fade
  <2>. QED BY <2>1, <2>2, <2>3, PromoteLoses, DropLoses, CancelLoses
<1>3. ASSUME NEW w \in Worker, InvitationWorker(w) PROVE Superseded(p)
  <2>1. MintInvite(w) \/ RevokeToken(w) \/ ConsumeInvitation(w)
    BY <1>1, <1>3
       DEF InvitationWorker, InviteRequest, InviteStep, SendStep, RedeemStep, Create, CreateAgain,
           ResendInvite, RevokeInvite, Redeem, BeginSend, RecordToken, SubmitInvite, RecordSent,
           ReserveInvited, AbandonRedemption, ReleaseInvited, RecordRedemption, ProvisionInvited,
           ActivateInvited, FinalizeRedemption, otherUnchanged
  <2>2. ~MintInvite(w)
    BY ReissuedTurns DEF MintInvite
  <2>3. CASE RevokeToken(w)
    <3>1. tokens' \in {tokens, Revoked(job[w].tok), Discarded(job[w].tok), Withdrawn(job[w].tok)}
          /\ job[w].flow = "invitation"
      BY <2>3 DEF RevokeToken, Doing
    <3>2. p = job[w].tok
      BY <3>1, RevokedLost
    <3>3. IsOf(p, "invitation") /\ p # 0
      BY <3>1, <3>2, RefParts DEF Bearers, JobBears
    <3>. QED BY <3>3 DEF IsOf, Working
  <2>4. CASE ConsumeInvitation(w)
    <3>1. job[w].tok \in DOMAIN tokens
      BY <2>4, JobFacts DEF ConsumeInvitation, Doing, JobSound, Inv, Types, TokenTypes
    <3>2. tokens' = IF MayConsume(job[w].tok, job[w].by)
                    THEN Consumed(job[w].tok, job[w].by) ELSE tokens
      BY <2>4 DEF ConsumeInvitation
    <3>3. Fade /\ (tokens'[p] = tokens[p] \/ tokens'[p].state = "consumed")
      BY <3>1, <3>2, ConsumedFades
    <3>. QED BY <3>3, WorkingKept DEF Superseded, Fade
  <2>. QED BY <2>1, <2>2, <2>3, <2>4
<1>4. ASSUME NEW w \in Worker, WorkerDies(w) PROVE FALSE
  BY <1>1, <1>4 DEF WorkerDies, Die
<1>5. CASE TimePasses
  <2>1. PICK t \in DOMAIN tokens : ExpireToken(t)
    BY <1>1, <1>5 DEF TimePasses, AgeRow, AgeInvite, othersUnchanged, otherUnchanged
  <2>2. Fade /\ (tokens'[p] = tokens[p] \/ tokens'[p].expired)
    BY <2>1, ExpiredFades
  <2>. QED BY <2>2, WorkingKept DEF Superseded, Fade
<1>. QED BY <1>2, <1>3, <1>4, <1>5 DEF Next

(* A bearer of a signup is handed over: there is one that works at a time, and *)
(* its row loses it only to time, to its use, to a cancellation or to a mailed *)
(* successor (promote_candidate swaps the two in one update), for any number   *)
(* of resends, repairs, cancellations and dying workers.                       *)
THEOREM BearersAreHandedOver == Spec => BearerHandover
<1>1. ASSUME Inv, Inv', Bearers, Bearers', [Next]_vars
      PROVE  [/\ Cardinality(Working') <= 1
              /\ \A r \in DOMAIN rows :
                    rows[r].token \in Working \ Working' => Superseded(rows[r].token)]_vars
  <2>1. Cardinality(Working') <= 1
    <3>1. CASE Working' = {}
      BY <3>1, FS_EmptySet
    <3>2. ASSUME NEW t \in Working' PROVE Cardinality(Working') <= 1
      <4>1. Working' = {t}
        BY <1>1, <3>2 DEF Bearers, OneWorking
      <4>. QED BY <4>1, FS_Singleton
    <3>. QED BY <3>1, <3>2
  <2>2. CASE Next
    BY <1>1, <2>1, <2>2, BearerLost
  <2>. QED BY <1>1, <2>2
<1>. QED BY <1>1, InvHolds, BearersHold, PTL DEF Spec, BearerHandover

LEMMA CancelDead ==
    ASSUME Inv, Inv', Bearers, NEW w \in Worker, RevokeCurrent(w) \/ RevokeCandidate(w),
           job'[w] = NoJob
    PROVE  /\ \A t \in Working' : t # job[w].tok
           /\ Orphaned(w) \/ \A t \in Working' : tokens'[t].pred # job[w].tok
<1>. PICK t, c : t = job[w].tok /\ c = job[w].want
  OBVIOUS
<1>1. /\ job[w].flow = "signup" /\ job[w].at \in {"revoke", "revokeCandidate"}
      /\ RevokeCurrent(w) <=> job[w].at = "revoke"
      /\ tokens' = IF job[w].at = "revoke" THEN Revoked(t) ELSE Withdrawn(c)
  BY DEF RevokeCurrent, RevokeCandidate, At
<1>2. CancelBears(w) /\ t \in Ref /\ c \in Ref
  BY <1>1, JobFacts DEF Cancels, Bearers, JobBears
<1>3. t \in DOMAIN tokens /\ t # 0
  BY <1>2, RefParts DEF CancelBears
<1>4. Fade
  BY <1>1, RevokedFades
<1>5. Working' \subseteq Working
  BY <1>4, FadeTurns
<1>6. ASSUME NEW q \in DOMAIN tokens, tokens' = Revoked(q) PROVE q \notin Working'
  <2>1. Active(q) => tokens'[q].state = "revoked"
    BY <1>6 DEF Revoked, Inv, Types, TokenTypes, Token
  <2>2. ~Active(q) => q \notin Working
    BY DEF Working
  <2>. QED BY <1>5, <2>1, <2>2 DEF Working, Active
<1>7. CASE job[w].at = "revoke"
  <2>1. t \notin Working'
    BY <1>1, <1>3, <1>6, <1>7
  <2>2. ASSUME NEW u \in Working', tokens'[u].pred = t PROVE Orphaned(w)
    <3>1. u \in DOMAIN tokens /\ tokens[u].state = "active" /\ tokens[u].pred = t
      BY <1>4, <1>5, <2>2 DEF Working, Active, Fade, Fades
    <3>2. tokens[t].state = "revoked"
      BY <1>3, <3>1 DEF Bearers, LinkSound
    <3>. QED BY <1>1, <1>7, <3>2 DEF Orphaned
  <2>. QED BY <2>1, <2>2
<1>8. CASE job[w].at = "revokeCandidate"
  <2>1. c # 0 /\ ~Active(t) /\ OnlySuccessor(t, c)
    BY <1>2, <1>8 DEF CancelBears
  <2>2. t \notin Working'
    BY <1>5, <2>1 DEF Working
  <2>3. ASSUME NEW u \in Working', tokens'[u].pred = t PROVE FALSE
    <3>1. u \in DOMAIN tokens /\ tokens[u].state = "active" /\ tokens[u].pred = t
      BY <1>4, <1>5, <2>3 DEF Working, Active, Fade, Fades
    <3>2. u = c
      BY <2>1, <3>1 DEF OnlySuccessor
    <3>3. tokens' = Revoked(c)
      BY <1>1, <1>8, <3>1, <3>2 DEF Withdrawn
    <3>. QED BY <1>6, <2>3, <3>1, <3>2, <3>3
  <2>. QED BY <2>2, <2>3
<1>. QED BY <1>1, <1>7, <1>8

(* When a cancellation is acknowledged (cancel: cancel_row, revoke of the      *)
(* bearer, then of a candidate promoted meanwhile) neither the bearer it was   *)
(* asked with works nor a successor of it, except for the orphan of a repaired *)
(* delivery, for any number of resends, repairs and dying workers.             *)
THEOREM CancelledBearersAreDead == Spec => CancelledIsDead
<1>1. ASSUME Inv, Inv', Bearers
      PROVE  \A w \in Worker :
                (RevokeCurrent(w) \/ RevokeCandidate(w)) /\ job'[w] = NoJob =>
                   /\ \A t \in Working' : t # job[w].tok
                   /\ Orphaned(w) \/ \A t \in Working' : tokens'[t].pred # job[w].tok
  BY <1>1, CancelDead
<1>2. ASSUME Inv, Inv', Bearers
      PROVE  [\A w \in Worker :
                (RevokeCurrent(w) \/ RevokeCandidate(w)) /\ job'[w] = NoJob =>
                   /\ \A t \in Working' : t # job[w].tok
                   /\ Orphaned(w) \/ \A t \in Working' : tokens'[t].pred # job[w].tok]_vars
  BY <1>1, <1>2
<1>. QED BY <1>2, InvHolds, BearersHold, PTL DEF Spec, CancelledIsDead
=============================================================================
