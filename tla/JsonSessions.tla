------------------------------- MODULE JsonSessions -------------------------------
(* Authentication sessions of the JSON provider, casino/core/storage/            *)
(* sessions_json.py, and the requests of casino/core/auth.py that use them.      *)
(*                                                                               *)
(* Every session is one file named by the digest of its bearer token.  Each      *)
(* provider operation runs alone, under the provider's lock and gate, but it     *)
(* changes one file at a time: a login unlinks the sessions it evicts and then   *)
(* writes its own, a rotation writes the replacement and then unlinks the row    *)
(* it replaces, a revocation of an account writes one row after another.  The    *)
(* process can die, or a file system call fail, between any two of them.         *)
(*                                                                               *)
(* A request authenticates in one operation and acts in a later one, so what it  *)
(* read may be stale by then.  Only tokens that were delivered are presented.    *)
(* Left out: CSRF values, guest nonces and the legacy document's import.  The    *)
(* tie-breaks of the eviction order (created_at, session_id) are an arbitrary    *)
(* choice, and a session's expiry is judged once per operation.                  *)
EXTENDS Naturals, FiniteSets, FiniteSetsExt

CONSTANTS Users,          \* accounts
          Ids,            \* session ids
          Tokens,         \* bearer tokens
          Requests,       \* requests in flight
          UserLimit,      \* sessions one account keeps
          TotalLimit,     \* sessions the store keeps
          MaxTime,        \* bound on the clock
          MaxFailures,    \* bound on cut operations
          NoRow,          \* no file of that name
          Idle            \* the gate is free, or the request slot is

ASSUME LimitsAssumption == /\ UserLimit \in Nat \ {0}
                           /\ TotalLimit \in Nat
                           /\ UserLimit <= TotalLimit
ASSUME BoundsAssumption == MaxTime \in Nat /\ MaxFailures \in Nat
ASSUME TokensAssumption == IsFiniteSet(Tokens)

Times == 0 .. MaxTime
Row == [id : Ids, user : Users, status : {"active", "revoked"}, generation : Nat, updated : Times]
ASSUME NoRowAssumption == NoRow \notin Row

\* One file written, or unlinked when its row is NoRow.
Change == [token : Tokens, row : Row \union {NoRow}]

\* A bearer token a client received, and the session and generation it stands for.
Credential == [token : Tokens, id : Ids, generation : Nat]

VARIABLES files,      \* the row in each token's file
          work,       \* the operation that holds the gate: what it still changes, then its reply
          pending,    \* what each authenticated request does next, and with which credential
          expired,    \* sessions past expires_at
          clock,      \* the current time
          failures,   \* operations cut so far
          drawn,      \* ids and tokens drawn so far: new_id and token_urlsafe never repeat
          given,      \* credentials delivered to clients
          revoked     \* sessions whose revocation was acknowledged

vars == <<files, work, pending, expired, clock, failures, drawn, given, revoked>>

Init == /\ files = [t \in Tokens |-> NoRow]
        /\ work = Idle
        /\ pending = [r \in Requests |-> Idle]
        /\ expired = {}
        /\ clock = 0
        /\ failures = 0
        /\ drawn = {}
        /\ given = {}
        /\ revoked = {}

-----------------------------------------------------------------------------------
(* Reading the store *)

Stored == {t \in Tokens : files[t] # NoRow}

Active(t) == files[t] # NoRow /\ files[t].status = "active"

\* _session_is_active: the token's row would authenticate a request.
Resolves(t) == Active(t) /\ files[t].id \notin expired

RowsOf(i) == {t \in Stored : files[t].id = i}

\* _session_rows_locked refuses a store where two rows share a session id.
Listable == \A i \in Ids : Cardinality(RowsOf(i)) <= 1

Survivors == {t \in Stored : Resolves(t)}
Owned(u) == {t \in Survivors : files[t].user = u}

\* The n least recently used of a set of rows, ties broken either way.
Oldest(set, n) == {old \in kSubset(n, set) :
                      \A t \in old, s \in set \ old : files[t].updated <= files[s].updated}

\* max(0, len - limit + 1): how many rows make room for one more.
NoRoom(set, limit) == IF Cardinality(set) <= limit THEN 0 ELSE Cardinality(set) - limit
Excess(set, limit) == IF Cardinality(set) < limit THEN 0 ELSE Cardinality(set) - limit + 1

NewestEvictions(set, limit) ==
  {set \ old : old \in Oldest(set, Cardinality(set) - Excess(set, limit))}
Evictions(set, limit) == Oldest(set, Excess(set, limit))

-----------------------------------------------------------------------------------
(* An operation of several file changes *)

Unlink(tokens) == {[token |-> t, row |-> NoRow] : t \in tokens}
Write(t, row) == {[token |-> t, row |-> row]}

\* The operation takes the gate with the changes it makes now, and those after.
Hold(op, who, todo) == work' = [op |-> op, who |-> who, now |-> todo.now, after |-> todo.after]

\* create_session: sessions no longer active go, then the least recently used over
\* the account's limit, then over the store's, and the new row is written last.
Login == \E u \in Users, i \in Ids, t \in Tokens :
  /\ work = Idle
  /\ Listable
  /\ {i, t} \cap drawn = {}
  /\ drawn' = drawn \union {i, t}
  /\ \E mine \in Evictions(Owned(u), UserLimit) :
       \E others \in Evictions(Survivors \ mine, TotalLimit) :
         LET row == [id |-> i, user |-> u, status |-> "active", generation |-> 1,
                     updated |-> clock]
         IN  Hold("login", [token |-> t, id |-> i, generation |-> 1],
                  [now |-> Unlink((Stored \ Survivors) \union mine \union others),
                   after |-> Write(t, row)])
  /\ UNCHANGED <<files, pending, expired, clock, failures, given, revoked>>

\* The stages of rotate_session: the replacement is written, then the old row goes.
WrittenOnly(old, new, row) == [now |-> Write(new, row), after |-> {}]
RotationStages(old, new, row) == [now |-> Write(new, row), after |-> Unlink({old})]

\* rotate_session still finds the row, active and at the expected generation.
MayRotate(c) == Active(c.token) /\ files[c.token].generation = c.generation

\* An authenticated request takes its next operation, the last on its session.
Acts(r) == /\ work = Idle
           /\ pending[r] # Idle
           /\ pending' = [pending EXCEPT ![r] = Idle]

\* rotate_mobile_session on behalf of an authenticated request.
Rotate(r) == \E new \in Tokens :
  LET c == pending[r]
      row == [files[c.token] EXCEPT !.generation = @ + 1, !.updated = clock]
  IN  /\ Acts(r)
      /\ MayRotate(c)
      /\ new \notin drawn
      /\ drawn' = drawn \union {new}
      /\ Hold("rotate", [token |-> new, id |-> c.id, generation |-> row.generation],
              RotationStages(c.token, new, row))
      /\ UNCHANGED <<files, expired, clock, failures, given, revoked>>

RevokedRow(t) == [files[t] EXCEPT !.status = "revoked", !.updated = clock]

\* revoke_sessions_for_user: one write per active row of the account.
RevokeUser == \E u \in Users :
  LET mine == {t \in Stored : Active(t) /\ files[t].user = u}
  IN  /\ work = Idle
      /\ Listable
      /\ mine # {}
      /\ Hold("revoke", {files[t].id : t \in mine},
              [now |-> {[token |-> t, row |-> RevokedRow(t)] : t \in mine}, after |-> {}])
      /\ UNCHANGED <<files, pending, expired, clock, failures, drawn, given, revoked>>

\* delete_sessions_for_user: one unlink per row of the account.
DeleteUser == \E u \in Users :
  LET mine == {t \in Stored : files[t].user = u}
  IN  /\ work = Idle
      /\ Listable
      /\ mine # {}
      /\ Hold("revoke", {files[t].id : t \in mine}, [now |-> Unlink(mine), after |-> {}])
      /\ UNCHANGED <<files, pending, expired, clock, failures, drawn, given, revoked>>

\* The holder makes one change of its current stage.
ChangeFile ==
  /\ work # Idle
  /\ \E c \in work.now \union work.after :
       /\ c \in work.now \/ work.now = {}
       /\ files' = [files EXCEPT ![c.token] = c.row]
       /\ work' = [work EXCEPT !.now = @ \ {c}, !.after = @ \ {c}]
  /\ UNCHANGED <<pending, expired, clock, failures, drawn, given, revoked>>

\* The operation returns: its credential is delivered, or its revocation is known.
Reply ==
  /\ work # Idle
  /\ work.now = {} /\ work.after = {}
  /\ work' = Idle
  /\ IF work.op = "revoke"
       THEN revoked' = revoked \union work.who /\ UNCHANGED given
       ELSE given' = given \union {work.who} /\ UNCHANGED revoked
  /\ UNCHANGED <<files, pending, expired, clock, failures, drawn>>

\* The process dies, or a file system call raises: the rest is never done and no
\* answer leaves.
Cut ==
  /\ work # Idle
  /\ failures < MaxFailures
  /\ work' = Idle
  /\ failures' = failures + 1
  /\ UNCHANGED <<files, pending, expired, clock, drawn, given, revoked>>

-----------------------------------------------------------------------------------
(* Requests: authenticated in one operation, acting in a later one *)

\* authenticate_token reads the row of the token; what the request does next is
\* chosen when it does it.
Authenticate(r) == \E c \in given :
  /\ work = Idle
  /\ pending[r] = Idle
  /\ Resolves(c.token)
  /\ pending' = [pending EXCEPT ![r] = c]
  /\ UNCHANGED <<files, work, expired, clock, failures, drawn, given, revoked>>

TouchedActive(t) == [files[t] EXCEPT !.updated = clock, !.status = "active"]
TouchedAhead(t) == [files[t] EXCEPT !.updated = clock + 1]
Touched(t) == [files[t] EXCEPT !.updated = clock]

\* update_session with touch_account_session or touch_guest_session: it finds the
\* row by session id and stamps whatever row is there now.
Touch(r) ==
  /\ Acts(r)
  /\ Listable
  /\ \E t \in RowsOf(pending[r].id) : files' = [files EXCEPT ![t] = Touched(t)]
  /\ UNCHANGED <<work, expired, clock, failures, drawn, given, revoked>>

\* revoke_session_by_id: the idle policy, an operator, or a client by alias.
IdleRevoke(r) ==
  /\ Acts(r)
  /\ Listable
  /\ \E t \in RowsOf(pending[r].id) :
       /\ Active(t)
       /\ files' = [files EXCEPT ![t] = RevokedRow(t)]
  /\ revoked' = revoked \union {pending[r].id}
  /\ UNCHANGED <<work, expired, clock, failures, drawn, given>>

\* logout: revoke_session_by_token, which looks at this token's row only.
Logout(r) ==
  LET t == pending[r].token
  IN  /\ Acts(r)
      /\ Active(t)
      /\ files' = [files EXCEPT ![t] = RevokedRow(t)]
      /\ revoked' = revoked \union {files[t].id}
      /\ UNCHANGED <<work, expired, clock, failures, drawn, given>>

\* The request has nothing to do with its session, or the operation refuses: its
\* row is gone or no longer active, or the store cannot be listed.
Finish(r) ==
  /\ Acts(r)
  /\ UNCHANGED <<files, work, expired, clock, failures, drawn, given, revoked>>

-----------------------------------------------------------------------------------

Tick == /\ work = Idle
        /\ clock < MaxTime
        /\ clock' = clock + 1
        /\ UNCHANGED <<files, work, pending, expired, failures, drawn, given, revoked>>

\* A session passes its absolute lifetime.
Expire == \E t \in Survivors :
  /\ work = Idle
  /\ expired' = expired \union {files[t].id}
  /\ UNCHANGED <<files, work, pending, clock, failures, drawn, given, revoked>>

Next == \/ Login \/ RevokeUser \/ DeleteUser
        \/ ChangeFile \/ Reply \/ Cut
        \/ \E r \in Requests : \/ Authenticate(r) \/ Touch(r) \/ IdleRevoke(r)
                               \/ Rotate(r) \/ Logout(r) \/ Finish(r)
        \/ Tick \/ Expire

Spec == Init /\ [][Next]_vars

-----------------------------------------------------------------------------------
(* Properties *)

\* Every variable stays in its set.
TypeOK == /\ files \in [Tokens -> Row \union {NoRow}]
          /\ work = Idle \/ /\ work.op \in {"login", "rotate", "revoke"}
                            /\ work.now \subseteq Change /\ work.after \subseteq Change
          /\ pending \in [Requests -> Credential \union {Idle}]
          /\ expired \subseteq Ids
          /\ clock \in Times
          /\ failures \in 0 .. MaxFailures
          /\ drawn \subseteq Ids \union Tokens
          /\ given \subseteq Credential
          /\ revoked \subseteq Ids

\* Once a revocation was acknowledged, no credential ever delivered for that
\* session works again: not by a touch of a request authenticated before, not by
\* a rotation that was under way, not after a cut operation.
\* (auth.py authenticate_token and logout, sessions_json.py update_session)
RevokedStaysOut == \A c \in given : c.id \in revoked => ~Resolves(c.token)

\* Of the credentials delivered for one session at most one works, and one
\* generation is delivered once, however many requests rotate it at a time and
\* wherever a rotation is cut.
\* (sessions_json.py rotate_session)
OneWinner == \A c, d \in given :
                /\ c.id = d.id
                /\ c.generation = d.generation \/ (Resolves(c.token) /\ Resolves(d.token))
                => c = d

\* Between operations no account and no store holds more usable sessions than its
\* limit, with cut logins and cut rotations included.
\* (sessions_json.py create_session)
LimitsHold == work = Idle =>
                 /\ \A u \in Users : Cardinality({files[t].id : t \in Owned(u)}) <= UserLimit
                 /\ Cardinality({files[t].id : t \in Survivors}) <= TotalLimit

\* A login ends a usable session only to make room: its account, or the whole
\* store, is at the limit, and no session that stays was used less recently.
\* (sessions_json.py create_session)
LoginsCoexist ==
  [][work # Idle /\ work.op = "login" => \A t \in Tokens :
       Resolves(t) /\ files'[t] = NoRow =>
         LET mine == Owned(files[t].user)
         IN  \/ /\ Cardinality(mine) >= UserLimit
                /\ \A s \in mine : files[s].updated >= files[t].updated
             \/ /\ Cardinality(Survivors) >= TotalLimit
                /\ \A s \in Survivors : files[s].updated >= files[t].updated]_vars

\* Between operations a session is held by one bearer at most, the delivered one
\* or one whose response was lost.
\* (docs: SESSION-013; sessions_json.py:356-358)
OneCredential == work = Idle => \A t, s \in Survivors : files[t].id = files[s].id => t = s
===============================================================================
