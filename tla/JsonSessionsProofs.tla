--------------------------- MODULE JsonSessionsProofs ---------------------------
(* That a revoked session stays out, that a rotation has one winner, and that    *)
(* logins keep to the limits and end no session they need not, for every number  *)
(* of accounts, sessions, tokens, requests in flight and cut operations.         *)
(*                                                                               *)
(* The first half follows the credentials of a session: of those delivered, only *)
(* the youngest generation has a file, and what the operation under way still    *)
(* changes touches no other.  The second half counts session ids.                *)
EXTENDS JsonSessions, FiniteSetTheorems, TLAPS

Operation ==
    [op : {"login", "rotate"}, who : Credential, now : SUBSET Change, after : SUBSET Change]
    \union
    [op : {"revoke"}, who : SUBSET Ids, now : SUBSET Change, after : SUBSET Change]

Types == TypeOK /\ (work # Idle => work \in Operation)

\* Nothing stored, delivered or revoked was never drawn.
Drawn ==
    /\ \A t \in Stored : t \in drawn /\ files[t].id \in drawn
    /\ \A c \in given : c.token \in drawn /\ c.id \in drawn
    /\ revoked \subseteq drawn

\* A credential's file holds its session and generation.
Holds(c) ==
    files[c.token] # NoRow =>
        files[c.token].id = c.id /\ files[c.token].generation = c.generation

\* Each generation is delivered once, and none but the youngest has a file.
Lineage ==
    \A c, d \in given : c.id = d.id =>
        /\ c.generation = d.generation => c = d
        /\ c.generation < d.generation => files[c.token] = NoRow

RevokedIsInactive == \A c \in given : c.id \in revoked => ~Active(c.token)

RequestsSound == \A r \in Requests : pending[r] # Idle => pending[r] \in given

Changes == work.now \union work.after

\* The new credential of a login or rotation under way.
DeliverySound ==
    LET new == work.who IN
    /\ new \in Credential /\ new.token \in drawn /\ new.id \in drawn \ revoked
    /\ Holds(new)
    /\ \A c \in given : c.token # new.token
    /\ \A ch \in Changes : ch.row # NoRow =>
            ch.token = new.token /\ ch.row.id = new.id /\ ch.row.generation = new.generation
    /\ \A c \in given : c.id = new.id =>
            /\ c.generation < new.generation
            /\ files[c.token] = NoRow \/ [token |-> c.token, row |-> NoRow] \in Changes

\* A revocation under way: every row of its sessions that is active comes up.
RevocationSound ==
    /\ work.after = {} /\ work.who \subseteq drawn
    /\ \A ch \in work.now : ch.token \in Stored
    /\ \A ch, other \in work.now : ch.token = other.token => ch = other
    /\ \A ch \in work.now : ch.row # NoRow =>
            ch.row.status = "revoked" /\ ch.token \in drawn /\ ch.row.id \in drawn
    /\ \A c \in given, ch \in work.now : ch.token = c.token /\ ch.row # NoRow =>
            ch.row.id = c.id /\ ch.row.generation = c.generation
    /\ \A t \in Tokens : Active(t) /\ files[t].id \in work.who =>
            \E ch \in work.now : ch.token = t

CredInv ==
    /\ Types /\ Drawn /\ Lineage /\ RequestsSound /\ RevokedIsInactive
    /\ \A c \in given : Holds(c)
    /\ work # Idle /\ work.op # "revoke" => DeliverySound
    /\ work # Idle /\ work.op = "revoke" => RevocationSound

---------------------------------------------------------------------------------
\* A set of at most one element.
LEMMA AtMostOne ==
    ASSUME NEW S, IsFiniteSet(S), Cardinality(S) <= 1, NEW x \in S, NEW y \in S
    PROVE  x = y
<1>1. SUFFICES ASSUME x # y PROVE FALSE
  OBVIOUS
<1>2. IsFiniteSet({x}) /\ Cardinality({x}) = 1
  BY FS_Singleton
<1>3. Cardinality({x} \union {y}) = 2
  BY <1>1, <1>2, FS_AddElement
<1>4. ({x} \union {y}) \in SUBSET S
  OBVIOUS
<1>5. Cardinality({x} \union {y}) <= Cardinality(S)
  BY <1>4, FS_Subset
<1>6. Cardinality(S) \in Nat
  BY FS_CardinalityType
<1> QED BY <1>3, <1>5, <1>6

\* In a store that can be listed a session has one row.
LEMMA OneRowPerId ==
    ASSUME files \in [Tokens -> Row \union {NoRow}], Listable,
           NEW t \in Stored, NEW s \in Stored, files[t].id = files[s].id
    PROVE  t = s
<1>1. RowsOf(files[t].id) \in SUBSET Tokens /\ {t, s} \subseteq RowsOf(files[t].id)
  BY DEF RowsOf, Stored
<1>2. files[t] \in Row /\ files[t].id \in Ids
  BY DEF Stored, Row
<1>3. Cardinality(RowsOf(files[t].id)) <= 1
  BY <1>2 DEF Listable
<1>4. IsFiniteSet(RowsOf(files[t].id))
  BY <1>1, TokensAssumption, FS_Subset
<1> QED BY <1>1, <1>3, <1>4, AtMostOne

\* What is evicted is some of what was there.
LEMMA EvictsSome == ASSUME NEW set, NEW limit, NEW gone \in Evictions(set, limit) PROVE gone \subseteq set
BY DEF Evictions, Oldest, kSubset

\* A login draws an id and a token, and removes rows of the store before it writes its own.
LEMMA LoginSteps ==
    ASSUME Login
    PROVE  \E u \in Users, i \in Ids, t \in Tokens, mine \in SUBSET Tokens, others \in SUBSET Tokens :
             /\ {i, t} \cap drawn = {}
             /\ drawn' = drawn \union {i, t}
             /\ Hold("login", [token |-> t, id |-> i, generation |-> 1],
                     [now |-> Unlink((Stored \ Survivors) \union mine \union others),
                      after |-> Write(t, [id |-> i, user |-> u, status |-> "active",
                                          generation |-> 1, updated |-> clock])])
<1>1. PICK u \in Users, i \in Ids, t \in Tokens :
          /\ {i, t} \cap drawn = {}
          /\ drawn' = drawn \union {i, t}
          /\ \E mine \in Evictions(Owned(u), UserLimit) :
                \E others \in Evictions(Survivors \ mine, TotalLimit) :
                  Hold("login", [token |-> t, id |-> i, generation |-> 1],
                       [now |-> Unlink((Stored \ Survivors) \union mine \union others),
                        after |-> Write(t, [id |-> i, user |-> u, status |-> "active",
                                            generation |-> 1, updated |-> clock])])
  BY DEF Login
<1>2. PICK mine \in Evictions(Owned(u), UserLimit) :
          \E others \in Evictions(Survivors \ mine, TotalLimit) :
            Hold("login", [token |-> t, id |-> i, generation |-> 1],
                 [now |-> Unlink((Stored \ Survivors) \union mine \union others),
                  after |-> Write(t, [id |-> i, user |-> u, status |-> "active",
                                      generation |-> 1, updated |-> clock])])
  BY <1>1
<1>3. PICK others \in Evictions(Survivors \ mine, TotalLimit) :
          Hold("login", [token |-> t, id |-> i, generation |-> 1],
               [now |-> Unlink((Stored \ Survivors) \union mine \union others),
                after |-> Write(t, [id |-> i, user |-> u, status |-> "active",
                                    generation |-> 1, updated |-> clock])])
  BY <1>2
<1>4. mine \subseteq Owned(u) /\ others \subseteq Survivors \ mine
  BY EvictsSome
<1>5. mine \in SUBSET Tokens /\ others \in SUBSET Tokens
  BY <1>4 DEF Owned, Survivors, Stored
<1> QED BY <1>1, <1>3, <1>5

LEMMA CredInit == Init => CredInv
BY BoundsAssumption, NoRowAssumption
   DEF Init, CredInv, Types, TypeOK, Drawn, Lineage, RequestsSound, RevokedIsInactive, Stored, Times

\* Types.
LEMMA TypesNext == Types /\ [Next]_vars => Types'
<1>. SUFFICES ASSUME Types, [Next]_vars PROVE Types'
  OBVIOUS
<1>. USE BoundsAssumption
<1>1. CASE UNCHANGED vars
  BY <1>1 DEF vars, Types, TypeOK
<1>2. ASSUME Login PROVE Types'
  <2>1. PICK u \in Users, i \in Ids, t \in Tokens, mine \in SUBSET Tokens, others \in SUBSET Tokens :
            /\ drawn' = drawn \union {i, t}
            /\ Hold("login", [token |-> t, id |-> i, generation |-> 1],
                    [now |-> Unlink((Stored \ Survivors) \union mine \union others),
                     after |-> Write(t, [id |-> i, user |-> u, status |-> "active",
                                         generation |-> 1, updated |-> clock])])
    BY <1>2, LoginSteps
  <2>2. Unlink((Stored \ Survivors) \union mine \union others) \subseteq Change
    BY DEF Unlink, Change, Stored
  <2>3. Write(t, [id |-> i, user |-> u, status |-> "active", generation |-> 1, updated |-> clock])
            \subseteq Change
    BY DEF Write, Change, Row, Types, TypeOK
  <2>4. work' \in Operation
    BY <2>1, <2>2, <2>3 DEF Hold, Operation, Credential
  <2> QED BY <1>2, <2>1, <2>4 DEF Login, Types, TypeOK, Operation
<1>3. ASSUME NEW r \in Requests, Rotate(r) PROVE Types'
  <2>1. PICK new \in Tokens :
            LET c == pending[r]
                row == [files[c.token] EXCEPT !.generation = @ + 1, !.updated = clock] IN
            /\ pending[r] # Idle /\ MayRotate(c)
            /\ pending' = [pending EXCEPT ![r] = Idle]
            /\ drawn' = drawn \union {new}
            /\ Hold("rotate", [token |-> new, id |-> c.id, generation |-> row.generation],
                    RotationStages(c.token, new, row))
    BY <1>3 DEF Rotate, Acts
  <2>2. pending[r] \in Credential
    BY <2>1 DEF Types, TypeOK
  <2>3. files[pending[r].token] \in Row
    BY <2>1, <2>2 DEF Types, TypeOK, MayRotate, Active, Credential
  <2>. DEFINE row == [files[pending[r].token] EXCEPT !.generation = @ + 1, !.updated = clock]
  <2>4. row \in Row
    <3>1. /\ files[pending[r].token].generation + 1 \in Nat
          /\ clock \in Times
      BY <2>3 DEF Row, Types, TypeOK
    <3> HIDE DEF Types
    <3>2. \A g \in Nat, x \in Row, u \in Times :
             [[x EXCEPT !.generation = g] EXCEPT !.updated = u] \in Row
      BY DEF Row
    <3> QED BY <2>3, <3>1, <3>2
  <2>5. Write(new, row) \subseteq Change /\ Unlink({pending[r].token}) \subseteq Change
    BY <2>2, <2>4 DEF Write, Unlink, Change, Credential
  <2>6. work' \in Operation
    <3>1. work' = [op |-> "rotate",
                   who |-> [token |-> new, id |-> pending[r].id, generation |-> row.generation],
                   now |-> Write(new, row), after |-> Unlink({pending[r].token})]
      BY <2>1 DEF Hold, RotationStages
    <3>2. [token |-> new, id |-> pending[r].id, generation |-> row.generation] \in Credential
      BY <2>2, <2>4 DEF Credential, Row
    <3> HIDE DEF row
    <3> QED BY <3>1, <3>2, <2>5 DEF Operation
  <2> QED BY <1>3, <2>1, <2>6 DEF Rotate, Types, TypeOK, Operation
<1>4. ASSUME RevokeUser PROVE Types'
  <2>1. PICK mine \in SUBSET Stored :
            Hold("revoke", {files[t].id : t \in mine},
                 [now |-> {[token |-> t, row |-> RevokedRow(t)] : t \in mine}, after |-> {}])
    BY <1>4 DEF RevokeUser
  <2>2. \A t \in mine : t \in Tokens /\ files[t] \in Row /\ RevokedRow(t) \in Row
    BY DEF Stored, Types, TypeOK, Row, RevokedRow
  <2>3. work' \in Operation
    BY <2>1, <2>2 DEF Hold, Operation, Change, Row
  <2> QED BY <1>4, <2>3 DEF RevokeUser, Types, TypeOK, Operation
<1>5. ASSUME DeleteUser PROVE Types'
  <2>1. PICK mine \in SUBSET Stored :
            Hold("revoke", {files[t].id : t \in mine}, [now |-> Unlink(mine), after |-> {}])
    BY <1>5 DEF DeleteUser
  <2>2. \A t \in mine : t \in Tokens /\ files[t].id \in Ids
    BY DEF Stored, Types, TypeOK, Row
  <2>3. work' \in Operation
    BY <2>1, <2>2 DEF Hold, Operation, Change, Unlink
  <2> QED BY <1>5, <2>3 DEF DeleteUser, Types, TypeOK, Operation
<1>6. ASSUME ChangeFile PROVE Types'
  <2>1. PICK c \in work.now \union work.after :
            /\ files' = [files EXCEPT ![c.token] = c.row]
            /\ work' = [work EXCEPT !.now = @ \ {c}, !.after = @ \ {c}]
    BY <1>6 DEF ChangeFile
  <2>2. work \in Operation
    BY <1>6 DEF ChangeFile, Types
  <2>3. work' \in Operation
    BY <2>1, <2>2 DEF Operation
  <2>4. c \in Change
    BY <2>2 DEF Operation
  <2>5. files' \in [Tokens -> Row \union {NoRow}]
    BY <2>1, <2>4 DEF Change, Types, TypeOK
  <2> QED BY <1>6, <2>3, <2>5 DEF ChangeFile, Types, TypeOK, Operation
<1>7. ASSUME Reply PROVE Types'
  <2>1. work.op # "revoke" => work.who \in Credential
    BY <1>7 DEF Reply, Types, Operation
  <2>2. work.op = "revoke" => work.who \subseteq Ids
    BY <1>7 DEF Reply, Types, Operation
  <2> QED BY <1>7, <2>1, <2>2 DEF Reply, Types, TypeOK
<1>8. ASSUME Cut PROVE Types'
  BY <1>8 DEF Cut, Types, TypeOK
<1>9. ASSUME NEW r \in Requests, Authenticate(r) PROVE Types'
  BY <1>9 DEF Authenticate, Types, TypeOK
<1>10. ASSUME NEW r \in Requests, NEW t \in Stored,
              files' = [files EXCEPT ![t] = Touched(t)] \/ files' = [files EXCEPT ![t] = RevokedRow(t)]
       PROVE  files' \in [Tokens -> Row \union {NoRow}]
  <2>1. files[t] \in Row
    BY DEF Stored, Types, TypeOK
  <2>2. Touched(t) \in Row /\ RevokedRow(t) \in Row
    BY <2>1 DEF Row, Touched, RevokedRow, Types, TypeOK
  <2> QED BY <2>2, <1>10 DEF Types, TypeOK
<1>11. ASSUME NEW r \in Requests, Touch(r) PROVE Types'
  BY <1>11, <1>10 DEF Touch, Acts, RowsOf, Types, TypeOK
<1>12. ASSUME NEW r \in Requests, IdleRevoke(r) PROVE Types'
  BY <1>12, <1>10 DEF IdleRevoke, Acts, RowsOf, Types, TypeOK, Credential
<1>13. ASSUME NEW r \in Requests, Logout(r) PROVE Types'
  <2>1. pending[r].token \in Stored
    BY <1>13 DEF Logout, Acts, Active, Types, TypeOK, Credential, Stored
  <2>2. files[pending[r].token].id \in Ids
    BY <2>1 DEF Stored, Types, TypeOK, Row
  <2> QED BY <1>13, <1>10, <2>1, <2>2 DEF Logout, Acts, Types, TypeOK
<1>14. ASSUME NEW r \in Requests, Finish(r) PROVE Types'
  BY <1>14 DEF Finish, Acts, Types, TypeOK
<1>15. ASSUME Tick PROVE Types'
  BY <1>15 DEF Tick, Types, TypeOK, Times
<1>16. ASSUME Expire PROVE Types'
  BY <1>16 DEF Expire, Types, TypeOK, Survivors, Stored, Row
<1> QED
  BY <1>1, <1>2, <1>3, <1>4, <1>5, <1>6, <1>7, <1>8, <1>9, <1>11, <1>12, <1>13, <1>14, <1>15, <1>16
     DEF Next

---------------------------------------------------------------------------------
(* Credentials *)

\* Steps that change no file, credential or operation.
LEMMA CredKept ==
    ASSUME CredInv, Types', UNCHANGED <<files, work, given, revoked, drawn>>, RequestsSound'
    PROVE  CredInv'
BY DEF CredInv, Drawn, Lineage, RevokedIsInactive, Holds, DeliverySound, RevocationSound,
       Changes, Stored, Active

\* A step that only stamps, or revokes, one row.
LEMMA CredStamped ==
    ASSUME CredInv, Types', RequestsSound', work = Idle, work' = Idle,
           UNCHANGED <<given, drawn>>,
           NEW t \in Stored, files' = [files EXCEPT ![t] = Touched(t)]
                             \/ files' = [files EXCEPT ![t] = RevokedRow(t)],
           revoked' \subseteq drawn,
           \A c \in given : c.id \in revoked' => ~Active(c.token)'
    PROVE  CredInv'
<1>1. files[t] \in Row /\ Touched(t) \in Row /\ RevokedRow(t) \in Row
  <2>1. files[t] \in Row /\ clock \in Times
    BY DEF CredInv, Types, TypeOK, Stored
  <2> QED BY <2>1 DEF Row, Touched, RevokedRow
<1>2. /\ Touched(t).id = files[t].id /\ Touched(t).generation = files[t].generation
      /\ RevokedRow(t).id = files[t].id /\ RevokedRow(t).generation = files[t].generation
  BY <1>1 DEF Row, Touched, RevokedRow
<1>3. \A s \in Tokens :
        /\ files'[s] = NoRow <=> files[s] = NoRow
        /\ files[s] # NoRow => files'[s].id = files[s].id
                               /\ files'[s].generation = files[s].generation
  BY <1>1, <1>2, NoRowAssumption DEF CredInv, Types, TypeOK, Stored
<1>4. \A c \in given : c.token \in Tokens
  BY DEF CredInv, Types, TypeOK, Credential
<1> QED BY <1>3, <1>4 DEF CredInv, Drawn, Lineage, RevokedIsInactive, Holds, Stored

LEMMA CredLogin == CredInv /\ Login /\ Types' => CredInv'
<1>. SUFFICES ASSUME CredInv, Login, Types' PROVE CredInv'
  OBVIOUS
<1>1. PICK u \in Users, i \in Ids, t \in Tokens, mine \in SUBSET Tokens, others \in SUBSET Tokens :
          /\ {i, t} \cap drawn = {}
          /\ drawn' = drawn \union {i, t}
          /\ Hold("login", [token |-> t, id |-> i, generation |-> 1],
                  [now |-> Unlink((Stored \ Survivors) \union mine \union others),
                   after |-> Write(t, [id |-> i, user |-> u, status |-> "active",
                                       generation |-> 1, updated |-> clock])])
  BY LoginSteps
<1>2. UNCHANGED <<files, pending, given, revoked>>
  BY DEF Login
<1>3. /\ work'.op = "login" /\ work'.who = [token |-> t, id |-> i, generation |-> 1]
      /\ \A ch \in Changes' : ch.row # NoRow =>
            ch.token = t /\ ch.row.id = i /\ ch.row.generation = 1
  BY <1>1 DEF Hold, Changes, Unlink, Write
<1>4. files[t] = NoRow
  BY <1>1 DEF CredInv, Drawn, Stored
<1>5. \A c \in given : c.token # t /\ c.id # i
  BY <1>1 DEF CredInv, Drawn
<1>6. DeliverySound'
  BY <1>1, <1>2, <1>3, <1>4, <1>5 DEF DeliverySound, Holds, Credential, CredInv, Drawn
<1> QED BY <1>1, <1>2, <1>3, <1>6 DEF CredInv, Drawn, Lineage, RequestsSound, RevokedIsInactive,
       Holds, Stored, Active

LEMMA CredRotate ==
    ASSUME NEW r \in Requests, CredInv, Rotate(r), Types'
    PROVE  CredInv'
<1>. DEFINE c == pending[r]
            row == [files[c.token] EXCEPT !.generation = @ + 1, !.updated = clock]
<1>1. PICK new \in Tokens :
          /\ pending' = [pending EXCEPT ![r] = Idle]
          /\ MayRotate(c) /\ c # Idle
          /\ new \notin drawn
          /\ drawn' = drawn \union {new}
          /\ Hold("rotate", [token |-> new, id |-> c.id, generation |-> row.generation],
                  RotationStages(c.token, new, row))
  BY DEF Rotate, Acts
<1>2. UNCHANGED <<files, given, revoked>>
  BY DEF Rotate
<1>3. c \in given /\ c \in Credential
  BY <1>1 DEF CredInv, RequestsSound, Types, TypeOK
<1>4. /\ files[c.token] \in Row /\ files[c.token] # NoRow /\ Active(c.token)
      /\ files[c.token].id = c.id /\ files[c.token].generation = c.generation
  BY <1>1, <1>3 DEF CredInv, Types, TypeOK, MayRotate, Active, Credential, Holds
<1>5. row.id = c.id /\ row.generation = c.generation + 1 /\ c.generation \in Nat
  BY <1>3, <1>4 DEF Row, Credential
<1>. HIDE DEF row
<1>6. /\ work'.op = "rotate" /\ work'.who = [token |-> new, id |-> c.id, generation |-> row.generation]
      /\ Changes' = {[token |-> new, row |-> row], [token |-> c.token, row |-> NoRow]}
  BY <1>1 DEF Hold, RotationStages, Changes, Write, Unlink
<1>7. files[new] = NoRow /\ \A d \in given : d.token # new
  BY <1>1 DEF CredInv, Drawn, Stored
<1>8. \A d \in given : d.id = c.id => d = c \/ (d.generation < c.generation /\ files[d.token] = NoRow)
  <2>1. \A d \in given : d.generation \in Nat
    BY DEF CredInv, Types, TypeOK, Credential
  <2> QED BY <1>3, <1>4, <1>5, <2>1 DEF CredInv, Lineage
<1>9. c.id \in drawn \ revoked
  BY <1>3, <1>4 DEF CredInv, Drawn, RevokedIsInactive
<1>10. DeliverySound'
  <2>1. \A d \in given : d.id = c.id =>
            /\ d.generation < row.generation
            /\ files[d.token] = NoRow \/ [token |-> d.token, row |-> NoRow] \in Changes'
    <3>1. \A d \in given : d.generation \in Nat
      BY DEF CredInv, Types, TypeOK, Credential
    <3> QED BY <3>1, <1>5, <1>6, <1>8
  <2>2. work'.who \in Credential
    BY <1>3, <1>5, <1>6 DEF Credential
  <2> QED BY <1>1, <1>2, <1>5, <1>6, <1>7, <1>9, <2>1, <2>2 DEF DeliverySound, Holds
<1> QED BY <1>1, <1>2, <1>6, <1>10 DEF CredInv, Drawn, Lineage, RequestsSound, RevokedIsInactive,
       Holds, Stored, Active

\* The revocations of an account take every row of the sessions they name.
LEMMA CredRevoke ==
    ASSUME CredInv, Listable, Types', NEW mine \in SUBSET Stored,
           Hold("revoke", {files[t].id : t \in mine},
                [now |-> {[token |-> t, row |-> RevokedRow(t)] : t \in mine}, after |-> {}])
           \/ Hold("revoke", {files[t].id : t \in mine}, [now |-> Unlink(mine), after |-> {}]),
           UNCHANGED <<files, pending, drawn, given, revoked>>
    PROVE  CredInv'
<1>1. /\ work'.op = "revoke" /\ work'.who = {files[t].id : t \in mine} /\ work'.after = {}
      /\ \A ch \in work'.now : ch.token \in mine /\ (ch.row # NoRow => ch.row = RevokedRow(ch.token))
      /\ \A t \in mine : \E ch \in work'.now : ch.token = t
      /\ \A ch, other \in work'.now : ch.token = other.token => ch = other
  <2>1. ASSUME NEW f, work'.now = {[token |-> t, row |-> f[t]] : t \in mine},
               \A t \in mine : f[t] = NoRow \/ f[t] = RevokedRow(t)
        PROVE  /\ \A ch \in work'.now : ch.token \in mine /\ (ch.row # NoRow => ch.row = RevokedRow(ch.token))
               /\ \A t \in mine : \E ch \in work'.now : ch.token = t
               /\ \A ch, other \in work'.now : ch.token = other.token => ch = other
    <3>1. \A ch \in work'.now : \E t \in mine : ch = [token |-> t, row |-> f[t]]
      BY <2>1
    <3>2. \A t \in mine : [token |-> t, row |-> f[t]] \in work'.now
      BY <2>1
    <3>3. \A t \in mine : [token |-> t, row |-> f[t]].token = t /\ [token |-> t, row |-> f[t]].row = f[t]
      OBVIOUS
    <3>4. \A t \in mine : \E ch \in work'.now : ch.token = t
      BY <3>2, <3>3, Zenon
    <3> QED BY <2>1, <3>1, <3>3, <3>4
  <2>2. work'.op = "revoke" /\ work'.who = {files[t].id : t \in mine} /\ work'.after = {}
    BY DEF Hold
  <2>3. CASE Hold("revoke", {files[t].id : t \in mine},
                  [now |-> {[token |-> t, row |-> RevokedRow(t)] : t \in mine}, after |-> {}])
    <3>. DEFINE f == [t \in mine |-> RevokedRow(t)]
    <3>1. work'.now = {[token |-> t, row |-> RevokedRow(t)] : t \in mine}
      BY <2>3 DEF Hold
    <3>2. \A t \in mine : f[t] = RevokedRow(t)
      OBVIOUS
    <3>. HIDE DEF f
    <3>3. work'.now = {[token |-> t, row |-> f[t]] : t \in mine}
      BY <3>1, <3>2
    <3> QED BY <2>1, <2>2, <3>2, <3>3
  <2>4. CASE Hold("revoke", {files[t].id : t \in mine}, [now |-> Unlink(mine), after |-> {}])
    <3>. DEFINE f == [t \in mine |-> NoRow]
    <3>1. work'.now = {[token |-> t, row |-> NoRow] : t \in mine}
      BY <2>4 DEF Hold, Unlink
    <3>2. \A t \in mine : f[t] = NoRow
      OBVIOUS
    <3>. HIDE DEF f
    <3>3. work'.now = {[token |-> t, row |-> f[t]] : t \in mine}
      BY <3>1, <3>2
    <3> QED BY <2>1, <2>2, <3>2, <3>3
  <2> QED BY <2>3, <2>4
<1>2. \A t \in Stored : files[t] \in Row
  BY DEF CredInv, Types, TypeOK, Stored
<1>3. \A t \in mine : /\ RevokedRow(t).status = "revoked" /\ RevokedRow(t).id = files[t].id
                      /\ RevokedRow(t).generation = files[t].generation
  BY <1>2 DEF Row, RevokedRow
<1>4. \A t \in Tokens : Active(t) /\ files[t].id \in work'.who => t \in mine
  <2>1. SUFFICES ASSUME NEW t \in Stored, NEW s \in mine, files[t].id = files[s].id
                 PROVE  t = s
    <3>1. SUFFICES ASSUME NEW t \in Tokens, Active(t), files[t].id \in work'.who PROVE t \in mine
      OBVIOUS
    <3>2. PICK s \in mine : files[t].id = files[s].id
      BY <1>1, <3>1
    <3>3. t \in Stored
      BY <3>1 DEF Active, Stored
    <3> QED BY <2>1, <3>2, <3>3
  <2>2. files \in [Tokens -> Row \union {NoRow}]
    BY DEF CredInv, Types, TypeOK
  <2> QED BY <2>1, <2>2, OneRowPerId
<1>5. RevocationSound'
  <2>1. \A ch \in work'.now : ch.row # NoRow =>
            ch.row.status = "revoked" /\ ch.token \in drawn /\ ch.row.id \in drawn
    BY <1>1, <1>3 DEF CredInv, Drawn
  <2>2. \A c \in given, ch \in work'.now : ch.token = c.token /\ ch.row # NoRow =>
            ch.row.id = c.id /\ ch.row.generation = c.generation
    BY <1>1, <1>3 DEF CredInv, Holds, Stored
  <2>3. work'.who \subseteq drawn
    BY <1>1 DEF CredInv, Drawn
  <2>4. \A t \in Tokens : Active(t) /\ files[t].id \in work'.who => \E ch \in work'.now : ch.token = t
    BY <1>1, <1>4
  <2>5. \A ch \in work'.now : ch.token \in Stored
    BY <1>1
  <2>6. /\ \A t \in Tokens : Active(t)' <=> Active(t)
        /\ Stored' = Stored /\ files' = files /\ drawn' = drawn /\ given' = given
    BY DEF Active, Stored
  <2> QED BY <1>1, <2>1, <2>2, <2>3, <2>4, <2>5, <2>6 DEF RevocationSound
<1> QED BY <1>1, <1>5 DEF CredInv, Drawn, Lineage, RequestsSound, RevokedIsInactive,
       Holds, Stored, Active

LEMMA CredChange == CredInv /\ ChangeFile /\ Types' => CredInv'
<1>. SUFFICES ASSUME CredInv, ChangeFile, Types' PROVE CredInv'
  OBVIOUS
<1>1. PICK ch \in Changes :
          /\ ch \in work.now \/ work.now = {}
          /\ files' = [files EXCEPT ![ch.token] = ch.row]
          /\ work' = [work EXCEPT !.now = @ \ {ch}, !.after = @ \ {ch}]
  BY DEF ChangeFile, Changes
<1>2. work # Idle /\ work \in Operation /\ ch \in Change /\ UNCHANGED <<pending, drawn, given, revoked>>
  BY DEF ChangeFile, CredInv, Types, Operation, Changes
<1>3. /\ work'.op = work.op /\ work'.who = work.who
      /\ work'.now = work.now \ {ch} /\ work'.after = work.after \ {ch}
      /\ Changes' = Changes \ {ch}
  BY <1>1, <1>2 DEF Operation, Changes
<1>4. /\ ch.token \in Tokens /\ files'[ch.token] = ch.row
      /\ \A t \in Tokens \ {ch.token} : files'[t] = files[t]
  BY <1>1, <1>2 DEF Change, CredInv, Types, TypeOK
<1>5. \A c \in given : c.token \in Tokens
  BY DEF CredInv, Types, TypeOK, Credential
<1>6. CASE work.op # "revoke"
  <2>1. DeliverySound
    BY <1>2, <1>6 DEF CredInv
  <2>2. \A c \in given : files'[c.token] = files[c.token] \/ files'[c.token] = NoRow
    BY <1>4, <1>5, <2>1 DEF DeliverySound
  <2>3. DeliverySound'
    <3>1. Holds(work.who)'
      BY <1>3, <1>4, <2>1 DEF DeliverySound, Holds, Credential
    <3>2. \A c \in given : c.id = work.who.id =>
            files'[c.token] = NoRow \/ [token |-> c.token, row |-> NoRow] \in Changes'
      BY <1>3, <1>4, <2>1, <2>2 DEF DeliverySound
    <3> QED BY <1>2, <1>3, <2>1, <3>1, <3>2 DEF DeliverySound
  <2>4. Drawn'
    BY <1>2, <1>4, <2>1 DEF CredInv, Drawn, DeliverySound, Stored
  <2>5. Lineage' /\ RevokedIsInactive' /\ \A c \in given : Holds(c)'
    BY <1>2, <2>2 DEF CredInv, Lineage, RevokedIsInactive, Holds, Active
  <2> QED BY <1>2, <1>3, <1>6, <2>3, <2>4, <2>5 DEF CredInv, RequestsSound
<1>7. CASE work.op = "revoke"
  <2>1. RevocationSound /\ ch \in work.now
    BY <1>1, <1>2, <1>7 DEF CredInv, RevocationSound, Changes
  <2>2. \A c \in given : \/ files'[c.token] = files[c.token] \/ files'[c.token] = NoRow
                         \/ /\ files'[c.token].id = c.id /\ files'[c.token].generation = c.generation
                            /\ files'[c.token].status = "revoked" /\ files[c.token] # NoRow
    BY <1>4, <1>5, <2>1 DEF RevocationSound, Stored
  <2>3. RevocationSound'
    <3>1. \A t \in Tokens : Active(t)' /\ files'[t].id \in work.who =>
            t # ch.token /\ Active(t) /\ files[t].id \in work.who
      BY <1>4, <2>1 DEF RevocationSound, Active
    <3>2. \A other \in work'.now : other.token \in Stored'
      BY <1>3, <1>4, <2>1 DEF RevocationSound, Stored
    <3> QED BY <1>2, <1>3, <2>1, <3>1, <3>2 DEF RevocationSound
  <2>4. Drawn'
    BY <1>2, <1>4, <2>1 DEF CredInv, Drawn, RevocationSound, Stored
  <2>5. Lineage' /\ RevokedIsInactive' /\ \A c \in given : Holds(c)'
    BY <1>2, <2>2 DEF CredInv, Lineage, RevokedIsInactive, Holds, Active
  <2> QED BY <1>2, <1>3, <1>7, <2>3, <2>4, <2>5 DEF CredInv, RequestsSound
<1> QED BY <1>6, <1>7

LEMMA CredReply == CredInv /\ Reply /\ Types' => CredInv'
<1>. SUFFICES ASSUME CredInv, Reply, Types' PROVE CredInv'
  OBVIOUS
<1>1. /\ work # Idle /\ work' = Idle /\ work.now = {} /\ work.after = {} /\ Changes = {}
      /\ UNCHANGED <<files, pending, drawn>>
  BY DEF Reply, Changes
<1>2. CASE work.op # "revoke"
  <2>1. DeliverySound /\ given' = given \union {work.who} /\ revoked' = revoked
    BY <1>1, <1>2 DEF CredInv, Reply
  <2>2. work.who.generation \in Nat /\ \A c \in given : c.generation \in Nat
    BY <2>1 DEF DeliverySound, CredInv, Types, TypeOK, Credential
  <2>3. Lineage'
    <3>. SUFFICES ASSUME NEW c \in given', NEW d \in given', c.id = d.id
                  PROVE  /\ c.generation = d.generation => c = d
                         /\ c.generation < d.generation => files[c.token] = NoRow
      BY <1>1 DEF Lineage
    <3>1. CASE c \in given /\ d \in given
      BY <3>1 DEF CredInv, Lineage
    <3>2. CASE c \in given /\ d = work.who
      BY <1>1, <2>1, <2>2, <3>2 DEF DeliverySound
    <3>3. CASE c = work.who /\ d \in given
      BY <1>1, <2>1, <2>2, <3>3 DEF DeliverySound
    <3>4. CASE c = work.who /\ d = work.who
      BY <2>2, <3>4
    <3> QED BY <2>1, <3>1, <3>2, <3>3, <3>4
  <2> QED BY <1>1, <2>1, <2>3 DEF DeliverySound, CredInv, Drawn, RequestsSound, RevokedIsInactive,
         Holds, Stored, Active
<1>3. CASE work.op = "revoke"
  <2>1. RevocationSound /\ revoked' = revoked \union work.who /\ given' = given
    BY <1>1, <1>3 DEF CredInv, Reply
  <2>2. RevokedIsInactive'
    <3>. SUFFICES ASSUME NEW c \in given, c.id \in work.who, Active(c.token) PROVE FALSE
      BY <1>1, <2>1 DEF CredInv, RevokedIsInactive, Active
    <3>1. c.token \in Tokens /\ files[c.token].id = c.id
      BY DEF CredInv, Holds, Active, Types, TypeOK, Credential
    <3> QED BY <1>1, <2>1, <3>1 DEF RevocationSound
  <2> QED BY <1>1, <2>1, <2>2 DEF RevocationSound, CredInv, Drawn, RequestsSound, Lineage,
         Holds, Stored
<1> QED BY <1>2, <1>3

LEMMA CredNext == CredInv /\ [Next]_vars => CredInv'
<1>. SUFFICES ASSUME CredInv, [Next]_vars PROVE CredInv'
  OBVIOUS
<1>1. Types'
  BY TypesNext DEF CredInv
<1>2. CASE UNCHANGED vars
  BY <1>1, <1>2, CredKept DEF vars, CredInv, RequestsSound
<1>3. CASE Login
  BY <1>1, <1>3, CredLogin
<1>4. ASSUME RevokeUser PROVE CredInv'
  <2>1. PICK u \in Users : LET mine == {t \in Stored : Active(t) /\ files[t].user = u} IN
            Hold("revoke", {files[t].id : t \in mine},
                 [now |-> {[token |-> t, row |-> RevokedRow(t)] : t \in mine}, after |-> {}])
    BY <1>4 DEF RevokeUser
  <2>. DEFINE mine == {t \in Stored : Active(t) /\ files[t].user = u}
  <2>2. mine \in SUBSET Stored
    OBVIOUS
  <2>3. Listable /\ UNCHANGED <<files, pending, drawn, given, revoked>>
    BY <1>4 DEF RevokeUser
  <2>4. Hold("revoke", {files[t].id : t \in mine},
             [now |-> {[token |-> t, row |-> RevokedRow(t)] : t \in mine}, after |-> {}])
    BY <2>1
  <2>. HIDE DEF mine
  <2> QED BY <1>1, <2>2, <2>3, <2>4, CredRevoke
<1>5. ASSUME DeleteUser PROVE CredInv'
  <2>1. PICK u \in Users : LET mine == {t \in Stored : files[t].user = u} IN
            Hold("revoke", {files[t].id : t \in mine}, [now |-> Unlink(mine), after |-> {}])
    BY <1>5 DEF DeleteUser
  <2>. DEFINE mine == {t \in Stored : files[t].user = u}
  <2>2. mine \in SUBSET Stored
    OBVIOUS
  <2>3. Listable /\ UNCHANGED <<files, pending, drawn, given, revoked>>
    BY <1>5 DEF DeleteUser
  <2>4. Hold("revoke", {files[t].id : t \in mine}, [now |-> Unlink(mine), after |-> {}])
    BY <2>1
  <2>. HIDE DEF mine
  <2> QED BY <1>1, <2>2, <2>3, <2>4, CredRevoke
<1>6. CASE ChangeFile
  BY <1>1, <1>6, CredChange
<1>7. CASE Reply
  BY <1>1, <1>7, CredReply
<1>8. CASE Cut
  BY <1>1, <1>8 DEF Cut, CredInv, Drawn, Lineage, RequestsSound, RevokedIsInactive, Holds, Stored, Active
<1>9. ASSUME NEW r \in Requests, Authenticate(r) PROVE CredInv'
  <2>1. RequestsSound'
    BY <1>9 DEF Authenticate, CredInv, RequestsSound, Types, TypeOK
  <2> QED BY <1>1, <1>9, <2>1, CredKept DEF Authenticate
<1>10. ASSUME NEW r \in Requests, Acts(r), given' = given PROVE RequestsSound' /\ work = Idle
  BY <1>10 DEF Acts, CredInv, RequestsSound, Types, TypeOK
<1>11. ASSUME NEW r \in Requests, Touch(r) PROVE CredInv'
  <2>1. PICK t \in RowsOf(pending[r].id) : files' = [files EXCEPT ![t] = Touched(t)]
    BY <1>11 DEF Touch
  <2>2. t \in Stored /\ files[t] \in Row /\ UNCHANGED <<work, given, drawn, revoked>>
    BY <1>11 DEF Touch, RowsOf, Stored, CredInv, Types, TypeOK
  <2>3. Touched(t).status = files[t].status
    BY <2>2 DEF Row, Touched
  <2>4. \A c \in given : c.id \in revoked => ~Active(c.token)'
    BY <2>1, <2>2, <2>3 DEF CredInv, RevokedIsInactive, Active, Types, TypeOK, Credential, Stored
  <2>5. RequestsSound' /\ work = Idle
    BY <1>10, <1>11 DEF Touch
  <2>6. revoked' \subseteq drawn /\ \A c \in given : c.id \in revoked' => ~Active(c.token)'
    BY <2>2, <2>4 DEF CredInv, Drawn
  <2> QED BY <1>1, <2>1, <2>2, <2>5, <2>6, CredStamped
<1>12. ASSUME NEW r \in Requests, IdleRevoke(r) PROVE CredInv'
  <2>1. PICK t \in RowsOf(pending[r].id) : files' = [files EXCEPT ![t] = RevokedRow(t)]
    BY <1>12 DEF IdleRevoke
  <2>2. /\ t \in Stored /\ files[t] \in Row /\ files[t].id = pending[r].id /\ Listable
        /\ UNCHANGED <<work, given, drawn>> /\ revoked' = revoked \union {pending[r].id}
        /\ files \in [Tokens -> Row \union {NoRow}]
    BY <1>12 DEF IdleRevoke, RowsOf, Stored, CredInv, Types, TypeOK
  <2>3. RevokedRow(t).status = "revoked"
    BY <2>2 DEF Row, RevokedRow
  <2>4. ASSUME NEW c \in given, c.id \in revoked' PROVE ~Active(c.token)'
    <3>1. c.token \in Tokens
      BY DEF CredInv, Types, TypeOK, Credential
    <3>2. c.token = t => ~Active(c.token)'
      BY <2>1, <2>2, <2>3 DEF Active, Stored
    <3>3. c.token # t => files'[c.token] = files[c.token]
      BY <2>1, <2>2, <3>1
    <3>4. c.id = pending[r].id /\ Active(c.token) => c.token = t
      <4>1. SUFFICES ASSUME c.id = pending[r].id, Active(c.token) PROVE c.token = t
        OBVIOUS
      <4>2. c.token \in Stored /\ files[c.token].id = files[t].id
        BY <2>2, <3>1, <4>1 DEF CredInv, Holds, Active, Stored
      <4> QED BY <2>2, <4>2, OneRowPerId
    <3> QED BY <2>2, <2>4, <3>2, <3>3, <3>4 DEF CredInv, RevokedIsInactive, Active
  <2>5. RequestsSound' /\ work = Idle
    BY <1>10, <1>12 DEF IdleRevoke
  <2>6. revoked' \subseteq drawn
    BY <2>2 DEF CredInv, Drawn
  <2> QED BY <1>1, <2>1, <2>2, <2>4, <2>5, <2>6, CredStamped
<1>13. ASSUME NEW r \in Requests, Rotate(r) PROVE CredInv'
  BY <1>1, <1>13, CredRotate
<1>14. ASSUME NEW r \in Requests, Logout(r) PROVE CredInv'
  <2>. DEFINE p == pending[r]
              t == p.token
  <2>1. /\ p \in given /\ p \in Credential /\ Active(t)
        /\ files' = [files EXCEPT ![t] = RevokedRow(t)]
        /\ UNCHANGED <<work, given, drawn>> /\ revoked' = revoked \union {files[t].id}
    BY <1>14 DEF Logout, Acts, CredInv, RequestsSound, Types, TypeOK
  <2>2. /\ t \in Stored /\ files[t] \in Row /\ files[t].id = p.id
    BY <2>1 DEF Stored, Active, CredInv, Types, TypeOK, Credential, Holds
  <2>3. RevokedRow(t).status = "revoked"
    BY <2>2 DEF Row, RevokedRow
  <2>4. ASSUME NEW c \in given, c.id \in revoked' PROVE ~Active(c.token)'
    <3>1. c.token \in Tokens /\ c.generation \in Nat /\ p.generation \in Nat
      BY <2>1 DEF CredInv, Types, TypeOK, Credential
    <3>2. c.token = t => ~Active(c.token)'
      BY <2>1, <2>2, <2>3 DEF Active, Stored, CredInv, Types, TypeOK
    <3>3. c.token # t => files'[c.token] = files[c.token]
      BY <2>1, <2>2, <3>1 DEF CredInv, Types, TypeOK
    <3>4. c.id = p.id => c = p \/ ~Active(c.token)
      BY <2>1, <3>1 DEF CredInv, Lineage, Active
    <3> QED BY <2>1, <2>2, <2>4, <3>2, <3>3, <3>4 DEF CredInv, RevokedIsInactive, Active
  <2>5. RequestsSound' /\ work = Idle
    BY <1>10, <1>14 DEF Logout
  <2>6. revoked' \subseteq drawn
    BY <2>1, <2>2 DEF CredInv, Drawn
  <2>. HIDE DEF t, p
  <2> QED BY <1>1, <2>1, <2>2, <2>4, <2>5, <2>6, CredStamped
<1>15. ASSUME NEW r \in Requests, Finish(r) PROVE CredInv'
  <2>1. RequestsSound'
    BY <1>10, <1>15 DEF Finish
  <2> QED BY <1>1, <1>15, <2>1, CredKept DEF Finish
<1>16. CASE Tick
  BY <1>1, <1>16, CredKept DEF Tick, CredInv, RequestsSound
<1>17. CASE Expire
  BY <1>1, <1>17, CredKept DEF Expire, CredInv, RequestsSound
<1> QED
  BY <1>2, <1>3, <1>4, <1>5, <1>6, <1>7, <1>8, <1>9, <1>11, <1>12, <1>13, <1>14, <1>15, <1>16, <1>17
     DEF Next

LEMMA CredInvariant == Spec => []CredInv
BY CredInit, CredNext, PTL DEF Spec

\* Every variable of the session store stays in its set, whatever is cut.
THEOREM SessionTypes == Spec => []TypeOK
<1>1. CredInv => TypeOK
  BY DEF CredInv, Types
<1> QED BY CredInvariant, <1>1, PTL

\* After an acknowledged revocation no credential delivered for the session
\* authenticates a request: not after a late touch, a rotation or a cut.
THEOREM RevocationIsFinal == Spec => []RevokedStaysOut
<1>1. CredInv => RevokedStaysOut
  BY DEF CredInv, RevokedIsInactive, RevokedStaysOut, Resolves
<1> QED BY CredInvariant, <1>1, PTL

\* Requests that rotate one session have one winner, whose credential alone works.
THEOREM RotationHasOneWinner == Spec => []OneWinner
<1>1. CredInv => OneWinner
  <2>. SUFFICES ASSUME CredInv, NEW c \in given, NEW d \in given, c.id = d.id,
                       c.generation = d.generation \/ (Resolves(c.token) /\ Resolves(d.token))
                PROVE  c = d
    BY DEF OneWinner
  <2>1. c.generation \in Nat /\ d.generation \in Nat
    BY DEF CredInv, Types, TypeOK, Credential
  <2> QED BY <2>1 DEF CredInv, Lineage, Resolves, Active
<1> QED BY CredInvariant, <1>1, PTL

---------------------------------------------------------------------------------
(* Counting sessions *)

IdsOf(S) == {files[t].id : t \in S}

WithinLimits ==
    /\ \A u \in Users : Cardinality(IdsOf(Owned(u))) <= UserLimit
    /\ Cardinality(IdsOf(Survivors)) <= TotalLimit

\* A session has one account, also in the rows about to be written.
OwnersAgree ==
    /\ \A t, s \in Stored : files[t].id = files[s].id => files[t].user = files[s].user
    /\ work # Idle => \A ch \in Changes : ch.row # NoRow =>
        /\ \A s \in Stored : files[s].id = ch.row.id => files[s].user = ch.row.user
        /\ \A other \in Changes : other.row # NoRow /\ other.row.id = ch.row.id =>
                other.row.user = ch.row.user

\* What LoginsCoexist asks of an evicted session.
Evictable(t) ==
    LET mine == Owned(files[t].user)
    IN  \/ /\ Cardinality(mine) >= UserLimit
           /\ \A s \in mine : files[s].updated >= files[t].updated
        \/ /\ Cardinality(Survivors) >= TotalLimit
           /\ \A s \in Survivors : files[s].updated >= files[t].updated

Gone == {ch.token : ch \in work.now}

\* A login under way: it unlinks one usable session at most, and has made room
\* when it writes its own.
LoginSound ==
    /\ \A ch \in work.now : ch.row = NoRow
    /\ \A ch, other \in work.after : ch = other
    /\ \A ch \in work.after :
            /\ ch.row # NoRow
            /\ Cardinality(IdsOf(Owned(ch.row.user) \ Gone)) < UserLimit
            /\ Cardinality(IdsOf(Survivors \ Gone)) < TotalLimit
    /\ \A t \in Gone : Resolves(t) =>
            Evictable(t) /\ \A s \in Gone : Resolves(s) => s = t

\* A rotation under way adds no session.
RotationSound ==
    /\ \A ch \in work.after : ch.row = NoRow
    /\ \A ch, other \in work.now : ch = other
    /\ work.now # {} => work.who.id \in expired \union IdsOf(Survivors)

LimitInv ==
    /\ WithinLimits /\ OwnersAgree
    /\ work # Idle /\ work.op = "login" => LoginSound
    /\ work # Idle /\ work.op = "rotate" => RotationSound

---------------------------------------------------------------------------------
LEMMA TokensFinite ==
    ASSUME NEW S \in SUBSET Tokens
    PROVE  IsFiniteSet(S) /\ Cardinality(S) \in Nat
BY TokensAssumption, FS_Subset, FS_CardinalityType

\* A set of rows has no more ids than rows, and as many if no two share one.
LEMMA CountIds ==
    ASSUME NEW f, NEW S \in SUBSET Tokens
    PROVE  LET ids == {f[t].id : t \in S} IN
           /\ IsFiniteSet(ids) /\ Cardinality(ids) \in Nat
           /\ Cardinality(ids) <= Cardinality(S)
           /\ (\A t, s \in S : f[t].id = f[s].id => t = s) => Cardinality(ids) = Cardinality(S)
<1>. DEFINE ids == {f[t].id : t \in S}
            g == [t \in S |-> f[t].id]
<1>1. g \in Surjection(S, ids)
  BY DEF Surjection
<1>2. (\A t, s \in S : f[t].id = f[s].id => t = s) => g \in Injection(S, ids)
  BY DEF Injection, IsInjective
<1>. HIDE DEF g
<1>3. IsFiniteSet(S) /\ Cardinality(S) \in Nat
  BY TokensFinite
<1>4. /\ IsFiniteSet(ids) /\ Cardinality(ids) <= Cardinality(S)
      /\ Cardinality(ids) = Cardinality(S) <=> g \in Injection(S, ids)
  BY <1>1, <1>3, FS_Surjection
<1>5. Cardinality(ids) \in Nat
  BY <1>4, FS_CardinalityType
<1> QED BY <1>2, <1>4, <1>5

LEMMA FewerIds ==
    ASSUME NEW S \in SUBSET Tokens, NEW A \in SUBSET IdsOf(S)
    PROVE  /\ Cardinality(A) <= Cardinality(IdsOf(S))
           /\ Cardinality(A) \in Nat /\ Cardinality(IdsOf(S)) \in Nat
<1>1. IsFiniteSet(IdsOf(S))
  BY CountIds DEF IdsOf
<1> QED BY <1>1, FS_Subset, FS_CardinalityType

\* An eviction leaves room for one, takes the least recently used, and takes one
\* at most of a set within its limit.
LEMMA EvictionMakesRoom ==
    ASSUME NEW S \in SUBSET Tokens, NEW limit \in Nat \ {0}, NEW E \in Evictions(S, limit)
    PROVE  /\ E \subseteq S
           /\ Cardinality(S \ E) < limit
           /\ E # {} => Cardinality(S) >= limit
           /\ Cardinality(S) <= limit => \A t, s \in E : t = s
           /\ \A t \in E, s \in S \ E : files[t].updated <= files[s].updated
<1>1. /\ E \in SUBSET S /\ Cardinality(E) = Excess(S, limit)
      /\ \A t \in E, s \in S \ E : files[t].updated <= files[s].updated
  BY DEF Evictions, Oldest, kSubset
<1>2. IsFiniteSet(S) /\ Cardinality(S) \in Nat /\ IsFiniteSet(E) /\ Cardinality(E) \in Nat
  BY <1>1, TokensFinite
<1>3. S \cap E = E
  BY <1>1
<1>4. Cardinality(S \ E) = Cardinality(S) - Cardinality(E)
  BY <1>2, <1>3, FS_Difference
<1>5. E # {} => Cardinality(E) # 0
  BY <1>2, FS_EmptySet
<1>6. Cardinality(S) <= limit => Cardinality(E) <= 1
  BY <1>1, <1>2 DEF Excess
<1>7. Cardinality(E) <= 1 => \A t, s \in E : t = s
  BY <1>2, AtMostOne
<1>8. Cardinality(S \ E) < limit /\ (E # {} => Cardinality(S) >= limit)
  BY <1>1, <1>2, <1>4, <1>5 DEF Excess
<1> QED BY <1>1, <1>6, <1>7, <1>8

\* Whatever only ends sessions keeps to the limits.
LEMMA FewerSessions ==
    ASSUME Types, Types', WithinLimits,
           \A t \in Tokens : Resolves(t)' =>
                \E s \in Survivors : files[s].id = files'[t].id /\ files[s].user = files'[t].user
    PROVE  WithinLimits'
<1>1. /\ Survivors \in SUBSET Tokens /\ Survivors' \in SUBSET Tokens
      /\ \A u : Owned(u) \in SUBSET Tokens /\ Owned(u)' \in SUBSET Tokens
  BY DEF Owned, Survivors, Stored
<1>2. IdsOf(Survivors)' \subseteq IdsOf(Survivors)
  BY DEF IdsOf, Survivors, Stored
<1>3. \A u \in Users : IdsOf(Owned(u))' \subseteq IdsOf(Owned(u))
  <2>. SUFFICES ASSUME NEW u \in Users, NEW t \in Owned(u)'
                PROVE  files'[t].id \in IdsOf(Owned(u))
    BY DEF IdsOf
  <2>1. t \in Tokens /\ Resolves(t)' /\ files'[t].user = u
    BY DEF Owned, Survivors, Stored
  <2>2. PICK s \in Survivors : files[s].id = files'[t].id /\ files[s].user = files'[t].user
    BY <2>1
  <2>3. s \in Owned(u)
    BY <2>1, <2>2 DEF Owned
  <2> QED BY <2>2, <2>3 DEF IdsOf
<1>4. /\ Cardinality(IdsOf(Survivors)') <= Cardinality(IdsOf(Survivors))
      /\ Cardinality(IdsOf(Survivors)') \in Nat /\ Cardinality(IdsOf(Survivors)) \in Nat
  BY <1>1, <1>2, FewerIds
<1>5. \A u \in Users : /\ Cardinality(IdsOf(Owned(u))') <= Cardinality(IdsOf(Owned(u)))
                       /\ Cardinality(IdsOf(Owned(u))') \in Nat
                       /\ Cardinality(IdsOf(Owned(u))) \in Nat
  BY <1>1, <1>3, FewerIds
<1> QED BY <1>4, <1>5, LimitsAssumption DEF WithinLimits

LEMMA LimitLogin == CredInv /\ LimitInv /\ Login /\ Types' => LimitInv'
<1>. SUFFICES ASSUME CredInv, LimitInv, Login, Types' PROVE LimitInv'
  OBVIOUS
<1>1. PICK u \in Users, i \in Ids, t \in Tokens : \E m \in Evictions(Owned(u), UserLimit) :
          \E o \in Evictions(Survivors \ m, TotalLimit) :
          /\ {i, t} \cap drawn = {}
          /\ Hold("login", [token |-> t, id |-> i, generation |-> 1],
                  [now |-> Unlink((Stored \ Survivors) \union m \union o),
                   after |-> Write(t, [id |-> i, user |-> u, status |-> "active",
                                       generation |-> 1, updated |-> clock])])
  BY DEF Login
<1>2. PICK mine \in Evictions(Owned(u), UserLimit) : \E o \in Evictions(Survivors \ mine, TotalLimit) :
          /\ {i, t} \cap drawn = {}
          /\ Hold("login", [token |-> t, id |-> i, generation |-> 1],
                  [now |-> Unlink((Stored \ Survivors) \union mine \union o),
                   after |-> Write(t, [id |-> i, user |-> u, status |-> "active",
                                       generation |-> 1, updated |-> clock])])
  BY <1>1
<1>3. PICK others \in Evictions(Survivors \ mine, TotalLimit) :
          /\ {i, t} \cap drawn = {}
          /\ Hold("login", [token |-> t, id |-> i, generation |-> 1],
                  [now |-> Unlink((Stored \ Survivors) \union mine \union others),
                   after |-> Write(t, [id |-> i, user |-> u, status |-> "active",
                                       generation |-> 1, updated |-> clock])])
  BY <1>2
<1>. DEFINE row == [id |-> i, user |-> u, status |-> "active", generation |-> 1, updated |-> clock]
            gone == (Stored \ Survivors) \union mine \union others
<1>4. Listable /\ UNCHANGED <<files, expired>>
  BY DEF Login
<1>5. /\ work'.op = "login"
      /\ work'.now = {[token |-> s, row |-> NoRow] : s \in gone}
      /\ work'.after = {[token |-> t, row |-> row]}
  BY <1>3 DEF Hold, Unlink, Write
<1>6. row \in Row /\ row # NoRow /\ row.id = i /\ row.user = u
  BY NoRowAssumption DEF Row, CredInv, Types, TypeOK
<1>. HIDE DEF row
<1>7. Gone' = gone
  <2>. HIDE DEF gone
  <2>1. \A ch \in work'.now : \E s \in gone : ch = [token |-> s, row |-> NoRow]
    BY <1>5
  <2>2. \A s \in gone : [token |-> s, row |-> NoRow] \in work'.now
    BY <1>5
  <2>3. \A s \in gone : [token |-> s, row |-> NoRow].token = s
    OBVIOUS
  <2>4. \A s \in Gone' : s \in gone
    BY <2>1, <2>3 DEF Gone
  <2>5. \A s \in gone : s \in Gone'
    BY <2>2, <2>3, Zenon DEF Gone
  <2> QED BY <2>4, <2>5
<1>8. \A s \in Stored : files[s].id # i
  BY <1>3 DEF CredInv, Drawn
<1>9. OwnersAgree'
  <2>1. \A ch \in Changes' : ch.row # NoRow => ch.row = row
    BY <1>5 DEF Changes
  <2>2. Stored' = Stored /\ files' = files
    BY <1>4 DEF Stored
  <2>3. \A s, r \in Stored : files[s].id = files[r].id => files[s].user = files[r].user
    BY DEF LimitInv, OwnersAgree
  <2> QED BY <1>6, <1>8, <2>1, <2>2, <2>3 DEF OwnersAgree
<1>10. /\ Owned(u) \in SUBSET Tokens /\ Survivors \in SUBSET Tokens /\ Survivors \ mine \in SUBSET Tokens
       /\ Owned(u) \subseteq Survivors
       /\ UserLimit \in Nat \ {0} /\ TotalLimit \in Nat \ {0}
  BY LimitsAssumption DEF Owned, Survivors, Stored
<1>11. /\ mine \subseteq Owned(u)
       /\ Cardinality(Owned(u) \ mine) < UserLimit
       /\ mine # {} => Cardinality(Owned(u)) >= UserLimit
       /\ Cardinality(Owned(u)) <= UserLimit => \A s, r \in mine : s = r
       /\ \A s \in mine, r \in Owned(u) \ mine : files[s].updated <= files[r].updated
  BY <1>10, EvictionMakesRoom
<1>12. /\ others \subseteq Survivors \ mine
       /\ Cardinality((Survivors \ mine) \ others) < TotalLimit
       /\ others # {} => Cardinality(Survivors \ mine) >= TotalLimit
       /\ Cardinality(Survivors \ mine) <= TotalLimit => \A s, r \in others : s = r
       /\ \A s \in others, r \in (Survivors \ mine) \ others : files[s].updated <= files[r].updated
  BY <1>10, EvictionMakesRoom
<1>13. \A S \in SUBSET Survivors : Cardinality(IdsOf(S)) = Cardinality(S)
  <2>. SUFFICES ASSUME NEW S \in SUBSET Survivors PROVE Cardinality(IdsOf(S)) = Cardinality(S)
    OBVIOUS
  <2>1. S \in SUBSET Tokens /\ S \subseteq Stored
    BY DEF Survivors, Stored
  <2>2. files \in [Tokens -> Row \union {NoRow}]
    BY DEF CredInv, Types, TypeOK
  <2>3. \A s, r \in S : files[s].id = files[r].id => s = r
    <3>. SUFFICES ASSUME NEW s \in S, NEW r \in S, files[s].id = files[r].id PROVE s = r
      OBVIOUS
    <3>1. s \in Stored /\ r \in Stored
      BY <2>1
    <3> QED BY <1>4, <2>2, <3>1, OneRowPerId
  <2> QED BY <2>1, <2>3, CountIds DEF IdsOf
<1>14. Cardinality(Owned(u)) <= UserLimit /\ Cardinality(Survivors) <= TotalLimit
  BY <1>10, <1>13 DEF LimitInv, WithinLimits
<1>15. /\ Cardinality(IdsOf(Owned(u) \ gone)) < UserLimit
       /\ Cardinality(IdsOf(Survivors \ gone)) < TotalLimit
  <2>1. /\ Owned(u) \ gone \in SUBSET (Owned(u) \ mine)
        /\ Survivors \ gone \in SUBSET ((Survivors \ mine) \ others)
        /\ Owned(u) \ mine \in SUBSET Tokens /\ (Survivors \ mine) \ others \in SUBSET Tokens
        /\ Owned(u) \ gone \in SUBSET Tokens /\ Survivors \ gone \in SUBSET Tokens
    BY <1>10
  <2>2. /\ Cardinality(Owned(u) \ gone) <= Cardinality(Owned(u) \ mine)
        /\ Cardinality(Survivors \ gone) <= Cardinality((Survivors \ mine) \ others)
    <3>. HIDE DEF gone
    <3>1. /\ IsFiniteSet(Owned(u) \ mine) /\ IsFiniteSet((Survivors \ mine) \ others)
      BY <2>1, TokensFinite
    <3>2. Cardinality(Owned(u) \ gone) <= Cardinality(Owned(u) \ mine)
      BY <2>1, <3>1, FS_Subset
    <3>3. Cardinality(Survivors \ gone) <= Cardinality((Survivors \ mine) \ others)
      BY <2>1, <3>1, FS_Subset
    <3> QED BY <3>2, <3>3
  <2>3. /\ Cardinality(IdsOf(Owned(u) \ gone)) <= Cardinality(Owned(u) \ gone)
        /\ Cardinality(IdsOf(Survivors \ gone)) <= Cardinality(Survivors \ gone)
        /\ Cardinality(IdsOf(Owned(u) \ gone)) \in Nat /\ Cardinality(IdsOf(Survivors \ gone)) \in Nat
    <3>1. \A S \in SUBSET Tokens :
            Cardinality(IdsOf(S)) <= Cardinality(S) /\ Cardinality(IdsOf(S)) \in Nat
      BY CountIds DEF IdsOf
    <3>. HIDE DEF gone
    <3> QED BY <2>1, <3>1
  <2>4. /\ Cardinality(Owned(u) \ gone) \in Nat /\ Cardinality(Survivors \ gone) \in Nat
        /\ Cardinality(Owned(u) \ mine) \in Nat /\ Cardinality((Survivors \ mine) \ others) \in Nat
    <3>. HIDE DEF gone
    <3> QED BY <2>1, TokensFinite
  <2>. HIDE DEF gone
  <2> QED BY <1>10, <1>11, <1>12, <2>2, <2>3, <2>4
<1>16. \A s \in Survivors : files[s].updated \in Nat
  BY BoundsAssumption DEF CredInv, Types, TypeOK, Survivors, Stored, Row, Times
<1>17. mine # {} => others = {}
  <2>. SUFFICES ASSUME mine # {}, others # {} PROVE FALSE
    OBVIOUS
  <2>1. PICK s \in mine : s \in Survivors
    BY <1>10, <1>11
  <2>2. Survivors \ mine \in SUBSET Survivors /\ Survivors \ mine # Survivors
    BY <2>1
  <2>3. Cardinality(Survivors \ mine) <= Cardinality(Survivors)
        /\ Cardinality(Survivors \ mine) # Cardinality(Survivors)
    BY <1>10, <2>2, TokensFinite, FS_Subset
  <2>4. Cardinality(Survivors \ mine) \in Nat /\ Cardinality(Survivors) \in Nat
    BY <1>10, TokensFinite
  <2> QED BY <1>10, <1>12, <1>14, <2>3, <2>4
<1>18. \A s \in gone : Resolves(s) => Evictable(s) /\ \A r \in gone : Resolves(r) => r = s
  <2>. SUFFICES ASSUME NEW s \in mine \union others
                PROVE  Evictable(s) /\ \A r \in mine \union others : r = s
    BY DEF Survivors, Stored
  <2>1. CASE s \in mine
    <3>1. others = {} /\ \A r \in mine : r = s
      BY <1>11, <1>14, <1>17, <2>1
    <3>2. files[s].user = u
      BY <1>11, <2>1 DEF Owned
    <3>3. \A r \in Owned(u) : files[r].updated >= files[s].updated
      BY <1>10, <1>11, <1>16, <2>1, <3>1
    <3> QED BY <1>11, <2>1, <3>1, <3>2, <3>3 DEF Evictable
  <2>2. CASE s \in others
    <3>1. mine = {}
      BY <1>17, <2>2
    <3>2. \A r \in others : r = s
      BY <1>12, <1>14, <2>2, <3>1
    <3>3. \A r \in Survivors : files[r].updated >= files[s].updated
      BY <1>12, <1>16, <2>2, <3>1, <3>2
    <3> QED BY <1>12, <2>2, <3>1, <3>2, <3>3 DEF Evictable
  <2> QED BY <2>1, <2>2
<1>19. /\ Survivors' = Survivors /\ \A v : Owned(v)' = Owned(v)
       /\ \A s : (Resolves(s)' <=> Resolves(s)) /\ (Evictable(s)' <=> Evictable(s))
       /\ \A S : IdsOf(S)' = IdsOf(S)
  BY <1>4 DEF Survivors, Stored, Owned, Resolves, Active, Evictable, IdsOf
<1>20. LoginSound'
  <2>1. \A ch \in work'.now : ch.row = NoRow
    BY <1>5
  <2>2. \A ch \in work'.after : ch.row = row
    BY <1>5
  <2>3. \A s \in Gone' : Resolves(s)' =>
            Evictable(s)' /\ \A r \in Gone' : Resolves(r)' => r = s
    <3>. HIDE DEF gone
    <3> QED BY <1>7, <1>18, <1>19
  <2>4. /\ Cardinality(IdsOf(Owned(u) \ Gone)') < UserLimit
        /\ Cardinality(IdsOf(Survivors \ Gone)') < TotalLimit
    <3>1. IdsOf(Owned(u) \ Gone)' = IdsOf(Owned(u) \ gone) /\ IdsOf(Survivors \ Gone)' = IdsOf(Survivors \ gone)
      BY <1>4, <1>7, <1>19 DEF IdsOf
    <3> QED BY <1>15, <3>1
  <2>5. \A ch \in work'.after : Cardinality(IdsOf(Owned(ch.row.user) \ Gone)') < UserLimit
    BY <1>6, <2>2, <2>4
  <2>6. (\A ch, other \in work'.after : ch = other) /\ \A ch \in work'.after : ch.row # NoRow
    BY <1>5, <1>6
  <2> QED BY <2>1, <2>3, <2>4, <2>5, <2>6 DEF LoginSound
<1>21. WithinLimits'
  BY <1>19 DEF LimitInv, WithinLimits
<1> QED BY <1>5, <1>9, <1>20, <1>21 DEF LimitInv

LEMMA LimitRotate ==
    ASSUME NEW r \in Requests, CredInv, LimitInv, Rotate(r), Types'
    PROVE  LimitInv'
<1>. DEFINE c == pending[r]
            row == [files[c.token] EXCEPT !.generation = @ + 1, !.updated = clock]
<1>1. PICK new \in Tokens :
          /\ MayRotate(c) /\ c # Idle
          /\ Hold("rotate", [token |-> new, id |-> c.id, generation |-> row.generation],
                  RotationStages(c.token, new, row))
  BY DEF Rotate, Acts
<1>2. UNCHANGED <<files, expired>>
  BY DEF Rotate
<1>3. c \in given /\ c.token \in Tokens
  BY <1>1 DEF CredInv, RequestsSound, Types, TypeOK, Credential
<1>4. /\ files[c.token] \in Row /\ c.token \in Stored /\ Active(c.token) /\ files[c.token].id = c.id
  BY <1>1, <1>3 DEF CredInv, Types, TypeOK, MayRotate, Active, Stored, Holds
<1>5. row.id = c.id /\ row.user = files[c.token].user
  BY <1>4 DEF Row
<1>. HIDE DEF row
<1>6. /\ work'.op = "rotate" /\ work'.who.id = c.id
      /\ work'.now = {[token |-> new, row |-> row]}
      /\ work'.after = {[token |-> c.token, row |-> NoRow]}
  BY <1>1 DEF Hold, RotationStages, Write, Unlink
<1>7. OwnersAgree'
  <2>1. \A ch \in Changes' : ch.row # NoRow => ch.row = row
    BY <1>6 DEF Changes
  <2>2. Stored' = Stored /\ files' = files
    BY <1>2 DEF Stored
  <2>3. \A s, q \in Stored : files[s].id = files[q].id => files[s].user = files[q].user
    BY DEF LimitInv, OwnersAgree
  <2> QED BY <1>4, <1>5, <2>1, <2>2, <2>3 DEF OwnersAgree
<1>8. Survivors' = Survivors /\ (\A v : Owned(v)' = Owned(v)) /\ \A S : IdsOf(S)' = IdsOf(S)
  BY <1>2 DEF Survivors, Stored, Owned, Resolves, Active, IdsOf
<1>9. c.id \in expired \union IdsOf(Survivors)
  BY <1>4 DEF IdsOf, Survivors, Resolves
<1>10. RotationSound'
  BY <1>2, <1>6, <1>8, <1>9 DEF RotationSound
<1>11. WithinLimits'
  BY <1>8 DEF LimitInv, WithinLimits
<1> QED BY <1>6, <1>7, <1>10, <1>11 DEF LimitInv

LEMMA LimitRevoke ==
    ASSUME CredInv, LimitInv, NEW mine \in SUBSET Stored,
           Hold("revoke", {files[t].id : t \in mine},
                [now |-> {[token |-> t, row |-> RevokedRow(t)] : t \in mine}, after |-> {}])
           \/ Hold("revoke", {files[t].id : t \in mine}, [now |-> Unlink(mine), after |-> {}]),
           UNCHANGED <<files, expired>>
    PROVE  LimitInv'
<1>1. /\ work'.op = "revoke"
      /\ \A ch \in Changes' : ch.row = NoRow \/ \E t \in mine : ch.row = RevokedRow(t)
  BY DEF Hold, Unlink, Changes
<1>2. \A t \in mine : RevokedRow(t).id = files[t].id /\ RevokedRow(t).user = files[t].user
  BY DEF Row, RevokedRow, CredInv, Types, TypeOK, Stored
<1>3. OwnersAgree'
  <2>1. \A s, q \in Stored : files[s].id = files[q].id => files[s].user = files[q].user
    BY DEF LimitInv, OwnersAgree
  <2>2. Stored' = Stored /\ files' = files
    BY DEF Stored
  <2>3. \A ch \in Changes' : ch.row # NoRow =>
            \E t \in Stored : ch.row.id = files[t].id /\ ch.row.user = files[t].user
    BY <1>1, <1>2
  <2> QED BY <2>1, <2>2, <2>3 DEF OwnersAgree
<1>4. Survivors' = Survivors /\ (\A v : Owned(v)' = Owned(v)) /\ \A S : IdsOf(S)' = IdsOf(S)
  BY DEF Survivors, Stored, Owned, Resolves, Active, IdsOf
<1>5. WithinLimits'
  BY <1>4 DEF LimitInv, WithinLimits
<1> QED BY <1>1, <1>3, <1>5 DEF LimitInv

LEMMA LimitChange == CredInv /\ LimitInv /\ ChangeFile /\ Types' => LimitInv'
<1>. SUFFICES ASSUME CredInv, LimitInv, ChangeFile, Types' PROVE LimitInv'
  OBVIOUS
<1>1. PICK ch \in Changes :
          /\ ch \in work.now \/ work.now = {}
          /\ files' = [files EXCEPT ![ch.token] = ch.row]
          /\ work' = [work EXCEPT !.now = @ \ {ch}, !.after = @ \ {ch}]
  BY DEF ChangeFile, Changes
<1>2. work # Idle /\ work \in Operation /\ ch \in Change /\ expired' = expired
  BY DEF ChangeFile, CredInv, Types, Operation, Changes
<1>3. /\ work'.op = work.op /\ work'.who = work.who
      /\ work'.now = work.now \ {ch} /\ work'.after = work.after \ {ch}
      /\ Changes' = Changes \ {ch}
  BY <1>1, <1>2 DEF Operation, Changes
<1>4. /\ ch.token \in Tokens /\ files'[ch.token] = ch.row
      /\ \A t \in Tokens \ {ch.token} : files'[t] = files[t]
  BY <1>1, <1>2 DEF Change, CredInv, Types, TypeOK
<1>5. OwnersAgree'
  <2>1. \A t \in Stored' : \/ t \in Stored /\ files'[t] = files[t]
                           \/ files'[t] = ch.row /\ ch.row # NoRow
    BY <1>4 DEF Stored
  <2>2. /\ \A t, s \in Stored : files[t].id = files[s].id => files[t].user = files[s].user
        /\ \A o \in Changes : o.row # NoRow =>
            /\ \A s \in Stored : files[s].id = o.row.id => files[s].user = o.row.user
            /\ \A other \in Changes : other.row # NoRow /\ other.row.id = o.row.id =>
                    other.row.user = o.row.user
    BY <1>2 DEF LimitInv, OwnersAgree
  <2> QED BY <1>1, <1>3, <2>1, <2>2 DEF OwnersAgree
<1>6. \A t \in Tokens \ {ch.token} : Resolves(t)' <=> Resolves(t)
  BY <1>2, <1>4 DEF Resolves, Active
<1>7. \A t \in Tokens : Resolves(t) <=> t \in Survivors
  BY DEF Survivors, Stored, Resolves, Active
<1>8. ASSUME ch.row # NoRow /\ ch.row.status = "active" /\ ch.row.id \notin expired =>
                \E s \in Survivors : files[s].id = ch.row.id
      PROVE  WithinLimits'
  <2>1. \A t \in Tokens : Resolves(t)' =>
            \E s \in Survivors : files[s].id = files'[t].id /\ files[s].user = files'[t].user
    <3>. SUFFICES ASSUME NEW t \in Tokens, Resolves(t)'
                  PROVE  \E s \in Survivors : files[s].id = files'[t].id /\ files[s].user = files'[t].user
      OBVIOUS
    <3>1. CASE t # ch.token
      BY <1>4, <1>6, <1>7, <3>1
    <3>2. CASE t = ch.token
      <4>1. ch.row # NoRow /\ ch.row.status = "active" /\ ch.row.id \notin expired
        BY <1>2, <1>4, <3>2 DEF Resolves, Active
      <4>2. PICK s \in Survivors : files[s].id = ch.row.id
        BY <1>8, <4>1
      <4>3. files[s].user = ch.row.user
        BY <1>2, <4>1, <4>2 DEF LimitInv, OwnersAgree, Survivors
      <4> QED BY <1>4, <3>2, <4>2, <4>3
    <3> QED BY <3>1, <3>2
  <2> QED BY <2>1, FewerSessions DEF CredInv, LimitInv
<1>9. CASE work.op = "revoke"
  <2>1. RevocationSound
    BY <1>2, <1>9 DEF CredInv
  <2>2. ch.row # NoRow => ch.row.status = "revoked"
    BY <2>1 DEF RevocationSound, Changes
  <2>3. WithinLimits'
    BY <1>8, <2>2
  <2> QED BY <1>3, <1>5, <1>9, <2>3 DEF LimitInv
<1>10. CASE work.op = "rotate"
  <2>1. DeliverySound /\ RotationSound
    BY <1>2, <1>10 DEF CredInv, LimitInv
  <2>2. ch.row # NoRow => ch \in work.now /\ ch.row.id = work.who.id
    BY <1>1, <2>1 DEF DeliverySound, RotationSound, Changes
  <2>3. WithinLimits'
    <3>1. ch.row # NoRow /\ ch.row.id \notin expired => ch.row.id \in IdsOf(Survivors)
      BY <2>1, <2>2 DEF RotationSound
    <3> QED BY <1>8, <3>1 DEF IdsOf
  <2>4. RotationSound'
    <3>1. work'.now = {}
      BY <1>1, <1>3, <2>1 DEF RotationSound
    <3> QED BY <1>3, <2>1, <3>1 DEF RotationSound
  <2> QED BY <1>3, <1>5, <1>10, <2>3, <2>4 DEF LimitInv
<1>11. CASE work.op = "login"
  <2>1. LoginSound
    BY <1>2, <1>11 DEF LimitInv
  <2>2. CASE ch \in work.now
    <3>1. ch.row = NoRow
      BY <2>1, <2>2 DEF LoginSound
    <3>2. WithinLimits'
      BY <1>8, <3>1
    <3>3. /\ Gone' \subseteq Gone /\ Gone \subseteq Gone' \union {ch.token} /\ ch.token \in Gone
      BY <1>3, <2>2 DEF Gone
    <3>4. Survivors' = Survivors \ {ch.token}
      BY <1>4, <1>6, <3>1 DEF Survivors, Stored, Resolves, Active
    <3>5. \A v : Owned(v)' = Owned(v) \ {ch.token}
      BY <1>4, <3>4 DEF Owned, Survivors, Stored
    <3>6. ASSUME NEW o \in work'.after
          PROVE  /\ o.row # NoRow
                 /\ Cardinality(IdsOf(Owned(o.row.user) \ Gone)') < UserLimit
                 /\ Cardinality(IdsOf(Survivors \ Gone)') < TotalLimit
      <4>. DEFINE v == o.row.user
      <4>1. /\ o.row # NoRow /\ Cardinality(IdsOf(Owned(v) \ Gone)) < UserLimit
            /\ Cardinality(IdsOf(Survivors \ Gone)) < TotalLimit
        BY <1>3, <2>1, <3>6 DEF LoginSound
      <4>. HIDE DEF v
      <4>2. /\ Owned(v) \ Gone \in SUBSET Tokens /\ Survivors \ Gone \in SUBSET Tokens
            /\ (Owned(v) \ Gone)' \subseteq Owned(v) \ Gone
            /\ (Survivors \ Gone)' \subseteq Survivors \ Gone
            /\ ch.token \notin (Owned(v) \ Gone)' /\ ch.token \notin (Survivors \ Gone)'
        BY <3>3, <3>4, <3>5 DEF Owned, Survivors, Stored
      <4>3. /\ IdsOf(Owned(v) \ Gone)' \in SUBSET IdsOf(Owned(v) \ Gone)
            /\ IdsOf(Survivors \ Gone)' \in SUBSET IdsOf(Survivors \ Gone)
        BY <1>4, <4>2 DEF IdsOf
      <4>4. /\ Cardinality(IdsOf(Owned(v) \ Gone)') <= Cardinality(IdsOf(Owned(v) \ Gone))
            /\ Cardinality(IdsOf(Survivors \ Gone)') <= Cardinality(IdsOf(Survivors \ Gone))
            /\ Cardinality(IdsOf(Owned(v) \ Gone)') \in Nat /\ Cardinality(IdsOf(Owned(v) \ Gone)) \in Nat
            /\ Cardinality(IdsOf(Survivors \ Gone)') \in Nat /\ Cardinality(IdsOf(Survivors \ Gone)) \in Nat
        BY <4>2, <4>3, FewerIds
      <4>5. /\ Cardinality(IdsOf(Owned(v) \ Gone)') < UserLimit
            /\ Cardinality(IdsOf(Survivors \ Gone)') < TotalLimit
        BY <4>1, <4>4, LimitsAssumption
      <4> QED BY <4>1, <4>5 DEF v
    <3>7. ASSUME NEW t \in Gone', Resolves(t)'
          PROVE  Evictable(t)' /\ \A s \in Gone' : Resolves(s)' => s = t
      <4>1. t \in Tokens /\ t \in Gone /\ t # ch.token /\ Resolves(t)
        <5>1. Gone \subseteq Tokens
          BY <1>2 DEF Gone, Operation, Change
        <5> QED BY <1>4, <1>6, <3>1, <3>3, <3>7, <5>1 DEF Resolves, Active
      <4>2. Evictable(t) /\ \A s \in Gone : Resolves(s) => s = t
        BY <2>1, <4>1 DEF LoginSound
      <4>3. ~Resolves(ch.token)
        BY <3>3, <4>1, <4>2
      <4>4. Survivors' = Survivors /\ \A v : Owned(v)' = Owned(v)
        BY <1>7, <1>4, <3>4, <3>5, <4>3 DEF Owned
      <4>5. \A s \in Survivors : files'[s] = files[s]
        BY <1>4, <1>7, <4>3 DEF Survivors, Stored
      <4>6. Evictable(t)'
        BY <1>7, <4>1, <4>2, <4>4, <4>5 DEF Evictable, Owned
      <4>7. \A s \in Gone' : Resolves(s)' => s = t
        <5>1. Gone \subseteq Tokens
          BY <1>2 DEF Gone, Operation, Change
        <5> QED BY <1>4, <1>6, <3>1, <3>3, <4>2, <5>1 DEF Resolves, Active
      <4> QED BY <4>6, <4>7
    <3>8. LoginSound'
      BY <1>3, <2>1, <3>6, <3>7 DEF LoginSound
    <3> QED BY <1>3, <1>5, <1>11, <3>2, <3>8 DEF LimitInv
  <2>3. CASE work.now = {} /\ ch \in work.after
    <3>. DEFINE u == ch.row.user
    <3>1. /\ ch.row \in Row /\ ch.row # NoRow /\ Gone = {}
          /\ Cardinality(IdsOf(Owned(u) \ Gone)) < UserLimit
          /\ Cardinality(IdsOf(Survivors \ Gone)) < TotalLimit
      BY <1>2, <2>1, <2>3 DEF LoginSound, Change, Gone
    <3>2. Owned(u) \ Gone = Owned(u) /\ Survivors \ Gone = Survivors
      BY <3>1
    <3>3. /\ Survivors \in SUBSET Tokens /\ \A v : Owned(v) \in SUBSET Tokens
          /\ Survivors' \subseteq Survivors \union {ch.token}
      BY <1>4, <1>6 DEF Owned, Survivors, Stored, Resolves, Active
    <3>4. IdsOf(Survivors)' \subseteq IdsOf(Survivors) \union {ch.row.id}
      BY <1>4, <3>3 DEF IdsOf, Survivors, Stored
    <3>5. IdsOf(Owned(u))' \subseteq IdsOf(Owned(u)) \union {ch.row.id}
      BY <1>4, <1>6, <3>3 DEF IdsOf, Owned, Survivors, Stored, Resolves, Active
    <3>6. \A v \in Users \ {u} : IdsOf(Owned(v))' \subseteq IdsOf(Owned(v))
      BY <1>4, <1>6, <3>3 DEF IdsOf, Owned, Survivors, Stored, Resolves, Active
    <3>7. ASSUME NEW S \in SUBSET Tokens, NEW x, NEW A \in SUBSET (IdsOf(S) \union {x}),
                 NEW limit \in Nat, Cardinality(IdsOf(S)) < limit
          PROVE  Cardinality(A) <= limit
      <4>1. IsFiniteSet(IdsOf(S)) /\ Cardinality(IdsOf(S)) \in Nat
        BY CountIds DEF IdsOf
      <4>2. /\ IsFiniteSet(IdsOf(S) \union {x})
            /\ Cardinality(IdsOf(S) \union {x}) <= Cardinality(IdsOf(S)) + 1
        BY <4>1, FS_AddElement
      <4>3. Cardinality(A) <= Cardinality(IdsOf(S) \union {x}) /\ IsFiniteSet(A)
        BY <4>2, FS_Subset
      <4>4. Cardinality(A) \in Nat /\ Cardinality(IdsOf(S) \union {x}) \in Nat
        BY <4>2, <4>3, FS_CardinalityType
      <4> QED BY <3>7, <4>1, <4>2, <4>3, <4>4
    <3>8. Cardinality(IdsOf(Survivors)') <= TotalLimit
      BY <3>1, <3>2, <3>3, <3>4, <3>7, LimitsAssumption
    <3>9. Cardinality(IdsOf(Owned(u))') <= UserLimit
      BY <3>1, <3>2, <3>3, <3>5, <3>7, LimitsAssumption
    <3>10. ASSUME NEW v \in Users \ {u} PROVE Cardinality(IdsOf(Owned(v))') <= UserLimit
      <4>1. /\ Cardinality(IdsOf(Owned(v))') <= Cardinality(IdsOf(Owned(v)))
            /\ Cardinality(IdsOf(Owned(v))') \in Nat /\ Cardinality(IdsOf(Owned(v))) \in Nat
        BY <3>3, <3>6, FewerIds
      <4> QED BY <4>1, LimitsAssumption DEF LimitInv, WithinLimits
    <3>11. WithinLimits'
      BY <3>8, <3>9, <3>10 DEF WithinLimits
    <3>12. LoginSound'
      <4>1. work'.now = {} /\ Gone' = {}
        BY <1>3, <2>3 DEF Gone
      <4>2. work'.after = {}
        BY <1>3, <2>1, <2>3 DEF LoginSound
      <4> QED BY <4>1, <4>2 DEF LoginSound
    <3> QED BY <1>3, <1>5, <1>11, <3>11, <3>12 DEF LimitInv
  <2> QED BY <1>1, <2>2, <2>3 DEF Changes
<1> QED BY <1>2, <1>9, <1>10, <1>11 DEF Operation

LEMMA LimitInit == Init => LimitInv
<1>. SUFFICES ASSUME Init PROVE LimitInv
  OBVIOUS
<1>1. Stored = {} /\ work = Idle
  BY DEF Init, Stored
<1>2. Survivors = {} /\ \A u : Owned(u) = {}
  BY <1>1 DEF Owned, Survivors
<1>3. Cardinality(IdsOf({})) = 0
  BY FS_EmptySet DEF IdsOf
<1> QED BY <1>1, <1>2, <1>3, LimitsAssumption DEF LimitInv, WithinLimits, OwnersAgree

\* Steps that start no operation and change no session's id, account or standing,
\* except that it may end.
LEMMA LimitKept ==
    ASSUME CredInv, Types', LimitInv, work' = Idle,
           \A t \in Tokens : Resolves(t)' => Resolves(t),
           \A t \in Stored' : t \in Stored /\ files'[t].id = files[t].id /\ files'[t].user = files[t].user
    PROVE  LimitInv'
<1>1. \A t \in Tokens : Resolves(t) => t \in Survivors
  BY DEF Survivors, Stored, Resolves, Active
<1>2. \A t \in Tokens : Resolves(t)' => t \in Stored'
  BY DEF Stored, Resolves, Active
<1>3. WithinLimits'
  BY <1>1, <1>2, FewerSessions DEF CredInv, LimitInv
<1>4. OwnersAgree'
  BY DEF LimitInv, OwnersAgree
<1> QED BY <1>3, <1>4 DEF LimitInv

LEMMA LimitNext == CredInv /\ LimitInv /\ [Next]_vars => LimitInv'
<1>. SUFFICES ASSUME CredInv, LimitInv, [Next]_vars PROVE LimitInv'
  OBVIOUS
<1>1. Types'
  BY TypesNext DEF CredInv
<1>2. CASE UNCHANGED vars
  <2>1. /\ Survivors' = Survivors /\ Gone' = Gone /\ Changes' = Changes /\ Stored' = Stored
        /\ \A v : Owned(v)' = Owned(v)
        /\ \A t : (Evictable(t)' <=> Evictable(t)) /\ (Resolves(t)' <=> Resolves(t))
        /\ \A S : IdsOf(S)' = IdsOf(S)
    BY <1>2 DEF vars, Survivors, Stored, Owned, Resolves, Active, Evictable, IdsOf, Gone, Changes
  <2>2. \A v : IdsOf(Owned(v) \ Gone)' = IdsOf(Owned(v) \ Gone)
    BY <1>2, <2>1 DEF vars, IdsOf
  <2>3. IdsOf(Survivors \ Gone)' = IdsOf(Survivors \ Gone)
    BY <1>2, <2>1 DEF vars, IdsOf
  <2>4. WithinLimits'
    BY <2>1 DEF LimitInv, WithinLimits
  <2>5. OwnersAgree'
    BY <1>2, <2>1 DEF LimitInv, OwnersAgree, vars
  <2>6. work' # Idle /\ work'.op = "login" => LoginSound'
    BY <1>2, <2>1, <2>2, <2>3 DEF LimitInv, LoginSound, vars
  <2>7. work' # Idle /\ work'.op = "rotate" => RotationSound'
    BY <1>2, <2>1 DEF LimitInv, RotationSound, vars
  <2> QED BY <2>4, <2>5, <2>6, <2>7 DEF LimitInv
<1>3. CASE Login
  BY <1>1, <1>3, LimitLogin
<1>4. ASSUME RevokeUser PROVE LimitInv'
  <2>1. PICK u \in Users : LET mine == {t \in Stored : Active(t) /\ files[t].user = u} IN
            Hold("revoke", {files[t].id : t \in mine},
                 [now |-> {[token |-> t, row |-> RevokedRow(t)] : t \in mine}, after |-> {}])
    BY <1>4 DEF RevokeUser
  <2>. DEFINE mine == {t \in Stored : Active(t) /\ files[t].user = u}
  <2>2. mine \in SUBSET Stored /\ UNCHANGED <<files, expired>>
    BY <1>4 DEF RevokeUser
  <2>3. Hold("revoke", {files[t].id : t \in mine},
             [now |-> {[token |-> t, row |-> RevokedRow(t)] : t \in mine}, after |-> {}])
    BY <2>1
  <2>. HIDE DEF mine
  <2> QED BY <2>2, <2>3, LimitRevoke
<1>5. ASSUME DeleteUser PROVE LimitInv'
  <2>1. PICK u \in Users : LET mine == {t \in Stored : files[t].user = u} IN
            Hold("revoke", {files[t].id : t \in mine}, [now |-> Unlink(mine), after |-> {}])
    BY <1>5 DEF DeleteUser
  <2>. DEFINE mine == {t \in Stored : files[t].user = u}
  <2>2. mine \in SUBSET Stored /\ UNCHANGED <<files, expired>>
    BY <1>5 DEF DeleteUser
  <2>3. Hold("revoke", {files[t].id : t \in mine}, [now |-> Unlink(mine), after |-> {}])
    BY <2>1
  <2>. HIDE DEF mine
  <2> QED BY <2>2, <2>3, LimitRevoke
<1>6. CASE ChangeFile
  BY <1>1, <1>6, LimitChange
<1>7. CASE Reply
  BY <1>1, <1>7, LimitKept DEF Reply, Resolves, Active, Stored
<1>8. CASE Cut
  BY <1>1, <1>8, LimitKept DEF Cut, Resolves, Active, Stored
<1>9. ASSUME NEW r \in Requests, Authenticate(r) PROVE LimitInv'
  BY <1>1, <1>9, LimitKept DEF Authenticate, Resolves, Active, Stored
<1>10. ASSUME work' = Idle, expired' = expired, NEW t \in Stored,
              files' = [files EXCEPT ![t] = Touched(t)] \/ files' = [files EXCEPT ![t] = RevokedRow(t)]
       PROVE  LimitInv'
  <2>1. files \in [Tokens -> Row \union {NoRow}] /\ files[t] \in Row /\ t \in Tokens
    BY DEF CredInv, Types, TypeOK, Stored
  <2>2. /\ Touched(t).id = files[t].id /\ Touched(t).user = files[t].user
        /\ Touched(t).status = files[t].status
        /\ RevokedRow(t).id = files[t].id /\ RevokedRow(t).user = files[t].user
        /\ RevokedRow(t).status = "revoked"
    BY <2>1 DEF Touched, RevokedRow, Row
  <2>3. \A s \in Tokens : Resolves(s)' => Resolves(s)
    BY <1>10, <2>1, <2>2 DEF Resolves, Active, Stored
  <2>4. \A s \in Stored' : s \in Stored /\ files'[s].id = files[s].id /\ files'[s].user = files[s].user
    BY <1>10, <2>1, <2>2 DEF Stored
  <2> QED BY <1>1, <1>10, <2>3, <2>4, LimitKept
<1>11. ASSUME NEW r \in Requests, Touch(r) PROVE LimitInv'
  BY <1>10, <1>11 DEF Touch, Acts, RowsOf
<1>12. ASSUME NEW r \in Requests, IdleRevoke(r) PROVE LimitInv'
  BY <1>10, <1>12 DEF IdleRevoke, Acts, RowsOf
<1>13. ASSUME NEW r \in Requests, Rotate(r) PROVE LimitInv'
  BY <1>1, <1>13, LimitRotate
<1>14. ASSUME NEW r \in Requests, Logout(r) PROVE LimitInv'
  <2>1. pending[r].token \in Stored
    BY <1>14 DEF Logout, Acts, Active, CredInv, Types, TypeOK, Credential, Stored
  <2> QED BY <1>10, <1>14, <2>1 DEF Logout, Acts
<1>15. ASSUME NEW r \in Requests, Finish(r) PROVE LimitInv'
  BY <1>1, <1>15, LimitKept DEF Finish, Acts, Resolves, Active, Stored
<1>16. CASE Tick
  BY <1>1, <1>16, LimitKept DEF Tick, Resolves, Active, Stored
<1>17. CASE Expire
  BY <1>1, <1>17, LimitKept DEF Expire, Resolves, Active, Stored
<1> QED
  BY <1>2, <1>3, <1>4, <1>5, <1>6, <1>7, <1>8, <1>9, <1>11, <1>12, <1>13, <1>14, <1>15, <1>16, <1>17
     DEF Next

LEMMA LimitInvariant == Spec => [](CredInv /\ LimitInv)
BY CredInit, CredNext, LimitInit, LimitNext, PTL DEF Spec

\* No account and no store holds more usable sessions than its limit, wherever
\* logins and rotations are cut.
THEOREM LimitsKept == Spec => []LimitsHold
<1>1. LimitInv => LimitsHold
  BY DEF LimitInv, WithinLimits, LimitsHold, IdsOf
<1> QED BY LimitInvariant, <1>1, PTL

\* A login ends a usable session only at a limit, and the least recently used.
THEOREM LoginsSpare == Spec => LoginsCoexist
<1>. DEFINE Spared ==
       work # Idle /\ work.op = "login" => \A t \in Tokens :
         Resolves(t) /\ files'[t] = NoRow => Evictable(t)
<1>1. CredInv /\ LimitInv /\ [Next]_vars => Spared
  <2>. SUFFICES ASSUME CredInv, LimitInv, [Next]_vars, work # Idle, work.op = "login",
                       NEW t \in Tokens, Resolves(t), files'[t] = NoRow
                PROVE  Evictable(t)
    OBVIOUS
  <2>1. files[t] # NoRow
    BY DEF Resolves, Active
  <2>2. ChangeFile
    BY <2>1 DEF Next, vars, Login, RevokeUser, DeleteUser, Reply, Cut, Authenticate, Touch, IdleRevoke,
          Rotate, Logout, Finish, Acts, Tick, Expire
  <2>3. LoginSound
    BY DEF LimitInv
  <2>4. PICK ch \in Changes : files' = [files EXCEPT ![ch.token] = ch.row]
    BY <2>2 DEF ChangeFile, Changes
  <2>5. ch.token = t /\ ch.row = NoRow
    BY <2>1, <2>4 DEF CredInv, Types, TypeOK
  <2>6. t \in Gone
    BY <2>3, <2>5 DEF LoginSound, Gone, Changes
  <2> QED BY <2>3, <2>6 DEF LoginSound
<1>2. Spared => (work # Idle /\ work.op = "login" => \A t \in Tokens :
       Resolves(t) /\ files'[t] = NoRow =>
         LET mine == Owned(files[t].user)
         IN  \/ /\ Cardinality(mine) >= UserLimit
                /\ \A s \in mine : files[s].updated >= files[t].updated
             \/ /\ Cardinality(Survivors) >= TotalLimit
                /\ \A s \in Survivors : files[s].updated >= files[t].updated)
  BY DEF Evictable
<1>. HIDE DEF Spared
<1> QED BY LimitInvariant, <1>1, <1>2, PTL DEF LoginsCoexist, Spec
=================================================================================
