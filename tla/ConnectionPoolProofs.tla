------------------------- MODULE ConnectionPoolProofs -------------------------
(* That the connection pool keeps its promises for every number of threads and   *)
(* every capacity.  Sets come first: who may hold which connection.  Then the    *)
(* two counters of the pool, which turn the sets into numbers.                   *)
EXTENDS ConnectionPool, FiniteSetTheorems, FunctionTheorems, TLAPS

\* Types, but for the range of the two counters.
SetTypes ==
  /\ os \in Process /\ pid \in Process
  /\ idle \subseteq Conn /\ total \in Int /\ inUse \in Int
  /\ gen \in Nat /\ closed \in BOOLEAN
  /\ pc \in [Thread -> Where]
  /\ late \subseteq Thread
  /\ lease \in [Thread -> Lease]
  /\ open \subseteq Conn /\ inherited \subseteq open /\ used \subseteq open

\* The pool belongs to the parent until the child first uses it, and until then
\* no thread of the child is inside the pool's code.  Who cleans a connection
\* owns it.
ProcessSound ==
  /\ os = "parent" => pid = "parent" /\ inherited = {}
  /\ pid # os => open = inherited /\ \A t \in Thread : pc[t] \in {"out", "holding"}
  /\ \A t \in Thread : pc[t] = "cleaning" => lease[t].owner = os

\* A lease is of a generation that began, has an open connection, and has an
\* owner that the pool belonged to.
LeasesSound ==
  /\ \A t \in Thread : lease[t].gen <= gen
  /\ \A t \in Leasing :
       /\ lease[t].conn \in open
       /\ pid = "parent" => lease[t].owner = "parent"

\* The inductive invariant of leases.
LeaseInv == SetTypes /\ ProcessSound /\ LeasesSound /\ OneUserPerSession

-------------------------------------------------------------------------------
(* Leases *)

LEMMA NoLeaseType == NoLease \in Lease /\ NoLease.gen = 0
BY DEF NoLease, Lease, Process

LEMMA LeaseInit == Init => LeaseInv
<1>. SUFFICES ASSUME Init PROVE LeaseInv
  OBVIOUS
<1>1. Leasing = {}
  BY DEF Init, Leasing, At
<1>2. SetTypes
  <2>1. pc \in [Thread -> Where] /\ lease \in [Thread -> Lease]
    BY NoLeaseType DEF Init, Where
  <2>2. os \in Process /\ pid \in Process /\ total \in Int /\ inUse \in Int /\ gen \in Nat
    BY DEF Init, Process
  <2>4. closed \in BOOLEAN
    BY DEF Init
  <2>3. idle \subseteq Conn /\ late \subseteq Thread
        /\ open \subseteq Conn /\ inherited \subseteq open /\ used \subseteq open
    BY DEF Init
  <2>. QED BY <2>1, <2>2, <2>3, <2>4 DEF SetTypes
<1>3. ProcessSound /\ LeasesSound /\ OneUserPerSession
  BY <1>1 DEF Init, ProcessSound, LeasesSound, OneUserPerSession, NoLease
<1>. QED BY <1>2, <1>3 DEF LeaseInv

\* What the first step into the pool leaves, in the parent and in a child.
LEMMA Ensured ==
  ASSUME LeaseInv, EnsureProcess, UNCHANGED <<os, lease>>
  PROVE  /\ pid' = os /\ pid' \in Process
         /\ idle' \subseteq idle /\ total' \in Int /\ inUse' \in Int
         /\ gen' \in Nat /\ gen' >= gen /\ closed' \in BOOLEAN
         /\ open' \subseteq open /\ inherited' \subseteq open' /\ used' \subseteq used \intersect open'
         /\ \A c \in open : c \in open' \/ c \in idle
         /\ pid # os => idle' = {} /\ total' = 0 /\ inUse' = 0 /\ gen' = gen + 1
                          /\ closed' = FALSE /\ open' = inherited'
         /\ pid = os => UNCHANGED <<poolVars, wireVars>>
         /\ os = "parent" => inherited' = {}
         /\ idle' \subseteq open' \ used'
<1>1. CASE pid = os
  BY <1>1 DEF LeaseInv, SetTypes, EnsureProcess, poolVars, wireVars, ProcessSound,
     OneUserPerSession
<1>2. CASE pid # os
  <2>1. /\ pid' = os /\ idle' = {} /\ total' = 0 /\ inUse' = 0
        /\ gen' = gen + 1 /\ closed' = FALSE
        /\ open' = open \ idle /\ inherited' = inherited \ idle /\ used' = used \ idle
    BY <1>2 DEF EnsureProcess, CloseSockets
  <2>2. open = inherited /\ os # "parent"
    BY <1>2 DEF LeaseInv, ProcessSound
  <2>3. gen \in Nat /\ os \in Process /\ used \subseteq open
    BY DEF LeaseInv, SetTypes
  <2>4. gen' \in Nat /\ gen' >= gen /\ total' \in Int /\ inUse' \in Int
    BY <2>1, <2>3
  <2>. QED BY <1>2, <2>1, <2>2, <2>3, <2>4
<1>. QED BY <1>1, <1>2

\* Whom a notification moves: the thread that notifies, and a waiter or nobody.
LEMMA Notified ==
  ASSUME SetTypes, NEW t \in Thread, NEW place \in Where, pc[t] # "asleep",
         NotifyAndMove(t, place) \/ Move(t, place)
  PROVE  /\ pc' \in [Thread -> Where]
         /\ pc'[t] = place
         /\ \A u \in Thread : u # t =>
            \/ pc'[u] = pc[u]
            \/ pc'[u] = "woken" /\ pc[u] = "asleep"
<1>. pc \in [Thread -> Where]
  BY DEF SetTypes
<1>1. CASE pc' = [pc EXCEPT ![t] = place]
  BY <1>1
<1>2. CASE \E w \in Thread : pc[w] = "asleep" /\ pc' = [pc EXCEPT ![t] = place, ![w] = "woken"]
  <2>1. PICK w \in Thread : pc[w] = "asleep" /\ pc' = [pc EXCEPT ![t] = place, ![w] = "woken"]
    BY <1>2
  <2>2. "woken" \in Where
    BY DEF Where
  <2>. QED BY <2>1, <2>2
<1>. QED BY <1>1, <1>2 DEF NotifyAndMove, Move

\* A lease is given back and its connection closed.
LEMMA Returned ==
  ASSUME LeaseInv, NEW t \in Leasing, Leasing' = Leasing \ {t},
         lease' = [lease EXCEPT ![t] = NoLease], CloseSockets({lease[t].conn}),
         pc' \in [Thread -> Where], pid # os => \A u \in Thread : pc'[u] \in {"out", "holding"},
         \A u \in Thread : pc'[u] = "cleaning" => u # t /\ pc[u] = "cleaning",
         UNCHANGED <<os, pid, idle, gen, closed, late>>, total' \in Int, inUse' \in Int
  PROVE  LeaseInv'
<1>1. SetTypes'
  BY NoLeaseType DEF LeaseInv, SetTypes, CloseSockets
<1>2. ProcessSound'
  BY DEF LeaseInv, ProcessSound, CloseSockets, SetTypes
<1>3. t \in Thread /\ \A u \in Thread : u # t => lease'[u] = lease[u]
  BY DEF LeaseInv, SetTypes, Leasing, At
<1>4. lease'[t].gen = 0
  BY <1>3 DEF LeaseInv, SetTypes, NoLease
<1>5. Leasing \subseteq Thread
  BY DEF Leasing, At
<1>6. LeasesSound'
  BY <1>3, <1>4, <1>5 DEF LeaseInv, LeasesSound, CloseSockets, SetTypes, OneUserPerSession
<1>7. OneUserPerSession'
  BY <1>3, <1>5 DEF LeaseInv, OneUserPerSession, CloseSockets
<1>. QED BY <1>1, <1>2, <1>6, <1>7 DEF LeaseInv

LEMMA LeaseNext == LeaseInv /\ [Next]_vars => LeaseInv'
<1>. SUFFICES ASSUME LeaseInv, [Next]_vars PROVE LeaseInv'
  OBVIOUS
<1>. USE DEF LeaseInv
<1>1. ASSUME NEW t \in Thread, Ask(t) PROVE LeaseInv'
  <2>1. EnsureProcess /\ UNCHANGED <<os, late, lease>> /\ pc' = [pc EXCEPT ![t] = "asking"]
        /\ pc[t] = "out"
    BY <1>1 DEF Ask, Move
  <2>2. Leasing' = Leasing
    BY <2>1 DEF Leasing, At, SetTypes
  <2>10. /\ pid' = os /\ pid' \in Process
         /\ idle' \subseteq idle /\ total' \in Int /\ inUse' \in Int
         /\ gen' \in Nat /\ gen' >= gen /\ closed' \in BOOLEAN
         /\ open' \subseteq open /\ inherited' \subseteq open' /\ used' \subseteq used
         /\ \A c \in open : c \in open' \/ c \in idle
         /\ idle' \subseteq open' \ used'
    BY <2>1, Ensured
  <2>3. SetTypes'
    <3>1. used' \subseteq open'
      BY <2>1, Ensured DEF SetTypes
    <3>. QED BY <2>1, <2>10, <3>1 DEF SetTypes, Where
  <2>4. ProcessSound'
    BY <2>1, Ensured DEF ProcessSound, SetTypes, Process
  <2>5. LeasesSound'
    <3>1. \A u \in Thread : lease[u].gen <= gen'
      <4>1. ASSUME NEW u \in Thread PROVE lease[u].gen \in Nat /\ lease[u].gen <= gen /\ gen \in Nat
        BY DEF LeasesSound, SetTypes, Lease
      <4>. QED BY <2>10, <4>1
    <3>2. ASSUME NEW u \in Leasing PROVE lease[u].conn \in open'
      BY <2>1, Ensured DEF LeasesSound, OneUserPerSession
    <3>3. ASSUME NEW u \in Leasing, pid' = "parent" PROVE lease[u].owner = "parent"
      BY <2>1, <3>3, Ensured DEF LeasesSound, ProcessSound, poolVars
    <3>. QED BY <2>1, <2>2, <3>1, <3>2, <3>3 DEF LeasesSound
  <2>6. OneUserPerSession'
    <3>1. CASE pid = os
      BY <3>1, <2>1, <2>2, Ensured DEF OneUserPerSession, poolVars, wireVars
    <3>2. CASE pid # os
      BY <3>2, <2>1, <2>2, Ensured DEF OneUserPerSession, LeasesSound, ProcessSound, SetTypes,
         Process
    <3>. QED BY <3>1, <3>2
  <2>. QED BY <2>3, <2>4, <2>5, <2>6
<1>2. ASSUME NEW t \in Thread, LookClosed(t) \/ DeadlinePasses(t) \/ WaitReturns(t)
      PROVE LeaseInv'
  <2>1. /\ UNCHANGED <<os, poolVars, lease, wireVars>> /\ late' \in SUBSET Thread
        /\ pc' \in [Thread -> Where]
        /\ pid = os => \A u \in Thread :
              \/ pc'[u] = pc[u]
              \/ pc'[u] \in {"out", "asking"} /\ pc[u] \in {"asking", "asleep", "woken"}
        /\ pid # os => pc' = pc
    BY <1>2 DEF LookClosed, DeadlinePasses, WaitReturns, Move, SetTypes, Where, ProcessSound,
       poolVars
  <2>2. Leasing' = Leasing
    BY <2>1 DEF Leasing, At, SetTypes
  <2>. QED BY <2>1, <2>2 DEF SetTypes, ProcessSound, LeasesSound, OneUserPerSession, poolVars,
     wireVars
<1>3. ASSUME NEW t \in Thread, Reuse(t) PROVE LeaseInv'
  <2>1. PICK D \in SUBSET idle : \E c \in idle \ D :
        /\ idle' = idle \ (D \union {c})
        /\ total' = total - Cardinality(D)
        /\ CloseSockets(D)
        /\ lease' = [lease EXCEPT ![t] =
                        [conn |-> c, gen |-> gen, owner |-> pid, force |-> FALSE]]
    BY <1>3 DEF Reuse
  <2>2. PICK c \in idle \ D :
        /\ idle' = idle \ (D \union {c})
        /\ total' = total - Cardinality(D)
        /\ CloseSockets(D)
        /\ lease' = [lease EXCEPT ![t] =
                        [conn |-> c, gen |-> gen, owner |-> pid, force |-> FALSE]]
    BY <2>1
  <2>3. pc[t] = "asking" /\ pc' = [pc EXCEPT ![t] = "holding"] /\ inUse' = inUse + 1
        /\ late' = late \ {t} /\ UNCHANGED <<os, pid, gen, closed>>
    BY <1>3 DEF Reuse, Move
  <2>4. Leasing' = Leasing \union {t} /\ t \notin Leasing
    BY <2>3 DEF Leasing, At, SetTypes
  <2>5. pid = os
    BY <2>3 DEF ProcessSound
  <2>6. total' \in Int
    BY <2>2, ConnAssumption, FS_Subset, FS_CardinalityType DEF SetTypes
  <2>7. SetTypes'
    BY <2>2, <2>3, <2>6 DEF SetTypes, Where, CloseSockets, Lease
  <2>8. ProcessSound'
    BY <2>2, <2>3, <2>5 DEF ProcessSound, CloseSockets
  <2>9. LeasesSound'
    BY <2>2, <2>3, <2>4 DEF LeasesSound, CloseSockets, OneUserPerSession, SetTypes, Process
  <2>10. OneUserPerSession'
    BY <2>2, <2>3, <2>4, <2>5 DEF OneUserPerSession, CloseSockets, SetTypes, LeasesSound
  <2>. QED BY <2>7, <2>8, <2>9, <2>10
<1>4. ASSUME NEW t \in Thread, Reserve(t) \/ SleepOrGiveUp(t) PROVE LeaseInv'
  <2>1. /\ pc[t] = "asking" /\ idle' = {}
        /\ open' = open \ idle /\ inherited' = inherited \ idle /\ used' = used \ idle
        /\ UNCHANGED <<os, pid, inUse, gen, closed>> /\ late' = late \ {t}
    BY <1>4 DEF Reserve, SleepOrGiveUp, NothingIdle, CloseSockets
  <2>2. pid = os
    BY <2>1 DEF ProcessSound
  <2>3. total' \in Int
    <3>1. Left \in Int
      BY ConnAssumption, FS_Subset, FS_CardinalityType DEF SetTypes, Left
    <3>. QED BY <3>1, <1>4 DEF Reserve, SleepOrGiveUp
  <2>4. /\ pc' \in [Thread -> Where] /\ lease' \in [Thread -> Lease]
        /\ \A u \in Thread : u # t => pc'[u] = pc[u] /\ lease'[u] = lease[u]
        /\ pc'[t] \in {"opening", "out", "asleep"}
        /\ lease'[t].gen <= gen
    <3>1. pc \in [Thread -> Where] /\ lease \in [Thread -> Lease] /\ gen \in Nat
          /\ lease[t].gen <= gen
      BY DEF SetTypes, LeasesSound
    <3>2. [NoLease EXCEPT !.gen = gen] \in Lease /\ [NoLease EXCEPT !.gen = gen].gen <= gen
      BY <3>1, NoLeaseType DEF Lease
    <3>3. CASE Reserve(t)
      BY <3>1, <3>2, <3>3 DEF Reserve, Move, Where
    <3>4. CASE SleepOrGiveUp(t)
      BY <3>1, <3>4 DEF SleepOrGiveUp, Move, Where
    <3>. QED BY <1>4, <3>3, <3>4
  <2>5. Leasing' = Leasing /\ t \notin Leasing
    BY <2>1, <2>4 DEF Leasing, At
  <2>6. SetTypes'
    BY <2>1, <2>3, <2>4 DEF SetTypes
  <2>7. ProcessSound'
    BY <2>1, <2>2, <2>4 DEF ProcessSound
  <2>8. LeasesSound'
    BY <2>1, <2>4, <2>5 DEF LeasesSound, OneUserPerSession, Leasing, At
  <2>9. OneUserPerSession'
    BY <2>1, <2>2, <2>4, <2>5 DEF OneUserPerSession, Leasing, At
  <2>. QED BY <2>6, <2>7, <2>8, <2>9
<1>5. ASSUME NEW t \in Thread, OpenFails(t) PROVE LeaseInv'
  <2>1. /\ pc[t] = "opening" /\ total' \in Int
        /\ UNCHANGED <<os, pid, idle, inUse, gen, closed, late, wireVars>>
        /\ lease' = [lease EXCEPT ![t] = NoLease]
    BY <1>5 DEF OpenFails, SetTypes
  <2>2. pid = os
    BY <2>1 DEF ProcessSound
  <2>3. /\ pc' \in [Thread -> Where]
        /\ \A u \in Thread :
              \/ pc'[u] = pc[u]
              \/ pc'[u] \in {"out", "woken"} /\ u \notin Leasing
    <3>1. NotifyAndMove(t, "out") \/ Move(t, "out")
      BY <1>5 DEF OpenFails
    <3>. QED BY <2>1, <3>1, Notified DEF Where, Leasing, At
  <2>4. Leasing' = Leasing /\ t \notin Leasing
    BY <2>1, <2>3 DEF Leasing, At
  <2>5. lease' \in [Thread -> Lease] /\ lease'[t].gen = 0
    BY <2>1 DEF SetTypes, NoLease, Lease, Process
  <2>6. \A u \in Thread : u # t => lease'[u] = lease[u]
    BY <2>1
  <2>7. SetTypes' /\ ProcessSound'
    BY <2>1, <2>2, <2>3, <2>5 DEF SetTypes, ProcessSound, wireVars
  <2>8. LeasesSound' /\ OneUserPerSession'
    BY <2>1, <2>4, <2>5, <2>6 DEF SetTypes, LeasesSound, OneUserPerSession, wireVars, Leasing, At
  <2>. QED BY <2>7, <2>8
<1>6. ASSUME NEW t \in Thread, OpenSucceeds(t) PROVE LeaseInv'
  <2>1. /\ pc[t] = "opening"
        /\ UNCHANGED <<os, pid, idle, total, gen, closed, late, inherited, used>>
    BY <1>6 DEF OpenSucceeds
  <2>2. pid = os
    BY <2>1 DEF ProcessSound
  <2>3. CASE /\ lease' = [lease EXCEPT ![t] = NoLease]
             /\ Move(t, "out")
             /\ UNCHANGED <<inUse, open>>
    <3>1. Leasing' = Leasing /\ t \notin Leasing
      BY <2>1, <2>3 DEF Leasing, At, Move, SetTypes
    <3>2. /\ lease' \in [Thread -> Lease] /\ lease'[t].gen = 0 /\ pc' \in [Thread -> Where]
          /\ \A u \in Thread : u # t => lease'[u] = lease[u]
      BY <2>3 DEF SetTypes, NoLease, Lease, Process, Move, Where
    <3>3. SetTypes' /\ ProcessSound'
      BY <2>1, <2>2, <2>3, <3>2 DEF SetTypes, ProcessSound, Move
    <3>4. LeasesSound' /\ OneUserPerSession'
      BY <2>1, <2>3, <3>1, <3>2 DEF SetTypes, LeasesSound, OneUserPerSession, Leasing, At
    <3>. QED BY <3>3, <3>4
  <2>4. CASE \E c \in Conn \ open :
                /\ open' = open \union {c}
                /\ lease' = [lease EXCEPT ![t] =
                        [conn |-> c, gen |-> gen, owner |-> pid, force |-> FALSE]]
                /\ inUse' = inUse + 1
                /\ Move(t, "holding")
    <3>1. PICK c \in Conn \ open :
                /\ open' = open \union {c}
                /\ lease' = [lease EXCEPT ![t] =
                        [conn |-> c, gen |-> gen, owner |-> pid, force |-> FALSE]]
                /\ inUse' = inUse + 1
                /\ Move(t, "holding")
      BY <2>4
    <3>2. Leasing' = Leasing \union {t} /\ t \notin Leasing
      BY <2>1, <3>1 DEF Leasing, At, SetTypes, Move
    <3>3. SetTypes'
      BY <2>1, <3>1 DEF SetTypes, Lease, Where, Move
    <3>4. ProcessSound' /\ LeasesSound'
      BY <2>1, <2>2, <3>1, <3>2 DEF ProcessSound, LeasesSound, SetTypes, Move
    <3>5. OneUserPerSession'
      BY <2>1, <2>2, <3>1, <3>2 DEF OneUserPerSession, LeasesSound, SetTypes
    <3>. QED BY <3>3, <3>4, <3>5
  <2>. QED BY <1>6, <2>3, <2>4 DEF OpenSucceeds
<1>7. ASSUME NEW t \in Thread, Use(t) PROVE LeaseInv'
  <2>1. /\ pc[t] = "holding" /\ used' = used \union {lease[t].conn}
        /\ UNCHANGED <<os, poolVars, threadVars, open, inherited>>
    BY <1>7 DEF Use
  <2>2. t \in Leasing /\ Leasing' = Leasing
    BY <2>1 DEF Leasing, At, threadVars
  <2>. QED BY <2>1, <2>2 DEF SetTypes, ProcessSound, LeasesSound, OneUserPerSession, poolVars,
     threadVars
<1>8. ASSUME NEW t \in Thread, CloseLease(t) PROVE LeaseInv'
  <2>1. pc[t] = "holding" /\ UNCHANGED <<os, poolVars, late>> /\ t \in Leasing
    BY <1>8 DEF CloseLease, Leasing, At
  <2>2. CASE /\ pid = os /\ lease[t].owner = os
             /\ \E cursorFailed \in BOOLEAN : lease' = [lease EXCEPT ![t].force = cursorFailed]
             /\ Move(t, "cleaning")
             /\ UNCHANGED wireVars
    <3>1. Leasing' = Leasing
      BY <2>1, <2>2 DEF Leasing, At, SetTypes, Move
    <3>2. /\ lease' \in [Thread -> Lease] /\ pc' \in [Thread -> Where]
          /\ \A u \in Thread : /\ lease'[u].conn = lease[u].conn /\ lease'[u].gen = lease[u].gen
                               /\ lease'[u].owner = lease[u].owner
      BY <2>2 DEF SetTypes, Lease, Move, Where
    <3>3. SetTypes' /\ ProcessSound'
      BY <2>1, <2>2, <3>2 DEF SetTypes, ProcessSound, poolVars, wireVars, Move
    <3>4. LeasesSound' /\ OneUserPerSession'
      BY <2>1, <2>2, <3>1, <3>2
      DEF SetTypes, LeasesSound, OneUserPerSession, poolVars, wireVars, Leasing, At
    <3>. QED BY <3>3, <3>4
  <2>3. CASE /\ lease' = [lease EXCEPT ![t] = NoLease]
             /\ Move(t, "out")
             /\ CloseSockets({lease[t].conn})
    <3>1. Leasing' = Leasing \ {t} /\ pc' \in [Thread -> Where]
          /\ (pid # os => \A u \in Thread : pc'[u] \in {"out", "holding"})
          /\ \A u \in Thread : pc'[u] = "cleaning" => u # t /\ pc[u] = "cleaning"
      BY <2>1, <2>3 DEF Leasing, At, SetTypes, Move, Where, ProcessSound
    <3>2. UNCHANGED <<os, pid, idle, gen, closed, late>> /\ total' \in Int /\ inUse' \in Int
      BY <2>1 DEF poolVars, SetTypes
    <3>. QED BY <2>1, <2>3, <3>1, <3>2, Returned
  <2>. QED BY <1>8, <2>2, <2>3 DEF CloseLease
<1>9. ASSUME NEW t \in Thread, FinishRelease(t) PROVE LeaseInv'
  <2>1. /\ pc[t] = "cleaning" /\ UNCHANGED <<os, pid, gen, closed, late>>
        /\ lease' = [lease EXCEPT ![t] = NoLease] /\ t \in Leasing
    BY <1>9 DEF FinishRelease, Leasing, At
  <2>2. pid = os
    BY <2>1 DEF ProcessSound
  <2>3. /\ pc' \in [Thread -> Where] /\ pc'[t] = "out"
        /\ \A u \in Thread : u # t =>
              \/ pc'[u] = pc[u]
              \/ pc'[u] = "woken" /\ u \notin Leasing
    <3>1. NotifyAndMove(t, "out") \/ Move(t, "out")
      BY <1>9 DEF FinishRelease
    <3>. QED BY <2>1, <3>1, Notified DEF Where, Leasing, At
  <2>4. Leasing' = Leasing \ {t}
    BY <2>1, <2>3 DEF Leasing, At
  <2>5. CASE CloseSockets({lease[t].conn}) /\ UNCHANGED idle
    <3>1. total' \in Int /\ inUse' \in Int
      BY <1>9 DEF FinishRelease, SetTypes
    <3>2. \A u \in Thread : pc'[u] = "cleaning" => u # t /\ pc[u] = "cleaning"
      BY <2>3
    <3>. QED BY <2>1, <2>2, <2>3, <2>4, <2>5, <3>1, <3>2, Returned
  <2>6. CASE /\ idle' = idle \union {lease[t].conn} /\ used' = used \ {lease[t].conn}
             /\ UNCHANGED <<total, open, inherited>> /\ inUse' = inUse - 1
    <3>1. \A u \in Thread : u # t => lease'[u] = lease[u]
      BY <2>1
    <3>2. lease' \in [Thread -> Lease] /\ lease'[t].gen = 0
      BY <2>1 DEF SetTypes, NoLease, Lease, Process
    <3>3. SetTypes' /\ ProcessSound'
      BY <2>1, <2>2, <2>3, <2>6, <3>2 DEF SetTypes, ProcessSound, LeasesSound
    <3>4. LeasesSound'
      BY <2>1, <2>4, <2>6, <3>1, <3>2 DEF LeasesSound, SetTypes, Leasing, At
    <3>5. lease[t].conn \notin inherited
      <4>1. CASE pid = "parent"
        BY <4>1, <2>2 DEF ProcessSound
      <4>2. CASE pid = "child"
        <5>1. \A c \in inherited : lease[t].conn = c => lease[t].owner # os
          BY <2>1, <2>2 DEF OneUserPerSession
        <5>2. lease[t].owner = os
          BY <2>1 DEF ProcessSound, Leasing, At
        <5>. QED BY <5>1, <5>2
      <4>. QED BY <4>1, <4>2 DEF SetTypes, Process
    <3>6. OneUserPerSession'
      BY <2>1, <2>4, <2>6, <3>1, <3>5 DEF OneUserPerSession, LeasesSound, Leasing, At
    <3>. QED BY <3>3, <3>4, <3>6
  <2>. QED BY <1>9, <2>5, <2>6 DEF FinishRelease
<1>10. ASSUME CloseAll PROVE LeaseInv'
  <2>1. /\ pid' = os /\ closed' = TRUE /\ gen' \in {gen + 1, gen + 2}
        /\ idle' = {} /\ total' = 0 /\ inUse' = 0
        /\ pc' = [t \in Thread |-> IF pc[t] = "asleep" THEN "woken" ELSE pc[t]]
        /\ open' = open \ idle /\ inherited' = inherited \ idle /\ used' = used \ idle
        /\ UNCHANGED <<os, late, lease>>
    BY <1>10 DEF CloseAll, CloseSockets
  <2>2. Leasing' = Leasing
    BY <2>1 DEF Leasing, At
  <2>3. SetTypes'
    BY <2>1 DEF SetTypes, Where
  <2>4. ProcessSound'
    BY <2>1 DEF ProcessSound, SetTypes, Process
  <2>5. LeasesSound' /\ OneUserPerSession'
    BY <2>1, <2>2 DEF LeasesSound, OneUserPerSession, ProcessSound, SetTypes, Process, Lease,
       Leasing, At
  <2>. QED BY <2>3, <2>4, <2>5
<1>11. ASSUME NEW f \in Thread, Fork(f) PROVE LeaseInv'
  <2>1. /\ os = "parent" /\ pid = "parent" /\ os' = "child" /\ inherited' = open
        /\ pc[f] \in {"out", "holding"}
        /\ pc' = [t \in Thread |-> IF t = f THEN pc[f] ELSE "out"]
        /\ lease' = [t \in Thread |-> IF t = f THEN lease[f] ELSE NoLease]
        /\ late' = late \intersect {f}
        /\ UNCHANGED <<poolVars, open, used>>
    BY <1>11 DEF Fork, ProcessSound
  <2>2. Leasing' = Leasing \intersect {f}
    BY <2>1 DEF Leasing, At
  <2>3. SetTypes'
    BY <2>1 DEF SetTypes, Where, NoLease, Lease, Process, poolVars
  <2>4. ProcessSound'
    BY <2>1 DEF ProcessSound, poolVars
  <2>5. LeasesSound'
    BY <2>1, <2>2 DEF LeasesSound, SetTypes, NoLease, poolVars
  <2>6. OneUserPerSession'
    BY <2>1, <2>2 DEF OneUserPerSession, poolVars
  <2>. QED BY <2>3, <2>4, <2>5, <2>6
<1>12. CASE UNCHANGED vars
  BY <1>12 DEF vars, poolVars, threadVars, wireVars, SetTypes, ProcessSound, LeasesSound,
     OneUserPerSession, Leasing, At
<1>. QED BY <1>1, <1>2, <1>3, <1>4, <1>5, <1>6, <1>7, <1>8, <1>9, <1>10, <1>11, <1>12
     DEF Next, Checkout, Return

\* No two checkouts ever share a session, an idle one carries nothing over, and
\* a child uses none of its parent's (acquire, release and _ensure_process).
THEOREM LeasesAreExclusive == Spec => []OneUserPerSession
<1>1. LeaseInv => OneUserPerSession
  BY DEF LeaseInv
<1>. QED BY LeaseInit, LeaseNext, <1>1, PTL DEF Spec

-------------------------------------------------------------------------------
(* Counters *)

CurrentLeases == Current(Leasing)
Reserving == Current(At("opening"))

\* What this process opened is ready for reuse or leased.
SocketsSound ==
  \A c \in open \ inherited : c \in idle \/ \E t \in Leasing : lease[t].conn = c

\* A lease of this pool is the process's own; another has a session of the parent.
CurrentSound ==
  pid = os => \A t \in Leasing :
    /\ lease[t].gen = gen => lease[t].owner = os
    /\ lease[t].gen # gen => closed \/ lease[t].conn \in inherited

\* The counters count.
CountersExact ==
  ~closed /\ pid = os =>
    /\ inUse = Cardinality(CurrentLeases)
    /\ total = Cardinality(idle) + inUse + Cardinality(Reserving)

\* The inductive invariant of the counters.
CountInv ==
  /\ SocketsSound /\ CurrentSound /\ CountersExact
  /\ total \in 0..Capacity /\ inUse \in 0..Capacity
  /\ Cardinality(open \ inherited) <= Capacity

\* Sets of threads and of connections are finite.
LEMMA ThreadsFinite ==
  ASSUME NEW S \in SUBSET Thread
  PROVE  IsFiniteSet(S) /\ Cardinality(S) \in Nat
BY ThreadAssumption, FS_Subset, FS_CardinalityType

LEMMA ConnsFinite ==
  ASSUME NEW S \in SUBSET Conn
  PROVE  IsFiniteSet(S) /\ Cardinality(S) \in Nat
BY ConnAssumption, FS_Subset, FS_CardinalityType

\* Leaving connections out.
LEMMA FewerConns ==
  ASSUME NEW S \in SUBSET Conn, NEW T \in SUBSET S
  PROVE  Cardinality(T) <= Cardinality(S) /\ Cardinality(S \ T) = Cardinality(S) - Cardinality(T)
<1>1. IsFiniteSet(S) /\ S \intersect T = T
  BY ConnsFinite
<1>2. Cardinality(T) <= Cardinality(S)
  BY <1>1, FS_Subset
<1>3. Cardinality(S \ T) = Cardinality(S) - Cardinality(S \intersect T)
  BY <1>1, FS_Difference
<1>. QED BY <1>1, <1>2, <1>3

\* Connections that are in a set or held by a thread of another are as many as
\* both at most.
LEMMA HeldOrIdle ==
  ASSUME NEW S \in SUBSET Conn, NEW I \in SUBSET Conn, NEW T \in SUBSET Thread,
         NEW f \in [T -> Conn], \A c \in S : c \in I \/ \E t \in T : f[t] = c
  PROVE  Cardinality(S) <= Cardinality(I) + Cardinality(T)
<1>. DEFINE H == {f[t] : t \in T}
<1>1. H \in SUBSET Conn /\ S \subseteq I \union H
  OBVIOUS
<1>2. Cardinality(H) <= Cardinality(T)
  <2>1. f \in Surjection(T, H)
    BY DEF Surjection
  <2>. QED BY <2>1, ThreadsFinite, FS_Surjection
<1>3. Cardinality(I \union H) <= Cardinality(I) + Cardinality(H)
  <2>1. /\ IsFiniteSet(I) /\ IsFiniteSet(H) /\ Cardinality(I) \in Nat /\ Cardinality(H) \in Nat
        /\ Cardinality(I \intersect H) \in Nat
    BY <1>1, ConnsFinite
  <2>2. Cardinality(I \union H) = Cardinality(I) + Cardinality(H) - Cardinality(I \intersect H)
    BY <2>1, FS_Union
  <2>. QED BY <2>1, <2>2
<1>4. /\ IsFiniteSet(I \union H) /\ Cardinality(I \union H) \in Nat /\ Cardinality(S) \in Nat
      /\ Cardinality(I) \in Nat /\ Cardinality(H) \in Nat /\ Cardinality(T) \in Nat
  BY <1>1, ConnsFinite, ThreadsFinite
<1>5. Cardinality(S) <= Cardinality(I \union H)
  BY <1>1, <1>4, FS_Subset
<1>. QED BY <1>2, <1>3, <1>4, <1>5

\* One thread more, or less.
LEMMA OneThread ==
  ASSUME NEW S \in SUBSET Thread, NEW t \in Thread
  PROVE  /\ t \notin S => Cardinality(S \union {t}) = Cardinality(S) + 1
         /\ t \in S => Cardinality(S \ {t}) = Cardinality(S) - 1 /\ Cardinality(S) >= 1
<1>1. IsFiniteSet(S) /\ IsFiniteSet(S \ {t}) /\ Cardinality(S \ {t}) \in Nat
  BY ThreadsFinite
<1>. QED BY <1>1, ThreadsFinite, FS_AddElement, FS_RemoveElement

LEMMA CountInit == Init => CountInv
<1>. SUFFICES ASSUME Init PROVE CountInv
  OBVIOUS
<1>1. Leasing = {} /\ At("opening") = {}
  BY DEF Init, Leasing, At
<1>2. CurrentLeases = {} /\ Reserving = {}
  BY <1>1 DEF CurrentLeases, Reserving, Current
<1>3. open \ inherited = {} /\ idle = {} /\ total = 0 /\ inUse = 0
  BY DEF Init
<1>. QED BY <1>1, <1>2, <1>3, FS_EmptySet, CapacityAssumption
     DEF CountInv, SocketsSound, CurrentSound, CountersExact

\* While the pool is open its own sockets are no more than its slots.
LEMMA SocketsHaveSlots ==
  ASSUME LeaseInv, SocketsSound, CurrentSound, CountersExact, ~closed, pid = os
  PROVE  Cardinality(open \ inherited) + Cardinality(Reserving) <= total
<1>. DEFINE f == [t \in CurrentLeases |-> lease[t].conn]
<1>1. /\ CurrentLeases \in SUBSET Thread /\ CurrentLeases \subseteq Leasing
      /\ Reserving \in SUBSET Thread
  BY DEF CurrentLeases, Reserving, Current, Leasing, At
<1>2. open \in SUBSET Conn /\ idle \in SUBSET Conn /\ open \ inherited \in SUBSET Conn
  BY DEF LeaseInv, SetTypes
<1>3. f \in [CurrentLeases -> Conn]
  BY <1>1, <1>2 DEF LeaseInv, LeasesSound
<1>4. \A c \in open \ inherited : c \in idle \/ \E t \in CurrentLeases : f[t] = c
  <2>. SUFFICES ASSUME NEW c \in open \ inherited, c \notin idle
                PROVE  \E t \in CurrentLeases : f[t] = c
    OBVIOUS
  <2>1. PICK t \in Leasing : lease[t].conn = c
    BY DEF SocketsSound
  <2>2. t \in CurrentLeases
    BY <2>1 DEF CurrentSound, CurrentLeases, Current
  <2>. QED BY <2>1, <2>2
<1>5. Cardinality(open \ inherited) <= Cardinality(idle) + Cardinality(CurrentLeases)
  BY <1>1, <1>2, <1>3, <1>4, HeldOrIdle
<1>6. /\ Cardinality(open \ inherited) \in Nat /\ Cardinality(idle) \in Nat
      /\ Cardinality(CurrentLeases) \in Nat /\ Cardinality(Reserving) \in Nat
  BY <1>1, <1>2, ConnsFinite, ThreadsFinite
<1>. QED BY <1>5, <1>6 DEF CountersExact

\* The sockets of this process become no more.
LEMMA SocketsKept ==
  ASSUME LeaseInv, CountInv, open' \ inherited' \subseteq open \ inherited
  PROVE  Cardinality(open \ inherited)' <= Capacity
<1>1. open \ inherited \in SUBSET Conn
  BY DEF LeaseInv, SetTypes
<1>2. Cardinality(open' \ inherited') <= Cardinality(open \ inherited)
  BY <1>1, FewerConns
<1>3. Cardinality(open' \ inherited') \in Nat /\ Cardinality(open \ inherited) \in Nat
  BY <1>1, ConnsFinite
<1>. QED BY <1>2, <1>3, CapacityAssumption DEF CountInv

LEMMA CountNext == LeaseInv /\ LeaseInv' /\ CountInv /\ [Next]_vars => CountInv'
<1>. SUFFICES ASSUME LeaseInv, LeaseInv', CountInv, [Next]_vars PROVE CountInv'
  OBVIOUS
<1>. USE DEF CountInv
<1>0. /\ CurrentLeases \in SUBSET Thread /\ Reserving \in SUBSET Thread /\ Leasing \in SUBSET Thread
      /\ idle \in SUBSET Conn /\ Capacity \in Nat
      /\ Cardinality(CurrentLeases) \in Nat /\ Cardinality(Reserving) \in Nat
      /\ Cardinality(idle) \in Nat
  <2>1. /\ CurrentLeases \in SUBSET Thread /\ Reserving \in SUBSET Thread
        /\ Leasing \in SUBSET Thread
    BY DEF CurrentLeases, Reserving, Current, Leasing, At
  <2>2. idle \in SUBSET Conn /\ Capacity \in Nat
    BY CapacityAssumption DEF LeaseInv, SetTypes
  <2>. QED BY <2>1, <2>2, ThreadsFinite, ConnsFinite
<1>1. ASSUME NEW t \in Thread, Ask(t) PROVE CountInv'
  <2>1. EnsureProcess /\ UNCHANGED <<os, late, lease>> /\ pc' = [pc EXCEPT ![t] = "asking"]
        /\ pc[t] = "out"
    BY <1>1 DEF Ask, Move
  <2>2. Leasing' = Leasing /\ At("opening")' = At("opening")
    BY <2>1 DEF Leasing, At, LeaseInv, SetTypes
  <2>3. CASE pid = os
    <3>1. UNCHANGED <<poolVars, wireVars>>
      BY <2>1, <2>3 DEF EnsureProcess
    <3>2. CurrentLeases' = CurrentLeases /\ Reserving' = Reserving
      BY <2>1, <2>2, <3>1 DEF CurrentLeases, Reserving, Current, poolVars
    <3>. QED BY <2>1, <2>2, <3>1, <3>2
         DEF SocketsSound, CurrentSound, CountersExact, poolVars, wireVars
  <2>4. CASE pid # os
    <3>1. /\ pid' = os /\ idle' = {} /\ total' = 0 /\ inUse' = 0 /\ gen' = gen + 1
          /\ open' = open \ idle /\ inherited' = inherited \ idle /\ open = inherited
      BY <2>1, <2>4 DEF EnsureProcess, CloseSockets, LeaseInv, ProcessSound
    <3>2. \A u \in Thread : lease[u].gen # gen'
      <4>1. \A u \in Thread : lease[u].gen \in Nat /\ lease[u].gen <= gen /\ gen \in Nat
        BY DEF LeaseInv, SetTypes, Lease, LeasesSound
      <4>. QED BY <3>1, <4>1
    <3>3. CurrentLeases' = {} /\ Reserving' = {}
      BY <2>1, <2>2, <3>2 DEF CurrentLeases, Reserving, Current, Leasing, At
    <3>4. SocketsSound'
      BY <3>1 DEF SocketsSound
    <3>5. CurrentSound'
      BY <1>0, <2>1, <2>2, <3>1, <3>2 DEF CurrentSound, LeaseInv, LeasesSound, OneUserPerSession
    <3>6. CountersExact'
      BY <3>1, <3>3, FS_EmptySet DEF CountersExact
    <3>7. Cardinality(open \ inherited)' <= Capacity
      BY <3>1, SocketsKept
    <3>. QED BY <1>0, <3>1, <3>4, <3>5, <3>6, <3>7
  <2>. QED BY <2>3, <2>4
<1>2. ASSUME NEW t \in Thread, LookClosed(t) \/ DeadlinePasses(t) \/ WaitReturns(t) \/ Use(t)
      PROVE CountInv'
  <2>1. UNCHANGED <<os, poolVars, lease, open, inherited>>
    BY <1>2 DEF LookClosed, DeadlinePasses, WaitReturns, Use, threadVars, wireVars
  <2>2. Leasing' = Leasing /\ At("opening")' = At("opening")
    BY <1>2 DEF LookClosed, DeadlinePasses, WaitReturns, Use, threadVars, Leasing, At, Move,
       LeaseInv, SetTypes
  <2>3. CurrentLeases' = CurrentLeases /\ Reserving' = Reserving
    BY <2>1, <2>2 DEF CurrentLeases, Reserving, Current, poolVars
  <2>. QED BY <2>1, <2>2, <2>3 DEF SocketsSound, CurrentSound, CountersExact, poolVars
<1>3. ASSUME NEW t \in Thread, Reuse(t) PROVE CountInv'
  <2>1. PICK D \in SUBSET idle : \E c \in idle \ D :
        /\ idle' = idle \ (D \union {c})
        /\ total' = total - Cardinality(D)
        /\ CloseSockets(D)
        /\ lease' = [lease EXCEPT ![t] =
                        [conn |-> c, gen |-> gen, owner |-> pid, force |-> FALSE]]
    BY <1>3 DEF Reuse
  <2>2. PICK c \in idle \ D :
        /\ idle' = idle \ (D \union {c})
        /\ total' = total - Cardinality(D)
        /\ CloseSockets(D)
        /\ lease' = [lease EXCEPT ![t] =
                        [conn |-> c, gen |-> gen, owner |-> pid, force |-> FALSE]]
    BY <2>1
  <2>3. /\ pc[t] = "asking" /\ pc' = [pc EXCEPT ![t] = "holding"] /\ inUse' = inUse + 1
        /\ UNCHANGED <<os, pid, gen, closed>> /\ ~closed
    BY <1>3 DEF Reuse, Move
  <2>4. pid = os
    BY <2>3 DEF LeaseInv, ProcessSound
  <2>5. Leasing' = Leasing \union {t} /\ t \notin Leasing /\ At("opening")' = At("opening")
        /\ t \notin At("opening")
    BY <2>3 DEF Leasing, At, LeaseInv, SetTypes
  <2>6. /\ \A u \in Thread : u # t => lease'[u] = lease[u]
        /\ lease'[t].gen = gen /\ lease'[t].conn = c /\ lease'[t].owner = pid
    BY <2>2 DEF LeaseInv, SetTypes
  <2>7. /\ CurrentLeases' = CurrentLeases \union {t} /\ t \notin CurrentLeases
        /\ Reserving' = Reserving
    BY <1>0, <2>3, <2>5, <2>6 DEF CurrentLeases, Reserving, Current, At
  <2>8. /\ Cardinality(idle') = Cardinality(idle) - Cardinality(D) - 1 /\ Cardinality(D) \in Nat
        /\ Cardinality(idle') \in Nat
    <3>1. /\ idle' = (idle \ D) \ {c} /\ c \in idle \ D /\ IsFiniteSet(idle \ D)
          /\ Cardinality(idle \ D) \in Nat /\ Cardinality(D) \in Nat
          /\ Cardinality(idle') \in Nat
      BY <1>0, <2>2, ConnsFinite
    <3>2. Cardinality(idle \ D) = Cardinality(idle) - Cardinality(D)
      BY <1>0, FewerConns
    <3>3. Cardinality(idle') = Cardinality(idle \ D) - 1
      BY <3>1, FS_RemoveElement
    <3>. QED BY <1>0, <3>1, <3>2, <3>3
  <2>9. CountersExact' /\ total' \in 0..Capacity /\ inUse' \in 0..Capacity
    <3>1. Cardinality(CurrentLeases') = Cardinality(CurrentLeases) + 1
      BY <1>0, <2>7, OneThread
    <3>2. inUse = Cardinality(CurrentLeases)
          /\ total = Cardinality(idle) + inUse + Cardinality(Reserving)
      BY <2>3, <2>4 DEF CountersExact
    <3>3. total' = Cardinality(idle') + inUse' + Cardinality(Reserving)
          /\ inUse' = Cardinality(CurrentLeases')
      BY <1>0, <2>2, <2>3, <2>8, <3>1, <3>2
    <3>. QED BY <1>0, <2>2, <2>3, <2>7, <2>8, <3>2, <3>3 DEF CountersExact
  <2>10. SocketsSound'
    BY <1>0, <2>2, <2>5, <2>6 DEF SocketsSound, CloseSockets
  <2>11. CurrentSound'
    BY <1>0, <2>2, <2>3, <2>4, <2>5, <2>6 DEF CurrentSound, CloseSockets, LeaseInv,
       OneUserPerSession
  <2>12. Cardinality(open \ inherited)' <= Capacity
    BY <2>2, SocketsKept DEF CloseSockets
  <2>. QED BY <2>9, <2>10, <2>11, <2>12
<1>4. ASSUME NEW t \in Thread, Reserve(t) \/ SleepOrGiveUp(t) PROVE CountInv'
  <2>1. /\ pc[t] = "asking" /\ ~closed /\ idle' = {}
        /\ open' = open \ idle /\ inherited' = inherited \ idle
        /\ UNCHANGED <<os, pid, inUse, gen, closed>>
    BY <1>4 DEF Reserve, SleepOrGiveUp, NothingIdle, CloseSockets
  <2>2. pid = os
    BY <2>1 DEF LeaseInv, ProcessSound
  <2>3. /\ \A u \in Thread : u # t => lease'[u] = lease[u] /\ pc'[u] = pc[u]
        /\ pc'[t] \in {"opening", "out", "asleep"}
    BY <1>4 DEF Reserve, SleepOrGiveUp, Move, LeaseInv, SetTypes
  <2>4. Leasing' = Leasing /\ t \notin Leasing /\ t \notin At("opening")
    BY <2>1, <2>3 DEF Leasing, At
  <2>5. CurrentLeases' = CurrentLeases
    BY <1>0, <2>1, <2>3, <2>4 DEF CurrentLeases, Current
  <2>6. /\ inUse = Cardinality(CurrentLeases)
        /\ total = Cardinality(idle) + inUse + Cardinality(Reserving)
        /\ Left = inUse + Cardinality(Reserving) /\ Left \in Nat /\ Left <= Capacity
    BY <1>0, <2>1, <2>2 DEF CountersExact, Left
  <2>7. CountersExact' /\ total' \in 0..Capacity
    <3>1. CASE Reserve(t)
      <4>1. lease'[t].gen = gen /\ pc'[t] = "opening"
        BY <3>1 DEF Reserve, Move, NoLease, LeaseInv, SetTypes
      <4>2. At("opening")' = At("opening") \union {t}
        BY <2>3, <4>1 DEF At
      <4>3. Reserving' = Reserving \union {t} /\ t \notin Reserving
        BY <2>1, <2>3, <2>4, <4>1, <4>2 DEF Reserving, Current, At
      <4>4. Cardinality(Reserving') = Cardinality(Reserving) + 1
        BY <1>0, <4>3, OneThread
      <4>5. total' = Left + 1 /\ Left < Capacity
        BY <3>1 DEF Reserve
      <4>. QED BY <1>0, <2>1, <2>5, <2>6, <4>4, <4>5, FS_EmptySet DEF CountersExact
    <3>2. CASE SleepOrGiveUp(t)
      <4>1. pc'[t] # "opening" /\ total' = Left
        BY <3>2 DEF SleepOrGiveUp, Move, LeaseInv, SetTypes
      <4>2. At("opening")' = At("opening")
        BY <2>3, <2>4, <4>1 DEF At
      <4>3. Reserving' = Reserving
        BY <2>1, <2>3, <2>4, <4>2 DEF Reserving, Current, At
      <4>. QED BY <1>0, <2>1, <2>5, <2>6, <4>1, <4>3, FS_EmptySet DEF CountersExact
    <3>. QED BY <1>4, <3>1, <3>2
  <2>8. SocketsSound'
    BY <1>0, <2>1, <2>3, <2>4 DEF SocketsSound
  <2>9. CurrentSound'
    BY <1>0, <2>1, <2>2, <2>3, <2>4 DEF CurrentSound, LeaseInv, OneUserPerSession
  <2>10. Cardinality(open \ inherited)' <= Capacity
    BY <2>1, SocketsKept
  <2>. QED BY <2>1, <2>7, <2>8, <2>9, <2>10
<1>5. ASSUME NEW t \in Thread, OpenFails(t) PROVE CountInv'
  <2>1. /\ pc[t] = "opening"
        /\ UNCHANGED <<os, pid, idle, inUse, gen, closed, open, inherited>>
        /\ lease' = [lease EXCEPT ![t] = NoLease]
        /\ IF lease[t].gen = gen /\ total > 0 THEN total' = total - 1 ELSE total' = total
    BY <1>5 DEF OpenFails, wireVars
  <2>2. pid = os
    BY <2>1 DEF LeaseInv, ProcessSound
  <2>3. /\ pc'[t] = "out"
        /\ \A u \in Thread : u # t =>
              \/ pc'[u] = pc[u]
              \/ pc'[u] = "woken" /\ pc[u] = "asleep"
    <3>1. NotifyAndMove(t, "out") \/ Move(t, "out")
      BY <1>5 DEF OpenFails
    <3>2. "out" \in Where
      BY DEF Where
    <3>. QED BY <2>1, <3>1, <3>2, Notified DEF LeaseInv
  <2>4. Leasing' = Leasing /\ t \notin Leasing /\ At("opening")' = At("opening") \ {t}
    BY <2>1, <2>3 DEF Leasing, At
  <2>5. \A u \in Thread : u # t => lease'[u] = lease[u]
    BY <2>1
  <2>6. CurrentLeases' = CurrentLeases /\ Reserving' = Reserving \ {t}
        /\ (t \in Reserving <=> lease[t].gen = gen)
    BY <1>0, <2>1, <2>4, <2>5 DEF CurrentLeases, Reserving, Current, At
  <2>7. CountersExact' /\ total' \in 0..Capacity
    <3>1. CASE closed
      BY <1>0, <2>1, <3>1 DEF CountersExact
    <3>2. CASE ~closed /\ lease[t].gen # gen
      <4>1. Reserving' = Reserving
        BY <2>6, <3>2
      <4>. QED BY <2>1, <2>6, <3>2, <4>1 DEF CountersExact
    <3>3. CASE ~closed /\ lease[t].gen = gen
      <4>1. Cardinality(Reserving') = Cardinality(Reserving) - 1 /\ Cardinality(Reserving) >= 1
        BY <1>0, <2>6, <3>3, OneThread
      <4>2. inUse = Cardinality(CurrentLeases)
            /\ total = Cardinality(idle) + inUse + Cardinality(Reserving)
        BY <2>2, <3>3 DEF CountersExact
      <4>3. total > 0
        BY <1>0, <4>1, <4>2
      <4>4. total' = total - 1
        BY <2>1, <3>3, <4>3
      <4>5. total' = Cardinality(idle') + inUse' + Cardinality(Reserving')
        BY <1>0, <2>1, <4>1, <4>2, <4>4
      <4>6. total' \in 0..Capacity
        BY <1>0, <4>3, <4>4
      <4>. QED BY <2>1, <2>6, <4>2, <4>5, <4>6 DEF CountersExact
    <3>. QED BY <3>1, <3>2, <3>3
  <2>8. SocketsSound' /\ CurrentSound'
    BY <1>0, <2>1, <2>4, <2>5 DEF SocketsSound, CurrentSound
  <2>. QED BY <2>1, <2>7, <2>8
<1>6. ASSUME NEW t \in Thread, OpenSucceeds(t) PROVE CountInv'
  <2>1. /\ pc[t] = "opening"
        /\ UNCHANGED <<os, pid, idle, total, gen, closed, inherited>>
    BY <1>6 DEF OpenSucceeds
  <2>2. pid = os
    BY <2>1 DEF LeaseInv, ProcessSound
  <2>3. CASE /\ closed \/ lease[t].gen # gen
             /\ lease' = [lease EXCEPT ![t] = NoLease]
             /\ Move(t, "out")
             /\ UNCHANGED <<inUse, open>>
    <3>1. Leasing' = Leasing /\ t \notin Leasing /\ At("opening")' = At("opening") \ {t}
      BY <2>1, <2>3 DEF Leasing, At, Move, LeaseInv, SetTypes
    <3>2. \A u \in Thread : u # t => lease'[u] = lease[u]
      BY <2>3
    <3>3. CurrentLeases' = CurrentLeases
      BY <1>0, <2>1, <3>1, <3>2 DEF CurrentLeases, Current
    <3>4. lease[t].gen # gen => Reserving' = Reserving
      BY <1>0, <2>1, <3>1, <3>2 DEF Reserving, Current, At
    <3>5. CountersExact'
      BY <2>1, <2>3, <3>3, <3>4 DEF CountersExact
    <3>6. SocketsSound' /\ CurrentSound'
      BY <1>0, <2>1, <2>3, <3>1, <3>2 DEF SocketsSound, CurrentSound
    <3>. QED BY <2>1, <2>3, <3>5, <3>6
  <2>4. CASE ~closed /\ lease[t].gen = gen
             /\ \E c \in Conn \ open :
                /\ open' = open \union {c}
                /\ lease' = [lease EXCEPT ![t] =
                        [conn |-> c, gen |-> gen, owner |-> pid, force |-> FALSE]]
                /\ inUse' = inUse + 1
                /\ Move(t, "holding")
    <3>1. PICK c \in Conn \ open :
                /\ open' = open \union {c}
                /\ lease' = [lease EXCEPT ![t] =
                        [conn |-> c, gen |-> gen, owner |-> pid, force |-> FALSE]]
                /\ inUse' = inUse + 1
                /\ Move(t, "holding")
      BY <2>4
    <3>2. Leasing' = Leasing \union {t} /\ t \notin Leasing /\ At("opening")' = At("opening") \ {t}
      BY <2>1, <3>1 DEF Leasing, At, Move, LeaseInv, SetTypes
    <3>3. /\ \A u \in Thread : u # t => lease'[u] = lease[u]
          /\ lease'[t].gen = gen /\ lease'[t].conn = c /\ lease'[t].owner = pid
      BY <3>1 DEF LeaseInv, SetTypes
    <3>4. /\ CurrentLeases' = CurrentLeases \union {t} /\ t \notin CurrentLeases
          /\ Reserving' = Reserving \ {t} /\ t \in Reserving
      BY <1>0, <2>1, <2>4, <3>2, <3>3 DEF CurrentLeases, Reserving, Current, At
    <3>5. /\ Cardinality(CurrentLeases') = Cardinality(CurrentLeases) + 1
          /\ Cardinality(Reserving') = Cardinality(Reserving) - 1 /\ Cardinality(Reserving) >= 1
      BY <1>0, <3>4, OneThread
    <3>6. inUse = Cardinality(CurrentLeases)
          /\ total = Cardinality(idle) + inUse + Cardinality(Reserving)
      BY <2>2, <2>4 DEF CountersExact
    <3>7. CountersExact' /\ inUse' \in 0..Capacity
      <4>1. inUse' = Cardinality(CurrentLeases')
            /\ total' = Cardinality(idle') + inUse' + Cardinality(Reserving')
        BY <1>0, <2>1, <3>1, <3>5, <3>6
      <4>2. inUse' \in 0..Capacity
        BY <1>0, <3>1, <3>5, <3>6
      <4>. QED BY <4>1, <4>2 DEF CountersExact
    <3>8. SocketsSound'
      BY <1>0, <2>1, <3>1, <3>2, <3>3 DEF SocketsSound
    <3>9. CurrentSound'
      BY <1>0, <2>1, <2>2, <3>2, <3>3 DEF CurrentSound
    <3>10. Cardinality(open \ inherited)' <= Capacity
      <4>1. open' \ inherited' = (open \ inherited) \union {c} /\ c \notin open \ inherited
            /\ IsFiniteSet(open \ inherited) /\ Cardinality(open \ inherited) \in Nat
        BY <2>1, <3>1, ConnsFinite DEF LeaseInv, SetTypes
      <4>2. Cardinality(open' \ inherited') = Cardinality(open \ inherited) + 1
        BY <4>1, FS_AddElement
      <4>3. Cardinality(open \ inherited) + Cardinality(Reserving) <= total
        BY <2>2, <2>4, SocketsHaveSlots
      <4>. QED BY <1>0, <3>5, <4>1, <4>2, <4>3
    <3>. QED BY <2>1, <3>7, <3>8, <3>9, <3>10
  <2>. QED BY <1>6, <2>3, <2>4 DEF OpenSucceeds
<1>7. ASSUME NEW t \in Thread, CloseLease(t) PROVE CountInv'
  <2>1. pc[t] = "holding" /\ UNCHANGED <<os, poolVars, late>> /\ t \in Leasing
    BY <1>7 DEF CloseLease, Leasing, At
  <2>2. CASE /\ \E cursorFailed \in BOOLEAN : lease' = [lease EXCEPT ![t].force = cursorFailed]
             /\ Move(t, "cleaning")
             /\ UNCHANGED wireVars
    <3>1. Leasing' = Leasing /\ At("opening")' = At("opening")
      BY <2>1, <2>2 DEF Leasing, At, Move, LeaseInv, SetTypes
    <3>2. \A u \in Thread : /\ lease'[u].conn = lease[u].conn /\ lease'[u].gen = lease[u].gen
                            /\ lease'[u].owner = lease[u].owner
      BY <2>2 DEF LeaseInv, SetTypes, Lease
    <3>3. CurrentLeases' = CurrentLeases /\ Reserving' = Reserving
      BY <1>0, <2>1, <3>1, <3>2 DEF CurrentLeases, Reserving, Current, At, poolVars
    <3>. QED BY <1>0, <2>1, <2>2, <3>1, <3>2, <3>3
         DEF SocketsSound, CurrentSound, CountersExact, poolVars, wireVars
  <2>3. CASE /\ ~(lease[t].owner = os /\ pid = os /\ ~closed /\ lease[t].gen = gen)
             /\ lease' = [lease EXCEPT ![t] = NoLease]
             /\ Move(t, "out")
             /\ CloseSockets({lease[t].conn})
    <3>1. Leasing' = Leasing \ {t} /\ At("opening")' = At("opening")
      BY <2>1, <2>3 DEF Leasing, At, Move, LeaseInv, SetTypes
    <3>2. \A u \in Thread : u # t => lease'[u] = lease[u]
      BY <2>3
    <3>3. ~closed /\ pid = os => CurrentLeases' = CurrentLeases /\ Reserving' = Reserving
      <4>. SUFFICES ASSUME ~closed, pid = os
                    PROVE  CurrentLeases' = CurrentLeases /\ Reserving' = Reserving
        OBVIOUS
      <4>1. lease[t].gen # gen
        BY <2>1, <2>3 DEF CurrentSound
      <4>. QED BY <1>0, <2>1, <3>1, <3>2, <4>1
           DEF CurrentLeases, Reserving, Current, At, poolVars
    <3>4. CountersExact'
      BY <2>1, <3>3 DEF CountersExact, poolVars
    <3>5. SocketsSound' /\ CurrentSound'
      BY <1>0, <2>1, <2>3, <3>1, <3>2
      DEF SocketsSound, CurrentSound, CloseSockets, poolVars, LeaseInv, OneUserPerSession
    <3>6. Cardinality(open \ inherited)' <= Capacity
      BY <2>3, SocketsKept DEF CloseSockets
    <3>. QED BY <2>1, <3>4, <3>5, <3>6 DEF poolVars
  <2>. QED BY <1>7, <2>2, <2>3 DEF CloseLease
<1>8. ASSUME NEW t \in Thread, FinishRelease(t) PROVE CountInv'
  <2>1. /\ pc[t] = "cleaning" /\ UNCHANGED <<os, pid, gen, closed>>
        /\ lease' = [lease EXCEPT ![t] = NoLease] /\ t \in Leasing
    BY <1>8 DEF FinishRelease, Leasing, At
  <2>2. pid = os
    BY <2>1 DEF LeaseInv, ProcessSound
  <2>3. /\ pc'[t] = "out"
        /\ \A u \in Thread : u # t =>
              \/ pc'[u] = pc[u]
              \/ pc'[u] = "woken" /\ pc[u] = "asleep"
    <3>1. NotifyAndMove(t, "out") \/ Move(t, "out")
      BY <1>8 DEF FinishRelease
    <3>2. "out" \in Where
      BY DEF Where
    <3>. QED BY <2>1, <3>1, <3>2, Notified DEF LeaseInv
  <2>4. Leasing' = Leasing \ {t} /\ At("opening")' = At("opening")
    BY <2>1, <2>3 DEF Leasing, At
  <2>5. \A u \in Thread : u # t => lease'[u] = lease[u]
    BY <2>1
  <2>6. /\ CurrentLeases' = CurrentLeases \ {t} /\ Reserving' = Reserving
        /\ t \in CurrentLeases <=> lease[t].gen = gen
    BY <1>0, <2>1, <2>4, <2>5 DEF CurrentLeases, Reserving, Current, At
  <2>7. CASE (closed \/ lease[t].gen # gen) /\ CloseSockets({lease[t].conn})
             /\ UNCHANGED <<idle, total, inUse>>
    <3>1. CountersExact'
      <4>1. lease[t].gen # gen => CurrentLeases' = CurrentLeases
        BY <2>6
      <4>. QED BY <2>1, <2>6, <2>7, <4>1 DEF CountersExact
    <3>2. SocketsSound' /\ CurrentSound'
      BY <1>0, <2>1, <2>4, <2>5, <2>7
      DEF SocketsSound, CurrentSound, CloseSockets, LeaseInv, OneUserPerSession
    <3>3. Cardinality(open \ inherited)' <= Capacity
      BY <2>7, SocketsKept DEF CloseSockets
    <3>. QED BY <2>7, <3>1, <3>2, <3>3
  <2>8. CASE ~closed /\ lease[t].gen = gen /\ inUse' = inUse - 1
    <3>1. /\ Cardinality(CurrentLeases') = Cardinality(CurrentLeases) - 1
          /\ Cardinality(CurrentLeases) >= 1
      BY <1>0, <2>6, <2>8, OneThread
    <3>2. inUse = Cardinality(CurrentLeases)
          /\ total = Cardinality(idle) + inUse + Cardinality(Reserving)
      BY <2>2, <2>8 DEF CountersExact
    <3>3. inUse' \in 0..Capacity /\ inUse' = Cardinality(CurrentLeases') /\ total >= 1
      BY <1>0, <2>8, <3>1, <3>2
    <3>4. CASE /\ idle' = idle \union {lease[t].conn}
               /\ UNCHANGED <<total, open, inherited>>
      <4>1. lease[t].conn \notin idle /\ IsFiniteSet(idle)
        BY <1>0, <2>1, ConnsFinite DEF LeaseInv, OneUserPerSession
      <4>2. Cardinality(idle') = Cardinality(idle) + 1
        BY <3>4, <4>1, FS_AddElement
      <4>3. total' = Cardinality(idle') + inUse' + Cardinality(Reserving')
        BY <1>0, <2>6, <2>8, <3>1, <3>2, <3>4, <4>2
      <4>4. SocketsSound' /\ CurrentSound'
        BY <1>0, <2>1, <2>4, <2>5, <3>4 DEF SocketsSound, CurrentSound
      <4>. QED BY <3>3, <3>4, <4>3, <4>4 DEF CountersExact
    <3>5. CASE total' = total - 1 /\ CloseSockets({lease[t].conn}) /\ UNCHANGED idle
      <4>1. total' = Cardinality(idle') + inUse' + Cardinality(Reserving') /\ total' \in 0..Capacity
        BY <1>0, <2>6, <2>8, <3>1, <3>2, <3>3, <3>5
      <4>2. SocketsSound' /\ CurrentSound'
        BY <1>0, <2>1, <2>4, <2>5, <3>5
        DEF SocketsSound, CurrentSound, CloseSockets, LeaseInv, OneUserPerSession
      <4>3. Cardinality(open \ inherited)' <= Capacity
        BY <3>5, SocketsKept DEF CloseSockets
      <4>. QED BY <3>3, <4>1, <4>2, <4>3 DEF CountersExact
    <3>. QED BY <1>8, <2>8, <3>4, <3>5 DEF FinishRelease
  <2>. QED BY <1>8, <2>7, <2>8 DEF FinishRelease
<1>9. ASSUME CloseAll PROVE CountInv'
  <2>1. /\ pid' = os /\ closed' = TRUE /\ gen' \in {gen + 1, gen + 2}
        /\ idle' = {} /\ total' = 0 /\ inUse' = 0
        /\ pc' = [t \in Thread |-> IF pc[t] = "asleep" THEN "woken" ELSE pc[t]]
        /\ open' = open \ idle /\ inherited' = inherited \ idle
        /\ UNCHANGED <<os, late, lease>>
    BY <1>9 DEF CloseAll, CloseSockets
  <2>2. Leasing' = Leasing
    BY <2>1 DEF Leasing, At
  <2>3. \A u \in Thread : lease[u].gen # gen'
    <3>1. \A u \in Thread : lease[u].gen \in Nat /\ lease[u].gen <= gen /\ gen \in Nat
      BY DEF LeaseInv, SetTypes, Lease, LeasesSound
    <3>. QED BY <2>1, <3>1
  <2>4. SocketsSound' /\ CurrentSound' /\ CountersExact'
    BY <1>0, <2>1, <2>2, <2>3 DEF SocketsSound, CurrentSound, CountersExact
  <2>5. Cardinality(open \ inherited)' <= Capacity
    BY <2>1, SocketsKept
  <2>. QED BY <1>0, <2>1, <2>4, <2>5
<1>10. ASSUME NEW f \in Thread, Fork(f) PROVE CountInv'
  <2>1. /\ pid = "parent" /\ os' = "child" /\ inherited' = open
        /\ UNCHANGED <<poolVars, open, used>>
    BY <1>10 DEF Fork, LeaseInv, ProcessSound
  <2>2. SocketsSound' /\ CurrentSound' /\ CountersExact'
    BY <2>1 DEF SocketsSound, CurrentSound, CountersExact, poolVars
  <2>3. Cardinality(open \ inherited)' <= Capacity
    BY <2>1, SocketsKept
  <2>. QED BY <2>1, <2>2, <2>3 DEF poolVars
<1>11. CASE UNCHANGED vars
  <2>1. Leasing' = Leasing /\ CurrentLeases' = CurrentLeases /\ Reserving' = Reserving
    BY <1>11 DEF vars, poolVars, threadVars, CurrentLeases, Reserving, Current, Leasing, At
  <2>. QED BY <1>11, <2>1 DEF vars, poolVars, threadVars, wireVars, SocketsSound, CurrentSound,
       CountersExact
<1>. QED BY <1>1, <1>2, <1>3, <1>4, <1>5, <1>6, <1>7, <1>8, <1>9, <1>10, <1>11
     DEF Next, Checkout, Return

LEMMA PoolTypeOK == LeaseInv /\ CountInv => TypeOK
BY DEF LeaseInv, CountInv, SetTypes, TypeOK

LEMMA PoolCapacity == LeaseInv /\ CountInv => CapacityIsKept
<1>. SUFFICES ASSUME LeaseInv, CountInv PROVE CapacityIsKept
  OBVIOUS
<1>. DEFINE Opening == {t \in At("opening") : ~closed /\ lease[t].gen = gen}
<1>1. Capacity \in Nat /\ Cardinality(open \ inherited) \in Nat
  BY CapacityAssumption, ConnsFinite DEF LeaseInv, SetTypes
<1>2. Cardinality(open \ inherited) + Cardinality(Opening) <= Capacity
  <2>1. CASE ~closed /\ pid = os
    <3>1. Opening = Reserving
      BY <2>1 DEF Reserving, Current
    <3>2. Cardinality(open \ inherited) + Cardinality(Reserving) <= total
      BY <2>1, SocketsHaveSlots DEF CountInv
    <3>3. Reserving \in SUBSET Thread
      BY DEF Reserving, Current, At
    <3>4. Cardinality(Reserving) \in Nat /\ total \in 0..Capacity
      BY <3>3, ThreadsFinite DEF CountInv
    <3>5. Cardinality(Opening) = Cardinality(Reserving)
      BY <3>1
    <3>. QED BY <1>1, <3>2, <3>4, <3>5
  <2>2. CASE ~(~closed /\ pid = os)
    <3>1. Opening = {}
      BY <2>2 DEF At, LeaseInv, ProcessSound
    <3>. QED BY <1>1, <3>1, FS_EmptySet DEF CountInv
  <2>. QED BY <2>1, <2>2
<1>. QED BY <1>2 DEF CapacityIsKept, CountInv, CountersExact, CurrentLeases, Reserving

LEMMA PoolInvariant == Spec => [](LeaseInv /\ CountInv)
<1>1. LeaseInv /\ CountInv /\ [Next]_vars => (LeaseInv /\ CountInv)'
  BY LeaseNext, CountNext
<1>. QED BY LeaseInit, CountInit, <1>1, PTL DEF Spec

\* The pool's variables have their types and its counters their range, in every
\* order of checkouts, returns, failures, close_all and a fork (mysql_pool.py).
THEOREM PoolTypes == Spec => []TypeOK
BY PoolInvariant, PoolTypeOK, PTL

\* The physical connections of a process never exceed its configured capacity,
\* and the counters that acquire and release keep are exact.
THEOREM CapacityKept == Spec => []CapacityIsKept
BY PoolInvariant, PoolCapacity, PTL

-------------------------------------------------------------------------------
(* Wake-ups *)

\* Threads on their way to a connection or a slot.
Coming == At("asking") \union At("woken")

\* A notification while somebody sleeps sends one thread more.
LEMMA NotifiedComes ==
  ASSUME SetTypes, NEW t \in Thread, pc[t] \in {"opening", "cleaning"},
         NotifyAndMove(t, "out"), At("asleep")' # {}
  PROVE  At("asleep") # {} /\ Cardinality(Coming') = Cardinality(Coming) + 1
<1>. pc \in [Thread -> Where]
  BY DEF SetTypes
<1>1. CASE {w \in Thread : pc[w] = "asleep"} = {} /\ pc' = [pc EXCEPT ![t] = "out"]
  BY <1>1 DEF At
<1>2. CASE \E w \in {w \in Thread : pc[w] = "asleep"} : pc' = [pc EXCEPT ![t] = "out", ![w] = "woken"]
  <2>1. PICK w \in Thread : pc[w] = "asleep" /\ pc' = [pc EXCEPT ![t] = "out", ![w] = "woken"]
    BY <1>2
  <2>2. Coming' = Coming \union {w} /\ w \notin Coming /\ At("asleep") # {}
    BY <2>1 DEF Coming, At
  <2>3. Coming \in SUBSET Thread
    BY DEF Coming, At
  <2>. QED BY <2>2, <2>3, OneThread
<1>. QED BY <1>1, <1>2 DEF NotifyAndMove, Move

LEMMA WakeupNext ==
  LeaseInv /\ CountInv /\ CountInv' /\ NoLostWakeup /\ [Next]_vars => NoLostWakeup'
<1>. SUFFICES ASSUME LeaseInv, CountInv, CountInv', NoLostWakeup, [Next]_vars,
                     ~closed', (pid = os)', At("asleep")' # {}
              PROVE  Cardinality(idle') + (Capacity - total') <= Cardinality(Coming')
  BY DEF NoLostWakeup, Coming
<1>0. /\ pc \in [Thread -> Where] /\ idle \in SUBSET Conn /\ Coming \in SUBSET Thread
      /\ Cardinality(idle) \in Nat /\ Cardinality(Coming) \in Nat
      /\ Capacity \in Nat /\ total \in 0..Capacity /\ total' \in 0..Capacity
  <2>1. /\ pc \in [Thread -> Where] /\ idle \in SUBSET Conn /\ Coming \in SUBSET Thread
        /\ Capacity \in Nat /\ total \in 0..Capacity /\ total' \in 0..Capacity
    BY CapacityAssumption DEF LeaseInv, SetTypes, CountInv, Coming, At
  <2>. QED BY <2>1, ThreadsFinite, ConnsFinite
<1>1. ~closed /\ pid = os /\ At("asleep") # {} =>
        Cardinality(idle) + (Capacity - total) <= Cardinality(Coming)
  BY DEF NoLostWakeup, Coming
<1>2. ASSUME NEW t \in Thread, Ask(t)
      PROVE  Cardinality(idle') + (Capacity - total') <= Cardinality(Coming')
  <2>1. EnsureProcess /\ pc[t] = "out" /\ pc' = [pc EXCEPT ![t] = "asking"]
    BY <1>2 DEF Ask, Move
  <2>2. At("asleep")' = At("asleep") /\ Coming' = Coming \union {t} /\ t \notin Coming
    BY <1>0, <2>1 DEF At, Coming
  <2>3. pid = os
    <3>1. ASSUME pid # os PROVE At("asleep") = {}
      BY <3>1 DEF At, LeaseInv, ProcessSound
    <3>. QED BY <2>2, <3>1
  <2>4. UNCHANGED poolVars
    BY <2>1, <2>3 DEF EnsureProcess
  <2>5. Cardinality(Coming') = Cardinality(Coming) + 1
    BY <1>0, <2>2, OneThread
  <2>. QED BY <1>0, <1>1, <2>2, <2>3, <2>4, <2>5 DEF poolVars
<1>3. ASSUME NEW t \in Thread, DeadlinePasses(t) \/ Use(t) \/ CloseLease(t)
      PROVE  Cardinality(idle') + (Capacity - total') <= Cardinality(Coming')
  <2>1. At("asleep")' = At("asleep") /\ Coming' = Coming
    BY <1>0, <1>3 DEF DeadlinePasses, Use, CloseLease, threadVars, Move, At, Coming
  <2>2. UNCHANGED <<os, poolVars>>
    BY <1>3 DEF DeadlinePasses, Use, CloseLease
  <2>. QED BY <1>0, <1>1, <2>1, <2>2 DEF poolVars
<1>4. ASSUME NEW t \in Thread, WaitReturns(t)
      PROVE  Cardinality(idle') + (Capacity - total') <= Cardinality(Coming')
  <2>1. UNCHANGED <<os, poolVars>> /\ pc' = [pc EXCEPT ![t] = "asking"]
        /\ pc[t] \in {"woken", "asleep"}
    BY <1>4 DEF WaitReturns, Move
  <2>2. At("asleep")' \subseteq At("asleep")
    BY <1>0, <2>1 DEF At
  <2>3. Cardinality(Coming') >= Cardinality(Coming)
    <3>1. CASE pc[t] = "woken"
      <4>1. Coming' = Coming
        BY <1>0, <2>1, <3>1 DEF At, Coming
      <4>. QED BY <1>0, <4>1
    <3>2. CASE pc[t] = "asleep"
      <4>1. Coming' = Coming \union {t} /\ t \notin Coming
        BY <1>0, <2>1, <3>2 DEF At, Coming
      <4>2. Cardinality(Coming') = Cardinality(Coming) + 1
        BY <1>0, <4>1, OneThread
      <4>. QED BY <1>0, <4>2
    <3>. QED BY <2>1, <3>1, <3>2
  <2>4. Coming' \in SUBSET Thread
    BY DEF Coming, At
  <2>5. Cardinality(Coming') \in Nat
    BY <2>4, ThreadsFinite
  <2>. QED BY <1>0, <1>1, <2>1, <2>2, <2>3, <2>5 DEF poolVars
<1>5. ASSUME NEW t \in Thread, Reuse(t)
      PROVE  Cardinality(idle') + (Capacity - total') <= Cardinality(Coming')
  <2>1. PICK D \in SUBSET idle : \E c \in idle \ D :
        idle' = idle \ (D \union {c}) /\ total' = total - Cardinality(D)
    BY <1>5 DEF Reuse
  <2>2. PICK c \in idle \ D :
        idle' = idle \ (D \union {c}) /\ total' = total - Cardinality(D)
    BY <2>1
  <2>3. pc[t] = "asking" /\ pc' = [pc EXCEPT ![t] = "holding"] /\ UNCHANGED <<os, pid, closed>>
    BY <1>5 DEF Reuse, Move
  <2>4. At("asleep")' = At("asleep") /\ Coming' = Coming \ {t} /\ t \in Coming
    BY <1>0, <2>3 DEF At, Coming
  <2>5. Cardinality(Coming') = Cardinality(Coming) - 1
    BY <1>0, <2>4, OneThread
  <2>6. Cardinality(idle') = Cardinality(idle) - Cardinality(D) - 1 /\ Cardinality(D) \in Nat
    <3>1. /\ idle' = (idle \ D) \ {c} /\ c \in idle \ D /\ IsFiniteSet(idle \ D)
          /\ Cardinality(idle \ D) \in Nat /\ Cardinality(D) \in Nat
      BY <1>0, <2>2, ConnsFinite
    <3>2. Cardinality(idle \ D) = Cardinality(idle) - Cardinality(D)
      BY <1>0, FewerConns
    <3>3. Cardinality(idle') = Cardinality(idle \ D) - 1
      BY <3>1, FS_RemoveElement
    <3>. QED BY <1>0, <3>1, <3>2, <3>3
  <2>. QED BY <1>0, <1>1, <2>2, <2>3, <2>4, <2>5, <2>6
<1>6. ASSUME NEW t \in Thread, Reserve(t)
      PROVE  Cardinality(idle') + (Capacity - total') <= Cardinality(Coming')
  <2>1. /\ pc[t] = "asking" /\ pc' = [pc EXCEPT ![t] = "opening"] /\ UNCHANGED <<os, pid, closed>>
        /\ idle' = {} /\ total' = total - Cardinality(idle) + 1
    BY <1>6 DEF Reserve, NothingIdle, Left, Move
  <2>2. At("asleep")' = At("asleep") /\ Coming' = Coming \ {t} /\ t \in Coming
    BY <1>0, <2>1 DEF At, Coming
  <2>3. Cardinality(Coming') = Cardinality(Coming) - 1
    BY <1>0, <2>2, OneThread
  <2>4. Cardinality(idle') = 0
    BY <2>1, FS_EmptySet
  <2>. QED BY <1>0, <1>1, <2>1, <2>2, <2>3, <2>4
<1>7. ASSUME NEW t \in Thread, SleepOrGiveUp(t)
      PROVE  Cardinality(idle') + (Capacity - total') <= Cardinality(Coming')
  <2>1. idle' = {} /\ total' >= Capacity
    BY <1>7 DEF SleepOrGiveUp, NothingIdle
  <2>2. Coming' \in SUBSET Thread
    BY DEF Coming, At
  <2>3. Cardinality(idle') = 0 /\ Cardinality(Coming') \in Nat
    BY <2>1, <2>2, FS_EmptySet, ThreadsFinite
  <2>. QED BY <1>0, <2>1, <2>3
<1>8. ASSUME NEW t \in Thread, OpenFails(t) \/ OpenSucceeds(t) \/ FinishRelease(t)
      PROVE  Cardinality(idle') + (Capacity - total') <= Cardinality(Coming')
  <2>1. pc[t] \in {"opening", "cleaning"} /\ UNCHANGED <<os, pid, closed>>
    BY <1>8 DEF OpenFails, OpenSucceeds, FinishRelease
  <2>2. CASE (Move(t, "out") \/ Move(t, "holding")) /\ UNCHANGED <<idle, total>>
    <3>1. At("asleep")' = At("asleep") /\ Coming' = Coming
      BY <1>0, <2>1, <2>2 DEF At, Coming, Move
    <3>. QED BY <1>0, <1>1, <2>1, <2>2, <3>1
  <2>3. CASE /\ NotifyAndMove(t, "out")
             /\ \/ total' = total - 1 /\ idle' = idle
                \/ total' = total /\ idle' = idle \union {lease[t].conn} /\ pc[t] = "cleaning"
    <3>1. At("asleep") # {} /\ Cardinality(Coming') = Cardinality(Coming) + 1
      BY <2>1, <2>3, NotifiedComes DEF LeaseInv
    <3>2. Cardinality(idle') + (Capacity - total') = Cardinality(idle) + (Capacity - total) + 1
      <4>1. CASE total' = total - 1 /\ idle' = idle
        BY <1>0, <4>1
      <4>2. CASE total' = total /\ idle' = idle \union {lease[t].conn} /\ pc[t] = "cleaning"
        <5>1. lease[t].conn \notin idle /\ IsFiniteSet(idle)
          BY <1>0, <4>2, ConnsFinite DEF LeaseInv, OneUserPerSession, Leasing, At
        <5>2. Cardinality(idle') = Cardinality(idle) + 1
          BY <4>2, <5>1, FS_AddElement
        <5>. QED BY <1>0, <4>2, <5>2
      <4>. QED BY <2>3, <4>1, <4>2
    <3>. QED BY <1>0, <1>1, <2>1, <3>1, <3>2
  <2>. QED BY <1>8, <2>2, <2>3 DEF OpenFails, OpenSucceeds, FinishRelease
<1>9. CASE UNCHANGED vars
  <2>1. At("asleep")' = At("asleep") /\ Coming' = Coming
    BY <1>9 DEF vars, threadVars, At, Coming
  <2>. QED BY <1>0, <1>1, <1>9, <2>1 DEF vars, poolVars
<1>10. ASSUME NEW t \in Thread, LookClosed(t) PROVE FALSE
  BY <1>10 DEF LookClosed, poolVars
<1>11. ASSUME CloseAll PROVE FALSE
  BY <1>11 DEF CloseAll
<1>12. ASSUME NEW f \in Thread, Fork(f) PROVE FALSE
  BY <1>12 DEF Fork, poolVars, LeaseInv, ProcessSound
<1>. QED BY <1>2, <1>3, <1>4, <1>5, <1>6, <1>7, <1>8, <1>9, <1>10, <1>11, <1>12
     DEF Next, Checkout, Return

LEMMA WakeupInit == Init => NoLostWakeup
BY DEF Init, NoLostWakeup, At

\* While a thread waits, what is free has a thread on its way to it: acquire's
\* wait is never left without the notification it needs.
THEOREM WakeupsKept == Spec => []NoLostWakeup
<1>1. (LeaseInv /\ CountInv) /\ (LeaseInv /\ CountInv)' /\ NoLostWakeup /\ [Next]_vars
        => NoLostWakeup'
  BY WakeupNext
<1>. QED BY PoolInvariant, WakeupInit, <1>1, PTL DEF Spec
===============================================================================
