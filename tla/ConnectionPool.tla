--------------------------- MODULE ConnectionPool ---------------------------
(***************************************************************************)
(* The bounded connection pool of one application process                  *)
(* (casino/core/mysql_pool.py; postgres_pool.py is the same algorithm over *)
(* an adapter).  A thread checks out one connection at a time.  Everything *)
(* between taking and leaving the pool's condition is one step; opening a  *)
(* connection and cleaning a returned one happen outside it, so they are   *)
(* steps of their own and other threads, close_all or a fork come between. *)
(*                                                                         *)
(* Left out: the metrics, and the order of the idle list (a checkout takes *)
(* some idle connection; the code takes the latest).                       *)
(***************************************************************************)
EXTENDS Integers, FiniteSets

CONSTANTS
    Thread,     \* threads of the process
    Conn,       \* identities of physical connections; a closed one is reused
    NoConn,     \* the absence of one
    Capacity,   \* MySQLPoolConfig.capacity
    MayFork     \* may the process be forked once (the model follows the child)

ASSUME ThreadAssumption == IsFiniteSet(Thread)
ASSUME ConnAssumption == IsFiniteSet(Conn) /\ NoConn \notin Conn
ASSUME CapacityAssumption == Capacity \in 1..64
ASSUME MayForkAssumption == MayFork \in BOOLEAN

Process == {"parent", "child"}

NoLease == [conn |-> NoConn, gen |-> 0, owner |-> "parent", force |-> FALSE]
Lease == [conn : Conn \union {NoConn}, gen : Nat, owner : Process, force : BOOLEAN]

VARIABLES
    os,         \* which process this is: what os.getpid() answers
    pid,        \* the process the pool's state belongs to (_pid)
    idle,       \* connections ready for reuse (_idle)
    total,      \* slots taken: idle, leased or being opened (_total)
    inUse,      \* leased connections (_in_use)
    gen,        \* _generation
    closed,     \* _closed
    pc,         \* where each thread is in acquire or in its lease's close
    late,       \* threads in a checkout whose deadline has passed
    lease,      \* the lease a thread holds; its gen is the slot's while opening
    open,       \* physical connections whose socket this process has open
    inherited,  \* those among them that the parent opened
    used        \* ... whose session holds an unfinished transaction or settings
                \* of a lease

poolVars == <<pid, idle, total, inUse, gen, closed>>
threadVars == <<pc, late, lease>>
wireVars == <<open, inherited, used>>
vars == <<os, poolVars, threadVars, wireVars>>

\* out: no checkout.  asking: about to take the condition at the top of the
\* loop.  asleep: in Condition.wait, on its list of waiters.  woken: notified.
\* opening: has reserved a slot and calls the factory.  holding: has a lease.
\* cleaning: the lease is closed and the connection is being rolled back.
Where == {"out", "asking", "asleep", "woken", "opening", "holding", "cleaning"}

Move(t, place) == pc' = [pc EXCEPT ![t] = place]

\* close_physical_quietly on every connection of S: their sessions end.
CloseSockets(S) ==
    /\ open' = open \ S
    /\ inherited' = inherited \ S
    /\ used' = used \ S

\* Condition.notify: one waiter, whichever it is, leaves the waiters' list.
\* t is the thread that notifies and goes to place.
NotifyAndMove(t, place) ==
    LET asleep == {w \in Thread : pc[w] = "asleep"}
    IN  IF asleep = {}
        THEN Move(t, place)
        ELSE \E w \in asleep : pc' = [pc EXCEPT ![t] = place, ![w] = "woken"]

Init ==
    /\ os = "parent" /\ pid = "parent"
    /\ idle = {} /\ total = 0 /\ inUse = 0 /\ gen = 0 /\ closed = FALSE
    /\ pc = [t \in Thread |-> "out"]
    /\ late = {}
    /\ lease = [t \in Thread |-> NoLease]
    /\ open = {} /\ inherited = {} /\ used = {}

-----------------------------------------------------------------------------
(* Checkout                                                                *)

\* Mutant of EnsureProcess: the idle sockets of the parent are kept.
KeepsInherited ==
    IF pid = os
    THEN UNCHANGED <<poolVars, wireVars>>
    ELSE /\ pid' = os
         /\ total' = Cardinality(idle) /\ inUse' = 0
         /\ gen' = gen + 1 /\ closed' = FALSE
         /\ UNCHANGED <<idle, wireVars>>

\* _ensure_process in the child: drop what was inherited, start afresh.
EnsureProcess ==
    IF pid = os
    THEN UNCHANGED <<poolVars, wireVars>>
    ELSE /\ pid' = os
         /\ idle' = {} /\ total' = 0 /\ inUse' = 0
         /\ gen' = gen + 1 /\ closed' = FALSE
         /\ CloseSockets(idle)

\* acquire, up to its loop: the deadline starts now.
Ask(t) ==
    /\ pc[t] = "out"
    /\ EnsureProcess
    /\ Move(t, "asking")
    /\ UNCHANGED <<os, late, lease>>

\* One turn of the loop under the condition: the pool is closed.
LookClosed(t) ==
    /\ pc[t] = "asking" /\ closed
    /\ Move(t, "out")
    /\ late' = late \ {t}
    /\ UNCHANGED <<os, poolVars, lease, wireVars>>

\* ... it is open: the unhealthy connections D met first are discarded, and
\* a healthy c is leased.
Reuse(t) ==
    /\ pc[t] = "asking" /\ ~closed
    /\ \E D \in SUBSET idle : \E c \in idle \ D :
        /\ idle' = idle \ (D \union {c})
        /\ total' = total - Cardinality(D)
        /\ CloseSockets(D)
        /\ lease' = [lease EXCEPT ![t] =
                        [conn |-> c, gen |-> gen, owner |-> pid, force |-> FALSE]]
    /\ inUse' = inUse + 1
    /\ Move(t, "holding")
    /\ late' = late \ {t}
    /\ UNCHANGED <<os, pid, gen, closed>>

\* ... no idle connection is healthy, and there is or there is not a free slot.
NothingIdle ==
    /\ ~closed
    /\ idle' = {}
    /\ CloseSockets(idle)

\* Mutant of Left: the discarded connections keep their slots.
LeftAsBefore == total

\* Slots taken once those connections are discarded.
Left == total - Cardinality(idle)

Reserve(t) ==
    /\ pc[t] = "asking" /\ NothingIdle
    /\ Left < Capacity
    /\ total' = Left + 1
    /\ lease' = [lease EXCEPT ![t] = [NoLease EXCEPT !.gen = gen]]
    /\ Move(t, "opening")
    /\ late' = late \ {t}
    /\ UNCHANGED <<os, pid, inUse, gen, closed>>

SleepOrGiveUp(t) ==
    /\ pc[t] = "asking" /\ NothingIdle
    /\ Left >= Capacity
    /\ total' = Left
    /\ Move(t, IF t \in late THEN "out" ELSE "asleep")
    /\ late' = late \ {t}
    /\ UNCHANGED <<os, pid, inUse, gen, closed, lease>>

\* The deadline passes; a sleeper stays on the waiters' list until it runs.
DeadlinePasses(t) ==
    /\ pc[t] \in {"asking", "asleep", "woken"} /\ t \notin late
    /\ late' = late \union {t}
    /\ UNCHANGED <<os, poolVars, pc, lease, wireVars>>

\* Mutant of WaitReturns: the wait has no timeout.
WaitsForever(t) ==
    /\ pc[t] = "woken"
    /\ Move(t, "asking")
    /\ UNCHANGED <<os, poolVars, late, lease, wireVars>>

\* wait returns, notified or timed out, and the loop starts over.
WaitReturns(t) ==
    /\ \/ pc[t] = "woken"
       \/ pc[t] = "asleep" /\ t \in late
    /\ Move(t, "asking")
    /\ UNCHANGED <<os, poolVars, late, lease, wireVars>>

\* Mutant of OpenFails: the slot is given back without a word.
FailsQuietly(t) ==
    /\ pc[t] = "opening"
    /\ total' = IF lease[t].gen = gen /\ total > 0 THEN total - 1 ELSE total
    /\ Move(t, "out")
    /\ lease' = [lease EXCEPT ![t] = NoLease]
    /\ UNCHANGED <<os, pid, idle, inUse, gen, closed, late, wireVars>>

\* The factory fails: the slot is given back and one waiter is told.
OpenFails(t) ==
    /\ pc[t] = "opening"
    /\ IF lease[t].gen = gen /\ total > 0
       THEN total' = total - 1 /\ NotifyAndMove(t, "out")
       ELSE UNCHANGED total /\ Move(t, "out")
    /\ lease' = [lease EXCEPT ![t] = NoLease]
    /\ UNCHANGED <<os, pid, idle, inUse, gen, closed, late, wireVars>>

\* The factory answers; a pool closed meanwhile refuses the connection.
OpenSucceeds(t) ==
    /\ pc[t] = "opening"
    /\ \/ /\ closed \/ lease[t].gen # gen
          /\ lease' = [lease EXCEPT ![t] = NoLease]
          /\ Move(t, "out")
          /\ UNCHANGED <<inUse, open>>
       \/ /\ ~closed /\ lease[t].gen = gen
          /\ Conn \ open # {}
          /\ LET c == CHOOSE c \in Conn \ open : TRUE IN
                /\ open' = open \union {c}
                /\ lease' = [lease EXCEPT ![t] =
                        [conn |-> c, gen |-> gen, owner |-> pid, force |-> FALSE]]
          /\ inUse' = inUse + 1
          /\ Move(t, "holding")
    /\ UNCHANGED <<os, pid, idle, total, gen, closed, late, inherited, used>>

-----------------------------------------------------------------------------
(* Use and return                                                          *)

\* The holder runs statements; a transaction or a setting may be left behind.
Use(t) ==
    /\ pc[t] = "holding"
    /\ used' = used \union {lease[t].conn}
    /\ UNCHANGED <<os, poolVars, threadVars, open, inherited>>

\* lease.close: cursors first (one that fails forces a discard), then the
\* first check of release.
CloseLease(t) ==
    /\ pc[t] = "holding"
    /\ LET mine == lease[t].owner = os /\ pid = os
           current == ~closed /\ lease[t].gen = gen
       IN  IF mine /\ current
           THEN /\ \E cursorFailed \in BOOLEAN :
                        lease' = [lease EXCEPT ![t].force = cursorFailed]
                /\ Move(t, "cleaning")
                /\ UNCHANGED wireVars
           ELSE /\ lease' = [lease EXCEPT ![t] = NoLease]
                /\ Move(t, "out")
                /\ CloseSockets({lease[t].conn})
    /\ UNCHANGED <<os, poolVars, late>>

\* The rest of release: roll back, reset the session and check its health
\* (any may fail, and a failed cursor skips the reset), then look again.
FinishRelease(t) ==
    /\ pc[t] = "cleaning"
    /\ LET c == lease[t].conn IN
       IF closed \/ lease[t].gen # gen
       THEN /\ CloseSockets({c})
            /\ Move(t, "out")
            /\ UNCHANGED <<idle, total, inUse>>
       ELSE /\ inUse' = inUse - 1
            /\ \/ /\ ~lease[t].force
                  /\ idle' = idle \union {c}
                  /\ used' = used \ {c}
                  /\ UNCHANGED <<total, open, inherited>>
               \/ /\ total' = total - 1
                  /\ CloseSockets({c})
                  /\ UNCHANGED idle
            /\ NotifyAndMove(t, "out")
    /\ lease' = [lease EXCEPT ![t] = NoLease]
    /\ UNCHANGED <<os, pid, gen, closed, late>>

-----------------------------------------------------------------------------
(* Shutdown and fork                                                       *)

\* close_all: terminal; wakes every waiter, closes what is idle.  (Calling it
\* again would change the generation only.)
CloseAll ==
    /\ pid # os \/ ~closed
    /\ pid' = os
    /\ closed' = TRUE
    /\ gen' = IF pid = os THEN gen + 1 ELSE gen + 2
    /\ idle' = {} /\ total' = 0 /\ inUse' = 0
    /\ pc' = [t \in Thread |-> IF pc[t] = "asleep" THEN "woken" ELSE pc[t]]
    /\ CloseSockets(idle)
    /\ UNCHANGED <<os, late, lease>>

\* fork by a thread outside the pool's code: the child has that thread only,
\* with its lease and a copy of the pool.  Its other threads are new, and the
\* first use of the pool in the child runs _ensure_process alone.
Fork(f) ==
    /\ MayFork /\ os = "parent"
    /\ pc[f] \in {"out", "holding"}
    /\ os' = "child"
    /\ inherited' = open
    /\ pc' = [t \in Thread |-> IF t = f THEN pc[f] ELSE "out"]
    /\ lease' = [t \in Thread |-> IF t = f THEN lease[f] ELSE NoLease]
    /\ late' = late \intersect {f}
    /\ UNCHANGED <<poolVars, open, used>>

-----------------------------------------------------------------------------
Checkout(t) ==
    \/ Ask(t) \/ LookClosed(t) \/ Reuse(t) \/ Reserve(t) \/ SleepOrGiveUp(t)
    \/ DeadlinePasses(t) \/ WaitReturns(t) \/ OpenFails(t) \/ OpenSucceeds(t)

Return(t) == Use(t) \/ CloseLease(t) \/ FinishRelease(t)

Next ==
    \/ \E t \in Thread : Checkout(t) \/ Return(t) \/ Fork(t)
    \/ CloseAll

Spec == Init /\ [][Next]_vars

\* A thread inside acquire gets to run, time passes, and a connect attempt ends
\* (connect_timeout_seconds).  Nothing is assumed of a lease's holder.
FairSpec ==
    /\ Spec
    /\ \A t \in Thread :
        /\ WF_vars(LookClosed(t) \/ Reuse(t) \/ Reserve(t) \/ SleepOrGiveUp(t))
        /\ WF_vars(DeadlinePasses(t))
        /\ WF_vars(WaitReturns(t))
        /\ WF_vars(OpenFails(t) \/ OpenSucceeds(t))

-----------------------------------------------------------------------------
(* What the pool promises                                                  *)

TypeOK ==
    /\ os \in Process /\ pid \in Process
    /\ idle \subseteq Conn /\ total \in 0..Capacity /\ inUse \in 0..Capacity
    /\ gen \in Nat /\ closed \in BOOLEAN
    /\ pc \in [Thread -> Where]
    /\ late \subseteq Thread
    /\ lease \in [Thread -> Lease]
    /\ open \subseteq Conn /\ inherited \subseteq open /\ used \subseteq open

At(place) == {t \in Thread : pc[t] = place}
Leasing == At("holding") \union At("cleaning")

\* Slots and leases that belong to the pool as it is now, not to one that was
\* closed or to the parent's.
Current(T) == {t \in T : lease[t].gen = gen}

\* "Maximum physical connections per application process": what this process
\* opened and still has open, with what it is opening, never exceeds the
\* capacity, across failed opens, discards, late answers after close_all and a
\* fork; and while the pool is open its two counters are exact.
CapacityIsKept ==
    /\ Cardinality(open \ inherited)
            + Cardinality({t \in At("opening") : ~closed /\ lease[t].gen = gen}) <= Capacity
    /\ ~closed /\ pid = os =>
            /\ inUse = Cardinality(Current(Leasing))
            /\ total = Cardinality(idle) + inUse + Cardinality(Current(At("opening")))

\* One session has one user: no two leases share a connection, a connection
\* that waits for reuse is nobody's, is open and carries nothing over from its
\* last user, and no checkout of the child gets a session of the parent.
OneUserPerSession ==
    /\ \A t, u \in Leasing : lease[t].conn = lease[u].conn => t = u
    /\ \A c \in idle :
            /\ c \in open \ used
            /\ \A t \in Leasing : lease[t].conn # c
    /\ pid = os => \A c \in inherited :
            c \notin idle /\ \A t \in Leasing : lease[t].conn = c => lease[t].owner # os

\* No wake-up is lost: while a thread sleeps, every connection or slot that is
\* free has a thread on its way to it, though a woken thread may find that
\* another took it, or that its own deadline passed.
NoLostWakeup ==
    ~closed /\ pid = os /\ At("asleep") # {} =>
        Cardinality(idle) + (Capacity - total)
            <= Cardinality(At("asking") \union At("woken"))

\* A checkout always ends, with a lease or with an error, whatever the others
\* do with theirs.
EveryCheckoutEnds ==
    \A t \in Thread :
        pc[t] \in {"asking", "asleep", "woken", "opening"}
            ~> pc[t] \notin {"asking", "asleep", "woken", "opening"}
=============================================================================
