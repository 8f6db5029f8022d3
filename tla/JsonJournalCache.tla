--------------------------- MODULE JsonJournalCache ---------------------------
(***************************************************************************)
(* How the processes that share one JSON data root keep their index of      *)
(* committed actions current (_read_actions_registry of json_provider.py).  *)
(* Each keeps the index it built, the byte offset it has read to and the    *)
(* stat of the file it read, and when the journal grew reads only the tail. *)
(* A checkpoint replaces the journal by a shorter equivalent one.           *)
(*                                                                          *)
(* Every operation runs under the cross-process gate, so it is one step     *)
(* here; JsonLedger has its inner steps and its failures. A record is its   *)
(* operation, its key and its event id, and occupies a number of bytes.     *)
(***************************************************************************)
EXTENDS Integers, Sequences, SequencesExt, FiniteSets

CONSTANTS
    Procs,          \* processes with a provider over the data root
    Keys,           \* action identities
    Bytes,          \* bytes of a record: a function of its op
    CompactBytes    \* growth that triggers a checkpoint

VARIABLES
    journal,    \* ledger_actions.jsonl
    mtime,      \* its modification identity
    cache,      \* each process's cached index
    floor,      \* each process's _actions_cache_compaction_floor
    nextId,     \* the id the next event gets
    moved       \* history: how often the wallet moved for each key

vars == <<journal, mtime, cache, floor, nextId, moved>>

Record == [op: {"commit", "project", "settled"}, key: Keys, id: Nat]

Size(records) == FoldLeft(LAMBDA n, r : n + Bytes[r.op], 0, records)

(* The point index: the event id under each key (0: none), and which of them *)
(* are projected. refused: a record contradicted it.                         *)
EmptyIndex == [id |-> [k \in Keys |-> 0], projected |-> {}, refused |-> FALSE]

NoCache == [loaded |-> FALSE, index |-> EmptyIndex, offset |-> 0, stat |-> 0]

(* _apply_action_journal_record *)
ApplyRecord(index, r) ==
    IF index.refused THEN index
    ELSE CASE
         r.op = "commit" /\ index.id[r.key] \in {0, r.id} ->
            [index EXCEPT !.id[r.key] = r.id, !.projected = @ \ {r.key}]
      [] r.op = "project" /\ index.id[r.key] = r.id ->
            [index EXCEPT !.projected = @ \cup {r.key}]
      [] r.op = "settled" /\ index.id[r.key] \in {0, r.id} ->
            [index EXCEPT !.id[r.key] = r.id, !.projected = @ \cup {r.key}]
      [] OTHER -> [index EXCEPT !.refused = TRUE]

(* The whole records from a byte offset on. An offset inside a record starts *)
(* with bytes that are no record.                                            *)
OnBoundary(offset) ==
    \E n \in 0..Len(journal) : Size(SubSeq(journal, 1, n)) = offset

RecordsFrom(offset) ==
    LET n == CHOOSE n \in 0..Len(journal) : Size(SubSeq(journal, 1, n)) = offset
    IN SubSeq(journal, n + 1, Len(journal))

ApplyTail(index, offset) ==
    IF OnBoundary(offset)
    THEN FoldLeft(ApplyRecord, index, RecordsFrom(offset))
    ELSE [index EXCEPT !.refused = TRUE]

(* _read_actions_registry: nothing new, only the tail, or all of it.         *)
Unchanged(c) == c.loaded /\ c.stat = mtime
OnlyGrew(c) == c.loaded /\ ~Unchanged(c) /\ Size(journal) > c.offset

Read(c) ==
    LET at(index) ==
            [loaded |-> TRUE, index |-> index, offset |-> Size(journal), stat |-> mtime]
    IN CASE Unchanged(c) -> c
         [] OnlyGrew(c)  -> at(ApplyTail(c.index, c.offset))
         [] OTHER        -> at(ApplyTail(EmptyIndex, 0))

(* _compact_action_journal: one reference per action of the index, in        *)
(* sequence order.                                                           *)
Checkpoint(index) ==
    LET known == {k \in Keys : index.id[k] # 0}
    IN [n \in 1..Cardinality(known) |->
          LET k == CHOOSE k \in known :
                     Cardinality({j \in known : index.id[j] < index.id[k]}) = n - 1
          IN [op |-> "settled", key |-> k, id |-> index.id[k]]]

------------------------------------------------------------------------------
Init ==
    /\ journal = <<>>
    /\ mtime = 0
    /\ cache = [p \in Procs |-> NoCache]
    /\ floor = [p \in Procs |-> 0]
    /\ nextId = 1
    /\ moved = [k \in Keys |-> 0]

FloorAfterRead(p) ==
    IF Unchanged(cache[p]) \/ OnlyGrew(cache[p]) THEN floor[p] ELSE Size(journal)

(* The index cannot be read: the operation is refused. A tail may have been  *)
(* applied in part; offset and stat stay.                                    *)
Refused(p) ==
    LET r == Read(cache[p]) IN
    /\ r.index.refused
    /\ cache' = [cache EXCEPT ![p] =
                   IF OnlyGrew(@) THEN [@ EXCEPT !.index = [r.index EXCEPT !.refused = FALSE]]
                                  ELSE @]
    /\ UNCHANGED <<journal, mtime, floor, nextId, moved>>

(* What a process works with: the journal, its index of it, its floor, and   *)
(* how many times it changed the file.                                       *)
Compacted(v) ==
    IF Size(v.journal) - v.floor < CompactBytes
    THEN v
    ELSE LET settled == Checkpoint(v.index)
         IN [v EXCEPT !.journal = settled, !.floor = Size(settled), !.writes = @ + 1]

(* _recover_committed_actions, which every operation starts with. *)
Recovered(p) ==
    Compacted([journal |-> journal, index |-> Read(cache[p]).index,
               floor |-> FloorAfterRead(p), writes |-> 0])

(* The commit and project records of a new action, and the index with it. *)
WithAction(v, k) ==
    LET id == nextId IN
    Compacted(
        [journal |-> v.journal \o << [op |-> "commit", key |-> k, id |-> id],
                                     [op |-> "project", key |-> k, id |-> id] >>,
         index   |-> [v.index EXCEPT !.id[k] = id, !.projected = @ \cup {k}],
         floor   |-> v.floor,
         writes  |-> v.writes + 2])

(* Process p leaves v in the file and in its cache. *)
Leave(p, v) ==
    /\ journal' = v.journal
    /\ mtime' = mtime + v.writes
    /\ cache' = [cache EXCEPT ![p] = [loaded |-> TRUE, index |-> v.index,
                                      offset |-> Size(v.journal), stat |-> mtime']]
    /\ floor' = [floor EXCEPT ![p] = v.floor]

(* transact_ledger_once for a key the index has: the event is replayed.      *)
Replay(p, k) ==
    LET v == Recovered(p) IN
    /\ ~v.index.refused
    /\ v.index.id[k] # 0
    /\ Leave(p, v)
    /\ UNCHANGED <<nextId, moved>>

(* transact_ledger_once for a key the index does not have: it is committed   *)
(* and projected.                                                            *)
Act(p, k) ==
    LET v == Recovered(p) IN
    /\ ~v.index.refused
    /\ v.index.id[k] = 0
    /\ Leave(p, WithAction(v, k))
    /\ moved' = [moved EXCEPT ![k] = @ + 1]
    /\ nextId' = nextId + 1

(* A process ends and another starts in its place. *)
Restart(p) ==
    /\ cache' = [cache EXCEPT ![p] = NoCache]
    /\ floor' = [floor EXCEPT ![p] = 0]
    /\ UNCHANGED <<journal, mtime, nextId, moved>>

Next ==
    \E p \in Procs :
        \/ Refused(p)
        \/ Restart(p)
        \/ \E k \in Keys : Replay(p, k) \/ Act(p, k)

Spec == Init /\ [][Next]_vars

(* A warmed process observes what other processes committed: whatever it has *)
(* read before, its next read succeeds and finds every key whose wallet      *)
(* moved (LEDGER-034: caches consume only monotonic external tails).         *)
ReadersSeeEveryAction ==
    \A p \in Procs :
        LET index == Read(cache[p]).index
        IN /\ ~index.refused
           /\ \A k \in Keys : moved[k] > 0 => index.id[k] # 0
===============================================================================
