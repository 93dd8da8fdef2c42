---------------------------- MODULE TaggedCache ----------------------------
(***************************************************************************)
(* The service-level cache over Valkey: getOrSet with its generation       *)
(* snapshot, against invalidateKey and invalidateTags, for the keys of one *)
(* tag.  Values are the versions of the database rows behind the keys; the *)
(* loaders read them from the primary or from a replica that lags.         *)
(*                                                                         *)
(* Each Valkey command and each database access is a step; readers and     *)
(* writers are requests, in any process.                                   *)
(***************************************************************************)
EXTENDS Integers, FiniteSetsExt

CONSTANTS
    Keys,       \* the cache keys under the tag
    Readers,    \* getOrSet calls in progress at the same time
    Writers,    \* updates and their invalidation in progress at the same time
    MaxUpdates, \* how many updates there are
    None        \* no entry, no snapshot

ASSUME TaggedCacheAssumption ==
    /\ MaxUpdates \in Nat
    /\ None \notin Int

VARIABLES
    row,         \* the database: the version of each row
    entry,       \* Valkey: the cached version of each key
    index,       \* Valkey: the tag's index set
    generation,  \* Valkey: the tag's generation
    reader,      \* each getOrSet: where it is, its snapshot, what it loaded
    writer,      \* each update: where it is, the version it wrote, keys left to sweep
    invalidated, \* the version of each key up to which an invalidation has returned
    saw          \* what has happened so far that some properties exclude

vars == <<row, entry, index, generation, reader, writer, invalidated, saw>>

Oddities == {"window",    \* a reader had compared when an invalidation had not yet bumped
             "unindexed", \* an entry was not in the index when the sweep read it
             "blind",     \* a write was permitted without a snapshot
             "lagged"}    \* a load was answered by a replica behind an invalidation

\* What an update calls: invalidateKey with its tag, without it and then a sweep, a sweep alone.
Styles == {"key", "both", "sweep"}

\* The types, and a call in progress is about a key.
TypeOK ==
    /\ row \in [Keys -> Nat]
    /\ entry \in [Keys -> Nat \cup {None}]
    /\ index \in SUBSET Keys
    /\ generation \in Nat
    /\ reader \in [Readers -> [pc: {"idle", "missed", "snapped", "loaded", "compared", "stored"},
                               key: Keys \cup {None},
                               gen: Nat \cup {None},
                               value: Nat]]
    /\ writer \in [Writers -> [pc: {"idle", "delete", "unindex", "list", "sweep", "bump"},
                               style: Styles,
                               key: Keys \cup {None},
                               version: Nat,
                               todo: SUBSET Keys]]
    /\ invalidated \in [Keys -> Nat]
    /\ saw \in SUBSET Oddities
    /\ \A r \in Readers : reader[r].pc # "idle" => reader[r].key \in Keys
    /\ \A w \in Writers : writer[w].pc # "idle" => writer[w].key \in Keys

IdleReader == [pc |-> "idle", key |-> None, gen |-> None, value |-> 0]
IdleWriter == [pc |-> "idle", style |-> "key", key |-> None, version |-> 0, todo |-> {}]

Init ==
    /\ row = [k \in Keys |-> 0]
    /\ entry = [k \in Keys |-> None]
    /\ index = {}
    /\ generation = 0
    /\ reader = [r \in Readers |-> IdleReader]
    /\ writer = [w \in Writers |-> IdleWriter]
    /\ invalidated = [k \in Keys |-> 0]
    /\ saw = {}

-----------------------------------------------------------------------------
(***************************************************************************)
(* getOrSet: get, snapshot, load, then set: compare, store, index.         *)
(***************************************************************************)
Miss(r, k) ==
    /\ reader[r].pc = "idle"
    /\ entry[k] = None
    /\ reader' = [reader EXCEPT ![r] = [pc |-> "missed", key |-> k, gen |-> None, value |-> 0]]
    /\ UNCHANGED <<row, entry, index, generation, writer, invalidated, saw>>

Snapshot(r) ==
    /\ reader[r].pc = "missed"
    /\ reader' = [reader EXCEPT ![r] = [pc |-> "snapped", key |-> @.key, gen |-> generation, value |-> 0]]
    /\ UNCHANGED <<row, entry, index, generation, writer, invalidated, saw>>

\* Without an answer from Valkey the write will be permitted.
SnapshotUnavailable(r) ==
    /\ reader[r].pc = "missed"
    /\ reader' = [reader EXCEPT ![r] = [pc |-> "snapped", key |-> @.key, gen |-> None, value |-> 0]]
    /\ UNCHANGED <<row, entry, index, generation, writer, invalidated, saw>>

(***************************************************************************)
(* The loaders select, so a replica may answer with any former version of  *)
(* the row; behind an invalidation that has returned, that is recorded.    *)
(***************************************************************************)
Load(r) ==
    LET k == reader[r].key
    IN  /\ reader[r].pc = "snapped"
        /\ \E version \in 0..row[k] :
              /\ reader' = [reader EXCEPT ![r] = [pc |-> "loaded", key |-> k, gen |-> @.gen,
                                                  value |-> version]]
              /\ saw' = saw \cup IF version < invalidated[k] THEN {"lagged"} ELSE {}
        /\ UNCHANGED <<row, entry, index, generation, writer, invalidated>>

tagGenerationsChanged(r) == reader[r].gen # None /\ reader[r].gen # generation

\* History: a writer has dropped the key, or read the index, and has not bumped yet.
Dropping(w, k) == writer[w].key = k /\ writer[w].pc \in {"unindex", "sweep", "bump"}

\* History: a reader may still store what it has compared.
Compared(k) == \E r \in Readers : reader[r].key = k /\ reader[r].pc = "compared"

Permitted(r) ==
    /\ reader' = [reader EXCEPT ![r] = [pc |-> "compared", key |-> @.key, gen |-> None, value |-> @.value]]
    /\ saw' = saw \cup (IF reader[r].gen = None THEN {"blind"} ELSE {}) \cup
                     (IF \E w \in Writers : Dropping(w, reader[r].key) THEN {"window"} ELSE {})

Refused(r) ==
    /\ reader' = [reader EXCEPT ![r] = IdleReader]
    /\ UNCHANGED saw

\* Mutant: a snapshot is never compared.
CompareNothing(r) ==
    /\ reader[r].pc = "loaded"
    /\ Permitted(r)
    /\ UNCHANGED <<row, entry, index, generation, writer, invalidated>>

Compare(r) ==
    /\ reader[r].pc = "loaded"
    /\ IF tagGenerationsChanged(r) THEN Refused(r) ELSE Permitted(r)
    /\ UNCHANGED <<row, entry, index, generation, writer, invalidated>>

Store(r) ==
    /\ reader[r].pc = "compared"
    /\ entry' = [entry EXCEPT ![reader[r].key] = reader[r].value]
    /\ reader' = [reader EXCEPT ![r] = [pc |-> "stored", key |-> @.key, gen |-> None, value |-> 0]]
    /\ UNCHANGED <<row, index, generation, writer, invalidated, saw>>

IndexKey(r) ==
    /\ reader[r].pc = "stored"
    /\ index' = index \cup {reader[r].key}
    /\ reader' = [reader EXCEPT ![r] = IdleReader]
    /\ UNCHANGED <<row, entry, generation, writer, invalidated, saw>>

\* load throws, or Valkey fails while comparing, storing or indexing.
ReaderFails(r) ==
    /\ reader[r].pc # "idle"
    /\ reader' = [reader EXCEPT ![r] = IdleReader]
    /\ UNCHANGED <<row, entry, index, generation, writer, invalidated, saw>>

-----------------------------------------------------------------------------
(***************************************************************************)
(* An update of a row, then the invalidation.  The update of a story       *)
(* sweeps the search pages; of their keys, k is the one that changed.      *)
(***************************************************************************)
Goto(w, pc, todo) ==
    writer' = [writer EXCEPT ![w] = [pc |-> pc, style |-> @.style, key |-> @.key,
                                     version |-> @.version, todo |-> todo]]

Updates == MapThenSumSet(LAMBDA k : row[k], Keys)

Update(w, k, style) ==
    /\ writer[w].pc = "idle"
    /\ Updates < MaxUpdates
    /\ row' = [row EXCEPT ![k] = @ + 1]
    /\ writer' = [writer EXCEPT ![w] = [pc |-> IF style = "sweep" THEN "list" ELSE "delete",
                                        style |-> style, key |-> k,
                                        version |-> row[k] + 1, todo |-> {}]]
    /\ UNCHANGED <<entry, index, generation, reader, invalidated, saw>>

DeleteKey(w) ==
    /\ writer[w].pc = "delete"
    /\ entry' = [entry EXCEPT ![writer[w].key] = None]
    /\ Goto(w, IF writer[w].style = "key" THEN "unindex" ELSE "list", {})
    /\ saw' = saw \cup IF Compared(writer[w].key) THEN {"window"} ELSE {}
    /\ UNCHANGED <<row, index, generation, reader, invalidated>>

UnindexKey(w) ==
    /\ writer[w].pc = "unindex"
    /\ index' = index \ {writer[w].key}
    /\ Goto(w, "bump", {})
    /\ UNCHANGED <<row, entry, generation, reader, invalidated, saw>>

ListIndex(w) ==
    /\ writer[w].pc = "list"
    /\ Goto(w, "sweep", index)
    /\ saw' = saw \cup (IF Compared(writer[w].key) THEN {"window"} ELSE {}) \cup
                     (IF entry[writer[w].key] # None /\ writer[w].key \notin index
                      THEN {"unindexed"} ELSE {})
    /\ UNCHANGED <<row, entry, index, generation, reader, invalidated>>

SweepKey(w, k) ==
    /\ writer[w].pc = "sweep"
    /\ k \in writer[w].todo
    /\ entry' = [entry EXCEPT ![k] = None]
    /\ Goto(w, "sweep", writer[w].todo \ {k})
    /\ UNCHANGED <<row, index, generation, reader, invalidated, saw>>

DropIndex(w) ==
    /\ writer[w].pc = "sweep"
    /\ writer[w].todo = {}
    /\ index' = {}
    /\ Goto(w, "bump", {})
    /\ UNCHANGED <<row, entry, generation, reader, invalidated, saw>>

\* History: the invalidation has returned.
Invalidated(w) ==
    invalidated' = [invalidated EXCEPT ![writer[w].key] =
        IF writer[w].version > @ THEN writer[w].version ELSE @]

\* Mutant: the counter has a TTL, so the bump starts it again.
BumpRestarts(w) ==
    /\ writer[w].pc = "bump"
    /\ generation' = 0
    /\ Invalidated(w)
    /\ writer' = [writer EXCEPT ![w] = IdleWriter]
    /\ UNCHANGED <<row, entry, index, reader, saw>>

\* Mutant: the counter is deleted along with the index.
BumpDrops(w) ==
    /\ writer[w].pc = "bump"
    /\ generation' = None
    /\ Invalidated(w)
    /\ writer' = [writer EXCEPT ![w] = IdleWriter]
    /\ UNCHANGED <<row, entry, index, reader, saw>>

Bump(w) ==
    /\ writer[w].pc = "bump"
    /\ generation' = generation + 1
    /\ Invalidated(w)
    /\ writer' = [writer EXCEPT ![w] = IdleWriter]
    /\ UNCHANGED <<row, entry, index, reader, saw>>

\* Valkey fails: invalidateKey throws, invalidateTags logs; the rest is not done.
WriterFails(w) ==
    /\ writer[w].pc # "idle"
    /\ writer' = [writer EXCEPT ![w] = IdleWriter]
    /\ UNCHANGED <<row, entry, index, generation, reader, invalidated, saw>>

-----------------------------------------------------------------------------
\* Valkey: an entry outlives its TTL.
EntryExpires(k) ==
    /\ entry[k] # None
    /\ entry' = [entry EXCEPT ![k] = None]
    /\ UNCHANGED <<row, index, generation, reader, writer, invalidated, saw>>

\* The TTL of the index is longer than that of every entry.
IndexExpires ==
    /\ index # {}
    /\ \A k \in Keys : entry[k] = None
    /\ index' = {}
    /\ UNCHANGED <<row, entry, generation, reader, writer, invalidated, saw>>

GetOrSet(r) ==
    \/ \E k \in Keys : Miss(r, k)
    \/ Snapshot(r) \/ SnapshotUnavailable(r)
    \/ Load(r) \/ Compare(r) \/ Store(r) \/ IndexKey(r)
    \/ ReaderFails(r)

UpdateAndInvalidate(w) ==
    \/ \E k \in Keys, style \in Styles : Update(w, k, style)
    \/ DeleteKey(w) \/ UnindexKey(w)
    \/ ListIndex(w) \/ (\E k \in Keys : SweepKey(w, k)) \/ DropIndex(w)
    \/ Bump(w)
    \/ WriterFails(w)

Next ==
    \/ \E r \in Readers : GetOrSet(r)
    \/ \E w \in Writers : UpdateAndInvalidate(w)
    \/ \E k \in Keys : EntryExpires(k)
    \/ IndexExpires

Spec == Init /\ [][Next]_vars

-----------------------------------------------------------------------------
(***************************************************************************)
(* A reader whose snapshot still stands when set compares it has loaded    *)
(* nothing older than the last invalidation that returned: the comparison  *)
(* refuses every write that an invalidation has overtaken by then, however *)
(* the invalidations interleave or fail (readTagGenerationSnapshot before  *)
(* load, bumpTagGenerations last).  A snapshot says nothing of a replica   *)
(* that lags: a load behind an invalidation which had already returned is  *)
(* the exception.                                                          *)
(***************************************************************************)
StaleWriteRefused ==
    "lagged" \notin saw =>
        \A r \in Readers :
            reader[r].pc = "loaded" /\ reader[r].gen = generation =>
                reader[r].value >= invalidated[reader[r].key]

(***************************************************************************)
(* An entry is older than the last invalidation that returned only if a    *)
(* reader had compared before that invalidation bumped, stored without a   *)
(* snapshot, had not indexed the entry when the sweep read the index, or   *)
(* loaded from a replica behind an invalidation: nothing else that         *)
(* readers, targeted deletes, sweeps, failures, expiries and replicas do   *)
(* leaves the cache behind the database.                                   *)
(***************************************************************************)
FreshOutsideTheWindow ==
    saw = {} => \A k \in Keys : entry[k] # None => entry[k] >= invalidated[k]

(***************************************************************************)
(* tag-generation.ts:37-38: a write that started before an invalidation    *)
(* can never complete after it.  While no write was permitted without a    *)
(* snapshot and no replica was behind an invalidation, no entry is written *)
(* that is older than an invalidation of its key that has returned.        *)
(***************************************************************************)
NoWriteAfterInvalidation ==
    [][\A k \in Keys :
         saw \cap {"blind", "lagged"} = {} /\ entry'[k] \notin {entry[k], None} =>
             entry'[k] >= invalidated[k]]_vars
=============================================================================
