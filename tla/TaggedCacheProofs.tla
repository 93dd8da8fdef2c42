------------------------- MODULE TaggedCacheProofs --------------------------
(***************************************************************************)
(* Proofs about TaggedCache, for every set of keys, of readers and of      *)
(* writers and every number of updates.                                    *)
(***************************************************************************)
EXTENDS TaggedCache, TLAPS

\* A writer has written the version it will announce, and nobody announces more.
NotAhead ==
    /\ \A k \in Keys : invalidated[k] <= row[k]
    /\ \A w \in Writers : writer[w].pc # "idle" => writer[w].version <= row[writer[w].key]

\* A snapshot is never newer than the counter.
SnapshotsArePast ==
    \A r \in Readers : reader[r].gen # None => reader[r].gen <= generation

(***************************************************************************)
(* The inductive invariant.  A bump makes every snapshot taken so far      *)
(* differ from the counter, and an announced version is in the database.   *)
(***************************************************************************)
IInv ==
    /\ TypeOK
    /\ NotAhead
    /\ SnapshotsArePast
    /\ StaleWriteRefused

\* What a step of a reader leaves for the others.
ReaderStep(r) ==
    /\ UNCHANGED <<row, generation, writer, invalidated>>
    /\ \A q \in Readers : q # r => reader'[q] = reader[q]
    /\ reader' \in [Readers -> [pc: {"idle", "missed", "snapped", "loaded", "compared", "stored"},
                                key: Keys \cup {None},
                                gen: Nat \cup {None},
                                value: Nat]]
    /\ reader'[r].pc # "idle" => reader'[r].key \in Keys
    /\ reader'[r].gen # None => reader'[r].gen <= generation
    /\ reader'[r].pc = "loaded" /\ "lagged" \notin saw' =>
           reader'[r].value >= invalidated[reader'[r].key]

\* What a step of a writer that neither updates nor bumps leaves.
WriterStep(w) ==
    /\ UNCHANGED <<row, generation, reader, invalidated>>
    /\ \E x \in [pc: {"idle", "delete", "unindex", "list", "sweep", "bump"},
                 style: Styles,
                 key: Keys \cup {None},
                 version: Nat,
                 todo: SUBSET Keys] :
          /\ writer' = [writer EXCEPT ![w] = x]
          /\ x.pc # "idle" => x.key = writer[w].key /\ x.version = writer[w].version
          /\ x.pc # "idle" => writer[w].pc # "idle"

\* The variables the argument is not about keep their types.
CacheTyped ==
    /\ entry' \in [Keys -> Nat \cup {None}]
    /\ index' \in SUBSET Keys
    /\ saw' \in SUBSET Oddities

-----------------------------------------------------------------------------
(***************************************************************************)
(* What has happened stays recorded.                                       *)
(***************************************************************************)
LEMMA SawGrows == [Next]_vars => saw \subseteq saw'
BY DEF Next, GetOrSet, UpdateAndInvalidate, Miss, Snapshot, SnapshotUnavailable, Load, Compare,
       Permitted, Refused, Store, IndexKey, ReaderFails, Update, DeleteKey, UnindexKey, ListIndex,
       SweepKey, DropIndex, Bump, WriterFails, EntryExpires, IndexExpires, vars

(***************************************************************************)
(* No step writes anything else to the cache than versions and keys.       *)
(***************************************************************************)
LEMMA CacheStep == TypeOK /\ Next => CacheTyped
<1> SUFFICES ASSUME TypeOK, Next
             PROVE  CacheTyped
  OBVIOUS
<1> USE DEF TypeOK, CacheTyped, Oddities
<1>1. ASSUME NEW r \in Readers, GetOrSet(r)
      PROVE  CacheTyped
  <2>1. ASSUME UNCHANGED <<entry, index, saw>>
        PROVE  CacheTyped
    BY <2>1
  <2>2. CASE Compare(r)
    BY <2>2 DEF Compare, Permitted, Refused
  <2>3. CASE Store(r)
    BY <2>3 DEF Store
  <2>4. CASE IndexKey(r)
    BY <2>4 DEF IndexKey
  <2>5. CASE Load(r)
    BY <2>5 DEF Load
  <2>6. QED
    BY <1>1, <2>1, <2>2, <2>3, <2>4, <2>5
    DEF GetOrSet, Miss, Snapshot, SnapshotUnavailable, ReaderFails
<1>2. ASSUME NEW w \in Writers, UpdateAndInvalidate(w)
      PROVE  CacheTyped
  <2>1. ASSUME UNCHANGED <<entry, index, saw>>
        PROVE  CacheTyped
    BY <2>1
  <2>2. CASE DeleteKey(w)
    BY <2>2 DEF DeleteKey
  <2>3. CASE UnindexKey(w)
    BY <2>3 DEF UnindexKey
  <2>4. CASE ListIndex(w)
    BY <2>4 DEF ListIndex
  <2>5. ASSUME NEW k \in Keys, SweepKey(w, k)
        PROVE  CacheTyped
    BY <2>5 DEF SweepKey
  <2>6. CASE DropIndex(w)
    BY <2>6 DEF DropIndex
  <2>7. QED
    BY <1>2, <2>1, <2>2, <2>3, <2>4, <2>5, <2>6
    DEF UpdateAndInvalidate, Update, Bump, WriterFails
<1>3. ASSUME NEW k \in Keys, EntryExpires(k)
      PROVE  CacheTyped
  BY <1>3 DEF EntryExpires
<1>4. CASE IndexExpires
  BY <1>4 DEF IndexExpires
<1>5. QED
  BY <1>1, <1>2, <1>3, <1>4 DEF Next

(***************************************************************************)
(* Every step of getOrSet is a ReaderStep: what is loaded is a version of  *)
(* the row, behind no invalidation unless that is recorded, and only the   *)
(* snapshot is a generation.                                               *)
(***************************************************************************)
LEMMA ReadersStep ==
    ASSUME IInv, NEW r \in Readers, GetOrSet(r)
    PROVE  ReaderStep(r)
<1> USE TaggedCacheAssumption DEF IInv, TypeOK, ReaderStep, IdleReader
<1>1. ASSUME NEW k \in Keys, Miss(r, k)
      PROVE  ReaderStep(r)
  BY <1>1 DEF Miss
<1>2. CASE Snapshot(r)
  BY <1>2 DEF Snapshot
<1>3. CASE SnapshotUnavailable(r)
  BY <1>3 DEF SnapshotUnavailable
<1>4. CASE Load(r)
  <2>1. PICK version \in 0..row[reader[r].key] :
          /\ reader' = [reader EXCEPT ![r] = [pc |-> "loaded", key |-> reader[r].key,
                                              gen |-> reader[r].gen, value |-> version]]
          /\ saw' = saw \cup IF version < invalidated[reader[r].key] THEN {"lagged"} ELSE {}
    BY <1>4 DEF Load
  <2>2. /\ version \in Nat /\ reader[r].key \in Keys /\ invalidated[reader[r].key] \in Nat
        /\ UNCHANGED <<row, generation, writer, invalidated>>
    BY <1>4 DEF Load
  <2> QED BY <2>1, <2>2 DEF SnapshotsArePast
<1>5. CASE Compare(r)
  BY <1>5 DEF Compare, Permitted, Refused
<1>6. CASE Store(r)
  BY <1>6 DEF Store
<1>7. CASE IndexKey(r)
  BY <1>7 DEF IndexKey
<1>8. CASE ReaderFails(r)
  BY <1>8 DEF ReaderFails
<1>9. QED
  BY <1>1, <1>2, <1>3, <1>4, <1>5, <1>6, <1>7, <1>8 DEF GetOrSet

(***************************************************************************)
(* Every step of an invalidation before its bump is a WriterStep.          *)
(***************************************************************************)
LEMMA InvalidationsStep ==
    ASSUME IInv, NEW w \in Writers,
           \/ DeleteKey(w) \/ UnindexKey(w) \/ ListIndex(w)
           \/ \E k \in Keys : SweepKey(w, k)
           \/ DropIndex(w) \/ WriterFails(w)
    PROVE  WriterStep(w)
<1> USE DEF IInv, TypeOK, WriterStep, Goto, Styles
<1>1. CASE DeleteKey(w)
  BY <1>1 DEF DeleteKey
<1>2. CASE UnindexKey(w)
  BY <1>2 DEF UnindexKey
<1>3. CASE ListIndex(w)
  BY <1>3 DEF ListIndex
<1>4. ASSUME NEW k \in Keys, SweepKey(w, k)
      PROVE  WriterStep(w)
  BY <1>4 DEF SweepKey
<1>5. CASE DropIndex(w)
  BY <1>5 DEF DropIndex
<1>6. CASE WriterFails(w)
  BY <1>6 DEF WriterFails, IdleWriter
<1>7. QED
  BY <1>1, <1>2, <1>3, <1>4, <1>5, <1>6

(***************************************************************************)
(* The invariant is inductive.                                             *)
(***************************************************************************)
THEOREM TaggedCacheInvariant == Spec => []IInv
<1>1. Init => IInv
  BY TaggedCacheAssumption
  DEF Init, IInv, TypeOK, NotAhead, SnapshotsArePast, StaleWriteRefused, IdleReader, IdleWriter, Styles
<1>2. IInv /\ [Next]_vars => IInv'
  <2> SUFFICES ASSUME IInv, [Next]_vars
               PROVE  IInv'
    OBVIOUS
  <2> USE TaggedCacheAssumption
      DEF IInv, TypeOK, NotAhead, SnapshotsArePast, StaleWriteRefused
  <2>1. ASSUME NEW r \in Readers, GetOrSet(r)
        PROVE  IInv'
    <3>1. ReaderStep(r) /\ CacheTyped /\ saw \subseteq saw'
      BY <2>1, ReadersStep, CacheStep, SawGrows DEF Next
    <3>2. QED
      BY <3>1 DEF ReaderStep, CacheTyped
  <2>2. ASSUME NEW w \in Writers, NEW k \in Keys, NEW style \in Styles, Update(w, k, style)
        PROVE  IInv'
    <3>1. CacheTyped
      BY <2>2, CacheStep DEF Next, UpdateAndInvalidate
    <3>2. /\ row' \in [Keys -> Nat]
          /\ row'[k] = row[k] + 1
          /\ \A j \in Keys : row[j] <= row'[j]
      BY <2>2 DEF Update
    <3>3. \A v \in Writers : writer'[v] = IF v = w
              THEN [pc |-> IF style = "sweep" THEN "list" ELSE "delete", style |-> style,
                    key |-> k, version |-> row[k] + 1, todo |-> {}]
              ELSE writer[v]
      BY <2>2 DEF Update
    <3>4. writer' \in [Writers -> [pc: {"idle", "delete", "unindex", "list", "sweep", "bump"},
                                   style: Styles, key: Keys \cup {None}, version: Nat,
                                   todo: SUBSET Keys]]
      BY <2>2 DEF Update
    <3>5. NotAhead'
      BY <2>2, <3>2, <3>3 DEF Update
    <3>6. QED
      BY <2>2, <3>1, <3>2, <3>3, <3>4, <3>5 DEF Update, CacheTyped
  <2>3. ASSUME NEW w \in Writers, Bump(w)
        PROVE  IInv'
    <3>1. CacheTyped
      BY <2>3, CacheStep DEF Next, UpdateAndInvalidate
    <3>2. writer[w].key \in Keys /\ writer[w].version <= row[writer[w].key]
      BY <2>3 DEF Bump
    <3>3. /\ invalidated' \in [Keys -> Nat]
          /\ \A k \in Keys : invalidated'[k] <= row[k]
      BY <2>3, <3>2 DEF Bump, Invalidated
    <3>4. /\ writer' \in [Writers -> [pc: {"idle", "delete", "unindex", "list", "sweep", "bump"},
                                      style: Styles, key: Keys \cup {None}, version: Nat,
                                      todo: SUBSET Keys]]
          /\ \A v \in Writers : v # w => writer'[v] = writer[v]
          /\ writer'[w].pc = "idle"
      BY <2>3 DEF Bump, IdleWriter, Styles
    <3>5. \A r \in Readers : reader[r].gen # generation'
      BY <2>3 DEF Bump
    <3>6. QED
      BY <2>3, <3>1, <3>3, <3>4, <3>5 DEF Bump, CacheTyped
  <2>4. ASSUME NEW w \in Writers, WriterStep(w), CacheTyped, saw \subseteq saw'
        PROVE  IInv'
    <3>1. PICK x \in [pc: {"idle", "delete", "unindex", "list", "sweep", "bump"},
                      style: Styles,
                      key: Keys \cup {None},
                      version: Nat,
                      todo: SUBSET Keys] :
             /\ writer' = [writer EXCEPT ![w] = x]
             /\ x.pc # "idle" => x.key = writer[w].key /\ x.version = writer[w].version
             /\ x.pc # "idle" => writer[w].pc # "idle"
      BY <2>4 DEF WriterStep
    <3>2. \A v \in Writers : writer'[v] = IF v = w THEN x ELSE writer[v]
      BY <3>1
    <3>3. QED
      BY <2>4, <3>1, <3>2 DEF WriterStep, CacheTyped
  <2>5. ASSUME UNCHANGED <<row, generation, reader, writer, invalidated>>, CacheTyped,
               saw \subseteq saw'
        PROVE  IInv'
    BY <2>5 DEF CacheTyped
  <2>6. CASE UNCHANGED vars
    BY <2>6 DEF vars
  <2>7. CASE Next
    <3>1. CacheTyped /\ saw \subseteq saw'
      BY <2>7, CacheStep, SawGrows
    <3>2. ASSUME NEW w \in Writers, UpdateAndInvalidate(w)
          PROVE  IInv'
      BY <2>2, <2>3, <2>4, <3>1, <3>2, InvalidationsStep DEF UpdateAndInvalidate
    <3>3. QED
      BY <2>1, <2>5, <2>7, <3>1, <3>2 DEF Next, EntryExpires, IndexExpires
  <2>8. QED
    BY <2>6, <2>7
<1>3. QED
  BY <1>1, <1>2, PTL DEF Spec

(***************************************************************************)
(* The rows, the entries, the calls in progress are well typed.            *)
(***************************************************************************)
THEOREM TaggedCacheTypeCorrect == Spec => []TypeOK
<1>1. IInv => TypeOK
  BY DEF IInv
<1>2. QED
  BY <1>1, TaggedCacheInvariant, PTL

(***************************************************************************)
(* What a reader has loaded under a snapshot that still stands is not      *)
(* older than any invalidation that has returned, as long as no load was   *)
(* answered by a replica behind one.                                       *)
(***************************************************************************)
THEOREM StaleWritesAreRefused == Spec => []StaleWriteRefused
<1>1. IInv => StaleWriteRefused
  BY DEF IInv
<1>2. QED
  BY <1>1, TaggedCacheInvariant, PTL

-----------------------------------------------------------------------------
(***************************************************************************)
(* Freshness.  As long as none of the named circumstances has occurred:    *)
(* once an invalidation has dropped its key the entry is gone until the    *)
(* bump; who has compared may still store, but not while an invalidation   *)
(* of the key is between its drop and its bump; and what will be stored    *)
(* is as new as what was invalidated.                                      *)
(***************************************************************************)
Dropped(w) ==
    LET k == writer[w].key
    IN  /\ writer[w].pc \in {"unindex", "bump"} => entry[k] = None
        /\ writer[w].pc = "sweep" => entry[k] = None \/ k \in writer[w].todo

Storable(r) ==
    reader[r].pc = "compared" =>
        /\ reader[r].value >= invalidated[reader[r].key]
        /\ \A w \in Writers : ~Dropping(w, reader[r].key)

Undisturbed ==
    saw = {} => /\ \A w \in Writers : Dropped(w)
                /\ \A r \in Readers : Storable(r)
                /\ \A k \in Keys : entry[k] # None => entry[k] >= invalidated[k]

(***************************************************************************)
(* Entries that only disappear disturb nothing.                            *)
(***************************************************************************)
LEMMA EntriesVanish ==
    ASSUME IInv, Undisturbed, saw = {}, UNCHANGED <<reader, writer, invalidated>>,
           \A k \in Keys : entry'[k] \in {entry[k], None}
    PROVE  Undisturbed'
BY DEF IInv, TypeOK, Undisturbed, Dropped, Storable, Dropping

(***************************************************************************)
(* A step of getOrSet.  Compare permits a write only where no invalidation *)
(* of the key has dropped it and not bumped (or it records the window),    *)
(* and what it permits is new by StaleWriteRefused.                        *)
(***************************************************************************)
LEMMA ReadersUndisturbed ==
    ASSUME IInv, Undisturbed, saw = {}, saw' = {}, NEW r \in Readers, GetOrSet(r)
    PROVE  Undisturbed'
<1> USE DEF IInv, TypeOK, Undisturbed, Storable, Dropped, Dropping
<1>1. ASSUME UNCHANGED <<entry, writer, invalidated>>, reader'[r].pc # "compared"
      PROVE  Undisturbed'
  <2>1. ReaderStep(r)
    BY ReadersStep
  <2> QED BY <1>1, <2>1 DEF ReaderStep
<1>2. CASE Compare(r)
  <2>1. CASE tagGenerationsChanged(r)
    BY <1>1, <1>2, <2>1 DEF Compare, Refused, IdleReader
  <2>2. CASE ~tagGenerationsChanged(r)
    <3>1. Permitted(r) /\ UNCHANGED <<entry, writer, invalidated>> /\ reader[r].pc = "loaded"
      BY <1>2, <2>2 DEF Compare
    <3>2. /\ reader'[r].key = reader[r].key /\ reader'[r].value = reader[r].value
          /\ \A q \in Readers : q # r => reader'[q] = reader[q]
      BY <3>1 DEF Permitted
    <3>3. reader[r].gen # None /\ \A w \in Writers : ~Dropping(w, reader[r].key)
      BY <3>1 DEF Permitted
    <3>4. reader[r].value >= invalidated[reader[r].key]
      BY <2>2, <3>1, <3>3 DEF tagGenerationsChanged, StaleWriteRefused
    <3> QED BY <3>1, <3>2, <3>3, <3>4
  <2> QED BY <2>1, <2>2
<1>3. CASE Store(r)
  <2>1. /\ reader[r].pc = "compared" /\ reader[r].key \in Keys
        /\ entry' = [entry EXCEPT ![reader[r].key] = reader[r].value]
        /\ UNCHANGED <<writer, invalidated>>
    BY <1>3 DEF Store
  <2>2. /\ reader'[r].pc = "stored"
        /\ \A q \in Readers : q # r => reader'[q] = reader[q]
    BY <1>3 DEF Store
  <2>3. /\ reader[r].value >= invalidated[reader[r].key]
        /\ \A w \in Writers : ~Dropping(w, reader[r].key)
    BY <2>1
  <2>4. \A w \in Writers : Dropped(w)'
    BY <2>1, <2>3
  <2>5. \A q \in Readers : Storable(q)'
    BY <2>1, <2>2
  <2> QED BY <2>1, <2>3, <2>4, <2>5
<1> QED
  BY <1>1, <1>2, <1>3
  DEF GetOrSet, Miss, Snapshot, SnapshotUnavailable, Load, IndexKey, ReaderFails, IdleReader

(***************************************************************************)
(* A step of an update or an invalidation.  A drop that meets a reader who *)
(* has compared, or an entry the index does not know, is recorded; the     *)
(* bump finds no entry of the key and nobody about to store one.           *)
(***************************************************************************)
LEMMA WritersUndisturbed ==
    ASSUME IInv, Undisturbed, saw = {}, saw' = {}, NEW w \in Writers, UpdateAndInvalidate(w)
    PROVE  Undisturbed'
<1> USE DEF IInv, TypeOK, Undisturbed, Storable, Dropped, Dropping
<1>1. ASSUME NEW k \in Keys, NEW style \in Styles, Update(w, k, style)
      PROVE  Undisturbed'
  <2>1. /\ writer'[w].pc \in {"list", "delete"}
        /\ \A v \in Writers : v # w => writer'[v] = writer[v]
        /\ UNCHANGED <<entry, reader, invalidated>>
    BY <1>1 DEF Update
  <2> QED BY <2>1
<1>2. CASE DeleteKey(w)
  <2>1. /\ writer[w].pc = "delete" /\ writer[w].key \in Keys
        /\ entry' = [entry EXCEPT ![writer[w].key] = None]
        /\ UNCHANGED <<reader, invalidated>>
        /\ ~Compared(writer[w].key)
    BY <1>2 DEF DeleteKey
  <2>2. /\ writer'[w].pc \in {"unindex", "list"} /\ writer'[w].key = writer[w].key
        /\ \A v \in Writers : v # w => writer'[v] = writer[v]
    BY <1>2 DEF DeleteKey, Goto
  <2>3. \A v \in Writers : Dropped(v)'
    BY <2>1, <2>2
  <2>4. \A r \in Readers : Storable(r)'
    BY <2>1, <2>2 DEF Compared
  <2> QED BY <2>1, <2>3, <2>4
<1>3. CASE UnindexKey(w)
  <2>1. /\ writer[w].pc = "unindex" /\ writer'[w].pc = "bump" /\ writer'[w].key = writer[w].key
        /\ \A v \in Writers : v # w => writer'[v] = writer[v]
        /\ UNCHANGED <<entry, reader, invalidated>>
    BY <1>3 DEF UnindexKey, Goto
  <2> QED BY <2>1
<1>4. CASE ListIndex(w)
  <2>1. /\ writer[w].pc = "list" /\ writer[w].key \in Keys
        /\ UNCHANGED <<entry, reader, invalidated>>
        /\ ~Compared(writer[w].key)
        /\ entry[writer[w].key] = None \/ writer[w].key \in index
    BY <1>4 DEF ListIndex
  <2>2. /\ writer'[w].pc = "sweep" /\ writer'[w].key = writer[w].key /\ writer'[w].todo = index
        /\ \A v \in Writers : v # w => writer'[v] = writer[v]
    BY <1>4 DEF ListIndex, Goto
  <2>3. \A v \in Writers : Dropped(v)'
    BY <2>1, <2>2
  <2>4. \A r \in Readers : Storable(r)'
    BY <2>1, <2>2 DEF Compared
  <2> QED BY <2>1, <2>3, <2>4
<1>5. ASSUME NEW k \in Keys, SweepKey(w, k)
      PROVE  Undisturbed'
  <2>1. /\ writer[w].pc = "sweep" /\ writer[w].key \in Keys
        /\ entry' = [entry EXCEPT ![k] = None]
        /\ UNCHANGED <<reader, invalidated>>
    BY <1>5 DEF SweepKey
  <2>2. /\ writer'[w].pc = "sweep" /\ writer'[w].key = writer[w].key
        /\ writer'[w].todo = writer[w].todo \ {k}
        /\ \A v \in Writers : v # w => writer'[v] = writer[v]
    BY <1>5 DEF SweepKey, Goto
  <2>3. \A v \in Writers : Dropped(v)'
    BY <2>1, <2>2
  <2>4. \A r \in Readers : Storable(r)'
    BY <2>1, <2>2
  <2> QED BY <2>1, <2>3, <2>4
<1>6. CASE DropIndex(w)
  <2>1. /\ writer[w].pc = "sweep" /\ writer[w].todo = {}
        /\ UNCHANGED <<entry, reader, invalidated>>
    BY <1>6 DEF DropIndex
  <2>2. /\ writer'[w].pc = "bump" /\ writer'[w].key = writer[w].key
        /\ \A v \in Writers : v # w => writer'[v] = writer[v]
    BY <1>6 DEF DropIndex, Goto
  <2>3. \A v \in Writers : Dropped(v)'
    BY <2>1, <2>2
  <2>4. \A r \in Readers : Storable(r)'
    BY <2>1, <2>2
  <2> QED BY <2>1, <2>3, <2>4
<1>7. CASE Bump(w)
  <2>1. /\ writer[w].pc = "bump" /\ writer[w].key \in Keys
        /\ writer'[w].pc = "idle"
        /\ \A v \in Writers : v # w => writer'[v] = writer[v]
        /\ UNCHANGED <<entry, reader>>
    BY <1>7 DEF Bump, IdleWriter
  <2>2. \A k \in Keys : k # writer[w].key => invalidated'[k] = invalidated[k]
    BY <1>7 DEF Bump, Invalidated
  <2>3. /\ entry[writer[w].key] = None
        /\ \A r \in Readers : reader[r].pc = "compared" => reader[r].key # writer[w].key
    BY <2>1
  <2>4. \A v \in Writers : Dropped(v)'
    BY <2>1
  <2>5. \A r \in Readers : Storable(r)'
    BY <2>1, <2>2, <2>3
  <2> QED BY <2>1, <2>2, <2>3, <2>4, <2>5
<1>8. CASE WriterFails(w)
  <2>1. /\ writer'[w].pc = "idle"
        /\ \A v \in Writers : v # w => writer'[v] = writer[v]
        /\ UNCHANGED <<entry, reader, invalidated>>
    BY <1>8 DEF WriterFails, IdleWriter
  <2> QED BY <2>1
<1> QED
  BY <1>1, <1>2, <1>3, <1>4, <1>5, <1>6, <1>7, <1>8 DEF UpdateAndInvalidate

(***************************************************************************)
(* The cache is behind the database only through one of the three named    *)
(* windows or a replica that was behind an invalidation                    *)
(* (FreshOutsideTheWindow), whatever keys, readers and writers there are:  *)
(* entries expire, calls fail, replicas answer with older rows and         *)
(* invalidations of the three styles interleave in every other way.        *)
(***************************************************************************)
THEOREM OnlyTheWindowsAreStale == Spec => []FreshOutsideTheWindow
<1>1. Init => Undisturbed
  BY DEF Init, Undisturbed, Dropped, Storable, IdleReader, IdleWriter
<1>2. IInv /\ Undisturbed /\ [Next]_vars => Undisturbed'
  <2> SUFFICES ASSUME IInv, Undisturbed, [Next]_vars, saw' = {}
               PROVE  Undisturbed'
    BY DEF Undisturbed
  <2>1. saw = {}
    BY SawGrows
  <2>2. ASSUME NEW k \in Keys, EntryExpires(k)
        PROVE  Undisturbed'
    BY <2>1, <2>2, EntriesVanish DEF EntryExpires, IInv, TypeOK
  <2>3. CASE IndexExpires \/ UNCHANGED vars
    BY <2>1, <2>3, EntriesVanish DEF IndexExpires, vars
  <2> QED
    BY <2>1, <2>2, <2>3, ReadersUndisturbed, WritersUndisturbed DEF Next
<1>3. Undisturbed => FreshOutsideTheWindow
  BY DEF Undisturbed, FreshOutsideTheWindow
<1> QED
  BY <1>1, <1>2, <1>3, TaggedCacheInvariant, PTL DEF Spec
=============================================================================
