--------------------------- MODULE FileLockProofs ---------------------------
(***************************************************************************)
(* The lock manager is correct for any number of callers and paths, until  *)
(* a reader goes on with an entry that was freed under it: theorems about  *)
(* Spec of FileLock.tla.                                                   *)
(*                                                                         *)
(* The counters of an entry say nothing about who holds the lock, so       *)
(* exclusion is not inductive by itself.  Sound ties every counter to the  *)
(* set of callers it counts, the presence of an entry to the counters, and *)
(* says whose entry may be gone.                                           *)
(***************************************************************************)
EXTENDS FileLock, FiniteSetTheorems, TLAPS

\* A reader that waits on p has its entry, or it was freed under it.
ReadersKnown == \A c \in Callers :
    pc[c] \in {"asleepS", "awakeS"} /\ entry[path[c]] = NoEntry => c \in dangling

\* The entry of p counts the callers, and is there as long as it counts any.
EntryExact(p) ==
    /\ GetOrCreate(p).readers = Cardinality(Sharers(p))
    /\ GetOrCreate(p).writers = Cardinality(Writers(p))
    /\ GetOrCreate(p).waiting_writers = Cardinality(WaitingWriters(p))
    /\ GetOrCreate(p).writers <= 1
    /\ GetOrCreate(p).writers > 0 => GetOrCreate(p).readers = 0
    /\ entry[p] = NoEntry <=> Unused(GetOrCreate(p))

\* What every operation finds and leaves, as long as no freed entry was used.
Sound ==
    /\ TypeOK
    /\ ~ astray
    /\ \A c \in dangling : pc[c] = "awakeS"
    /\ ReadersKnown
    /\ \A p \in Paths : EntryExact(p)

\* The inductive invariant of Spec.
IInv == TypeOK /\ (astray \/ Sound)

-----------------------------------------------------------------------------
(* Counting                                                                *)

\* Sets of callers are finite, and empty when they count 0.
LEMMA CallerSets ==
    ASSUME NEW S \in SUBSET Callers
    PROVE  /\ IsFiniteSet(S)
           /\ Cardinality(S) \in Nat
           /\ Cardinality(S) = 0 <=> S = {}
  BY CallersFinite, FS_Subset, FS_CardinalityType, FS_EmptySet

\* When only c may join or leave a finite set, its size moves with c.
LEMMA CountMoves ==
    ASSUME NEW S, NEW T, IsFiniteSet(S), IsFiniteSet(T), NEW c, S \ {c} = T \ {c}
    PROVE  Cardinality(T) = Cardinality(S) - (IF c \in S THEN 1 ELSE 0)
                                           + (IF c \in T THEN 1 ELSE 0)
<1>1. Cardinality(S) \in Nat /\ Cardinality(T) \in Nat
  BY FS_CardinalityType
<1>2. Cardinality(S \ {c}) = IF c \in S THEN Cardinality(S) - 1 ELSE Cardinality(S)
  BY FS_RemoveElement
<1>3. Cardinality(T \ {c}) = IF c \in T THEN Cardinality(T) - 1 ELSE Cardinality(T)
  BY FS_RemoveElement
<1>4. Cardinality(S \ {c}) = Cardinality(T \ {c})
  OBVIOUS
<1> QED
  BY <1>1, <1>2, <1>3, <1>4

\* A step in which everybody but c stays where it was, or is woken.
Bystanders(c) ==
    \A d \in Callers \ {c} :
        /\ path'[d] = path[d]
        /\ \/ pc'[d] = pc[d]
           \/ pc[d] = "asleepX" /\ pc'[d] = "awakeX"
           \/ pc[d] = "asleepS" /\ pc'[d] = "awakeS"

\* In such a step the three counts of a path move with c alone.
LEMMA CountsMove ==
    ASSUME NEW c \in Callers, NEW q \in Paths, Bystanders(c)
    PROVE  /\ Cardinality(Sharers(q)') = Cardinality(Sharers(q))
                  - (IF c \in Sharers(q) THEN 1 ELSE 0) + (IF c \in Sharers(q)' THEN 1 ELSE 0)
           /\ Cardinality(Writers(q)') = Cardinality(Writers(q))
                  - (IF c \in Writers(q) THEN 1 ELSE 0) + (IF c \in Writers(q)' THEN 1 ELSE 0)
           /\ Cardinality(WaitingWriters(q)') = Cardinality(WaitingWriters(q))
                  - (IF c \in WaitingWriters(q) THEN 1 ELSE 0)
                  + (IF c \in WaitingWriters(q)' THEN 1 ELSE 0)
<1>1. Sharers(q) \ {c} = Sharers(q)' \ {c}
  BY DEF Bystanders, Sharers
<1>2. Writers(q) \ {c} = Writers(q)' \ {c}
  BY DEF Bystanders, Writers
<1>3. WaitingWriters(q) \ {c} = WaitingWriters(q)' \ {c}
  BY DEF Bystanders, WaitingWriters
<1>4. /\ Sharers(q) \in SUBSET Callers /\ Sharers(q)' \in SUBSET Callers
      /\ Writers(q) \in SUBSET Callers /\ Writers(q)' \in SUBSET Callers
      /\ WaitingWriters(q) \in SUBSET Callers /\ WaitingWriters(q)' \in SUBSET Callers
  BY DEF Sharers, Writers, WaitingWriters
<1>5. Cardinality(Sharers(q)') = Cardinality(Sharers(q))
          - (IF c \in Sharers(q) THEN 1 ELSE 0) + (IF c \in Sharers(q)' THEN 1 ELSE 0)
  BY <1>1, <1>4, CallerSets, CountMoves
<1>6. Cardinality(Writers(q)') = Cardinality(Writers(q))
          - (IF c \in Writers(q) THEN 1 ELSE 0) + (IF c \in Writers(q)' THEN 1 ELSE 0)
  BY <1>2, <1>4, CallerSets, CountMoves
<1>7. Cardinality(WaitingWriters(q)') = Cardinality(WaitingWriters(q))
          - (IF c \in WaitingWriters(q) THEN 1 ELSE 0)
          + (IF c \in WaitingWriters(q)' THEN 1 ELSE 0)
  BY <1>3, <1>4, CallerSets, CountMoves
<1> QED
  BY <1>5, <1>6, <1>7

-----------------------------------------------------------------------------
(* The inductive step, one lemma per action                                *)

\* The entry in the table, or the one file_lock_get_or_create would make.
LEMMA EntryType ==
    ASSUME TypeOK, NEW p \in Paths
    PROVE  /\ GetOrCreate(p) \in Entry
           /\ entry[p] # NoEntry => entry[p] \in Entry
           /\ NoEntry \notin Entry
  BY NoEntryIsNoEntry DEF TypeOK, GetOrCreate, NewEntry, Entry

\* Where c is says which of the sets it belongs to.
LEMMA Membership ==
    ASSUME NEW c \in Callers, NEW q \in Paths
    PROVE  /\ c \in Sharers(q) <=> pc[c] = "shared" /\ path[c] = q
           /\ c \in Writers(q) <=> pc[c] = "exclusive" /\ path[c] = q
           /\ c \in WaitingWriters(q) <=> pc[c] \in {"asleepX", "awakeX"} /\ path[c] = q
           /\ c \in Sharers(q)' <=> pc'[c] = "shared" /\ path'[c] = q
           /\ c \in Writers(q)' <=> pc'[c] = "exclusive" /\ path'[c] = q
           /\ c \in WaitingWriters(q)' <=> pc'[c] \in {"asleepX", "awakeX"} /\ path'[c] = q
  BY DEF Sharers, Writers, WaitingWriters

\* The counts that IInv speaks of are natural numbers.
LEMMA CountsNat ==
    ASSUME NEW q \in Paths
    PROVE  /\ Cardinality(Sharers(q)) \in Nat
           /\ Cardinality(Writers(q)) \in Nat
           /\ Cardinality(WaitingWriters(q)) \in Nat
  BY CallerSets DEF Sharers, Writers, WaitingWriters

\* 1 when the caller is counted, 0 otherwise.
One(counted) == IF counted THEN 1 ELSE 0

\* Every operation is of this form: one caller moves, others at most wake up,
\* and the entry of its path becomes e, or is removed when e counts nobody.
\* When e follows the move of the caller, Sound is preserved.  Who loses its
\* entry is a reader that is woken.
LEMMA OneMoves ==
    ASSUME Sound, NEW c \in Callers, NEW p \in Paths, NEW e \in Entry,
           Bystanders(c),
           pc' \in [Callers -> Places],
           path' \in [Callers -> Paths],
           astray' = astray,
           c \notin dangling,
           dangling' \in SUBSET Callers,
           \A d \in dangling : d \in dangling',
           \A d \in dangling' \ dangling : pc'[d] = "awakeS",
           Unused(e) => \A d \in Callers :
              pc'[d] \in {"asleepS", "awakeS"} /\ path'[d] = p => d \in dangling',
           pc[c] = "idle" \/ path[c] = p,
           path'[c] = p,
           entry' = [entry EXCEPT ![p] = IF Unused(e) THEN NoEntry ELSE e],
           e.readers = GetOrCreate(p).readers - One(pc[c] = "shared") + One(pc'[c] = "shared"),
           e.writers = GetOrCreate(p).writers - One(pc[c] = "exclusive")
                                              + One(pc'[c] = "exclusive"),
           e.waiting_writers = GetOrCreate(p).waiting_writers
                                 - One(pc[c] \in {"asleepX", "awakeX"})
                                 + One(pc'[c] \in {"asleepX", "awakeX"}),
           e.writers <= 1,
           e.writers > 0 => e.readers = 0
    PROVE  Sound'
<1> USE DEF Sound
<1>1. TypeOK'
  BY DEF TypeOK
<1>2. ReadersKnown'
  <2> SUFFICES ASSUME NEW d \in Callers, pc'[d] \in {"asleepS", "awakeS"},
                      entry'[path'[d]] = NoEntry
               PROVE  d \in dangling'
    BY DEF ReadersKnown
  <2>1. CASE path'[d] = p
    <3>1. Unused(e)
      BY <2>1, EntryType DEF TypeOK
    <3> QED
      BY <2>1, <3>1
  <2>2. CASE path'[d] # p
    <3>1. /\ d # c /\ path'[d] = path[d] /\ path[d] \in Paths
          /\ pc[d] \in {"asleepS", "awakeS"}
      BY <2>2 DEF Bystanders, TypeOK
    <3>2. entry[path[d]] = NoEntry
      BY <2>2, <3>1 DEF TypeOK
    <3> QED
      BY <3>1, <3>2 DEF ReadersKnown
  <2> QED
    BY <2>1, <2>2
<1>3. ~ astray' /\ \A d \in dangling' : pc'[d] = "awakeS"
  BY DEF Bystanders, TypeOK
<1>4. ASSUME NEW q \in Paths PROVE EntryExact(q)'
  <2>1. EntryExact(q)
    OBVIOUS
  <2>2. CASE q # p
    <3>1. GetOrCreate(q)' = GetOrCreate(q) /\ entry'[q] = entry[q]
      BY <2>2 DEF TypeOK, GetOrCreate
    <3> QED
      BY <2>1, <2>2, <3>1, CountsMove, Membership, CountsNat DEF EntryExact, Unused
  <2>3. CASE q = p
    <3>1. CASE Unused(e)
      <4>1. entry'[q] = NoEntry
        BY <2>3, <3>1 DEF TypeOK
      <4>2. GetOrCreate(q)' = e
        BY <3>1, <4>1 DEF GetOrCreate, NewEntry, Unused, Entry
      <4> QED
        BY <2>1, <2>3, <3>1, <4>1, <4>2, CountsMove, Membership, CountsNat
           DEF EntryExact, One
    <3>2. CASE ~ Unused(e)
      <4>1. entry'[q] = e
        BY <2>3, <3>2 DEF TypeOK
      <4>2. GetOrCreate(q)' = e /\ entry'[q] # NoEntry
        BY <4>1, EntryType DEF GetOrCreate
      <4> QED
        BY <2>1, <2>3, <3>2, <4>2, CountsMove, Membership, CountsNat DEF EntryExact, One
    <3> QED
      BY <3>1, <3>2
  <2> QED
    BY <2>2, <2>3
<1> QED
  BY <1>1, <1>2, <1>3, <1>4

\* Such an operation that frees no entry.
LEMMA CallerStep ==
    ASSUME Sound, NEW c \in Callers, NEW p \in Paths, NEW e \in Entry,
           Bystanders(c),
           pc' \in [Callers -> Places],
           path' \in [Callers -> Paths],
           UNCHANGED <<dangling, astray>>,
           pc[c] # "awakeS" \/ c \notin dangling,
           pc[c] = "idle" \/ path[c] = p,
           path'[c] = p,
           ~ Unused(e),
           Put(p, e),
           e.readers = GetOrCreate(p).readers - One(pc[c] = "shared") + One(pc'[c] = "shared"),
           e.writers = GetOrCreate(p).writers - One(pc[c] = "exclusive")
                                              + One(pc'[c] = "exclusive"),
           e.waiting_writers = GetOrCreate(p).waiting_writers
                                 - One(pc[c] \in {"asleepX", "awakeX"})
                                 + One(pc'[c] \in {"asleepX", "awakeX"}),
           e.writers <= 1,
           e.writers > 0 => e.readers = 0
    PROVE  Sound'
<1>1. entry' = [entry EXCEPT ![p] = IF Unused(e) THEN NoEntry ELSE e]
  BY DEF Put
<1>2. c \notin dangling /\ dangling' \in SUBSET Callers
  BY DEF Sound, TypeOK
<1>3. astray' = astray /\ dangling' = dangling
  OBVIOUS
<1> QED
  BY <1>1, <1>2, <1>3, OneMoves

\* A move of c alone.
LEMMA Alone ==
    ASSUME Sound, NEW c \in Callers, NEW p \in Paths, path' = [path EXCEPT ![c] = p],
           NEW where \in Places, Goto(c, where)
    PROVE  /\ Bystanders(c)
           /\ pc' \in [Callers -> Places] /\ path' \in [Callers -> Paths]
           /\ pc'[c] = where /\ path'[c] = p
  BY DEF Sound, TypeOK, Bystanders, Goto

\* What the counters of an entry may be, before and after.
LEMMA EntryFacts ==
    ASSUME Sound, NEW p \in Paths
    PROVE  /\ GetOrCreate(p) \in Entry
           /\ GetOrCreate(p).writers <= 1
           /\ GetOrCreate(p).writers > 0 => GetOrCreate(p).readers = 0
           /\ entry[p] = NoEntry <=> Unused(GetOrCreate(p))
           /\ entry[p] # NoEntry => GetOrCreate(p) = entry[p]
  BY EntryType DEF Sound, EntryExact, GetOrCreate

\* A move that changes nothing in the entry, as no counter mentions c.
LEMMA UncountedStep ==
    ASSUME Sound, NEW c \in Callers, NEW p \in Paths, path' = [path EXCEPT ![c] = p],
           pc[c] = "idle" \/ path[c] = p,
           pc[c] \in {"idle", "asleepS", "awakeS"}, pc[c] # "awakeS" \/ c \notin dangling,
           NEW where \in {"idle", "asleepS", "awakeS"}, Goto(c, where),
           ~ Unused(GetOrCreate(p)), Put(p, GetOrCreate(p)),
           UNCHANGED <<dangling, astray>>
    PROVE  Sound'
<1> DEFINE e == GetOrCreate(p)
<1>1. e \in Entry /\ e.writers <= 1 /\ (e.writers > 0 => e.readers = 0)
  BY EntryFacts
<1>2. /\ Bystanders(c) /\ pc' \in [Callers -> Places] /\ path' \in [Callers -> Paths]
      /\ pc'[c] = where /\ path'[c] = p
  BY Alone DEF Places
<1>3. /\ e.readers = e.readers - One(pc[c] = "shared") + One(pc'[c] = "shared")
      /\ e.writers = e.writers - One(pc[c] = "exclusive") + One(pc'[c] = "exclusive")
      /\ e.waiting_writers = e.waiting_writers - One(pc[c] \in {"asleepX", "awakeX"})
                                               + One(pc'[c] \in {"asleepX", "awakeX"})
  BY <1>1, <1>2 DEF One, Entry
<1> HIDE DEF e
<1> QED
  BY <1>1, <1>2, <1>3, CallerStep DEF e

\* The readers' three operations grant alike.
LEMMA GrantSharedStep ==
    ASSUME Sound, NEW c \in Callers, NEW p \in Paths, path' = [path EXCEPT ![c] = p],
           pc[c] = "idle" \/ (pc[c] = "awakeS" /\ c \notin dangling /\ path[c] = p),
           ~ SharedBusy(GetOrCreate(p)),
           Put(p, [GetOrCreate(p) EXCEPT !.readers = @ + 1]),
           Goto(c, "shared"), UNCHANGED <<dangling, astray>>
    PROVE  Sound'
<1> DEFINE g == GetOrCreate(p)
<1> DEFINE e == [g EXCEPT !.readers = @ + 1]
<1>1. g \in Entry /\ g.writers = 0 /\ g.waiting_writers = 0
  BY EntryFacts DEF SharedBusy, Entry
<1>2. /\ e \in Entry /\ ~ Unused(e)
      /\ e.readers = g.readers + 1 /\ e.writers = 0 /\ e.waiting_writers = 0
  BY <1>1 DEF Entry, Unused
<1>3. /\ Bystanders(c) /\ pc' \in [Callers -> Places] /\ path' \in [Callers -> Paths]
      /\ pc'[c] = "shared" /\ path'[c] = p
  BY Alone DEF Places
<1>4. /\ e.readers = g.readers - One(pc[c] = "shared") + One(pc'[c] = "shared")
      /\ e.writers = g.writers - One(pc[c] = "exclusive") + One(pc'[c] = "exclusive")
      /\ e.waiting_writers = g.waiting_writers - One(pc[c] \in {"asleepX", "awakeX"})
                                               + One(pc'[c] \in {"asleepX", "awakeX"})
  BY <1>1, <1>2, <1>3 DEF One, Entry
<1>5. Put(p, e) /\ e.writers <= 1 /\ (e.writers > 0 => e.readers = 0)
  BY <1>2
<1>6. /\ pc[c] # "awakeS" \/ c \notin dangling
      /\ pc[c] = "idle" \/ path[c] = p
  OBVIOUS
<1> HIDE DEF e, g
<1> QED
  BY <1>2, <1>3, <1>4, <1>5, <1>6, CallerStep DEF g

LEMMA TryAcquireSharedStep ==
    ASSUME Sound, NEW c \in Callers, NEW p \in Paths, TryAcquireShared(c, p)
    PROVE  Sound'
<1>1. pc[c] = "idle" /\ path' = [path EXCEPT ![c] = p] /\ UNCHANGED <<dangling, astray>>
  BY DEF TryAcquireShared, Calls, At
<1>2. CASE SharedBusy(GetOrCreate(p))
  <2>1. ~ Unused(GetOrCreate(p))
    BY <1>2, EntryFacts DEF SharedBusy, Unused, Entry
  <2>2. Put(p, GetOrCreate(p)) /\ Goto(c, "idle")
    BY <1>1, <1>2 DEF TryAcquireShared, Goto, Sound, TypeOK
  <2> QED
    BY <1>1, <2>1, <2>2, UncountedStep
<1>3. CASE ~ SharedBusy(GetOrCreate(p))
  BY <1>1, <1>3, GrantSharedStep DEF TryAcquireShared
<1> QED
  BY <1>2, <1>3

LEMMA AcquireSharedStep ==
    ASSUME Sound, NEW c \in Callers, NEW p \in Paths, AcquireShared(c, p)
    PROVE  Sound'
<1>1. pc[c] = "idle" /\ path' = [path EXCEPT ![c] = p] /\ UNCHANGED <<dangling, astray>>
  BY DEF AcquireShared, Calls, At
<1>2. CASE SharedBusy(GetOrCreate(p))
  <2>1. ~ Unused(GetOrCreate(p))
    BY <1>2, EntryFacts DEF SharedBusy, Unused, Entry
  <2>2. Put(p, GetOrCreate(p)) /\ Goto(c, "asleepS")
    BY <1>2 DEF AcquireShared
  <2> QED
    BY <1>1, <2>1, <2>2, UncountedStep
<1>3. CASE ~ SharedBusy(GetOrCreate(p))
  BY <1>1, <1>3, GrantSharedStep DEF AcquireShared
<1> QED
  BY <1>2, <1>3

\* A waiting reader that still has its entry.
LEMMA ReaderWaits ==
    ASSUME Sound, NEW c \in Callers, pc[c] \in {"asleepS", "awakeS"}, c \notin dangling
    PROVE  /\ path[c] \in Paths /\ path = [path EXCEPT ![c] = path[c]]
           /\ entry[path[c]] = GetOrCreate(path[c])
           /\ ~ Unused(GetOrCreate(path[c]))
<1>1. path[c] \in Paths /\ path = [path EXCEPT ![c] = path[c]]
  BY DEF Sound, TypeOK
<1>2. entry[path[c]] # NoEntry
  BY DEF Sound, ReadersKnown
<1> QED
  BY <1>1, <1>2, EntryFacts

\* A waiting reader that wakes up, or sleeps again.
LEMMA ReaderWaitStep ==
    ASSUME Sound, NEW c \in Callers, pc[c] \in {"asleepS", "awakeS"}, c \notin dangling,
           NEW where \in {"asleepS", "awakeS"}, Goto(c, where),
           UNCHANGED <<entry, path, dangling, astray>>
    PROVE  Sound'
<1> DEFINE p == path[c]
<1>1. /\ p \in Paths /\ path' = [path EXCEPT ![c] = p]
      /\ entry[p] = GetOrCreate(p) /\ ~ Unused(GetOrCreate(p))
  BY ReaderWaits
<1>2. Put(p, GetOrCreate(p))
  BY <1>1 DEF Put, Sound, TypeOK
<1> QED
  BY <1>1, <1>2, UncountedStep

LEMMA RetrySharedStep ==
    ASSUME Sound, NEW c \in Callers, RetryShared(c)
    PROVE  Sound'
<1> DEFINE p == path[c]
<1>1. pc[c] = "awakeS" /\ c \notin dangling /\ UNCHANGED <<path, dangling, astray>>
  BY DEF RetryShared, At
<1>2. p \in Paths /\ path' = [path EXCEPT ![c] = p] /\ entry[p] = GetOrCreate(p)
  BY <1>1, ReaderWaits
<1>3. CASE SharedBusy(GetOrCreate(p))
  BY <1>1, <1>2, <1>3, ReaderWaitStep DEF RetryShared
<1>4. CASE ~ SharedBusy(GetOrCreate(p))
  BY <1>1, <1>2, <1>4, GrantSharedStep DEF RetryShared
<1> QED
  BY <1>3, <1>4

\* file_lock_try_acquire_exclusive and file_lock_acquire_exclusive grant alike.
LEMMA GrantExclusiveStep ==
    ASSUME Sound, NEW c \in Callers, NEW p \in Paths, Calls(c, p),
           ~ ExclusiveBusy(GetOrCreate(p)),
           Put(p, [GetOrCreate(p) EXCEPT !.writers = 1]),
           Goto(c, "exclusive"), UNCHANGED <<dangling, astray>>
    PROVE  Sound'
<1> DEFINE g == GetOrCreate(p)
<1> DEFINE e == [g EXCEPT !.writers = 1]
<1>1. g \in Entry /\ g.writers = 0 /\ g.readers = 0
  BY EntryFacts DEF ExclusiveBusy, Entry
<1>2. /\ e \in Entry /\ ~ Unused(e)
      /\ e.readers = 0 /\ e.writers = 1 /\ e.waiting_writers = g.waiting_writers
  BY <1>1 DEF Entry, Unused
<1>3. Put(p, e)
  OBVIOUS
<1>4. /\ Bystanders(c) /\ pc' \in [Callers -> Places] /\ path' \in [Callers -> Paths]
      /\ pc[c] = "idle" /\ pc'[c] = "exclusive" /\ path'[c] = p
  BY Alone DEF Calls, At, Places
<1>5. /\ e.readers = g.readers - One(pc[c] = "shared") + One(pc'[c] = "shared")
      /\ e.writers = g.writers - One(pc[c] = "exclusive") + One(pc'[c] = "exclusive")
      /\ e.waiting_writers = g.waiting_writers - One(pc[c] \in {"asleepX", "awakeX"})
                                               + One(pc'[c] \in {"asleepX", "awakeX"})
  BY <1>1, <1>2, <1>4 DEF One, Entry
<1>6. e.writers <= 1 /\ (e.writers > 0 => e.readers = 0)
  BY <1>2
<1> HIDE DEF e, g
<1> QED
  BY <1>2, <1>3, <1>4, <1>5, <1>6, CallerStep DEF g

LEMMA TryAcquireExclusiveStep ==
    ASSUME Sound, NEW c \in Callers, NEW p \in Paths, TryAcquireExclusive(c, p)
    PROVE  Sound'
<1>1. CASE ExclusiveBusy(GetOrCreate(p))
  <2>1. ~ Unused(GetOrCreate(p))
    BY <1>1, EntryFacts DEF ExclusiveBusy, Unused, Entry
  <2>2. /\ pc[c] = "idle" /\ path' = [path EXCEPT ![c] = p] /\ UNCHANGED <<dangling, astray>>
        /\ Put(p, GetOrCreate(p)) /\ Goto(c, "idle")
    BY <1>1 DEF TryAcquireExclusive, Calls, At, Goto, Sound, TypeOK
  <2> QED
    BY <2>1, <2>2, UncountedStep
<1>2. CASE ~ ExclusiveBusy(GetOrCreate(p))
  BY <1>2, GrantExclusiveStep DEF TryAcquireExclusive
<1> QED
  BY <1>1, <1>2

LEMMA AcquireExclusiveStep ==
    ASSUME Sound, NEW c \in Callers, NEW p \in Paths, AcquireExclusive(c, p)
    PROVE  Sound'
<1> DEFINE g == GetOrCreate(p)
<1>1. CASE ExclusiveBusy(g)
  <2> DEFINE e == [g EXCEPT !.waiting_writers = @ + 1]
  <2>1. g \in Entry /\ g.writers <= 1 /\ (g.writers > 0 => g.readers = 0)
    BY EntryFacts
  <2>2. /\ e \in Entry /\ ~ Unused(e)
        /\ e.readers = g.readers /\ e.writers = g.writers
        /\ e.waiting_writers = g.waiting_writers + 1
    BY <2>1 DEF Entry, Unused
  <2>3. Calls(c, p) /\ Goto(c, "asleepX") /\ UNCHANGED <<dangling, astray>>
    BY <1>1 DEF AcquireExclusive
  <2>4. Put(p, e)
    BY <1>1 DEF AcquireExclusive
  <2>5. /\ Bystanders(c) /\ pc' \in [Callers -> Places] /\ path' \in [Callers -> Paths]
        /\ pc[c] = "idle" /\ pc'[c] = "asleepX" /\ path'[c] = p
    BY <2>3, Alone DEF Calls, At, Places
  <2>6. /\ e.readers = g.readers - One(pc[c] = "shared") + One(pc'[c] = "shared")
        /\ e.writers = g.writers - One(pc[c] = "exclusive") + One(pc'[c] = "exclusive")
        /\ e.waiting_writers = g.waiting_writers - One(pc[c] \in {"asleepX", "awakeX"})
                                                 + One(pc'[c] \in {"asleepX", "awakeX"})
    BY <2>1, <2>2, <2>5 DEF One, Entry
  <2>7. e.writers <= 1 /\ (e.writers > 0 => e.readers = 0)
    BY <2>1, <2>2
  <2> HIDE DEF e, g
  <2> QED
    BY <2>2, <2>3, <2>4, <2>5, <2>6, <2>7, CallerStep DEF g
<1>2. CASE ~ ExclusiveBusy(g)
  BY <1>2, GrantExclusiveStep DEF AcquireExclusive
<1> QED
  BY <1>1, <1>2

\* Whoever holds or waits on a path is counted in the entry, which is there.
LEMMA Counted ==
    ASSUME Sound, NEW c \in Callers, NEW p \in Paths, path[c] = p
    PROVE  /\ pc[c] = "shared" => GetOrCreate(p).readers > 0
           /\ pc[c] = "exclusive" => GetOrCreate(p).writers > 0
           /\ pc[c] \in {"asleepX", "awakeX"} => GetOrCreate(p).waiting_writers > 0
           /\ pc[c] \in {"shared", "exclusive", "asleepX", "awakeX"}
                 => entry[p] # NoEntry /\ GetOrCreate(p) = entry[p]
<1>1. GetOrCreate(p) \in Entry /\ EntryExact(p)
  BY EntryFacts DEF Sound
<1>2. pc[c] = "shared" => GetOrCreate(p).readers > 0
  BY <1>1, Membership, CallerSets DEF EntryExact, Entry, Sharers
<1>3. pc[c] = "exclusive" => GetOrCreate(p).writers > 0
  BY <1>1, Membership, CallerSets DEF EntryExact, Entry, Writers
<1>4. pc[c] \in {"asleepX", "awakeX"} => GetOrCreate(p).waiting_writers > 0
  BY <1>1, Membership, CallerSets DEF EntryExact, Entry, WaitingWriters
<1> QED
  BY <1>1, <1>2, <1>3, <1>4, EntryFacts DEF Unused, Entry

\* A waiting writer that wakes up, or sleeps again.
LEMMA WaitStep ==
    ASSUME Sound, NEW c \in Callers, pc[c] \in {"asleepX", "awakeX"},
           NEW where \in {"asleepX", "awakeX"}, Goto(c, where),
           UNCHANGED <<entry, path, dangling, astray>>
    PROVE  Sound'
<1> DEFINE p == path[c]
<1> DEFINE e == GetOrCreate(p)
<1>1. p \in Paths
  BY DEF Sound, TypeOK
<1>2. e \in Entry /\ e.writers <= 1 /\ (e.writers > 0 => e.readers = 0)
  BY <1>1, EntryFacts
<1>3. entry[p] = e /\ ~ Unused(e)
  BY <1>1, Counted, EntryFacts
<1>4. Put(p, e)
  BY <1>1, <1>3 DEF Put, Sound, TypeOK
<1>5. /\ Bystanders(c) /\ pc' \in [Callers -> Places] /\ path' \in [Callers -> Paths]
      /\ pc'[c] = where /\ path'[c] = p
  BY DEF Sound, TypeOK, Bystanders, Goto, Places
<1>6. /\ e.readers = e.readers - One(pc[c] = "shared") + One(pc'[c] = "shared")
      /\ e.writers = e.writers - One(pc[c] = "exclusive") + One(pc'[c] = "exclusive")
      /\ e.waiting_writers = e.waiting_writers - One(pc[c] \in {"asleepX", "awakeX"})
                                               + One(pc'[c] \in {"asleepX", "awakeX"})
  BY <1>2, <1>5 DEF One, Entry
<1> HIDE DEF e
<1> QED
  BY <1>1, <1>2, <1>3, <1>4, <1>5, <1>6, CallerStep DEF e

LEMMA RetryExclusiveStep ==
    ASSUME Sound, NEW c \in Callers, RetryExclusive(c)
    PROVE  Sound'
<1> DEFINE p == path[c]
<1> DEFINE g == GetOrCreate(p)
<1>1. p \in Paths /\ pc[c] = "awakeX"
  BY DEF Sound, TypeOK, RetryExclusive, At
<1>2. entry[p] = g /\ g \in Entry /\ g.waiting_writers > 0
  BY <1>1, Counted, EntryFacts
<1>3. CASE ExclusiveBusy(g)
  BY <1>1, <1>2, <1>3, WaitStep DEF RetryExclusive
<1>4. CASE ~ ExclusiveBusy(g)
  <2> DEFINE h == StopsWaiting(g)
  <2> DEFINE e == [h EXCEPT !.writers = 1]
  <2>1. g.writers = 0 /\ g.readers = 0
    BY <1>2, <1>4 DEF ExclusiveBusy, Entry
  <2>2. /\ e \in Entry /\ ~ Unused(e)
        /\ e.readers = 0 /\ e.writers = 1 /\ e.waiting_writers = g.waiting_writers - 1
    <3>1. /\ h \in Entry /\ h.readers = 0
          /\ h.waiting_writers = g.waiting_writers - 1
      BY <1>2, <2>1 DEF Entry, StopsWaiting
    <3> HIDE DEF h
    <3> QED
      BY <3>1 DEF Entry, Unused
  <2>3. Put(p, e) /\ Goto(c, "exclusive") /\ path' = path
    BY <1>2, <1>4 DEF RetryExclusive, StopsWaiting
  <2>4. UNCHANGED <<dangling, astray>>
    BY DEF RetryExclusive
  <2>5. /\ Bystanders(c) /\ pc' \in [Callers -> Places] /\ path' \in [Callers -> Paths]
        /\ pc'[c] = "exclusive" /\ path'[c] = p
    BY <2>3 DEF Sound, TypeOK, Bystanders, Goto, Places
  <2>6. /\ e.readers = g.readers - One(pc[c] = "shared") + One(pc'[c] = "shared")
        /\ e.writers = g.writers - One(pc[c] = "exclusive") + One(pc'[c] = "exclusive")
        /\ e.waiting_writers = g.waiting_writers - One(pc[c] \in {"asleepX", "awakeX"})
                                                 + One(pc'[c] \in {"asleepX", "awakeX"})
    BY <1>1, <1>2, <2>1, <2>2, <2>5 DEF One, Entry
  <2>7. e.writers <= 1 /\ (e.writers > 0 => e.readers = 0)
    BY <2>2
  <2> HIDE DEF e, h, g
  <2> QED
    BY <1>1, <2>2, <2>3, <2>4, <2>5, <2>6, <2>7, CallerStep DEF g
<1> QED
  BY <1>3, <1>4

\* file_lock_release_common, in either mode.
LEMMA ReleaseStep ==
    ASSUME Sound, NEW c \in Callers, Release(c)
    PROVE  Sound'
<1> DEFINE p == path[c]
<1> DEFINE g == GetOrCreate(p)
<1> DEFINE e == Released(entry[p], pc[c] = "exclusive")
<1>1. p \in Paths /\ pc[c] \in {"shared", "exclusive"}
  BY DEF Sound, TypeOK, Release, At
<1>2. /\ entry[p] = g /\ entry[p] # NoEntry
      /\ g \in Entry /\ g.writers <= 1 /\ (g.writers > 0 => g.readers = 0)
  BY <1>1, Counted, EntryFacts
<1>3. /\ e \in Entry
      /\ e.readers = g.readers - One(pc[c] = "shared")
      /\ e.writers = g.writers - One(pc[c] = "exclusive")
      /\ e.waiting_writers = g.waiting_writers
  <2>1. CASE pc[c] = "shared"
    <3>1. g.readers > 0 /\ g.readers - 1 \in Nat
      BY <1>1, <1>2, <2>1, Counted DEF Entry
    <3>2. e = [g EXCEPT !.readers = g.readers - 1]
      BY <1>2, <2>1, <3>1 DEF Released, Entry
    <3> QED
      BY <1>2, <2>1, <3>1, <3>2 DEF One, Entry
  <2>2. CASE pc[c] = "exclusive"
    <3>1. g.writers = 1
      BY <1>1, <1>2, <2>2, Counted DEF Entry
    <3>2. e = [g EXCEPT !.writers = 0]
      BY <1>2, <2>2 DEF Released
    <3> QED
      BY <1>2, <2>2, <3>1, <3>2 DEF One, Entry
  <2> QED
    BY <1>1, <2>1, <2>2
<1>4. e.writers <= 1 /\ (e.writers > 0 => e.readers = 0)
  BY <1>1, <1>2, <1>3 DEF One, Entry
<1>5. BroadcastAndReturn(c, p) /\ path' = path /\ astray' = astray
  BY <1>2 DEF Release
<1>6. /\ Bystanders(c) /\ pc' \in [Callers -> Places] /\ path' \in [Callers -> Paths]
      /\ pc'[c] = "idle" /\ path'[c] = p
  BY <1>5 DEF Sound, TypeOK, BroadcastAndReturn, Bystanders, Places
<1>7. entry' = [entry EXCEPT ![p] = IF Unused(e) THEN NoEntry ELSE e]
  BY <1>2 DEF Release, Put
<1>8. Unused(e) => WaitingWriters(p) = {}
  <2> SUFFICES ASSUME Unused(e) PROVE WaitingWriters(p) = {}
    OBVIOUS
  <2>1. Cardinality(WaitingWriters(p)) = 0
    BY <1>1, <1>3 DEF Sound, EntryExact, Unused
  <2> QED
    BY <2>1, CallerSets DEF WaitingWriters
<1>9. dangling' = IF Unused(e) THEN dangling \cup WaitingReaders(p) ELSE dangling
  BY <1>2, <1>8 DEF Release, Waiters
<1>10. /\ \A d \in WaitingReaders(p) : pc'[d] = "awakeS"
       /\ \A d \in Callers : pc'[d] \in {"asleepS", "awakeS"} /\ path'[d] = p
                              => d \in WaitingReaders(p)
  BY <1>1, <1>5, <1>6 DEF Sound, TypeOK, BroadcastAndReturn, Waiters, WaitingReaders, WaitingWriters
<1>11. /\ c \notin dangling /\ dangling' \in SUBSET Callers
       /\ \A d \in dangling : d \in dangling'
       /\ \A d \in dangling' \ dangling : pc'[d] = "awakeS"
       /\ Unused(e) => \A d \in Callers :
             pc'[d] \in {"asleepS", "awakeS"} /\ path'[d] = p => d \in dangling'
  <2>1. c \notin dangling /\ dangling \in SUBSET Callers /\ WaitingReaders(p) \in SUBSET Callers
    BY <1>1 DEF Sound, TypeOK, WaitingReaders
  <2> HIDE DEF e
  <2> QED
    BY <1>9, <1>10, <2>1
<1>12. /\ e.readers = g.readers - One(pc[c] = "shared") + One(pc'[c] = "shared")
       /\ e.writers = g.writers - One(pc[c] = "exclusive") + One(pc'[c] = "exclusive")
       /\ e.waiting_writers = g.waiting_writers - One(pc[c] \in {"asleepX", "awakeX"})
                                                + One(pc'[c] \in {"asleepX", "awakeX"})
  BY <1>1, <1>2, <1>3, <1>6 DEF One, Entry
<1> HIDE DEF e, g
<1> QED
  BY <1>1, <1>3, <1>4, <1>5, <1>6, <1>7, <1>11, <1>12, OneMoves DEF g

-----------------------------------------------------------------------------
(* The theorems                                                            *)

LEMMA InitIInv == Init => IInv
<1> SUFFICES ASSUME Init PROVE Sound
  BY DEF IInv, Sound
<1>1. TypeOK /\ ~ astray /\ dangling = {}
  BY DEF Init, TypeOK, Places
<1>2. ReadersKnown
  BY DEF Init, ReadersKnown
<1>3. ASSUME NEW p \in Paths PROVE EntryExact(p)
  <2>1. Sharers(p) = {} /\ Writers(p) = {} /\ WaitingWriters(p) = {}
    BY DEF Init, Sharers, Writers, WaitingWriters
  <2>2. entry[p] = NoEntry /\ GetOrCreate(p) = NewEntry
    BY DEF Init, GetOrCreate
  <2> QED
    BY <2>1, <2>2, FS_EmptySet DEF EntryExact, NewEntry, Unused
<1> QED
  BY <1>1, <1>2, <1>3 DEF Sound

\* The one step after which nothing is known of the counters.
LEMMA RetryFreedStep ==
    ASSUME TypeOK, NEW c \in Callers, RetryFreed(c)
    PROVE  TypeOK' /\ astray'
<1>1. /\ astray' = TRUE /\ path' = path /\ dangling' = dangling
      /\ Goto(c, "asleepS") \/ Goto(c, "shared")
  BY DEF RetryFreed
<1>2. entry' \in [Paths -> Entry \cup {NoEntry}]
  <2>1. CASE entry' = entry
    BY <2>1 DEF TypeOK
  <2>2. CASE entry' # entry
    <3>1. PICK q \in Paths : /\ entry[q] # NoEntry
                             /\ Put(q, [entry[q] EXCEPT !.readers = @ + 1])
      BY <2>2 DEF RetryFreed
    <3>2. [entry[q] EXCEPT !.readers = @ + 1] \in Entry
      BY <3>1 DEF TypeOK, Entry
    <3> QED
      BY <3>1, <3>2 DEF Put, TypeOK
  <2> QED
    BY <2>1, <2>2
<1>3. pc' \in [Callers -> Places]
  BY <1>1 DEF TypeOK, Goto, Places
<1> QED
  BY <1>1, <1>2, <1>3 DEF TypeOK

LEMMA NextIInv == IInv /\ [Next]_vars => IInv'
<1> SUFFICES ASSUME IInv, [Next]_vars PROVE TypeOK' /\ (astray' \/ Sound')
  BY DEF IInv
<1>1. CASE UNCHANGED vars
  <2>1. TypeOK' /\ astray' = astray
    BY <1>1 DEF vars, IInv, TypeOK
  <2>2. ASSUME Sound PROVE Sound'
    <3>1. (\A c \in dangling' : pc'[c] = "awakeS") /\ ReadersKnown'
      BY <1>1, <2>2 DEF vars, Sound, ReadersKnown
    <3>2. ASSUME NEW p \in Paths PROVE EntryExact(p)'
      BY <1>1, <2>2 DEF vars, Sound, EntryExact, GetOrCreate, Sharers, Writers, WaitingWriters
    <3> QED
      BY <2>1, <2>2, <3>1, <3>2 DEF Sound
  <2> QED
    BY <2>1, <2>2 DEF IInv
<1>2. CASE Next /\ Sound
  <2>1. ASSUME NEW c \in Callers, NEW p \in Paths,
               \/ TryAcquireShared(c, p) \/ TryAcquireExclusive(c, p)
               \/ AcquireShared(c, p) \/ AcquireExclusive(c, p)
        PROVE  Sound'
    BY <1>2, <2>1, TryAcquireSharedStep, TryAcquireExclusiveStep, AcquireSharedStep,
       AcquireExclusiveStep
  <2>2. ASSUME NEW c \in Callers, RetryShared(c) \/ RetryExclusive(c) \/ Release(c)
        PROVE  Sound'
    BY <1>2, <2>2, RetrySharedStep, RetryExclusiveStep, ReleaseStep
  <2>3. ASSUME NEW c \in Callers, SpuriousWakeup(c, "asleepS", "awakeS") PROVE Sound'
    <3>1. /\ pc[c] = "asleepS" /\ Goto(c, "awakeS")
          /\ UNCHANGED <<entry, path, dangling, astray>>
      BY <2>3 DEF SpuriousWakeup, At
    <3>2. c \notin dangling
      BY <1>2, <3>1 DEF Sound
    <3> QED
      BY <1>2, <3>1, <3>2, ReaderWaitStep
  <2>4. ASSUME NEW c \in Callers, SpuriousWakeup(c, "asleepX", "awakeX") PROVE Sound'
    <3>1. /\ pc[c] = "asleepX" /\ Goto(c, "awakeX")
          /\ UNCHANGED <<entry, path, dangling, astray>>
      BY <2>4 DEF SpuriousWakeup, At
    <3> QED
      BY <1>2, <3>1, WaitStep
  <2>5. ASSUME NEW c \in Callers, RetryFreed(c) PROVE TypeOK' /\ astray'
    BY <1>2, <2>5, RetryFreedStep DEF Sound
  <2> QED
    BY <1>2, <2>1, <2>2, <2>3, <2>4, <2>5 DEF Next, Sound
<1>3. CASE Next /\ astray
  BY <1>3 DEF Next, At, Calls, TryAcquireShared, TryAcquireExclusive, AcquireShared,
              AcquireExclusive, RetryShared, RetryFreed, RetryExclusive, SpuriousWakeup, Release
<1> QED
  BY <1>1, <1>2, <1>3 DEF IInv

\* The counters of filelock.c and its callers agree in every reachable state
\* in which no freed entry has been used, whatever the number of threads and
\* files.
THEOREM Invariance == Spec => []IInv
<1>1. Init => IInv
  BY InitIInv
<1>2. IInv /\ [Next]_vars => IInv'
  BY NextIInv
<1> QED
  BY <1>1, <1>2, PTL DEF Spec

\* Every entry and every caller keeps its type.
THEOREM TypeCorrect == Spec => []TypeOK
<1>1. IInv => TypeOK
  BY DEF IInv
<1> QED
  BY <1>1, Invariance, PTL

LEMMA IInvExclusion == IInv => Exclusion
<1> SUFFICES ASSUME Sound, NEW p \in Paths
             PROVE  /\ Cardinality(Writers(p)) <= 1
                    /\ Writers(p) # {} => Sharers(p) = {}
  BY DEF Exclusion, IInv
<1>1. EntryExact(p)
  BY DEF Sound
<1>2. /\ Cardinality(Writers(p)) \in Nat
      /\ Cardinality(Writers(p)) = 0 <=> Writers(p) = {}
      /\ Cardinality(Sharers(p)) = 0 <=> Sharers(p) = {}
  BY CallerSets DEF Writers, Sharers
<1> QED
  BY <1>1, <1>2 DEF EntryExact

\* No conflicting locks are ever held, by all four acquiring functions of
\* filelock.c, until a reader goes on with an entry that was freed.
THEOREM MutualExclusion == Spec => []Exclusion
  BY IInvExclusion, Invariance, PTL

LEMMA IInvCounters == IInv => CountersExact
<1> SUFFICES ASSUME Sound, NEW p \in Paths
             PROVE  /\ SharedLockCount(p) = Cardinality(Sharers(p))
                    /\ IsExclusiveLocked(p) <=> Writers(p) # {}
                    /\ GetOrCreate(p).waiting_writers = Cardinality(WaitingWriters(p))
  BY DEF CountersExact, IInv
<1>1. EntryExact(p)
  BY DEF Sound
<1>2. /\ Cardinality(Writers(p)) \in Nat
      /\ Cardinality(Writers(p)) = 0 <=> Writers(p) = {}
  BY CallerSets DEF Writers
<1> QED
  BY <1>1, <1>2 DEF EntryExact, SharedLockCount, IsExclusiveLocked, Unused

\* file_lock_is_exclusive_locked and file_lock_get_shared_lock_count tell the
\* truth, again until a freed entry is used.
THEOREM QueriesExact == Spec => []CountersExact
  BY IInvCounters, Invariance, PTL

LEMMA IInvNoLeak == IInv => NoEntryLeak
<1> SUFFICES ASSUME Sound, NEW p \in Paths, entry[p] # NoEntry
             PROVE  Sharers(p) \cup Writers(p) \cup WaitingWriters(p) # {}
  BY DEF NoEntryLeak, IInv
<1>1. EntryExact(p)
  BY DEF Sound
<1> QED
  BY <1>1, FS_EmptySet DEF EntryExact, Unused

\* file_lock_release_common leaves no entry behind that only waiting readers,
\* or nobody, could use.
THEOREM TableBounded == Spec => []NoEntryLeak
  BY IInvNoLeak, Invariance, PTL

\* It frees the entry under readers that it has just woken, and under no
\* holder and no writer.
THEOREM OnlyReadersLoseEntries == Spec => []OnlyWokenReadersDangle
<1>1. IInv => OnlyWokenReadersDangle
  BY DEF IInv, Sound, OnlyWokenReadersDangle
<1> QED
  BY <1>1, Invariance, PTL

\* A step that grants a read lock is one of the three that ask for it.
LEMMA WhoGrantsShared ==
    ASSUME Sound, Next, ~ astray', NEW c \in Callers, pc[c] # "shared", pc'[c] = "shared"
    PROVE  \E p \in Paths : /\ path'[c] = p
                            /\ ~ SharedBusy(GetOrCreate(p))
<1> USE DEF Sound, TypeOK, Goto
<1>1. ASSUME NEW d \in Callers, NEW p \in Paths,
             TryAcquireShared(d, p) \/ AcquireShared(d, p)
      PROVE  path'[c] = p /\ ~ SharedBusy(GetOrCreate(p))
  BY <1>1 DEF TryAcquireShared, AcquireShared, Calls
<1>2. ASSUME NEW d \in Callers, RetryShared(d)
      PROVE  path[c] \in Paths /\ path'[c] = path[c] /\ ~ SharedBusy(GetOrCreate(path[c]))
  <2>1. d = c /\ pc[c] = "awakeS" /\ c \notin dangling /\ path' = path
    BY <1>2 DEF RetryShared, At
  <2>2. ~ SharedBusy(entry[path[c]])
    BY <1>2, <2>1 DEF RetryShared
  <2> QED
    BY <2>1, <2>2, ReaderWaits
<1>3. ASSUME NEW d \in Callers, NEW p \in Paths,
             TryAcquireExclusive(d, p) \/ AcquireExclusive(d, p)
      PROVE  FALSE
  BY <1>3 DEF TryAcquireExclusive, AcquireExclusive
<1>4. ASSUME NEW d \in Callers,
             \/ RetryExclusive(d) \/ SpuriousWakeup(d, "asleepX", "awakeX")
             \/ SpuriousWakeup(d, "asleepS", "awakeS") \/ RetryFreed(d)
      PROVE  FALSE
  BY <1>4 DEF RetryExclusive, SpuriousWakeup, RetryFreed
<1>5. ASSUME NEW d \in Callers, Release(d)
      PROVE  FALSE
  BY <1>5 DEF Release, BroadcastAndReturn
<1> QED
  BY <1>1, <1>2, <1>3, <1>4, <1>5 DEF Next

LEMMA PriorityStep ==
    ASSUME IInv, [Next]_vars, NEW c \in Callers, pc[c] # "shared", pc'[c] = "shared"
    PROVE  WaitingWriters(path'[c]) = {} \/ astray'
<1> SUFFICES ASSUME ~ astray' PROVE WaitingWriters(path'[c]) = {}
  OBVIOUS
<1>1. Next
  BY DEF vars
<1>2. Sound
  BY <1>1 DEF IInv, Next, At, Calls, TryAcquireShared, TryAcquireExclusive, AcquireShared,
              AcquireExclusive, RetryShared, RetryFreed, RetryExclusive, SpuriousWakeup, Release
<1>3. PICK p \in Paths : path'[c] = p /\ ~ SharedBusy(GetOrCreate(p))
  BY <1>1, <1>2, WhoGrantsShared
<1>4. Cardinality(WaitingWriters(p)) = 0
  BY <1>2, <1>3, EntryFacts DEF Sound, EntryExact, SharedBusy, Entry
<1> QED
  BY <1>3, <1>4, CallerSets DEF WaitingWriters

\* "writers have priority over new readers": file_lock_try_acquire_shared and
\* file_lock_acquire_shared.
THEOREM WritersFirst == Spec => WriterPriority
<1>1. IInv /\ [Next]_vars
         => [\A c \in Callers : pc[c] # "shared" /\ pc'[c] = "shared"
                                   => WaitingWriters(path'[c]) = {} \/ astray']_vars
  BY PriorityStep
<1> QED
  BY <1>1, Invariance, PTL DEF Spec, WriterPriority

-----------------------------------------------------------------------------
(* The lock manager implements RWLock                                      *)

\* The holders of a path change by c at most.
LEMMA HoldersMove ==
    ASSUME NEW c \in Callers, NEW q \in Paths, Bystanders(c)
    PROVE  /\ Sharers(q)' = (Sharers(q) \ {c})
                  \cup (IF pc'[c] = "shared" /\ path'[c] = q THEN {c} ELSE {})
           /\ Writers(q)' = (Writers(q) \ {c})
                  \cup (IF pc'[c] = "exclusive" /\ path'[c] = q THEN {c} ELSE {})
  BY DEF Bystanders, Sharers, Writers

\* A free path has no holder.
LEMMA FreeHolders ==
    ASSUME Sound, NEW p \in Paths
    PROVE  /\ GetOrCreate(p).writers = 0 => Writers(p) = {}
           /\ GetOrCreate(p).readers = 0 => Sharers(p) = {}
  BY CallerSets DEF Sound, EntryExact, Writers, Sharers

\* The moves of one caller and their images.
LEMMA StutterImage ==
    ASSUME NEW c \in Callers, Bystanders(c),
           pc[c] \notin {"shared", "exclusive"}, pc'[c] \notin {"shared", "exclusive"}
    PROVE  UNCHANGED Abstract!vars
<1>1. \A q \in Paths : Sharers(q)' = Sharers(q) /\ Writers(q)' = Writers(q)
  BY HoldersMove, Membership
<1> QED
  BY <1>1 DEF Abstract!vars

LEMMA SharedImage ==
    ASSUME Sound, NEW c \in Callers, NEW p \in Paths, Bystanders(c),
           pc[c] \notin {"shared", "exclusive"}, pc'[c] = "shared", path'[c] = p,
           ~ SharedBusy(GetOrCreate(p))
    PROVE  Abstract!GrantShared(c, p)
<1>1. \A q \in Paths : /\ Sharers(q)' = IF q = p THEN Sharers(q) \cup {c} ELSE Sharers(q)
                       /\ Writers(q)' = Writers(q)
  BY HoldersMove, Membership
<1>2. Writers(p) = {}
  BY EntryFacts, FreeHolders DEF SharedBusy, Entry
<1> QED
  BY <1>1, <1>2 DEF Abstract!GrantShared

LEMMA ExclusiveImage ==
    ASSUME Sound, NEW c \in Callers, NEW p \in Paths, Bystanders(c),
           pc[c] \notin {"shared", "exclusive"}, pc'[c] = "exclusive", path'[c] = p,
           ~ ExclusiveBusy(GetOrCreate(p))
    PROVE  Abstract!GrantExclusive(c, p)
<1>1. Writers(p) = {} /\ Sharers(p) = {}
  BY EntryFacts, FreeHolders DEF ExclusiveBusy, Entry
<1>2. \A q \in Paths : /\ Sharers(q)' = Sharers(q)
                       /\ Writers(q)' = IF q = p THEN {c} ELSE Writers(q)
  <2> SUFFICES ASSUME NEW q \in Paths
               PROVE  /\ Sharers(q)' = Sharers(q)
                      /\ Writers(q)' = IF q = p THEN {c} ELSE Writers(q)
    OBVIOUS
  <2>1. c \notin Sharers(q) /\ c \notin Writers(q)
    BY Membership
  <2> QED
    BY <1>1, <2>1, HoldersMove
<1> QED
  BY <1>1, <1>2 DEF Abstract!GrantExclusive

LEMMA ReleaseImage ==
    ASSUME NEW c \in Callers, NEW p \in Paths, Bystanders(c),
           pc[c] \in {"shared", "exclusive"}, path[c] = p, pc'[c] = "idle"
    PROVE  Abstract!GiveBack(c, p)
<1>1. c \in Sharers(p) \cup Writers(p)
  BY Membership
<1>2. \A q \in Paths : /\ Sharers(q)' = IF q = p THEN Sharers(q) \ {c} ELSE Sharers(q)
                       /\ Writers(q)' = IF q = p THEN Writers(q) \ {c} ELSE Writers(q)
  BY DEF Bystanders, Sharers, Writers
<1> QED
  BY <1>1, <1>2 DEF Abstract!GiveBack

\* What a caller's own move looks like from outside.
LEMMA MoveImage ==
    ASSUME Sound, NEW c \in Callers, NEW p \in Paths, Bystanders(c),
           path'[c] = p, pc[c] \notin {"shared", "exclusive"},
           pc'[c] = "shared" => ~ SharedBusy(GetOrCreate(p)),
           pc'[c] = "exclusive" => ~ ExclusiveBusy(GetOrCreate(p))
    PROVE  [Abstract!Next]_(Abstract!vars)
<1>1. CASE pc'[c] = "shared"
  BY <1>1, SharedImage DEF Abstract!Next
<1>2. CASE pc'[c] = "exclusive"
  BY <1>2, ExclusiveImage DEF Abstract!Next
<1>3. CASE pc'[c] \notin {"shared", "exclusive"}
  BY <1>3, StutterImage
<1> QED
  BY <1>1, <1>2, <1>3

LEMMA NextImage ==
    ASSUME IInv, [Next]_vars
    PROVE  [Abstract!Next \/ astray']_(Abstract!vars)
<1> USE DEF Goto
<1>0. CASE astray
  <2>1. UNCHANGED vars
    BY <1>0 DEF Next, At, Calls, TryAcquireShared, TryAcquireExclusive, AcquireShared,
                AcquireExclusive, RetryShared, RetryFreed, RetryExclusive, SpuriousWakeup, Release
  <2> QED
    BY <2>1 DEF vars, Abstract!vars, Sharers, Writers
<1> SUFFICES ASSUME Sound PROVE [Abstract!Next \/ astray']_(Abstract!vars)
  BY <1>0 DEF IInv
<1>1. ASSUME NEW c \in Callers, NEW p \in Paths,
             \/ TryAcquireShared(c, p) \/ TryAcquireExclusive(c, p)
             \/ AcquireShared(c, p) \/ AcquireExclusive(c, p)
      PROVE  [Abstract!Next]_(Abstract!vars)
  <2>1. pc[c] = "idle" /\ path' = [path EXCEPT ![c] = p]
    BY <1>1 DEF TryAcquireShared, TryAcquireExclusive, AcquireShared, AcquireExclusive, Calls, At
  <2>2. PICK where \in {"idle", "shared", "exclusive", "asleepS", "asleepX"} :
           /\ Goto(c, where)
           /\ where = "shared" => ~ SharedBusy(GetOrCreate(p))
           /\ where = "exclusive" => ~ ExclusiveBusy(GetOrCreate(p))
    BY <1>1, <2>1 DEF TryAcquireShared, TryAcquireExclusive, AcquireShared, AcquireExclusive,
                      Sound, TypeOK
  <2>3. Bystanders(c) /\ pc'[c] = where /\ path'[c] = p
    BY <2>1, <2>2, Alone DEF Places
  <2> QED
    BY <2>1, <2>2, <2>3, MoveImage
<1>2. ASSUME NEW c \in Callers,
             \/ RetryShared(c) \/ RetryExclusive(c)
             \/ SpuriousWakeup(c, "asleepS", "awakeS") \/ SpuriousWakeup(c, "asleepX", "awakeX")
      PROVE  [Abstract!Next]_(Abstract!vars)
  <2> DEFINE p == path[c]
  <2>1. /\ p \in Paths /\ path' = [path EXCEPT ![c] = p]
        /\ pc[c] \in {"asleepS", "awakeS", "asleepX", "awakeX"}
    BY <1>2 DEF RetryShared, RetryExclusive, SpuriousWakeup, At, Sound, TypeOK
  <2>2. PICK where \in {"shared", "exclusive", "asleepS", "awakeS", "asleepX", "awakeX"} :
           /\ Goto(c, where)
           /\ where = "shared" => RetryShared(c) /\ ~ SharedBusy(entry[p])
           /\ where = "exclusive" => RetryExclusive(c) /\ ~ ExclusiveBusy(entry[p])
    BY <1>2 DEF RetryShared, RetryExclusive, SpuriousWakeup
  <2>3. Bystanders(c) /\ pc'[c] = where /\ path'[c] = p
    BY <2>1, <2>2, Alone DEF Places
  <2>4. where = "shared" => entry[p] = GetOrCreate(p)
    BY <2>2, ReaderWaits DEF RetryShared, At
  <2>5. where = "exclusive" => entry[p] = GetOrCreate(p)
    BY <2>1, <2>2, Counted DEF RetryExclusive, At
  <2> QED
    BY <2>1, <2>2, <2>3, <2>4, <2>5, MoveImage
<1>3. ASSUME NEW c \in Callers, Release(c)
      PROVE  [Abstract!Next]_(Abstract!vars)
  <2> DEFINE p == path[c]
  <2>1. p \in Paths /\ path' = path /\ pc[c] \in {"shared", "exclusive"}
    BY <1>3 DEF Release, At, Sound, TypeOK
  <2>2. entry[p] # NoEntry
    BY <2>1, Counted
  <2>3. BroadcastAndReturn(c, p)
    BY <1>3, <2>2 DEF Release
  <2>4. Bystanders(c) /\ pc'[c] = "idle"
    BY <2>1, <2>3 DEF BroadcastAndReturn, Bystanders, Sound, TypeOK
  <2>5. Abstract!GiveBack(c, p)
    BY <2>1, <2>4, ReleaseImage
  <2> QED
    BY <2>1, <2>5 DEF Abstract!Next
<1>4. ASSUME NEW c \in Callers, RetryFreed(c)
      PROVE  astray'
  BY <1>4 DEF RetryFreed
<1>5. CASE UNCHANGED vars
  BY <1>5 DEF vars, Abstract!vars, Sharers, Writers
<1> QED
  BY <1>1, <1>2, <1>3, <1>4, <1>5 DEF Next

LEMMA InitImage == Init => Abstract!Init
  BY DEF Init, Abstract!Init, Sharers, Writers

\* filelock.c is a reader/writer lock as long as no reader goes on with a
\* freed entry: every other step is a grant, a return or invisible.
THEOREM Implementation == Spec => ImplementsRWLock
<1>1. Init => Abstract!Init
  BY InitImage
<1>2. IInv /\ [Next]_vars => [Abstract!Next \/ astray']_(Abstract!vars)
  BY NextImage
<1> QED
  BY <1>1, <1>2, Invariance, PTL DEF Spec, ImplementsRWLock

=============================================================================
