------------------------------ MODULE FileLock ------------------------------
(***************************************************************************)
(* The file lock manager of the server, server/src/filelock.c: a table of  *)
(* per-path entries with reader, writer and waiting-writer counts, guarded *)
(* by one mutex.  Every operation runs under the mutex and is one action,  *)
(* except that the blocking ones give the mutex up in pthread_cond_wait:   *)
(* they are split there into the call and a retry after each wake-up.      *)
(*                                                                         *)
(* A caller is a thread of control that holds or asks for at most one lock *)
(* (as every user of the module in handler.c and transfer.c does) and      *)
(* releases only what it holds.                                            *)
(***************************************************************************)
EXTENDS Naturals, FiniteSets

CONSTANTS Callers,      \* threads of control that lock files
          Paths,        \* absolute paths
          NoEntry       \* "path is not in g_file_lock_entries"

ASSUME CallersFinite == IsFiniteSet(Callers)

\* file_lock_entry_t without its condition variable, which is the set of
\* callers whose pc is "asleepS" or "asleepX" on the path of the entry.
Entry == [readers : Nat, writers : Nat, waiting_writers : Nat]

ASSUME NoEntryIsNoEntry == NoEntry \notin Entry

VARIABLES entry,        \* entry[p]: the table g_file_lock_entries
          pc,           \* pc[c]: where caller c is
          path,         \* path[c]: the path of c's last or current call
          dangling,     \* callers whose entry pointer was freed under them
          astray        \* has a caller gone on with an entry that was freed?

vars == <<entry, pc, path, dangling, astray>>

-----------------------------------------------------------------------------
\* Who holds and who waits, read off the callers.

Sharers(p)        == {c \in Callers : pc[c] = "shared" /\ path[c] = p}
Writers(p)        == {c \in Callers : pc[c] = "exclusive" /\ path[c] = p}
WaitingWriters(p) == {c \in Callers : pc[c] \in {"asleepX", "awakeX"} /\ path[c] = p}
WaitingReaders(p) == {c \in Callers : pc[c] \in {"asleepS", "awakeS"} /\ path[c] = p}
Waiters(p)        == WaitingReaders(p) \cup WaitingWriters(p)

-----------------------------------------------------------------------------
NewEntry == [readers |-> 0, writers |-> 0, waiting_writers |-> 0]

\* file_lock_get_or_create: the entry of p, or a zeroed one that the caller
\* stores in the table.
GetOrCreate(p) == IF entry[p] = NoEntry THEN NewEntry ELSE entry[p]

\* Faulty variants: the reader overlooks the writer, or those that wait for
\* it; the writer overlooks the readers.
SharedBusyNoWriter(e)  == e.waiting_writers > 0
SharedBusyNoWaiting(e) == e.writers > 0
ExclusiveBusyNoReader(e) == e.writers > 0

\* The conditions the code tests before it grants a lock.
SharedBusy(e)    == e.writers > 0 \/ e.waiting_writers > 0
ExclusiveBusy(e) == e.writers > 0 \/ e.readers > 0

Put(p, e)        == entry' = [entry EXCEPT ![p] = e]
Goto(c, where)   == pc' = [pc EXCEPT ![c] = where]
\* Nothing is said of the program after it has used a freed entry.
At(c, places)    == ~ astray /\ pc[c] \in places
Calls(c, p)      == At(c, {"idle"}) /\ path' = [path EXCEPT ![c] = p]

Init ==
    /\ entry = [p \in Paths |-> NoEntry]
    /\ pc = [c \in Callers |-> "idle"]
    /\ path \in [Callers -> Paths]
    /\ dangling = {}
    /\ astray = FALSE

TryAcquireShared(c, p) ==
    LET e == GetOrCreate(p) IN
    /\ Calls(c, p)
    /\ \/ /\ SharedBusy(e)              \* returns -1 at once
          /\ Put(p, e)
          /\ UNCHANGED pc
       \/ /\ ~ SharedBusy(e)
          /\ Put(p, [e EXCEPT !.readers = @ + 1])
          /\ Goto(c, "shared")
    /\ UNCHANGED <<dangling, astray>>

TryAcquireExclusive(c, p) ==
    LET e == GetOrCreate(p) IN
    /\ Calls(c, p)
    /\ \/ /\ ExclusiveBusy(e)           \* returns -1 at once
          /\ Put(p, e)
          /\ UNCHANGED pc
       \/ /\ ~ ExclusiveBusy(e)
          /\ Put(p, [e EXCEPT !.writers = 1])
          /\ Goto(c, "exclusive")
    /\ UNCHANGED <<dangling, astray>>

\* file_lock_acquire_exclusive up to its return, or to its pthread_cond_wait.
AcquireExclusive(c, p) ==
    LET e == GetOrCreate(p) IN
    /\ Calls(c, p)
    /\ \/ /\ ExclusiveBusy(e)
          /\ Put(p, [e EXCEPT !.waiting_writers = @ + 1])
          /\ Goto(c, "asleepX")
       \/ /\ ~ ExclusiveBusy(e)         \* waiting_writers++ and -- again
          /\ Put(p, [e EXCEPT !.writers = 1])
          /\ Goto(c, "exclusive")
    /\ UNCHANGED <<dangling, astray>>

StopsWaiting(e) == [e EXCEPT !.waiting_writers = @ - 1]

\* The loop of file_lock_acquire_exclusive after a wake-up.
RetryExclusive(c) ==
    LET p == path[c]
        e == entry[p]
    IN
    /\ At(c, {"awakeX"})
    /\ \/ /\ ExclusiveBusy(e)
          /\ Goto(c, "asleepX")
          /\ UNCHANGED entry
       \/ /\ ~ ExclusiveBusy(e)
          /\ Put(p, [StopsWaiting(e) EXCEPT !.writers = 1])
          /\ Goto(c, "exclusive")
    /\ UNCHANGED <<path, dangling, astray>>

\* file_lock_acquire_shared up to its return, or to its pthread_cond_wait.
\* No counter of the entry says that a reader waits.
AcquireShared(c, p) ==
    LET e == GetOrCreate(p) IN
    /\ Calls(c, p)
    /\ \/ /\ SharedBusy(e)
          /\ Put(p, e)
          /\ Goto(c, "asleepS")
       \/ /\ ~ SharedBusy(e)
          /\ Put(p, [e EXCEPT !.readers = @ + 1])
          /\ Goto(c, "shared")
    /\ UNCHANGED <<dangling, astray>>

\* The loop of file_lock_acquire_shared after a wake-up.
RetryShared(c) ==
    LET p == path[c]
        e == entry[p]
    IN
    /\ At(c, {"awakeS"}) /\ c \notin dangling
    /\ \/ /\ SharedBusy(e)
          /\ Goto(c, "asleepS")
          /\ UNCHANGED entry
       \/ /\ ~ SharedBusy(e)
          /\ Put(p, [e EXCEPT !.readers = @ + 1])
          /\ Goto(c, "shared")
    /\ UNCHANGED <<path, dangling, astray>>

\* The same loop on an entry that was freed.  Whatever it reads there, it
\* sleeps again or counts a reader: in the freed memory, or in a new entry
\* that malloc has put in its place.  What becomes of the program is undefined.
RetryFreed(c) ==
    /\ At(c, {"awakeS"}) /\ c \in dangling
    /\ \/ Goto(c, "asleepS") /\ UNCHANGED entry
       \/ Goto(c, "shared") /\ UNCHANGED entry
       \/ \E q \in Paths :
             /\ entry[q] # NoEntry
             /\ Put(q, [entry[q] EXCEPT !.readers = @ + 1])
             /\ Goto(c, "shared")
    /\ astray' = TRUE
    /\ UNCHANGED <<path, dangling>>

\* POSIX lets pthread_cond_wait return without a signal.
SpuriousWakeup(c, asleep, awake) ==
    /\ At(c, {asleep})
    /\ Goto(c, awake)
    /\ UNCHANGED <<entry, path, dangling, astray>>

\* Faulty variant: nobody is woken.
ReturnWithoutBroadcast(c, p) == pc' = [pc EXCEPT ![c] = "idle"]

\* pthread_cond_broadcast on the entry of p, while caller c becomes idle.
BroadcastAndReturn(c, p) ==
    pc' = [d \in Callers |->
             CASE d = c -> "idle"
               [] d # c /\ d \in Waiters(p) /\ pc[d] = "asleepX" -> "awakeX"
               [] d # c /\ d \in Waiters(p) /\ pc[d] = "asleepS" -> "awakeS"
               [] OTHER -> pc[d]]

\* Faulty variants: the counter of the other mode goes down, unguarded; the
\* last reader is taken for all of them.
ReleasedOtherMode(e, exclusive) ==
    IF exclusive THEN [e EXCEPT !.readers = @ - 1, !.writers = 0]
    ELSE [e EXCEPT !.writers = 0]
ReleasedAllReaders(e, exclusive) ==
    IF exclusive THEN [e EXCEPT !.writers = 0] ELSE [e EXCEPT !.readers = 0]

\* What release_common leaves in the entry.
Released(e, exclusive) ==
    IF exclusive THEN [e EXCEPT !.writers = 0]
    ELSE [e EXCEPT !.readers = IF @ = 0 THEN 0 ELSE @ - 1]

\* Faulty variants: the entry is never removed, or under a waiting writer.
UnusedNever(e) == FALSE
UnusedWhileWaiting(e) == e.readers = 0 /\ e.writers = 0

\* The condition under which release_common unlinks and frees the entry.
Unused(e) == e.readers = 0 /\ e.writers = 0 /\ e.waiting_writers = 0

\* file_lock_release_shared, file_lock_release_exclusive.  No counter of an
\* entry says that a reader waits on it, so the entry may be freed all the same.
Release(c) ==
    LET p == path[c]
        e == Released(entry[p], pc[c] = "exclusive")
    IN
    /\ At(c, {"shared", "exclusive"})
    /\ \/ /\ entry[p] = NoEntry         \* "release non-existent file lock"
          /\ Goto(c, "idle")
          /\ UNCHANGED <<entry, dangling>>
       \/ /\ entry[p] # NoEntry
          /\ BroadcastAndReturn(c, p)
          /\ \/ /\ Unused(e)
                /\ Put(p, NoEntry)
                /\ dangling' = dangling \cup Waiters(p)
             \/ /\ ~ Unused(e)
                /\ Put(p, e)
                /\ UNCHANGED dangling
    /\ UNCHANGED <<path, astray>>

-----------------------------------------------------------------------------
\* Every operation of filelock.h.  The server itself only calls the two try_
\* operations and the releases.
Next ==
    \E c \in Callers :
        \/ \E p \in Paths : \/ TryAcquireShared(c, p)
                            \/ TryAcquireExclusive(c, p)
                            \/ AcquireShared(c, p)
                            \/ AcquireExclusive(c, p)
        \/ RetryShared(c)
        \/ RetryFreed(c)
        \/ RetryExclusive(c)
        \/ SpuriousWakeup(c, "asleepS", "awakeS")
        \/ SpuriousWakeup(c, "asleepX", "awakeX")
        \/ Release(c)

Spec == Init /\ [][Next]_vars

\* The threads are scheduled and a holder sooner or later releases.  Nobody
\* has to call, and no spurious wake-up has to happen.
Fairness ==
    \A c \in Callers :
        /\ WF_vars(RetryShared(c)) /\ WF_vars(RetryFreed(c)) /\ WF_vars(RetryExclusive(c))
        /\ WF_vars(Release(c))

FairSpec == Spec /\ Fairness

-----------------------------------------------------------------------------
Places == {"idle", "asleepS", "awakeS", "asleepX", "awakeX", "shared", "exclusive"}

\* The types of the lock table and of the callers.
TypeOK ==
    /\ entry \in [Paths -> Entry \cup {NoEntry}]
    /\ pc \in [Callers -> Places]
    /\ path \in [Callers -> Paths]
    /\ dangling \in SUBSET Callers
    /\ astray \in BOOLEAN

\* No two callers hold conflicting locks on a path: the counters that
\* file_lock_*acquire_* test never let a writer in beside anybody else, over
\* every interleaving of calls, waits and removals of the entry, until a
\* reader goes on with an entry that was freed.
Exclusion ==
    astray \/ \A p \in Paths : /\ Cardinality(Writers(p)) <= 1
                              /\ Writers(p) # {} => Sharers(p) = {}

\* file_lock_is_exclusive_locked and file_lock_get_shared_lock_count.
IsExclusiveLocked(p) == entry[p] # NoEntry /\ GetOrCreate(p).writers > 0
SharedLockCount(p)   == GetOrCreate(p).readers

\* The counters, and hence the two queries, tell the truth about the callers:
\* no acquisition is lost or counted twice when entries are removed and
\* created again in file_lock_release_common and file_lock_get_or_create.
CountersExact ==
    astray \/ \A p \in Paths :
        /\ SharedLockCount(p) = Cardinality(Sharers(p))
        /\ IsExclusiveLocked(p) <=> Writers(p) # {}
        /\ GetOrCreate(p).waiting_writers = Cardinality(WaitingWriters(p))

\* file_lock_release_common frees an entry as soon as no counter mentions
\* anybody, and a failed try_ call or a reader that waits leaves none behind:
\* the table does not grow with the paths that were ever locked.
NoEntryLeak ==
    astray \/ \A p \in Paths :
        entry[p] # NoEntry => Sharers(p) \cup Writers(p) \cup WaitingWriters(p) # {}

\* Who can lose its entry: release_common keeps it for a holder and for a
\* writer that sleeps or wakes up, but frees it (filelock.c:280) under readers
\* that it has just woken in file_lock_acquire_shared, and under nobody else.
OnlyWokenReadersDangle == astray \/ \A c \in dangling : pc[c] = "awakeS"

\* What the caller of a blocking function relies on, readers included ("Blocks
\* until the lock can be acquired", filelock.h).  It does not hold:
\* MCFileLockBlocking.cfg.
NobodyDangles == dangling = {}

\* "writers have priority over new readers" (filelock.h): no step grants a
\* read lock on a path on which a writer waits.
WriterPriority ==
    [][\A c \in Callers :
         pc[c] # "shared" /\ pc'[c] = "shared"
             => WaitingWriters(path'[c]) = {} \/ astray']_vars

\* "... to avoid starvation": once a writer waits on a path, some writer gets
\* it, however many readers keep asking.  No wake-up is lost between the
\* broadcast of a release and the loop of file_lock_acquire_exclusive.
WriterProgress ==
    \A p \in Paths : WaitingWriters(p) # {} ~> Writers(p) # {} \/ astray

\* The lock manager implements the reader/writer lock: every step, but that
\* of a reader on a freed entry, is a step of RWLock or invisible to it.
Abstract == INSTANCE RWLock WITH
                shared    <- [p \in Paths |-> Sharers(p)],
                exclusive <- [p \in Paths |-> Writers(p)]

ImplementsRWLock == Abstract!Init /\ [][Abstract!Next \/ astray']_(Abstract!vars)

=============================================================================
