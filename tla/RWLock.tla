------------------------------- MODULE RWLock -------------------------------
(***************************************************************************)
(* What the file lock manager promises (filelock.h): on every path either  *)
(* any number of readers or a single writer.  Nothing is said about        *)
(* counters, tables or waiting: FileLock.tla is shown to implement this.   *)
(***************************************************************************)
CONSTANTS Callers,      \* threads of control that lock files
          Paths         \* absolute paths

VARIABLES shared,       \* shared[p]: callers holding the read lock of p
          exclusive     \* exclusive[p]: callers holding the write lock of p

vars == <<shared, exclusive>>

Init == /\ shared = [p \in Paths |-> {}]
        /\ exclusive = [p \in Paths |-> {}]

GrantShared(c, p) ==
    /\ exclusive[p] = {}
    /\ shared' = [shared EXCEPT ![p] = @ \cup {c}]
    /\ UNCHANGED exclusive

GrantExclusive(c, p) ==
    /\ exclusive[p] = {}
    /\ shared[p] = {}
    /\ exclusive' = [exclusive EXCEPT ![p] = {c}]
    /\ UNCHANGED shared

GiveBack(c, p) ==
    /\ c \in shared[p] \cup exclusive[p]
    /\ shared' = [shared EXCEPT ![p] = @ \ {c}]
    /\ exclusive' = [exclusive EXCEPT ![p] = @ \ {c}]

Next == \E c \in Callers, p \in Paths :
            GrantShared(c, p) \/ GrantExclusive(c, p) \/ GiveBack(c, p)

Spec == Init /\ [][Next]_vars
=============================================================================
