---------------------------- MODULE ServerProofs ----------------------------
(***************************************************************************)
(* The connection counter of server.c is exact and the limit holds, for    *)
(* any number of clients and any limit, wherever the signal arrives:       *)
(* theorems about Spec of Server.tla.                                      *)
(*                                                                         *)
(* That the limit holds needs the counter to be exact, and that the server *)
(* stops accepting needs the listener closed before the handler returns:   *)
(* IInv says both.                                                         *)
(***************************************************************************)
EXTENDS Server, FiniteSetTheorems, TLAPS

\* The inductive invariant of Spec.
IInv ==
    /\ TypeOK
    /\ CountExact
    /\ MaxConnections > 0 => Cardinality(Counted) <= MaxConnections
    /\ hpc = "done" => ~ listening

-----------------------------------------------------------------------------
\* The connections that hold a slot can be counted.
LEMMA CountedNat == IsFiniteSet(Counted) /\ Cardinality(Counted) \in Nat
  BY ClientsFinite, FS_Subset, FS_CardinalityType DEF Counted

\* A connection is counted or not by where it is.
LEMMA CountedMember ==
    ASSUME NEW c \in Clients
    PROVE  /\ c \in Counted <=> cst[c] \in {"admitted", "leaving", "welcome", "serving",
                                            "destroy", "ending"}
           /\ c \in Counted' <=> cst'[c] \in {"admitted", "leaving", "welcome", "serving",
                                              "destroy", "ending"}
  BY DEF Counted

\* One connection moves: the number of slots in use moves with it.
LEMMA CountedMoves ==
    ASSUME TypeOK, NEW c \in Clients, NEW from, NEW to, Becomes(c, from, to)
    PROVE  /\ cst[c] = from /\ cst'[c] = to
           /\ Cardinality(Counted') = Cardinality(Counted) - (IF c \in Counted THEN 1 ELSE 0)
                                                         + (IF c \in Counted' THEN 1 ELSE 0)
<1>1. cst[c] = from /\ cst'[c] = to /\ \A d \in Clients \ {c} : cst'[d] = cst[d]
  BY DEF TypeOK, Becomes
<1>2. Counted \ {c} = Counted' \ {c}
  BY <1>1 DEF Counted
<1>3. /\ IsFiniteSet(Counted) /\ IsFiniteSet(Counted')
      /\ Cardinality(Counted) \in Nat /\ Cardinality(Counted') \in Nat
  BY ClientsFinite, FS_Subset, FS_CardinalityType DEF Counted
<1>4. Cardinality(Counted \ {c}) = IF c \in Counted THEN Cardinality(Counted) - 1
                                                   ELSE Cardinality(Counted)
  BY <1>3, FS_RemoveElement
<1>5. Cardinality(Counted' \ {c}) = IF c \in Counted' THEN Cardinality(Counted') - 1
                                                     ELSE Cardinality(Counted')
  BY <1>3, FS_RemoveElement
<1>6. Cardinality(Counted \ {c}) = Cardinality(Counted' \ {c})
  BY <1>2
<1> QED
  BY <1>1, <1>3, <1>4, <1>5, <1>6

\* Places of a connection between which the count stays as it is.
Uncounted == {"outside", "accepted", "busy", "gone"}
SlotHeld  == {"admitted", "leaving", "welcome", "serving", "destroy", "ending"}

\* A step that moves one connection within its part changes no count.
LEMMA SameCount ==
    ASSUME IInv, NEW c \in Clients, NEW from, NEW to, Becomes(c, from, to),
           \/ from \in Uncounted /\ to \in Uncounted
           \/ from \in SlotHeld /\ to \in SlotHeld
    PROVE  /\ Cardinality(Counted') = Cardinality(Counted)
           /\ cst' \in [Clients -> Uncounted \cup SlotHeld]
<1>1. /\ cst[c] = from /\ cst'[c] = to
      /\ Cardinality(Counted') = Cardinality(Counted) - (IF c \in Counted THEN 1 ELSE 0)
                                                      + (IF c \in Counted' THEN 1 ELSE 0)
  BY CountedMoves DEF IInv
<1>2. c \in Counted <=> c \in Counted'
  BY <1>1, CountedMember DEF Uncounted, SlotHeld
<1>3. Cardinality(Counted') = Cardinality(Counted)
  BY <1>1, <1>2, CountedNat
<1> QED
  BY <1>3 DEF IInv, TypeOK, Becomes, Uncounted, SlotHeld

-----------------------------------------------------------------------------
(* The inductive step                                                      *)

\* Everything of TypeOK but the counter.
TypesButCounter ==
    /\ running \in BOOLEAN /\ listening \in BOOLEAN
    /\ mpc \in {"loop", "accept", "log", "limit", "create", "undo", "returned", "cleaned",
                "exited"}
    /\ hpc \in {"off", "log", "flag", "close", "done"}
    /\ cst \in [Clients -> Uncounted \cup SlotHeld]

\* An exact counter is a natural number.
LEMMA TypeFromCount ==
    ASSUME TypesButCounter', connections' \in Int, CountExact'
    PROVE  TypeOK'
<1>1. Cardinality(Counted') \in Nat
  BY ClientsFinite, FS_Subset, FS_CardinalityType DEF Counted
<1> QED
  BY <1>1 DEF TypesButCounter, TypeOK, CountExact, Uncounted, SlotHeld

LEMMA TypeParts == TypeOK => TypesButCounter /\ connections \in Int
  BY DEF TypesButCounter, TypeOK, Uncounted, SlotHeld

\* Steps that move no connection.
LEMMA QuietStep ==
    ASSUME IInv,
           \/ LoopTest \/ AcceptFails \/ Logged \/ Exit
           \/ Signal \/ HandlerLog \/ ClearRunning \/ CloseListener
           \/ UNCHANGED vars
    PROVE  IInv'
<1>1. connections' = connections /\ cst' = cst /\ CleanedUp' = CleanedUp
  BY DEF IInv, LoopTest, AcceptFails, Logged, Exit, Signal, HandlerLog, ClearRunning,
         CloseListener, vars, MainStep, CleanedUp
<1>2. Counted' = Counted
  BY <1>1 DEF Counted
<1>3. TypesButCounter'
  BY TypeParts DEF IInv, TypesButCounter, LoopTest, AcceptFails, Logged, Exit, Signal,
                   HandlerLog, ClearRunning, CloseListener, vars, MainStep
<1>4. hpc' = "done" => ~ listening'
  BY DEF IInv, LoopTest, AcceptFails, Logged, Exit, Signal, HandlerLog, ClearRunning,
         CloseListener, vars, MainStep
<1> QED
  BY <1>1, <1>2, <1>3, <1>4, TypeFromCount, TypeParts DEF IInv, CountExact

LEMMA CleanupStep ==
    ASSUME IInv, Cleanup
    PROVE  IInv'
<1>1. Counted' = Counted
  BY DEF Cleanup, Counted
<1>2. TypesButCounter'
  BY TypeParts DEF IInv, TypesButCounter, Cleanup, MainStep
<1>3. connections' \in Int
  BY DEF Cleanup
<1>4. CountExact'
  BY DEF Cleanup, MainStep, CountExact, CleanedUp
<1> QED
  BY <1>1, <1>2, <1>3, <1>4, TypeFromCount DEF IInv, Cleanup

\* Steps that move a connection and leave the counter alone.
LEMMA MoveStep ==
    ASSUME IInv, NEW c \in Clients,
           \/ Accept(c) \/ RejectBusy(c) \/ Spawn(c) \/ CreateFails(c)
           \/ Welcome(c) \/ Leave(c) \/ Destroy(c)
    PROVE  IInv'
<1>1. PICK from, to :
        /\ Becomes(c, from, to)
        /\ \/ from \in Uncounted /\ to \in Uncounted
           \/ from \in SlotHeld /\ to \in SlotHeld
  BY DEF Accept, RejectBusy, Spawn, CreateFails, Welcome, Leave, Destroy, Uncounted, SlotHeld
<1>2. Cardinality(Counted') = Cardinality(Counted) /\ cst' \in [Clients -> Uncounted \cup SlotHeld]
  BY <1>1, SameCount
<1>3. connections' = connections /\ CleanedUp' = CleanedUp /\ TypesButCounter'
  BY <1>2, TypeParts DEF IInv, TypesButCounter, Accept, RejectBusy, Spawn, CreateFails, Welcome,
                         Leave, Destroy, MainStep, CleanedUp
<1>4. hpc' = "done" => ~ listening'
  BY DEF IInv, Accept, RejectBusy, Spawn, CreateFails, Welcome, Leave, Destroy
<1> QED
  BY <1>2, <1>3, <1>4, TypeFromCount, TypeParts DEF IInv, CountExact

LEMMA AdmitStep ==
    ASSUME IInv, NEW c \in Clients, Admit(c)
    PROVE  IInv'
<1>1. cst[c] = "accepted" /\ cst'[c] = "admitted"
  BY CountedMoves DEF IInv, Admit
<1>2. Cardinality(Counted') = Cardinality(Counted) + 1
  BY <1>1, CountedMoves, CountedMember, CountedNat DEF IInv, Admit
<1>3. /\ ~ CleanedUp /\ ~ CleanedUp' /\ connections' = connections + 1
      /\ connections = Cardinality(Counted)
  BY DEF IInv, Admit, MainStep, CleanedUp, CountExact
<1>4. TypesButCounter'
  BY TypeParts DEF IInv, TypesButCounter, Admit, MainStep, Becomes, Uncounted, SlotHeld
<1>5. MaxConnections > 0 => Cardinality(Counted') <= MaxConnections
  BY <1>2, <1>3, CountedNat, MaxIsInt DEF Admit, Full
<1>6. CountExact' /\ connections' \in Int
  BY <1>2, <1>3, CountedNat DEF CountExact
<1> QED
  BY <1>4, <1>5, <1>6, TypeFromCount DEF IInv, Admit

\* The two ways a slot is given back.
LEMMA GiveBackStep ==
    ASSUME IInv, NEW c \in Clients, UndoCount(c) \/ Uncount(c)
    PROVE  IInv'
<1>1. PICK from \in {"leaving", "ending"} : Becomes(c, from, "gone")
  BY DEF UndoCount, Uncount
<1>2. cst[c] = from /\ cst'[c] = "gone"
  BY <1>1, CountedMoves DEF IInv
<1>3. Cardinality(Counted') = Cardinality(Counted) - 1
  BY <1>1, <1>2, CountedMoves, CountedMember, CountedNat DEF IInv
<1>4. connections' = connections - 1 /\ CleanedUp' = CleanedUp
  BY DEF UndoCount, Uncount, MainStep, CleanedUp
<1>5. TypesButCounter'
  BY <1>1, TypeParts DEF IInv, TypesButCounter, UndoCount, Uncount, MainStep, Becomes, Uncounted,
                         SlotHeld
<1>6. CountExact' /\ connections' \in Int
  BY <1>3, <1>4, TypeParts DEF IInv, CountExact
<1>7. MaxConnections > 0 => Cardinality(Counted') <= MaxConnections
  BY <1>3, CountedNat, MaxIsInt DEF IInv
<1>8. hpc' = "done" => ~ listening'
  BY DEF IInv, UndoCount, Uncount
<1> QED
  BY <1>5, <1>6, <1>7, <1>8, TypeFromCount DEF IInv

LEMMA NextIInv == IInv /\ [Next]_vars => IInv'
<1> SUFFICES ASSUME IInv, [Next]_vars PROVE IInv'
  OBVIOUS
<1>1. CASE Signal \/ UNCHANGED vars
  BY <1>1, QuietStep
<1>2. CASE Handler
  BY <1>2, QuietStep DEF Handler
<1>3. CASE Main
  BY <1>3, QuietStep, CleanupStep, MoveStep, AdmitStep, GiveBackStep DEF Main
<1>4. ASSUME NEW c \in Clients, ClientThread(c) PROVE IInv'
  BY <1>4, MoveStep, GiveBackStep DEF ClientThread
<1> QED
  BY <1>1, <1>2, <1>3, <1>4 DEF Next, Serve

LEMMA InitIInv == Init => IInv
<1> SUFFICES ASSUME Init PROVE IInv
  OBVIOUS
<1>1. Counted = {}
  BY DEF Init, Counted
<1>2. Cardinality(Counted) = 0
  BY <1>1, FS_EmptySet
<1> QED
  BY <1>2, MaxIsInt DEF Init, IInv, TypeOK, CountExact

\* The counter of server.c, its limit and its listener agree with the
\* connections in every reachable state.
THEOREM Invariance == Spec => []IInv
  BY InitIInv, NextIInv, PTL DEF Spec

-----------------------------------------------------------------------------
(* What follows                                                            *)

\* Globals, threads and connections keep their types.
THEOREM TypeCorrect == Spec => []TypeOK
<1>1. IInv => TypeOK
  BY DEF IInv
<1> QED
  BY <1>1, Invariance, PTL

\* No slot is lost or given back twice before server_cleanup.
THEOREM CounterExact == Spec => []CountExact
<1>1. IInv => CountExact
  BY DEF IInv
<1> QED
  BY <1>1, Invariance, PTL

LEMMA IInvLimit == IInv => LimitRespected
<1> SUFFICES ASSUME IInv, MaxConnections > 0
             PROVE  Cardinality(Sessions) <= MaxConnections
  BY DEF LimitRespected
<1>1. Sessions \in SUBSET Counted
  BY DEF Sessions, Counted
<1>2. Cardinality(Sessions) <= Cardinality(Counted)
  BY <1>1, CountedNat, FS_Subset
<1>3. Cardinality(Sessions) \in Nat
  BY ClientsFinite, FS_Subset, FS_CardinalityType DEF Sessions
<1> QED
  BY <1>2, <1>3, CountedNat, MaxIsInt DEF IInv

\* max_connections is never exceeded, by the check and increment under one
\* mutex in server_run.
THEOREM LimitHolds == Spec => []LimitRespected
  BY IInvLimit, Invariance, PTL

LEMMA BusyStep ==
    ASSUME IInv, [Next]_vars, NEW c \in Clients, cst[c] # "busy", cst'[c] = "busy"
    PROVE  MaxConnections > 0 /\ Cardinality(Counted) >= MaxConnections
<1>1. ~ UNCHANGED cst
  OBVIOUS
<1>2. ASSUME NEW d \in Clients, NEW from, NEW to, Becomes(d, from, to), to # "busy"
      PROVE  FALSE
  BY <1>2 DEF IInv, TypeOK, Becomes
<1>3. \A d \in Clients : /\ ~ ClientThread(d) /\ ~ Accept(d) /\ ~ Admit(d)
                         /\ ~ Spawn(d) /\ ~ CreateFails(d) /\ ~ UndoCount(d)
  BY <1>2 DEF ClientThread, Welcome, Leave, Destroy, Uncount, Accept, Admit, Spawn, CreateFails,
              UndoCount
<1>4. \E d \in Clients : RejectBusy(d)
  BY <1>1, <1>3 DEF Next, Serve, Handler, Main, HandlerLog, ClearRunning, CloseListener,
                    LoopTest, AcceptFails, Logged, Cleanup, Exit, Signal, vars
<1>5. Full /\ ~ CleanedUp
  BY <1>4 DEF RejectBusy, MainStep, CleanedUp
<1> QED
  BY <1>5, CountedNat DEF IInv, CountExact, Full

\* "Too many connections" is only said when it is so: server_run.
THEOREM BusyIsTrue == Spec => BusyOnlyWhenFull
<1>1. IInv /\ [Next]_vars
         => [\A c \in Clients :
               cst[c] # "busy" /\ cst'[c] = "busy"
                  => MaxConnections > 0 /\ Cardinality(Counted) >= MaxConnections]_vars
  BY BusyStep
<1> QED
  BY <1>1, Invariance, PTL DEF Spec, BusyOnlyWhenFull

LEMMA StopStep ==
    ASSUME IInv, [Next]_vars, hpc = "done", NEW c \in Clients, cst[c] = "outside"
    PROVE  cst'[c] = "outside"
<1> SUFFICES ASSUME cst'[c] # "outside" PROVE FALSE
  OBVIOUS
<1>1. ASSUME NEW d \in Clients, NEW from, NEW to, Becomes(d, from, to), from # "outside"
      PROVE  FALSE
  BY <1>1 DEF IInv, TypeOK, Becomes
<1>2. \A d \in Clients : /\ ~ ClientThread(d) /\ ~ Admit(d) /\ ~ RejectBusy(d)
                         /\ ~ Spawn(d) /\ ~ CreateFails(d) /\ ~ UndoCount(d)
  BY <1>1 DEF ClientThread, Welcome, Leave, Destroy, Uncount, Admit, RejectBusy, Spawn,
              CreateFails, UndoCount
<1>3. \A d \in Clients : ~ Accept(d)
  BY DEF IInv, Accept
<1>4. cst' # cst
  OBVIOUS
<1> QED
  BY <1>2, <1>3, <1>4 DEF Next, Serve, Handler, Main, HandlerLog, ClearRunning, CloseListener,
                          LoopTest, AcceptFails, Logged, Cleanup, Exit, Signal, vars

\* server_stop closes the listener before it returns, so no connection is
\* accepted after it.
THEOREM StopIsFinal == Spec => StopsAccepting
<1>1. IInv /\ [Next]_vars
         => [hpc = "done" => \A c \in Clients :
                               cst[c] = "outside" => cst'[c] = "outside"]_vars
  BY StopStep
<1> QED
  BY <1>1, Invariance, PTL DEF Spec, StopsAccepting

=============================================================================
