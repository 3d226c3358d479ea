------------------------------- MODULE Server -------------------------------
(***************************************************************************)
(* The server process, server/src/server.c and main.c: the main thread's   *)
(* accept loop with its connection limit, the detached client threads, the *)
(* signal handler that stops the server and the clean-up before the        *)
(* process ends.  What a session does between its welcome and its          *)
(* destruction is the business of SessionTransfer.tla.                     *)
(*                                                                         *)
(* The handler runs on the main thread (the kernel prefers it), which      *)
(* makes no step meanwhile.  Logging matters in one respect only: the      *)
(* logger's mutex.  Of the main thread's log calls the model keeps the one *)
(* after accept().                                                         *)
(***************************************************************************)
EXTENDS Integers, FiniteSets

CONSTANTS Clients,          \* connections that ever arrive
          MaxConnections    \* config.max_connections; none when <= 0

ASSUME ClientsFinite == IsFiniteSet(Clients)
ASSUME MaxIsInt == MaxConnections \in Int

VARIABLES running,          \* g_server_running
          listening,        \* g_listening_socket is valid
          connections,      \* g_current_connections
          mpc,              \* where the main thread is
          hpc,              \* where the signal handler is
          cst               \* cst[c]: the life of connection c

vars == <<running, listening, connections, mpc, hpc, cst>>

Init ==
    /\ running = TRUE /\ listening = TRUE
    /\ connections = 0
    /\ mpc = "loop" /\ hpc = "off"
    /\ cst = [c \in Clients |-> "outside"]

-----------------------------------------------------------------------------
(* The main thread: server_run                                             *)

MainStep(from, to) ==
    /\ hpc \in {"off", "done"}
    /\ mpc = from /\ mpc' = to

Becomes(c, from, to) == cst[c] = from /\ cst' = [cst EXCEPT ![c] = to]

LoopTest ==
    /\ MainStep("loop", IF running THEN "accept" ELSE "returned")
    /\ UNCHANGED <<running, listening, connections, hpc, cst>>

\* accept() returns a connection; "Accepted connection" is being logged.
Accept(c) ==
    /\ listening
    /\ MainStep("accept", "log")
    /\ Becomes(c, "outside", "accepted")
    /\ UNCHANGED <<running, listening, connections, hpc>>

\* accept() fails, in any case once the listening socket is closed.
AcceptFails ==
    /\ MainStep("accept", "loop")
    /\ UNCHANGED <<running, listening, connections, hpc, cst>>

\* logger_log gives its mutex back.
Logged ==
    /\ MainStep("log", "limit")
    /\ UNCHANGED <<running, listening, connections, hpc, cst>>

\* Faulty variant: one connection too many.
FullOffByOne == MaxConnections > 0 /\ connections > MaxConnections

Full == MaxConnections > 0 /\ connections >= MaxConnections

\* The limit is tested and the counter raised under one mutex.
Admit(c) ==
    /\ ~ Full
    /\ MainStep("limit", "create")
    /\ Becomes(c, "accepted", "admitted")
    /\ connections' = connections + 1
    /\ UNCHANGED <<running, listening, hpc>>

\* 421, close.
RejectBusy(c) ==
    /\ Full
    /\ MainStep("limit", "loop")
    /\ Becomes(c, "accepted", "busy")
    /\ UNCHANGED <<running, listening, connections, hpc>>

\* session_create and pthread_create succeed; the thread is detached.
Spawn(c) ==
    /\ MainStep("create", "loop")
    /\ Becomes(c, "admitted", "welcome")
    /\ UNCHANGED <<running, listening, connections, hpc>>

\* Faulty variant: the slot is not given back.
CreateFailsKeepsSlot(c) ==
    /\ MainStep("create", "loop")
    /\ Becomes(c, "admitted", "gone")
    /\ UNCHANGED <<running, listening, connections, hpc>>

\* One of them fails: the connection is closed, the slot given back.
CreateFails(c) ==
    /\ MainStep("create", "undo")
    /\ Becomes(c, "admitted", "leaving")
    /\ UNCHANGED <<running, listening, connections, hpc>>

\* Faulty variant: both error branches give the slot back.
UndoCountTwice(c) ==
    /\ MainStep("undo", "loop")
    /\ Becomes(c, "leaving", "gone")
    /\ connections' = connections - 2
    /\ UNCHANGED <<running, listening, hpc>>

UndoCount(c) ==
    /\ MainStep("undo", "loop")
    /\ Becomes(c, "leaving", "gone")
    /\ connections' = connections - 1
    /\ UNCHANGED <<running, listening, hpc>>

\* server_cleanup, which resets the counter whatever threads remain ...
Cleanup ==
    /\ MainStep("returned", "cleaned")
    /\ listening' = FALSE
    /\ running' = FALSE
    /\ connections' = 0
    /\ UNCHANGED <<hpc, cst>>

\* ... and the return from main, which ends them.
Exit ==
    /\ MainStep("cleaned", "exited")
    /\ UNCHANGED <<running, listening, connections, hpc, cst>>

-----------------------------------------------------------------------------
(* A client thread: client_thread                                          *)

Alive == mpc # "exited"

\* The 220 reply is sent, or the session ends at once.
Welcome(c) ==
    /\ Alive
    /\ Becomes(c, "welcome", "serving") \/ Becomes(c, "welcome", "destroy")
    /\ UNCHANGED <<running, listening, connections, mpc, hpc>>

\* The command loop ends: QUIT, a lost connection, the command timeout, or
\* g_server_running found cleared between two commands.
Leave(c) ==
    /\ Alive
    /\ Becomes(c, "serving", "destroy")
    /\ UNCHANGED <<running, listening, connections, mpc, hpc>>

\* Faulty variant: the thread returns without giving its slot back.
DestroyAndReturn(c) ==
    /\ Alive
    /\ Becomes(c, "destroy", "returned")
    /\ UNCHANGED <<running, listening, connections, mpc, hpc>>

\* session_destroy
Destroy(c) ==
    /\ Alive
    /\ Becomes(c, "destroy", "ending")
    /\ UNCHANGED <<running, listening, connections, mpc, hpc>>

\* Faulty variant: the thread ends without the decrement.
UncountForgotten(c) ==
    /\ Alive
    /\ Becomes(c, "ending", "gone")
    /\ UNCHANGED <<running, listening, connections, mpc, hpc>>

Uncount(c) ==
    /\ Alive
    /\ Becomes(c, "ending", "gone")
    /\ connections' = connections - 1
    /\ UNCHANGED <<running, listening, mpc, hpc>>

-----------------------------------------------------------------------------
(* The signal handler: signal_handler, server_stop                         *)

\* The signal arrives at any time, inside the logger as well.
Signal ==
    /\ Alive
    /\ hpc = "off" /\ hpc' = "log"
    /\ UNCHANGED <<running, listening, connections, mpc, cst>>

\* LOG_INFO needs the logger's mutex, which the thread it interrupted may hold.
HandlerLog ==
    /\ Alive
    /\ hpc = "log" /\ hpc' = "flag"
    /\ mpc # "log"
    /\ UNCHANGED <<running, listening, connections, mpc, cst>>

ClearRunning ==
    /\ Alive
    /\ hpc = "flag" /\ hpc' = "close"
    /\ running' = FALSE
    /\ UNCHANGED <<listening, connections, mpc, cst>>

\* Faulty variant: only the flag is cleared.
KeepListener ==
    /\ Alive
    /\ hpc = "close" /\ hpc' = "done"
    /\ UNCHANGED <<running, listening, connections, mpc, cst>>

CloseListener ==
    /\ Alive
    /\ hpc = "close" /\ hpc' = "done"
    /\ listening' = FALSE
    /\ UNCHANGED <<running, connections, mpc, cst>>

-----------------------------------------------------------------------------
Handler == HandlerLog \/ ClearRunning \/ CloseListener

Main ==
    \/ LoopTest \/ AcceptFails \/ Logged \/ Cleanup \/ Exit
    \/ \E c \in Clients : \/ Accept(c) \/ Admit(c) \/ RejectBusy(c)
                          \/ Spawn(c) \/ CreateFails(c) \/ UndoCount(c)

ClientThread(c) == Welcome(c) \/ Leave(c) \/ Destroy(c) \/ Uncount(c)

Serve == Handler \/ Main \/ \E c \in Clients : ClientThread(c)

Next == Serve \/ Signal

Spec == Init /\ [][Next]_vars

\* The main thread, which the handler runs on, is scheduled except that
\* accept() may block while the listener is open; a client thread that has
\* left its command loop is scheduled too.  The loop itself ends by the
\* client's doing, or by the command timeout once the server stops.
Fairness ==
    /\ WF_vars(Handler)
    /\ WF_vars(LoopTest \/ Logged \/ Cleanup \/ Exit \/ (~ listening /\ AcceptFails)
               \/ \E c \in Clients : Admit(c) \/ RejectBusy(c) \/ Spawn(c)
                                     \/ CreateFails(c) \/ UndoCount(c))
    /\ \A c \in Clients : WF_vars(Welcome(c) \/ Destroy(c) \/ Uncount(c))

FairSpec == Spec /\ Fairness

-----------------------------------------------------------------------------
(* Properties                                                              *)

CleanedUp == mpc \in {"cleaned", "exited"}

\* The types of the server's globals, threads and connections; only the reset
\* in server_cleanup lets the counter go below zero.
TypeOK ==
    /\ running \in BOOLEAN /\ listening \in BOOLEAN
    /\ connections \in IF CleanedUp THEN Int ELSE Nat
    /\ mpc \in {"loop", "accept", "log", "limit", "create", "undo", "returned", "cleaned",
                "exited"}
    /\ hpc \in {"off", "log", "flag", "close", "done"}
    /\ cst \in [Clients -> {"outside", "accepted", "admitted", "leaving", "busy", "welcome",
                            "serving", "destroy", "ending", "gone"}]

\* Connections that hold a slot, and those that have a session.
Counted  == {c \in Clients : cst[c] \in {"admitted", "leaving", "welcome", "serving", "destroy",
                                         "ending"}}
Sessions == {c \in Clients : cst[c] \in {"admitted", "welcome", "serving", "destroy"}}

\* No slot is lost or given back twice on any of the four paths that
\* decrement g_current_connections, until server_cleanup resets it.
CountExact == ~ CleanedUp => connections = Cardinality(Counted)

\* There are never more sessions than max_connections, threads that are still
\* destroying theirs included, and never a step that goes over.
LimitRespected == MaxConnections > 0 => Cardinality(Sessions) <= MaxConnections

\* A client is told "too many connections" only when max_connections others
\* hold a slot at that moment.
BusyOnlyWhenFull ==
    [][\A c \in Clients :
         cst[c] # "busy" /\ cst'[c] = "busy"
            => MaxConnections > 0 /\ Cardinality(Counted) >= MaxConnections]_vars

\* Once server_stop has returned the server takes in at most the connection
\* it had already accepted.
StopsAccepting ==
    [][hpc = "done" => \A c \in Clients : cst[c] = "outside" => cst'[c] = "outside"]_vars

\* A connection that leaves its command loop gives its slot back, unless the
\* process ends first.
SlotReturned ==
    \A c \in Clients : cst[c] = "destroy" ~> (cst[c] = "gone" \/ mpc = "exited")

\* server_stop "can be called from a signal handler" (server.h:55): the signal
\* ends the server, whatever the main thread was doing.  It does not hold:
\* MCServerSignal.cfg.
StopCompletes == (hpc = "log") ~> (mpc = "exited")

\* What holds is that a signal ends the server when it does not interrupt the
\* main thread inside the logger; there the handler's own LOG_INFO
\* (server.c:387) waits for the mutex of the thread it has interrupted.
StopCompletesOutsideLogger == (hpc = "log" /\ mpc # "log") ~> (mpc = "exited")

=============================================================================
