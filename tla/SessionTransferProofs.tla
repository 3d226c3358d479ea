------------------------ MODULE SessionTransferProofs ------------------------
(***************************************************************************)
(* The safety properties of a session, for any number of transfers, any    *)
(* set of files and any commands: theorems about Spec of SessionTransfer.  *)
(*                                                                         *)
(* What the session knows of its transfer (state, handle, parameters) and  *)
(* where the thread is are two pictures of one thing, and the test of the  *)
(* state in session_start_transfer_thread is sound because they agree at   *)
(* every step (Knows).  The parameters and the file lock travel with the   *)
(* thread's position (Memory, LocksHeld), a data connection that was       *)
(* opened for a transfer lives no longer than its thread's close (Data),   *)
(* and a sender that is about to send has something to send (Remains).     *)
(***************************************************************************)
EXTENDS SessionTransfer, TLAPS

Modes   == {"none", "active", "passive"}
Results == {"none", "ok", "aborted", "conn_error", "io_error"}
States  == {"idle", "starting", "running", "completing", "aborted"}
Faults  == {"freed_session", "freed_params", "null_params"}
ClientPlaces == {"cmd", "locked", "select", "opened", "unlock", "abor", "abor_none",
                 "abor_close", "abor_reply", "rein", "destroy", "join", "gone"}
ThreadPlaces == {"none", "start", "params", "check", "loop", "pick", "io", "close",
                 "reply", "clear", "unlock", "free", "final", "idle", "log", "done"}

\* Places of the handler with a lock, and of a thread with its parameters, its
\* lock or its connection.
Commanding  == {"locked", "select", "opened", "unlock"}
Reading     == {"check", "loop", "pick", "io", "close", "reply", "clear", "unlock", "free"}
HasParams   == {"start", "params"} \cup Reading
HasLock     == HasParams \ {"free"}
UsesSocket  == {"start", "params", "check", "loop", "pick", "io", "close"}

Locals == [params : Transfers \cup {Null}, left : 0 .. MaxChunks, result : Results,
           foreign : BOOLEAN]

Types ==
    /\ data_mode \in Modes
    /\ data_socket \in Transfers \cup {Null, New}
    /\ data_listen_socket \in BOOLEAN
    /\ sock \in [Transfers -> {"none", "current", "closed", "shut"}]
    /\ transfer_should_abort \in BOOLEAN
    /\ transfer_thread_state \in States
    /\ transfer_thread \in Transfers \cup {Null}
    /\ transfer_params \in Transfers \cup {Null}
    /\ should_quit \in BOOLEAN /\ alive \in BOOLEAN
    /\ fault \in SUBSET Faults
    /\ cpc \in ClientPlaces
    /\ cmd \in [op : Ops \cup {"none"}, file : Files \cup {"none"}]
    /\ polite \in BOOLEAN
    /\ tpc \in [Transfers -> ThreadPlaces]
    /\ local \in [Transfers -> Locals]
    /\ params \in [Transfers -> [op : Ops \cup {"none"}, file : Files \cup {"none"},
                                 lock_acquired : BOOLEAN, freed : BOOLEAN]]
    /\ locks \in SUBSET [file : Files \cup {"none"}, mode : {"shared", "exclusive"},
                         by : Transfers \cup {Null}]

\* The session's picture of its transfer is where the thread is.
Knows ==
    /\ \A t \in Transfers : Working(t) =>
          /\ transfer_thread = t
          /\ transfer_thread_state \in CASE tpc[t] = "start" -> {"starting"}
                                         [] tpc[t] = "idle"  -> {"completing", "aborted"}
                                         [] OTHER            -> {"running"}
    /\ (\A t \in Transfers : ~ Working(t)) => transfer_thread_state = "idle"
    /\ \A t \in Transfers : transfer_params = t <=> tpc[t] \in HasParams
    /\ alive <=> cpc # "gone"
    /\ cpc = "gone" => \A t \in Transfers : ~ Working(t)
    /\ cpc = "rein" => \A t \in Transfers : ~ Live(t)

\* Parameters belong to the thread they were allocated for, until it frees them.
Memory ==
    /\ \A t \in Transfers : tpc[t] \in Reading => local[t].params = t
    /\ \A t \in Transfers : tpc[t] \in HasParams => ~ params[t].freed
    /\ \A t \in Transfers : params[t] # NoParams /\ ~ params[t].freed => tpc[t] \in HasParams
    /\ fault \subseteq {"freed_session"}

\* The locks are those of the command under way and of the parameters of
\* threads that have not released them.
HandlerOwns   == cpc \in Commanding /\ NeedsLock(cmd.op)
ThreadOwns(t) == tpc[t] \in HasLock /\ params[t].lock_acquired

LocksHeld ==
    /\ \A l \in locks :
          \/ HandlerOwns /\ l = LockOf(cmd, Null)
          \/ \E t \in Transfers : ThreadOwns(t) /\ l = LockOf(params[t], t)
    /\ HandlerOwns => LockOf(cmd, Null) \in locks
    /\ \A t \in Transfers : ThreadOwns(t) => LockOf(params[t], t) \in locks

\* A connection that a transfer was started with is gone after its close.
Data == \A t \in Transfers : data_socket = t => tpc[t] \in UsesSocket

\* A sender past the head of its loop has something left to send.
Remains ==
    \A t \in Transfers :
        tpc[t] \in {"pick", "io"} => Receives(params[t].op) \/ local[t].left > 0

IInv == Types /\ Knows /\ Memory /\ LocksHeld /\ Data /\ Remains

\* Threads are started in order, and the session's handle is that of the last:
\* it is this one that session_destroy joins.
Handles ==
    /\ \A t, u \in Transfers : t < u /\ tpc[u] # "none" => tpc[t] # "none"
    /\ alive => \A t \in Transfers : Live(t) => t <= transfer_thread
    /\ FreedAfterLast

\* With a client that waits for its replies, no command is under way beside a
\* transfer, and the connection is the transfer's.
Polite ==
    \A t \in Transfers :
        /\ ReplyPending(t) => /\ cpc \notin Commanding
                              /\ data_socket \in {Null, t}
        /\ ~ local[t].foreign

-----------------------------------------------------------------------------
(* What steps have in common                                               *)

LEMMA Distinct == Null \notin Transfers /\ New \notin Transfers /\ New # Null
  BY BoundsAreNat DEF Null, New, Transfers

\* Closing or replacing the data connection.
LEMMA DataGone ==
    ASSUME Types, NEW how \in {"closed", "shut"}, Retire(how)
    PROVE  sock' \in [Transfers -> {"none", "current", "closed", "shut"}]
  BY DEF Types, Retire

LEMMA InitOK == Init => IInv
<1> SUFFICES ASSUME Init PROVE IInv
  OBVIOUS
<1>1. Types
  <2>1. NoLocal \in Locals
    BY BoundsAreNat DEF NoLocal, Locals, Results
  <2>2. NoParams \in [op : Ops \cup {"none"}, file : Files \cup {"none"},
                      lock_acquired : BOOLEAN, freed : BOOLEAN]
    BY DEF NoParams
  <2> QED
    BY <2>1, <2>2 DEF Init, Types, NoCmd, Modes, States, ClientPlaces, ThreadPlaces
<1>2. Knows
  BY Distinct DEF Init, Knows, Working, Live, HasParams, Reading
<1>3. Memory
  BY DEF Init, Memory, HasParams, Reading
<1>4. LocksHeld
  BY DEF Init, LocksHeld, HandlerOwns, ThreadOwns, Commanding, HasLock, HasParams, Reading
<1>5. Data
  BY Distinct DEF Init, Data
<1>6. Remains
  BY DEF Init, Remains
<1> QED
  BY <1>1, <1>2, <1>3, <1>4, <1>5, <1>6 DEF IInv

\* A step of a handler that neither takes nor returns a lock, and leaves the
\* transfer alone but for the abort flag and the connection.
LEMMA HandlerMoves ==
    ASSUME IInv,
           UNCHANGED <<transfer_thread_state, transfer_thread, transfer_params, alive, fault, cmd,
                       polite, threadVars, heapVars>>,
           cpc # "gone", cpc' \in ClientPlaces \ {"gone"},
           cpc \in Commanding <=> cpc' \in Commanding,
           cpc' = "rein" => \A t \in Transfers : ~ Live(t),
           data_mode' \in Modes, data_listen_socket' \in BOOLEAN,
           data_socket' \in {data_socket, Null, New},
           sock' \in [Transfers -> {"none", "current", "closed", "shut"}],
           transfer_should_abort' \in BOOLEAN, should_quit' \in BOOLEAN
    PROVE  IInv'
<1> USE DEF IInv, threadVars, heapVars
<1>1. Types'
  BY DEF Types
<1>2. Knows'
  BY DEF Knows, Working, Live
<1>3. Memory'
  BY DEF Memory
<1>4. LocksHeld'
  <2>1. HandlerOwns' = HandlerOwns /\ \A t \in Transfers : ThreadOwns(t)' = ThreadOwns(t)
    BY DEF HandlerOwns, ThreadOwns
  <2> QED
    BY <2>1 DEF LocksHeld, LockOf
<1>5. Data' /\ Remains'
  BY Distinct DEF Data, Remains
<1> QED
  BY <1>1, <1>2, <1>3, <1>4, <1>5

\* A step of a thread within the transfer.
Moving == {"check", "loop", "pick", "io", "close", "reply", "clear", "unlock"}

LEMMA ThreadMoves ==
    ASSUME IInv, NEW t \in Transfers, NEW from \in Moving, NEW to \in Moving, NEW own \in Locals,
           ThreadStep(t, from, to),
           local' = [local EXCEPT ![t] = own], own.params = local[t].params,
           UNCHANGED <<transfer_thread_state, transfer_thread, transfer_params, lifeVars,
                       clientVars,
                       heapVars>>,
           data_mode' \in Modes, data_listen_socket' \in BOOLEAN,
           sock' \in [Transfers -> {"none", "current", "closed", "shut"}],
           transfer_should_abort' \in BOOLEAN,
           \/ data_socket' = Null
           \/ data_socket' = data_socket /\ (from \in UsesSocket => to \in UsesSocket),
           to \in {"pick", "io"} => Receives(params[t].op) \/ own.left > 0
    PROVE  IInv'
<1> USE DEF IInv, lifeVars, clientVars, heapVars, ThreadStep
<1>1. Types'
  BY DEF Types, Moving, ThreadPlaces
<1>2. /\ \A u \in Transfers : /\ Working(u)' = Working(u)
                              /\ Live(u)' = Live(u)
                              /\ tpc'[u] \in HasParams <=> tpc[u] \in HasParams
                              /\ tpc'[u] \in HasLock <=> tpc[u] \in HasLock
                              /\ tpc'[u] \in Reading <=> tpc[u] \in Reading
                              /\ tpc'[u] \notin {"start", "idle"} \/ tpc'[u] = tpc[u]
      /\ tpc[t] \notin {"start", "idle"} /\ Working(t)
  BY DEF Types, Moving, Working, Live, HasParams, HasLock, Reading
<1>3. Knows'
  BY <1>2 DEF Knows, Types
<1>4. Memory'
  BY <1>2 DEF Memory, Types
<1>5. LocksHeld'
  <2>1. HandlerOwns' = HandlerOwns /\ \A u \in Transfers : ThreadOwns(u)' = ThreadOwns(u)
    BY <1>2 DEF HandlerOwns, ThreadOwns
  <2> QED
    BY <2>1 DEF LocksHeld, LockOf
<1>6. Data'
  BY Distinct DEF Data, Types
<1>7. Remains'
  BY DEF Remains, Types
<1> QED
  BY <1>1, <1>3, <1>4, <1>5, <1>6, <1>7

-----------------------------------------------------------------------------
(* The client thread                                                       *)

\* The commands and handlers that leave the transfer thread and the file locks
\* alone.
LEMMA HandlerOK ==
    ASSUME IInv,
           \/ Pasv \/ Port \/ Refuse \/ OpenData \/ Accept \/ StartFails
           \/ Abor \/ AborNone \/ AborFlag \/ AborClose \/ AborReply
           \/ (Quiescent /\ Rein) \/ Quit \/ DestroyClose
    PROVE  IInv'
<1> USE DEF ClientStep, Commanding, ClientPlaces, Modes, dataVars, xferVars, lifeVars,
            ReplaceData, CloseData, Connect
<1>0. Types
  BY DEF IInv
<1>1. /\ data_mode \in Modes /\ data_listen_socket \in BOOLEAN
      /\ sock \in [Transfers -> {"none", "current", "closed", "shut"}]
      /\ transfer_should_abort \in BOOLEAN /\ should_quit \in BOOLEAN
  BY <1>0 DEF Types
<1>2. CASE Pasv
  BY <1>0, <1>1, <1>2, HandlerMoves, DataGone DEF Pasv
<1>3. CASE Port
  BY <1>0, <1>1, <1>3, HandlerMoves, DataGone DEF Port
<1>4. CASE Refuse
  BY <1>0, <1>1, <1>4, HandlerMoves DEF Refuse
<1>5. CASE OpenData
  BY <1>0, <1>1, <1>5, HandlerMoves DEF OpenData
<1>6. CASE Accept
  BY <1>0, <1>1, <1>6, HandlerMoves DEF Accept
<1>7. CASE StartFails
  BY <1>0, <1>1, <1>7, HandlerMoves, DataGone DEF StartFails
<1>8. CASE Abor
  BY <1>0, <1>1, <1>8, HandlerMoves DEF Abor
<1>9. CASE AborNone
  BY <1>0, <1>1, <1>9, HandlerMoves, DataGone DEF AborNone
<1>10. CASE AborFlag
  BY <1>0, <1>1, <1>10, HandlerMoves DEF AborFlag
<1>11. CASE AborClose
  BY <1>0, <1>1, <1>11, HandlerMoves, DataGone DEF AborClose
<1>12. CASE AborReply
  BY <1>0, <1>1, <1>12, HandlerMoves DEF AborReply
<1>13. CASE Quit
  BY <1>0, <1>1, <1>13, HandlerMoves DEF Quit
<1>14. CASE DestroyClose
  BY <1>0, <1>1, <1>14, HandlerMoves, DataGone DEF DestroyClose
<1>15. CASE Quiescent /\ Rein
  BY <1>0, <1>1, <1>15, HandlerMoves, DataGone DEF Rein, Quiescent
<1> QED
  BY <1>2, <1>3, <1>4, <1>5, <1>6, <1>7, <1>8, <1>9, <1>10, <1>11, <1>12, <1>13, <1>14, <1>15

\* A transfer command takes its lock.
LEMMA CommandOK ==
    ASSUME IInv, NEW op, NEW f \in Files \cup {"none"}, TransferCommand(op, f)
    PROVE  IInv'
<1> USE DEF IInv, ClientStep, dataVars, xferVars, lifeVars, threadVars
<1> DEFINE c == [op |-> op, file |-> f]
<1>1. /\ cpc = "cmd" /\ cpc' = "locked" /\ cmd' = c /\ op \in Ops
      /\ polite' = polite
      /\ UNCHANGED <<dataVars, xferVars, lifeVars, threadVars, params>>
      /\ locks' = IF NeedsLock(op) THEN locks \cup {LockOf(c, Null)} ELSE locks
  BY DEF TransferCommand
<1>2. Types'
  BY <1>1 DEF Types, ClientPlaces, LockOf, LockMode
<1>3. Knows'
  BY <1>1 DEF Knows, Working, Live
<1>4. Memory'
  BY <1>1 DEF Memory
<1>5. LocksHeld'
  <2>1. ~ HandlerOwns /\ (HandlerOwns' <=> NeedsLock(op))
        /\ \A t \in Transfers : ThreadOwns(t)' = ThreadOwns(t)
    BY <1>1 DEF HandlerOwns, ThreadOwns, Commanding
  <2> QED
    BY <1>1, <2>1 DEF LocksHeld
<1>6. Data' /\ Remains'
  BY <1>1 DEF Data, Remains
<1> QED
  BY <1>2, <1>3, <1>4, <1>5, <1>6

\* A handler that started no thread gives its lock back.
LEMMA UnlockOK == ASSUME IInv, HandlerUnlock PROVE IInv'
<1> USE DEF IInv, ClientStep, dataVars, xferVars, lifeVars, threadVars
<1>1. /\ cpc = "unlock" /\ cpc' = "cmd" /\ cmd' = NoCmd /\ polite' = polite
      /\ UNCHANGED <<dataVars, xferVars, lifeVars, threadVars, params>>
      /\ locks' = locks \ {LockOf(cmd, Null)}
  BY DEF HandlerUnlock
<1>2. Types'
  BY <1>1 DEF Types, ClientPlaces, NoCmd
<1>3. Knows'
  BY <1>1 DEF Knows, Working, Live
<1>4. Memory'
  BY <1>1 DEF Memory
<1>5. LocksHeld'
  <2>1. ~ HandlerOwns' /\ \A t \in Transfers : ThreadOwns(t)' = ThreadOwns(t)
    BY <1>1 DEF HandlerOwns, ThreadOwns, Commanding
  <2>2. \A t \in Transfers : LockOf(params[t], t) # LockOf(cmd, Null)
    BY Distinct DEF LockOf
  <2> QED
    BY <1>1, <2>1, <2>2 DEF LocksHeld
<1>6. Data' /\ Remains'
  BY <1>1 DEF Data, Remains
<1> QED
  BY <1>2, <1>3, <1>4, <1>5, <1>6

\* The start of a thread: parameters and lock change hands.
LEMMA StartOK == ASSUME IInv, StartTransfer PROVE IInv'
<1> USE DEF IInv
<1>1. PICK t \in Transfers : transfer_thread_state = "idle" /\ LaunchThread(t)
  BY DEF StartTransfer
<1> DEFINE own == [op |-> cmd.op, file |-> cmd.file,
                   lock_acquired |-> NeedsLock(cmd.op), freed |-> FALSE]
<1>2. /\ tpc[t] = "none" /\ cpc = "opened" /\ cpc' = "cmd" /\ cmd' = NoCmd
      /\ polite' = polite
      /\ params' = [params EXCEPT ![t] = own]
      /\ locks' = IF NeedsLock(cmd.op)
                  THEN (locks \ {LockOf(cmd, Null)}) \cup {LockOf(cmd, t)} ELSE locks
      /\ transfer_params' = t /\ transfer_thread' = t /\ transfer_thread_state' = "starting"
      /\ tpc' = [tpc EXCEPT ![t] = "start"]
      /\ data_socket' = IF data_socket = New THEN t ELSE data_socket
      /\ UNCHANGED <<data_mode, data_listen_socket, sock, transfer_should_abort, should_quit, alive,
                     fault, local>>
  BY <1>1 DEF LaunchThread, ClientStep, lifeVars
<1>3. \A u \in Transfers : ~ Working(u)
  BY <1>1 DEF Knows, Types
<1>4. \A u \in Transfers : tpc[u] \notin HasParams
  BY <1>3 DEF Working, HasParams, Reading, Types
<1>5. Types'
  BY <1>2, Distinct DEF Types, ClientPlaces, ThreadPlaces, States, NoCmd, LockOf, LockMode,
                        NeedsLock
<1>6. Knows'
  <2>1. \A u \in Transfers : /\ Working(u)' => u = t
                             /\ tpc'[u] \in HasParams <=> u = t
    BY <1>2, <1>3, <1>4 DEF Working, HasParams, Types
  <2>2. Working(t)' /\ tpc'[t] = "start"
    BY <1>2 DEF Working, Types
  <2> QED
    BY <1>2, <2>1, <2>2 DEF Knows
<1>7. Memory'
  BY <1>2, <1>4 DEF Memory, Types, Reading, HasParams
<1>8. LocksHeld'
  <2>1. HandlerOwns <=> NeedsLock(cmd.op)
    BY <1>2 DEF HandlerOwns, Commanding
  <2>2. ~ HandlerOwns'
    BY <1>2 DEF HandlerOwns, Commanding
  <2>3. \A u \in Transfers : ~ ThreadOwns(u) /\ (ThreadOwns(u)' <=> u = t /\ NeedsLock(cmd.op))
    BY <1>2, <1>4 DEF ThreadOwns, HasLock, HasParams, Types
  <2>4. params'[t] = own /\ LockOf(own, t) = LockOf(cmd, t)
    BY <1>2 DEF Types, LockOf
  <2>5. \A l \in locks : NeedsLock(cmd.op) /\ l = LockOf(cmd, Null)
    BY <2>1, <2>3 DEF LocksHeld
  <2>6. locks' = IF NeedsLock(cmd.op) THEN {LockOf(params'[t], t)} ELSE {}
    BY <1>2, <2>4, <2>5
  <2> QED
    BY <2>2, <2>3, <2>6 DEF LocksHeld
<1>9. Data'
  <2>1. \A u \in Transfers : data_socket # u
    BY <1>4 DEF Data, UsesSocket, HasParams, Reading
  <2> QED
    BY <1>2, <2>1, Distinct DEF Data, UsesSocket, Types
<1>10. Remains'
  BY <1>2 DEF Remains, Types
<1> QED
  BY <1>5, <1>6, <1>7, <1>8, <1>9, <1>10

\* REIN, once no thread is left, forgets the last one.
LEMMA ResetOK == ASSUME IInv, ReinReset PROVE IInv'
<1> USE DEF IInv, lifeVars, threadVars, heapVars
<1>1. /\ cpc = "rein" /\ cpc' = "cmd" /\ polite' = polite
      /\ data_mode' = "none" /\ data_socket' = Null /\ data_listen_socket' = FALSE
      /\ transfer_should_abort' = FALSE /\ transfer_thread' = Null
      /\ transfer_thread_state' = "idle" /\ transfer_params' = Null
      /\ UNCHANGED <<sock, lifeVars, cmd, threadVars, heapVars>>
  BY DEF ReinReset, ClientStep
<1>2. \A t \in Transfers : ~ Working(t) /\ tpc[t] \notin HasParams
  BY <1>1 DEF Knows, Live, Working, HasParams, Reading
<1>3. Types'
  BY <1>1 DEF Types, ClientPlaces, Modes, States
<1>4. Knows'
  BY <1>1, <1>2, Distinct DEF Knows, Working
<1>5. Memory'
  BY <1>1 DEF Memory
<1>6. LocksHeld'
  <2>1. ~ HandlerOwns /\ ~ HandlerOwns' /\ \A t \in Transfers : ThreadOwns(t)' = ThreadOwns(t)
    BY <1>1 DEF HandlerOwns, ThreadOwns, Commanding
  <2> QED
    BY <1>1, <2>1 DEF LocksHeld
<1>7. Data' /\ Remains'
  BY <1>1, Distinct DEF Data, Remains
<1> QED
  BY <1>3, <1>4, <1>5, <1>6, <1>7

\* The join: the handle is that of the only thread that may have work left.
LEMMA FreeOK == ASSUME IInv, JoinAndFree PROVE IInv'
<1> USE DEF IInv, dataVars, threadVars, heapVars
<1>1. /\ cpc = "join" /\ cpc' = "gone" /\ polite' = polite /\ alive' = FALSE /\ transfer_thread' = Null
      /\ transfer_thread # Null => tpc[transfer_thread] = "done"
      /\ UNCHANGED <<dataVars, transfer_should_abort, transfer_thread_state, transfer_params,
                     should_quit, fault, cmd, threadVars, heapVars>>
  BY DEF JoinAndFree, ClientStep
<1>2. \A t \in Transfers : ~ Working(t)
  BY <1>1, Distinct DEF Knows, Working
<1>3. Types'
  BY <1>1 DEF Types, ClientPlaces
<1>4. Knows'
  BY <1>1, <1>2 DEF Knows, Working
<1>5. Memory'
  BY <1>1 DEF Memory
<1>6. LocksHeld'
  <2>1. ~ HandlerOwns /\ ~ HandlerOwns' /\ \A t \in Transfers : ThreadOwns(t)' = ThreadOwns(t)
    BY <1>1 DEF HandlerOwns, ThreadOwns, Commanding
  <2> QED
    BY <1>1, <2>1 DEF LocksHeld
<1>7. Data' /\ Remains'
  BY <1>1 DEF Data, Remains
<1> QED
  BY <1>3, <1>4, <1>5, <1>6, <1>7

-----------------------------------------------------------------------------
(* The transfer threads                                                    *)

\* What a thread does between taking its parameters and giving its lock back.
LEMMA LoopOK ==
    ASSUME IInv, NEW t \in Transfers,
           \/ CheckSocket(t) \/ LoopHead(t) \/ PickSocket(t) \/ SocketGone(t) \/ ThreadClose(t)
           \/ Reply(t) \/ ClearAbort(t) \/ Chunk(t) \/ ClientEof(t) \/ ClientReset(t)
    PROVE  IInv'
<1> USE DEF dataVars, xferVars
<1>0. Types
  BY DEF IInv
<1>1. /\ local[t] \in Locals
      /\ data_mode \in Modes /\ data_listen_socket \in BOOLEAN
      /\ sock \in [Transfers -> {"none", "current", "closed", "shut"}]
      /\ transfer_should_abort \in BOOLEAN
  BY <1>0 DEF Types
<1>2. ASSUME NEW own \in Locals, local' = [local EXCEPT ![t] = own], own.params = local[t].params,
             NEW from \in Moving, NEW to \in Moving, ThreadStep(t, from, to),
             from \in UsesSocket => to \in UsesSocket,
             to \in {"pick", "io"} => Receives(params[t].op) \/ own.left > 0,
             UNCHANGED <<data_mode, data_socket, data_listen_socket, xferVars, lifeVars, clientVars,
                         heapVars>>,
             sock' \in [Transfers -> {"none", "current", "closed", "shut"}]
      PROVE  IInv'
  BY <1>1, <1>2, ThreadMoves
<1>3. ASSUME NEW n \in 0 .. MaxChunks, local' = [local EXCEPT ![t].left = n]
      PROVE  \E own \in Locals : /\ local' = [local EXCEPT ![t] = own]
                                 /\ own.params = local[t].params
  <2> DEFINE own == [local[t] EXCEPT !.left = n]
  <2>1. own \in Locals /\ own.params = local[t].params
    BY <1>1 DEF Locals
  <2>2. local' = [local EXCEPT ![t] = own]
    BY <1>3
  <2> HIDE DEF own
  <2> QED
    BY <2>1, <2>2
<1>4. ASSUME NEW status \in Results, Ends(t, status)
      PROVE  \E own \in Locals : /\ local' = [local EXCEPT ![t] = own]
                                 /\ own.params = local[t].params
  <2> DEFINE own == [local[t] EXCEPT !.result = status, !.left = 0]
  <2>1. 0 \in 0 .. MaxChunks
    BY BoundsAreNat
  <2>2. own \in Locals
    BY <1>1, <2>1 DEF Locals
  <2>3. own.params = local[t].params
    BY <1>1 DEF Locals
  <2>4. local' = [local EXCEPT ![t] = own]
    BY <1>0, <1>4 DEF Ends, Types, Locals
  <2> HIDE DEF own
  <2> QED
    BY <2>2, <2>3, <2>4
<1>5. Failed \in Results /\ EndOfStream \in Results
      /\ {"conn_error", "io_error", "ok", "aborted"} \subseteq Results
  BY DEF Failed, EndOfStream, Results
<1>6. local' = local => \E own \in Locals : /\ local' = [local EXCEPT ![t] = own]
                                            /\ own.params = local[t].params
  BY <1>0, <1>1 DEF Types
<1>7. Returns(t) => /\ sock' \in [Transfers -> {"none", "current", "closed", "shut"}]
                    /\ UNCHANGED <<data_mode, data_socket, data_listen_socket>>
  BY <1>1 DEF Returns
<1>8. /\ Moving = {"check", "loop", "pick", "io", "close", "reply", "clear", "unlock"}
      /\ {"check", "loop", "pick", "io", "close"} \subseteq UsesSocket
      /\ {"reply", "clear", "unlock"} \cap UsesSocket = {}
  BY DEF Moving, UsesSocket
<1>8a. /\ tpc[t] \in Moving => Op(t) = params[t].op
       /\ tpc[t] \in {"pick", "io"} => Receives(Op(t)) \/ local[t].left > 0
  BY Distinct DEF IInv, Memory, Remains, Moving, Reading, Op
<1>9. CASE CheckSocket(t)
  BY <1>1, <1>2, <1>3, <1>4, <1>5, <1>8, <1>9 DEF CheckSocket
<1>10. CASE LoopHead(t)
  <2>1. CASE \E status \in {"ok", "aborted", "io_error"} :
                ThreadStep(t, "loop", "close") /\ Ends(t, status)
    BY <1>1, <1>2, <1>4, <1>5, <1>8, <1>10, <2>1 DEF LoopHead
  <2>2. CASE /\ ThreadStep(t, "loop", "pick") /\ UNCHANGED local
             /\ Receives(Op(t)) \/ local[t].left # 0
    <3>1. Receives(params[t].op) \/ local[t].left > 0
      BY <1>1, <1>8a, <2>2 DEF Locals, ThreadStep, Moving
    <3>2. local' = [local EXCEPT ![t] = local[t]]
      BY <1>0, <2>2 DEF Types
    <3> QED
      BY <1>1, <1>2, <1>8, <1>10, <2>2, <3>1, <3>2 DEF LoopHead
  <2> QED
    BY <1>10, <2>1, <2>2 DEF LoopHead
<1>11. CASE PickSocket(t)
  <2> DEFINE own == [local[t] EXCEPT !.foreign = @ \/ data_socket \notin {Null, t}]
  <2>1. own \in Locals /\ own.params = local[t].params
    BY <1>1 DEF Locals
  <2>2. local' = [local EXCEPT ![t] = own]
    BY <1>11 DEF PickSocket
  <2>3. sock' \in [Transfers -> {"none", "current", "closed", "shut"}]
    BY <1>1, <1>11 DEF PickSocket
  <2>4. own.left = local[t].left
    BY <1>1 DEF Locals
  <2>5. Receives(params[t].op) \/ own.left > 0
    BY <1>8a, <1>11, <2>4 DEF PickSocket, ThreadStep, Moving
  <2> HIDE DEF own
  <2> QED
    BY <1>2, <1>8, <1>11, <2>1, <2>2, <2>3, <2>5 DEF PickSocket
<1>12. CASE SocketGone(t)
  BY <1>2, <1>4, <1>5, <1>7, <1>8, <1>12 DEF SocketGone
<1>13. CASE ThreadClose(t)
  <2>1. sock' \in [Transfers -> {"none", "current", "closed", "shut"}]
    BY <1>0, <1>13, DataGone DEF ThreadClose, CloseData
  <2> QED
    BY <1>1, <1>6, <1>8, <1>13, <2>1, ThreadMoves DEF ThreadClose, CloseData, Modes
<1>14. CASE Reply(t)
  BY <1>1, <1>2, <1>6, <1>8, <1>14 DEF Reply
<1>15. CASE ClearAbort(t)
  BY <1>1, <1>6, <1>8, <1>15, ThreadMoves DEF ClearAbort
<1>16. CASE Chunk(t)
  <2>1. CASE ThreadStep(t, "io", "loop") /\ local' = [local EXCEPT ![t].left = @ - 1]
    <3>1. local[t].left - 1 \in 0 .. MaxChunks
      BY <1>1, <1>8a, <1>16, <2>1, BoundsAreNat DEF Chunk, Locals, ThreadStep
    <3> QED
      BY <1>2, <1>3, <1>7, <1>8, <1>16, <2>1, <3>1 DEF Chunk
  <2>2. CASE ThreadStep(t, "io", "close") /\ Ends(t, "io_error")
    BY <1>2, <1>4, <1>5, <1>7, <1>8, <1>16, <2>2 DEF Chunk
  <2> QED
    BY <1>16, <2>1, <2>2 DEF Chunk
<1>17. CASE ClientEof(t)
  BY <1>2, <1>4, <1>5, <1>7, <1>8, <1>17 DEF ClientEof
<1>18. CASE ClientReset(t)
  BY <1>2, <1>4, <1>5, <1>7, <1>8, <1>18 DEF ClientReset
<1> QED
  BY <1>9, <1>10, <1>11, <1>12, <1>13, <1>14, <1>15, <1>16, <1>17, <1>18

\* A thread announces itself, ends, or becomes idle: it sets the state as it goes.
LEMMA StateOK ==
    ASSUME IInv, NEW t \in Transfers, Run(t) \/ FinalState(t) \/ BecomeIdle(t)
    PROVE  IInv'
<1> USE DEF IInv, lifeVars, clientVars, heapVars, dataVars, ThreadStep
<1>1. PICK from \in {"start", "final", "idle"}, to \in {"params", "idle", "log"}, state \in States :
         /\ tpc[t] = from /\ tpc' = [tpc EXCEPT ![t] = to]
         /\ transfer_thread_state' = state
         /\ \/ from = "start" /\ to = "params" /\ state = "running"
            \/ from = "final" /\ to = "idle" /\ state \in {"completing", "aborted"}
            \/ from = "idle" /\ to = "log" /\ state = "idle"
         /\ UNCHANGED <<dataVars, transfer_should_abort, transfer_thread, transfer_params,
                        lifeVars, clientVars, local, heapVars>>
  <2>1. CASE Run(t)
    BY <2>1 DEF Run, States
  <2>2. CASE FinalState(t)
    BY <2>2 DEF FinalState, SetState, States
  <2>3. CASE BecomeIdle(t)
    BY <2>3 DEF BecomeIdle, SetState, States
  <2> QED
    BY <2>1, <2>2, <2>3
<1>2. Types'
  BY <1>1 DEF Types, ThreadPlaces
<1>3. \A u \in Transfers : /\ tpc'[u] \in HasParams <=> tpc[u] \in HasParams
                           /\ tpc'[u] \in HasLock <=> tpc[u] \in HasLock
                           /\ tpc'[u] \in Reading <=> tpc[u] \in Reading
                           /\ tpc[u] \in UsesSocket => tpc'[u] \in UsesSocket
                           /\ Working(u)' => Working(u)
                           /\ u # t => tpc'[u] = tpc[u] /\ Working(u)' = Working(u)
  BY <1>1 DEF Types, HasParams, HasLock, Reading, UsesSocket, Working
<1>4. Knows'
  <2>1. Working(t) /\ \A u \in Transfers : Working(u) => u = t
    BY <1>1 DEF Knows, Working
  <2>2. Working(t)' <=> tpc'[t] # "log"
    BY <1>1 DEF Types, Working
  <2>3. cpc # "gone" /\ cpc # "rein"
    BY <2>1 DEF Knows, Working, Live
  <2>4. \/ tpc'[t] = "params" /\ transfer_thread_state' = "running"
        \/ tpc'[t] = "idle" /\ transfer_thread_state' \in {"completing", "aborted"}
        \/ tpc'[t] = "log" /\ transfer_thread_state' = "idle"
    BY <1>1 DEF Types
  <2> QED
    BY <1>1, <1>3, <2>1, <2>2, <2>3, <2>4 DEF Knows
<1>5. Memory'
  BY <1>1, <1>3 DEF Memory
<1>6. LocksHeld'
  <2>1. HandlerOwns' = HandlerOwns /\ \A u \in Transfers : ThreadOwns(u)' = ThreadOwns(u)
    BY <1>1, <1>3 DEF HandlerOwns, ThreadOwns
  <2> QED
    BY <1>1, <2>1 DEF LocksHeld
<1>7. Data' /\ Remains'
  BY <1>1, <1>3 DEF Data, Remains, Types
<1> QED
  BY <1>2, <1>4, <1>5, <1>6, <1>7

\* A thread takes its parameters: those of the session are its own.
LEMMA ParamsOK == ASSUME IInv, NEW t \in Transfers, ReadParams(t) PROVE IInv'
<1> USE DEF IInv, xferVars, clientVars, heapVars, dataVars
<1>1. /\ tpc[t] = "params" /\ tpc' = [tpc EXCEPT ![t] = "check"]
      /\ local' = [local EXCEPT ![t].params = transfer_params]
      /\ fault' = IF transfer_params = Null THEN {"null_params"} ELSE {}
      /\ UNCHANGED <<dataVars, xferVars, should_quit, alive, clientVars, heapVars>>
  BY DEF ReadParams, ThreadStep
<1>2. transfer_params = t /\ fault' = {}
  BY <1>1, Distinct DEF Knows, HasParams
<1>3. Types'
  <2> DEFINE own == [local[t] EXCEPT !.params = transfer_params]
  <2>1. own \in Locals /\ local' = [local EXCEPT ![t] = own]
    BY <1>1 DEF Types, Locals
  <2> HIDE DEF own
  <2>2. local' \in [Transfers -> Locals]
    BY <2>1 DEF Types
  <2>3. tpc' \in [Transfers -> ThreadPlaces] /\ fault' \in SUBSET Faults
    BY <1>1, <1>2 DEF Types, ThreadPlaces
  <2> QED
    BY <1>1, <2>2, <2>3 DEF Types
<1>4. \A u \in Transfers : /\ tpc'[u] \in HasParams <=> tpc[u] \in HasParams
                           /\ tpc'[u] \in HasLock <=> tpc[u] \in HasLock
                           /\ tpc'[u] \in Reading <=> u = t \/ tpc[u] \in Reading
                           /\ tpc[u] \in UsesSocket => tpc'[u] \in UsesSocket
                           /\ Working(u)' = Working(u) /\ Live(u)' = Live(u)
                           /\ u # t => tpc'[u] = tpc[u] /\ local'[u] = local[u]
      /\ Working(t) /\ tpc'[t] = "check" /\ local'[t].params = t
  BY <1>1, <1>2 DEF Types, Locals, HasParams, HasLock, Reading, UsesSocket, Working, Live
<1>5. Knows'
  BY <1>1, <1>4 DEF Knows
<1>6. Memory'
  BY <1>1, <1>2, <1>4 DEF Memory
<1>7. LocksHeld'
  <2>1. HandlerOwns' = HandlerOwns /\ \A u \in Transfers : ThreadOwns(u)' = ThreadOwns(u)
    BY <1>1, <1>4 DEF HandlerOwns, ThreadOwns
  <2> QED
    BY <1>1, <2>1 DEF LocksHeld
<1>8. Data' /\ Remains'
  BY <1>1, <1>4 DEF Data, Remains
<1> QED
  BY <1>3, <1>5, <1>6, <1>7, <1>8

\* A thread gives its lock back, if it has one.
LEMMA ReleaseOK == ASSUME IInv, NEW t \in Transfers, ThreadUnlock(t) PROVE IInv'
<1> USE DEF IInv, xferVars, clientVars, dataVars
<1>1. /\ tpc[t] = "unlock" /\ tpc' = [tpc EXCEPT ![t] = "free"]
      /\ UNCHANGED <<dataVars, xferVars, should_quit, alive, clientVars, local>>
  BY DEF ThreadUnlock, ThreadStep
<1>2. local[t].params = t /\ ~ params[t].freed
  BY <1>1 DEF Memory, Reading, HasParams
<1>3. /\ fault' = fault
      /\ params' = [params EXCEPT ![t].lock_acquired = FALSE]
      /\ locks' = IF params[t].lock_acquired THEN locks \ {LockOf(params[t], t)} ELSE locks
  <2>1. CASE params[t].lock_acquired
    BY <1>2, <2>1 DEF ThreadUnlock
  <2>2. CASE ~ params[t].lock_acquired
    <3>1. params = [params EXCEPT ![t].lock_acquired = FALSE]
      BY <2>2 DEF Types
    <3> QED
      BY <1>2, <2>2, <3>1 DEF ThreadUnlock, heapVars
  <2> QED
    BY <2>1, <2>2
<1>4. Types'
  <2>1. tpc' \in [Transfers -> ThreadPlaces] /\ fault' \in SUBSET Faults
    BY <1>1, <1>3 DEF Types, ThreadPlaces
  <2>1a. params' \in [Transfers -> [op : Ops \cup {"none"}, file : Files \cup {"none"},
                                  lock_acquired : BOOLEAN, freed : BOOLEAN]]
    <3> DEFINE block == [params[t] EXCEPT !.lock_acquired = FALSE]
    <3>1. params' = [params EXCEPT ![t] = block]
      BY <1>3 DEF Types
    <3>1a. params[t] \in [op : Ops \cup {"none"}, file : Files \cup {"none"},
                         lock_acquired : BOOLEAN, freed : BOOLEAN]
      BY DEF Types
    <3>2. block \in [op : Ops \cup {"none"}, file : Files \cup {"none"},
                    lock_acquired : BOOLEAN, freed : BOOLEAN]
      BY <3>1a
    <3> HIDE DEF block
    <3> QED
      BY <3>1, <3>2 DEF Types
  <2>2. locks' \in SUBSET [file : Files \cup {"none"}, mode : {"shared", "exclusive"},
                          by : Transfers \cup {Null}]
    BY <1>3 DEF Types
  <2> QED
    BY <1>1, <2>1, <2>1a, <2>2 DEF Types
<1>5. \A u \in Transfers : /\ tpc'[u] \in HasParams <=> tpc[u] \in HasParams
                           /\ tpc'[u] \in HasLock <=> u # t /\ tpc[u] \in HasLock
                           /\ tpc'[u] \in Reading <=> tpc[u] \in Reading
                           /\ tpc[u] \in UsesSocket => tpc'[u] \in UsesSocket
                           /\ Working(u)' = Working(u) /\ Live(u)' = Live(u)
                           /\ u # t => tpc'[u] = tpc[u] /\ params'[u] = params[u]
                           /\ params'[u].freed = params[u].freed
      /\ Working(t) /\ tpc'[t] = "free" /\ tpc[t] \in HasParams /\ tpc[t] \in HasLock
  BY <1>1, <1>3 DEF Types, HasParams, HasLock, Reading, UsesSocket, Working, Live
<1>6. Knows'
  BY <1>1, <1>5 DEF Knows
<1>7. Memory'
  BY <1>1, <1>3, <1>5 DEF Memory
<1>8. LocksHeld'
  <2>1. HandlerOwns' = HandlerOwns
    BY <1>1 DEF HandlerOwns
  <2>2. ThreadOwns(t) = params[t].lock_acquired
    BY <1>5 DEF ThreadOwns, Types
  <2>3. \A u \in Transfers : ThreadOwns(u)' <=> u # t /\ ThreadOwns(u)
    BY <1>5 DEF ThreadOwns
  <2>4. \A u \in Transfers : u # t => LockOf(params'[u], u) = LockOf(params[u], u)
    BY <1>5
  <2>5. /\ LockOf(cmd, Null) # LockOf(params[t], t)
        /\ \A u \in Transfers : u # t => LockOf(params[u], u) # LockOf(params[t], t)
    BY Distinct DEF LockOf
  <2> QED
    BY <1>1, <1>3, <2>1, <2>2, <2>3, <2>4, <2>5 DEF LocksHeld
<1>9. Data'
  BY <1>1, <1>5 DEF Data
<1>10. Remains'
  BY <1>1, <1>5 DEF Remains
<1> QED
  BY <1>4, <1>6, <1>7, <1>8, <1>9, <1>10

\* A thread frees its parameters.
LEMMA FreeParamsOK == ASSUME IInv, NEW t \in Transfers, FreeParams(t) PROVE IInv'
<1> USE DEF IInv, lifeVars, clientVars, dataVars
<1> DEFINE gone == [NoParams EXCEPT !.freed = TRUE]
<1>1. /\ tpc[t] = "free" /\ tpc' = [tpc EXCEPT ![t] = "final"]
      /\ transfer_params' = Null
      /\ UNCHANGED <<dataVars, transfer_should_abort, transfer_thread_state, transfer_thread,
                     lifeVars, clientVars, local, locks>>
  BY DEF FreeParams, ThreadStep
<1>2. transfer_params = t
  BY <1>1 DEF Knows, HasParams, Reading
<1>3. params' = [params EXCEPT ![t] = gone]
  BY <1>2, Distinct DEF FreeParams
<1>4. /\ gone \in [op : Ops \cup {"none"}, file : Files \cup {"none"},
                   lock_acquired : BOOLEAN, freed : BOOLEAN]
      /\ gone.freed = TRUE
  BY DEF NoParams
<1> HIDE DEF gone
<1>5. Types'
  BY <1>1, <1>3, <1>4 DEF Types, ThreadPlaces
<1>6. \A u \in Transfers : /\ tpc'[u] \in HasParams <=> u # t /\ tpc[u] \in HasParams
                           /\ tpc'[u] \in HasLock <=> tpc[u] \in HasLock
                           /\ tpc'[u] \in Reading <=> u # t /\ tpc[u] \in Reading
                           /\ tpc[u] \in UsesSocket => tpc'[u] \in UsesSocket
                           /\ Working(u)' = Working(u) /\ Live(u)' = Live(u)
                           /\ u # t => tpc'[u] = tpc[u] /\ params'[u] = params[u]
      /\ Working(t) /\ tpc'[t] = "final" /\ tpc[t] \notin HasLock /\ params'[t] = gone
  BY <1>1, <1>3 DEF Types, HasParams, HasLock, Reading, UsesSocket, Working, Live
<1>7. Knows'
  BY <1>1, <1>2, <1>6, Distinct DEF Knows
<1>8. Memory'
  BY <1>1, <1>4, <1>6 DEF Memory
<1>9. LocksHeld'
  <2>1. HandlerOwns' = HandlerOwns
    BY <1>1 DEF HandlerOwns
  <2>2. ~ ThreadOwns(t) /\ ~ ThreadOwns(t)'
    BY <1>6 DEF ThreadOwns
  <2>3. \A u \in Transfers : u # t => ThreadOwns(u)' = ThreadOwns(u)
    BY <1>6 DEF ThreadOwns
  <2>4. \A u \in Transfers : u # t => LockOf(params'[u], u) = LockOf(params[u], u)
    BY <1>6
  <2> QED
    BY <1>1, <2>1, <2>2, <2>3, <2>4 DEF LocksHeld
<1>10. Data' /\ Remains'
  BY <1>1, <1>6 DEF Data, Remains
<1> QED
  BY <1>5, <1>7, <1>8, <1>9, <1>10

\* The last line of a thread.
LEMMA ExitOK == ASSUME IInv, NEW t \in Transfers, LogAndExit(t) PROVE IInv'
<1> USE DEF IInv, xferVars, lifeVars, clientVars, heapVars, dataVars
<1>1. /\ tpc[t] = "log" /\ tpc' = [tpc EXCEPT ![t] = "done"]
      /\ local' = [local EXCEPT ![t] = NoLocal]
      /\ UNCHANGED <<dataVars, xferVars, lifeVars, clientVars, heapVars>>
  BY DEF LogAndExit, ThreadStep
<1>2. NoLocal \in Locals
  BY BoundsAreNat DEF NoLocal, Locals, Results
<1>3. Types'
  BY <1>1, <1>2 DEF Types, ThreadPlaces
<1>4. \A u \in Transfers : /\ tpc'[u] \in HasParams <=> tpc[u] \in HasParams
                           /\ tpc'[u] \in HasLock <=> tpc[u] \in HasLock
                           /\ tpc'[u] \in Reading <=> u # t /\ tpc[u] \in Reading
                           /\ tpc[u] \in UsesSocket => tpc'[u] \in UsesSocket
                           /\ Working(u)' = Working(u) /\ (Live(u)' => Live(u))
                           /\ u # t => tpc'[u] = tpc[u] /\ local'[u] = local[u]
      /\ ~ Working(t)
  BY <1>1 DEF Types, HasParams, HasLock, Reading, UsesSocket, Working, Live
<1>5. Knows'
  BY <1>1, <1>4 DEF Knows
<1>6. Memory'
  BY <1>1, <1>4 DEF Memory
<1>7. LocksHeld'
  <2>1. HandlerOwns' = HandlerOwns /\ \A u \in Transfers : ThreadOwns(u)' = ThreadOwns(u)
    BY <1>1, <1>4 DEF HandlerOwns, ThreadOwns
  <2> QED
    BY <1>1, <2>1 DEF LocksHeld
<1>8. Data' /\ Remains'
  BY <1>1, <1>4 DEF Data, Remains
<1> QED
  BY <1>3, <1>5, <1>6, <1>7, <1>8

\* A log line on a session that was freed.
LEMMA FreedOK == ASSUME IInv, NEW t \in Transfers, UseFreedSession(t) PROVE IInv'
<1> USE DEF IInv, xferVars, clientVars, threadVars, heapVars, dataVars
<1>1. /\ fault' = {"freed_session"}
      /\ UNCHANGED <<dataVars, xferVars, should_quit, alive, clientVars, threadVars, heapVars>>
  BY DEF UseFreedSession
<1>2. Types'
  BY <1>1 DEF Types, Faults
<1>3. Knows'
  BY <1>1 DEF Knows, Working, Live
<1>4. Memory'
  BY <1>1 DEF Memory
<1>5. LocksHeld'
  <2>1. HandlerOwns' = HandlerOwns /\ \A u \in Transfers : ThreadOwns(u)' = ThreadOwns(u)
    BY <1>1 DEF HandlerOwns, ThreadOwns
  <2> QED
    BY <1>1, <2>1 DEF LocksHeld
<1>6. Data' /\ Remains'
  BY <1>1 DEF Data, Remains
<1> QED
  BY <1>2, <1>3, <1>4, <1>5, <1>6

-----------------------------------------------------------------------------
(* The theorems                                                            *)

LEMMA StepOK == ASSUME IInv, [Next]_vars PROVE IInv'
<1>1. CASE Handler
  BY <1>1, HandlerOK, StartOK, UnlockOK, ResetOK, FreeOK DEF Handler
<1>2. CASE Abor \/ Quit \/ (Quiescent /\ Rein)
  BY <1>2, HandlerOK
<1>3. CASE Setup
  <2>1. ASSUME NEW f \in Files, Retr(f) \/ Stor(f) \/ Appe(f)
        PROVE  IInv'
    BY <2>1, CommandOK DEF Retr, Stor, Appe
  <2>2. ASSUME List \/ Nlst PROVE IInv'
    BY <2>2, CommandOK DEF List, Nlst
  <2> QED
    BY <1>3, <2>1, <2>2, HandlerOK DEF Setup
<1>4. ASSUME NEW t \in Transfers, Thread(t) \/ Peer(t) \/ UseFreedSession(t)
      PROVE  IInv'
  BY <1>4, LoopOK, StateOK, ParamsOK, ReleaseOK, FreeParamsOK, ExitOK, FreedOK DEF Thread, Peer
<1>5. CASE UNCHANGED vars
  <2> USE DEF vars, dataVars, xferVars, lifeVars, clientVars, threadVars, heapVars
  <2>1. Types' /\ Memory' /\ Data' /\ Remains'
    BY <1>5 DEF IInv, Types, Memory, Data, Remains
  <2>2. Knows'
    BY <1>5 DEF IInv, Knows, Working, Live
  <2>3. LocksHeld'
    BY <1>5 DEF IInv, LocksHeld, HandlerOwns, ThreadOwns, LockOf
  <2> QED
    BY <2>1, <2>2, <2>3 DEF IInv
<1> QED
  BY <1>1, <1>2, <1>3, <1>4, <1>5 DEF Next, System, Command

\* The inductive invariant holds whatever commands a client sends, REIN only
\* when no transfer thread runs.
THEOREM Invariance == Spec => []IInv
  BY InitOK, StepOK, PTL DEF Spec

\* The types of the session, the threads and what they hold.
THEOREM TypeCorrect == Spec => []TypeOK
<1>1. IInv => TypeOK
  BY DEF IInv, Types, TypeOK, Locals, Modes, Results, States, Faults, ClientPlaces, ThreadPlaces
<1> QED
  BY <1>1, Invariance, PTL

\* At most one transfer has work left, and the session's state is idle exactly
\* when none has: the test in session_start_transfer_thread is enough.
THEOREM OneAtATime == Spec => []OneTransferAtATime
<1>1. IInv => OneTransferAtATime
  <2> SUFFICES ASSUME IInv PROVE OneTransferAtATime
    OBVIOUS
  <2>1. \A t, u \in Transfers : Working(t) /\ Working(u) => t = u
    BY DEF IInv, Knows
  <2>2. \A t \in Transfers : Working(t) => transfer_thread_state # "idle"
    BY DEF IInv, Knows
  <2> QED
    BY <2>1, <2>2 DEF IInv, Knows, OneTransferAtATime
<1> QED
  BY <1>1, Invariance, PTL

LEMMA HandlesStepOK == ASSUME IInv, Handles, [Next]_vars PROVE Handles'
<1> USE DEF ClientStep, lifeVars, threadVars, xferVars
<1>0. Types /\ Knows
  BY DEF IInv
<1>1. CASE UNCHANGED <<tpc, transfer_thread, alive>>
  BY <1>1 DEF Handles, FreedAfterLast, Live
<1>2. CASE StartTransfer
  <2>1. PICK t \in Transfers : LaunchThread(t)
    BY <1>2 DEF StartTransfer
  <2>2. /\ tpc[t] = "none" /\ \A u \in Transfers : u < t => tpc[u] # "none"
        /\ tpc' = [tpc EXCEPT ![t] = "start"] /\ transfer_thread' = t
        /\ alive' = alive /\ alive
    BY <1>0, <2>1 DEF LaunchThread, Knows
  <2>3. \A u \in Transfers : u \in Nat
    BY DEF Transfers
  <2>4. \A u \in Transfers : tpc[u] # "none" => u < t
    BY <2>2, <2>3 DEF Handles
  <2>5. \A u, v \in Transfers : u < v /\ tpc'[v] # "none" => tpc'[u] # "none"
    BY <1>0, <2>2, <2>3, <2>4 DEF Types, Handles
  <2>6. \A u \in Transfers : Live(u)' => u <= t
    BY <1>0, <2>2, <2>3, <2>4 DEF Types, Live
  <2> QED
    BY <2>2, <2>5, <2>6 DEF Handles, FreedAfterLast
<1>3. CASE ReinReset
  <2>1. \A t \in Transfers : ~ Live(t)
    BY <1>0, <1>3 DEF ReinReset, Knows
  <2> QED
    BY <1>3, <2>1 DEF ReinReset, Handles, FreedAfterLast, Live
<1>4. CASE JoinAndFree
  <2>1. /\ alive /\ alive' = FALSE /\ tpc' = tpc
        /\ transfer_thread # Null => tpc[transfer_thread] = "done"
    BY <1>0, <1>4 DEF JoinAndFree, Knows
  <2>2. ASSUME NEW t \in Transfers, Live(t)
        PROVE  tpc[t] = "log" /\ \E u \in Transfers : u > t /\ tpc[u] = "done"
    <3>1. t \in Nat \ {0} /\ t <= transfer_thread /\ transfer_thread \in Transfers \cup {Null}
      BY <1>0, <2>1, <2>2 DEF Handles, Types, Transfers
    <3>2. transfer_thread # Null
      BY <3>1 DEF Null
    <3>3. tpc[transfer_thread] = "done" /\ transfer_thread \in Transfers
      BY <2>1, <3>1, <3>2
    <3>4. transfer_thread # t
      BY <2>2, <3>3 DEF Live
    <3>5. transfer_thread > t
      BY <3>1, <3>3, <3>4 DEF Transfers
    <3>6. ~ Working(t)
      BY <1>0, <3>4 DEF Knows
    <3> QED
      BY <1>0, <2>2, <3>3, <3>5, <3>6 DEF Live, Working
  <2> QED
    BY <2>1, <2>2 DEF Handles, FreedAfterLast, Live
<1>5. ASSUME NEW t \in Transfers, Thread(t) \/ Peer(t) PROVE Handles'
  <2>1. /\ alive /\ alive' = alive /\ transfer_thread' = transfer_thread
        /\ Live(t) /\ tpc'[t] # "none"
        /\ \A u \in Transfers : u # t => tpc'[u] = tpc[u]
    BY <1>0, <1>5 DEF Types, Thread, Peer, ThreadStep, Live, Run, ReadParams, CheckSocket, LoopHead,
       PickSocket, SocketGone, ThreadClose, Reply, ClearAbort, ThreadUnlock, FreeParams, FinalState,
       BecomeIdle, SetState, LogAndExit, Chunk, ClientEof, ClientReset
  <2> QED
    BY <2>1 DEF Handles, FreedAfterLast, Live
<1>6. CASE \/ Refuse \/ OpenData \/ Accept \/ StartFails \/ HandlerUnlock \/ AborNone \/ AborFlag
           \/ AborClose \/ AborReply \/ DestroyClose \/ Abor \/ Quit \/ Rein \/ Setup
  BY <1>1, <1>6 DEF Refuse, OpenData, Accept, StartFails, HandlerUnlock, AborNone, AborFlag,
     AborClose, AborReply, DestroyClose, Abor, Quit, Rein, Setup, Pasv, Port, Retr, Stor, Appe, List,
     Nlst, TransferCommand
<1>7. ASSUME NEW t \in Transfers, UseFreedSession(t) PROVE Handles'
  BY <1>1, <1>7 DEF UseFreedSession
<1>8. CASE UNCHANGED vars
  BY <1>1, <1>8 DEF vars
<1> QED
  BY <1>2, <1>3, <1>4, <1>5, <1>6, <1>7, <1>8 DEF Next, System, Handler, Command

\* session_destroy frees the session only after the thread started last; one
\* that was started before it has at most its last log line left.
THEOREM FreedAfterLastThread == Spec => []FreedAfterLast
<1>1. Init => Handles
  BY DEF Init, Handles, FreedAfterLast, Live
<1>2. Handles => FreedAfterLast
  BY DEF Handles
<1> QED
  BY <1>1, <1>2, Invariance, HandlesStepOK, PTL DEF Spec

\* Every file lock of the session has exactly one party that will release it,
\* and none is left when the session is gone.
THEOREM LocksOwned == Spec => []LocksHaveOwner
<1>1. IInv => LocksHaveOwner
  <2> SUFFICES ASSUME IInv PROVE LocksHaveOwner
    OBVIOUS
  <2> USE DEF IInv
  <2>1. \A t, i \in Transfers : WillRelease(t, i) => t = i
    BY Distinct DEF WillRelease, Knows, Memory, HasParams, Reading
  <2>2. ASSUME NEW t \in Transfers, ThreadOwns(t) PROVE WillRelease(t, t)
    BY <2>2 DEF ThreadOwns, WillRelease, Knows, Memory, HasLock, HasParams, Reading
  <2>3. ASSUME NEW l \in locks
        PROVE  \/ l.by = Null /\ cpc \in Commanding
               \/ \E t \in Transfers : l.by = t /\ WillRelease(t, t)
    BY <2>2 DEF LocksHeld, LockOf, HandlerOwns
  <2>4. ASSUME cpc = "gone" PROVE locks = {}
    <3>1. ~ HandlerOwns
      BY <2>4 DEF HandlerOwns, Commanding
    <3>2. \A t \in Transfers : ~ ThreadOwns(t)
      BY <2>4 DEF Knows, Working, ThreadOwns, HasLock, HasParams, Reading
    <3> QED
      BY <3>1, <3>2 DEF LocksHeld
  <2> QED
    BY <2>1, <2>3, <2>4 DEF LocksHaveOwner, Commanding
<1> QED
  BY <1>1, Invariance, PTL

\* The parameters of a thread are freed by it, once, and never used afterwards.
THEOREM ParamsOwned == Spec => []ParamsHaveOwner
<1>1. IInv => ParamsHaveOwner
  BY DEF IInv, Knows, Memory, ParamsHaveOwner, HasParams, Reading
<1> QED
  BY <1>1, Invariance, PTL

\* What a handler or a thread is about to release (file_lock_release_shared and
\* _exclusive at the ends of the handlers and of transfer_thread_func) it holds.
ReleasesOnlyHeld ==
    /\ cpc = "unlock" /\ NeedsLock(cmd.op) => LockOf(cmd, Null) \in locks
    /\ \A t \in Transfers :
          tpc[t] = "unlock" /\ params[local[t].params].lock_acquired
             => LockOf(params[local[t].params], local[t].params) \in locks

THEOREM ReleasesHeld == Spec => []ReleasesOnlyHeld
<1>1. IInv => ReleasesOnlyHeld
  BY DEF IInv, Memory, LocksHeld, ReleasesOnlyHeld, HandlerOwns, ThreadOwns, Commanding,
         HasLock, HasParams, Reading
<1> QED
  BY <1>1, Invariance, PTL

-----------------------------------------------------------------------------
(* A client that waits for its replies                                     *)

\* A client does not change its manners.
LEMMA StaysPolite == [Next]_vars => polite' = polite
<1> USE DEF clientVars
<1>1. ASSUME NEW t \in Transfers, Thread(t) \/ Peer(t) \/ UseFreedSession(t)
      PROVE  polite' = polite
  BY <1>1 DEF Thread, Peer, Run, ReadParams, CheckSocket, LoopHead, PickSocket, SocketGone,
     ThreadClose, Reply, ClearAbort, ThreadUnlock, FreeParams, FinalState, BecomeIdle,
     SetState, LogAndExit, Chunk, ClientEof, ClientReset, UseFreedSession
<1>2. ASSUME Handler \/ Abor \/ Quit \/ Rein \/ Setup PROVE polite' = polite
  BY <1>2 DEF ClientStep, Handler, Refuse, OpenData, Accept, StartTransfer, LaunchThread,
              StartFails,
     HandlerUnlock, AborNone, AborFlag, AborClose, AborReply, ReinReset, DestroyClose, JoinAndFree,
     Abor, Quit, Rein, Setup, Pasv, Port, Retr, Stor, Appe, List, Nlst, TransferCommand
<1> QED
  BY <1>1, <1>2 DEF Next, System, Command, vars

\* A step of the client thread: while a reply is pending, no command is begun
\* and no connection made.
LEMMA PoliteClient ==
    ASSUME IInv, Polite, UNCHANGED threadVars,
           \/ \A t \in Transfers : ~ ReplyPending(t)
           \/ cpc' \notin Commanding /\ data_socket' \in {data_socket, Null}
    PROVE  Polite'
  BY DEF Polite, ReplyPending, threadVars

\* A step of a thread: it takes no foreign connection.
LEMMA PoliteThread ==
    ASSUME IInv, Polite, NEW t \in Transfers, UNCHANGED clientVars,
           data_socket' \in {data_socket, Null},
           \A u \in Transfers : u # t => tpc'[u] = tpc[u] /\ local'[u] = local[u],
           ReplyPending(t)' => ReplyPending(t),
           local'[t].foreign = FALSE
    PROVE  Polite'
  BY DEF Polite, ReplyPending, clientVars

LEMMA PoliteStepOK == ASSUME IInv, Polite, polite, [Next]_vars PROVE Polite'
<1> USE DEF ClientStep, dataVars, xferVars, lifeVars, clientVars, heapVars
<1>0. Types /\ Knows /\ Data
  BY DEF IInv
<1>1. ASSUME cpc \in Commanding PROVE \A t \in Transfers : ~ ReplyPending(t)
  BY <1>1 DEF Polite
<1>2. CASE Refuse \/ OpenData \/ Accept \/ StartFails \/ HandlerUnlock
  <2>1. cpc \in Commanding /\ UNCHANGED threadVars
    BY <1>2 DEF Refuse, OpenData, Accept, StartFails, HandlerUnlock, Commanding
  <2> QED
    BY <1>1, <2>1, PoliteClient
<1>3. CASE StartTransfer
  <2>1. PICK t \in Transfers : transfer_thread_state = "idle" /\ LaunchThread(t)
    BY <1>3 DEF StartTransfer
  <2>2. /\ cpc' = "cmd" /\ tpc' = [tpc EXCEPT ![t] = "start"] /\ UNCHANGED local
        /\ data_socket' = IF data_socket = New THEN t ELSE data_socket
    BY <2>1 DEF LaunchThread
  <2>3. \A u \in Transfers : ~ Working(u)
    BY <1>0, <2>1 DEF Knows, Types
  <2>4. data_socket \in {Null, New}
    BY <1>0, <2>3 DEF Data, Types, Working, UsesSocket
  <2>5. \A u \in Transfers : ReplyPending(u)' => u = t
    BY <1>0, <2>2, <2>3 DEF Types, ReplyPending, Working
  <2> QED
    BY <2>2, <2>4, <2>5, Distinct DEF Polite, Commanding
<1>4. CASE \/ AborNone \/ AborFlag \/ AborClose \/ AborReply \/ ReinReset \/ DestroyClose
           \/ JoinAndFree \/ Abor \/ Quit \/ Rein
  <2>1. /\ cpc' \notin Commanding /\ data_socket' \in {data_socket, Null} /\ UNCHANGED threadVars
    BY <1>4 DEF AborNone, AborFlag, AborClose, AborReply, ReinReset, DestroyClose, JoinAndFree,
                Abor, Quit, Rein, CloseData, Commanding
  <2> QED
    BY <2>1, PoliteClient
<1>5. CASE Answered /\ Setup
  <2>1. UNCHANGED threadVars
    BY <1>5 DEF Setup, Pasv, Port, Retr, Stor, Appe, List, Nlst, TransferCommand
  <2> QED
    BY <1>5, <2>1, PoliteClient DEF Answered
<1>6. ASSUME NEW t \in Transfers, Thread(t) \/ Peer(t) PROVE Polite'
  <2> USE DEF ThreadStep
  <2>1. tpc' = [tpc EXCEPT ![t] = tpc'[t]] /\ (ReplyPending(t)' => ReplyPending(t))
    BY <1>0, <1>6 DEF Types, ReplyPending, Thread, Peer, Run, ReadParams, CheckSocket, LoopHead,
       PickSocket, SocketGone, ThreadClose, Reply, ClearAbort, ThreadUnlock, FreeParams, FinalState,
       BecomeIdle, SetState, LogAndExit, Chunk, ClientEof, ClientReset
  <2>2. UNCHANGED clientVars /\ data_socket' \in {data_socket, Null}
    BY <1>6 DEF Thread, Peer, Run, ReadParams, CheckSocket, LoopHead, PickSocket, SocketGone,
       ThreadClose, CloseData, Reply, ClearAbort, ThreadUnlock, FreeParams, FinalState, BecomeIdle,
       SetState, LogAndExit, Chunk, ClientEof, ClientReset, Returns
  <2>3. ~ local[t].foreign
    BY DEF Polite
  <2>4. local'[t].foreign = FALSE /\ \A u \in Transfers : u # t => local'[u] = local[u]
    <3> USE <1>0, <2>3 DEF Types, Locals
    <3>1. CASE PickSocket(t)
      <4>1. data_socket \in {Null, t}
        BY <3>1 DEF PickSocket, Polite, ReplyPending
      <4> QED
        BY <3>1, <4>1 DEF PickSocket
    <3>2. CASE CheckSocket(t)
      BY <3>2 DEF CheckSocket, Ends
    <3>3. CASE LoopHead(t)
      BY <3>3 DEF LoopHead, Ends
    <3>4. CASE SocketGone(t)
      BY <3>4 DEF SocketGone, Ends
    <3>4a. CASE ClientEof(t)
      <4>1. Ends(t, EndOfStream)
        BY <3>4a DEF ClientEof
      <4> QED
        BY <4>1 DEF Ends
    <3>4b. CASE ClientReset(t)
      <4>1. Ends(t, Failed)
        BY <3>4b DEF ClientReset
      <4> QED
        BY <4>1 DEF Ends
    <3>4c. CASE Chunk(t)
      <4>1. local' = [local EXCEPT ![t].left = @ - 1] \/ Ends(t, "io_error")
        BY <3>4c DEF Chunk
      <4>2. CASE local' = [local EXCEPT ![t].left = @ - 1]
        BY <4>2
      <4>3. CASE Ends(t, "io_error")
        BY <4>3 DEF Ends
      <4> QED
        BY <4>1, <4>2, <4>3
    <3>5. CASE LogAndExit(t)
      BY <3>5 DEF LogAndExit, NoLocal
    <3>5a. CASE ReadParams(t)
      BY <3>5a DEF ReadParams
    <3>6. CASE \/ Run(t) \/ ThreadClose(t) \/ Reply(t) \/ ClearAbort(t) \/ ThreadUnlock(t)
               \/ FreeParams(t) \/ FinalState(t) \/ BecomeIdle(t)
      BY <3>6 DEF Run, ThreadClose, Reply, ClearAbort, ThreadUnlock, FreeParams, FinalState,
                  BecomeIdle, SetState
    <3> QED
      BY <1>6, <3>1, <3>2, <3>3, <3>4, <3>4a, <3>4b, <3>4c, <3>5, <3>5a, <3>6 DEF Thread, Peer
  <2>5. \A u \in Transfers : u # t => tpc'[u] = tpc[u]
    BY <1>0, <2>1 DEF Types
  <2> QED
    BY <2>1, <2>2, <2>4, <2>5, PoliteThread
<1>7. ASSUME NEW t \in Transfers, UseFreedSession(t) PROVE Polite'
  BY <1>7 DEF UseFreedSession, Polite, ReplyPending, threadVars
<1>8. CASE UNCHANGED vars
  BY <1>8 DEF vars, Polite, ReplyPending, threadVars
<1> QED
  BY <1>2, <1>3, <1>4, <1>5, <1>6, <1>7, <1>8 DEF Next, System, Handler, Command

\* A transfer sends and receives on the connection that was opened for it, and
\* on no other, if the client waits for the reply of a transfer before it sets
\* up the next; ABOR and QUIT may come at any time.
THEOREM OwnConnectionOnly == Spec => []OwnConnection
<1>1. Init => (polite => Polite)
  BY DEF Init, Polite, ReplyPending, NoLocal
<1>2. (polite => Polite) => OwnConnection
  BY DEF Polite, OwnConnection
<1>3. IInv /\ (polite => Polite) /\ [Next]_vars => (polite => Polite)'
  BY PoliteStepOK, StaysPolite
<1> QED
  BY <1>1, <1>2, <1>3, Invariance, PTL DEF Spec
=============================================================================
