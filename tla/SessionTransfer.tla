--------------------------- MODULE SessionTransfer ---------------------------
(***************************************************************************)
(* One FTP session of the server: the client thread that runs the command  *)
(* handlers (handler.c, session.c) and the transfer threads it starts      *)
(* (transfer_thread_func in transfer.c).  They share the session_t: the    *)
(* data connection, the abort flag, the transfer thread's state, handle    *)
(* and parameters.  A step is what a thread does under session->lock, or   *)
(* one unlocked access to the session.                                     *)
(*                                                                         *)
(* Left out because nothing reads it: transfer_in_progress,                *)
(* transfer_result.  Path checks, the file system and REST are not here:   *)
(* a handler may refuse a command for their sake, which is a choice.       *)
(* Other sessions hold file locks too; to this one that is a busy file,    *)
(* and the 450 reply changes nothing.                                      *)
(***************************************************************************)
EXTENDS Naturals, FiniteSets

CONSTANTS MaxTransfers, \* bound: transfer threads started in the session
          MaxChunks,    \* bound: buffers of TRANSFER_BUFFER_SIZE per transfer
          Files,        \* absolute paths
          Ops           \* the transfer commands a client uses

ASSUME BoundsAreNat == MaxTransfers \in Nat /\ MaxChunks \in Nat
ASSUME OpsAreTransfers == Ops \subseteq {"RETR", "STOR", "LIST", "NLST"}

Transfers == 1 .. MaxTransfers  \* a thread, and the parameters malloc'd for it
Null      == 0                  \* NULL, INVALID_SOCKET_T, no thread
New       == MaxTransfers + 1   \* a connection opened for the command under way

VARIABLES
    \* the data connection
    data_mode,                  \* "none", "active" or "passive"
    data_socket,                \* the transfer it was opened for, New or Null
    data_listen_socket,         \* is there a listening socket?
    sock,                       \* sock[t]: the socket of t's send or recv in progress
    \* the transfer thread, as the session knows it
    transfer_should_abort,
    transfer_thread_state,
    transfer_thread,
    transfer_params,
    \* the session as a whole
    should_quit,
    alive,                      \* session_t is allocated
    fault,                      \* accesses to freed or NULL memory
    \* the client thread, and what kind of client it serves: does it wait for
    \* its completion reply before it sets up the next transfer?
    cpc, cmd, polite,
    \* the transfer threads
    tpc, local,
    \* what the threads allocate and hold
    params,                     \* params[i]: the transfer_params_t of thread i
    locks                       \* file locks held by this session

dataVars   == <<data_mode, data_socket, data_listen_socket, sock>>
xferVars   == <<transfer_should_abort, transfer_thread_state, transfer_thread, transfer_params>>
lifeVars   == <<should_quit, alive, fault>>
clientVars == <<cpc, cmd, polite>>
threadVars == <<tpc, local>>
heapVars   == <<params, locks>>
vars == <<dataVars, xferVars, lifeVars, clientVars, threadVars, heapVars>>

-----------------------------------------------------------------------------
(* Locks and parameters                                                    *)

Receives(op) == op = "STOR"                     \* TRANSFER_OP_RECV_FILE
LockMode(op) == IF Receives(op) THEN "exclusive" ELSE "shared"
NeedsLock(op) == op \in {"RETR", "STOR"}

\* The file lock of command c, owned by the handler (by = Null) or by the
\* transfer parameters it was handed to.
LockOf(c, by) == [file |-> c.file, mode |-> LockMode(c.op), by |-> by]

\* file_lock_try_acquire_shared / _exclusive succeeds, as far as this
\* session's own locks are concerned.
CanLock(c) ==
    \A l \in locks : l.file = c.file => l.mode = "shared" /\ LockMode(c.op) = "shared"

NoParams == [op |-> "none", file |-> "none", lock_acquired |-> FALSE, freed |-> FALSE]

\* The locals of a transfer thread: its parameters, the buffers left to move
\* and the status.  A ghost: did the thread ever use a connection that was
\* opened for another command.
NoLocal == [params |-> Null, left |-> 0, result |-> "none", foreign |-> FALSE]

NoCmd == [op |-> "none", file |-> "none"]

-----------------------------------------------------------------------------
Init ==
    /\ data_mode = "none" /\ data_socket = Null /\ data_listen_socket = FALSE
    /\ sock = [t \in Transfers |-> "none"]
    /\ transfer_should_abort = FALSE /\ transfer_thread_state = "idle"
    /\ transfer_thread = Null /\ transfer_params = Null
    /\ should_quit = FALSE /\ alive = TRUE /\ fault = {}
    /\ cpc = "cmd" /\ cmd = NoCmd /\ polite \in BOOLEAN
    /\ tpc = [t \in Transfers |-> "none"]
    /\ local = [t \in Transfers |-> NoLocal]
    /\ params = [t \in Transfers |-> NoParams]
    /\ locks = {}

-----------------------------------------------------------------------------
(* The data connection                                                     *)

\* What is done to the current data socket shows in the calls in progress on
\* it: sock[t] is "current", or else "closed", "shut", or "none".
Retire(how) == sock' = [t \in Transfers |-> IF sock[t] = "current" THEN how ELSE sock[t]]

\* Faulty variant: closed without shutdown.
CloseDataOnly ==
    /\ Retire("closed")
    /\ data_socket' = Null
    /\ data_listen_socket' = FALSE
    /\ data_mode' = "none"

\* session_close_data_connection: shutdown, which ends a blocked send or recv,
\* and close.
CloseData ==
    /\ Retire("shut")
    /\ data_socket' = Null
    /\ data_listen_socket' = FALSE
    /\ data_mode' = "none"

\* The common start of session_set_port and session_set_pasv closes the
\* socket without shutdown: a call that is blocked on it stays blocked.
ReplaceData(mode, listening) ==
    /\ Retire("closed")
    /\ data_socket' = Null
    /\ data_listen_socket' = listening
    /\ data_mode' = mode

\* connect() or accept() returned a new socket.
Connect(listening) ==
    /\ data_socket' = New
    /\ data_listen_socket' = listening
    /\ UNCHANGED <<data_mode, sock>>

-----------------------------------------------------------------------------
(* The client thread: one handler at a time                                *)

ClientStep(from, to) == fault = {} /\ cpc = from /\ cpc' = to /\ UNCHANGED polite

\* cmd_handle_pasv.  On failure the old mode stays, without a socket; when
\* the reply cannot be built or sent the new listener is closed again.
Pasv ==
    /\ ClientStep("cmd", "cmd")
    /\ \/ ReplaceData("passive", TRUE)
       \/ ReplaceData(data_mode, FALSE)
       \/ ReplaceData("none", FALSE)
    /\ UNCHANGED <<xferVars, lifeVars, cmd, threadVars, heapVars>>

\* cmd_handle_port
Port ==
    /\ ClientStep("cmd", "cmd")
    /\ ReplaceData("active", FALSE)
    /\ UNCHANGED <<xferVars, lifeVars, cmd, threadVars, heapVars>>

\* A transfer command as far as its file lock.  Whether it is refused later,
\* and what becomes of it then, is the same for all of them.
TransferCommand(op, f) ==
    LET c == [op |-> op, file |-> f] IN
    /\ op \in Ops
    /\ ClientStep("cmd", "locked")
    /\ data_mode # "none"
    /\ \/ ~ NeedsLock(op) /\ UNCHANGED locks
       \/ /\ NeedsLock(op) /\ CanLock(c)
          /\ locks' = locks \cup {LockOf(c, Null)}
    /\ cmd' = c
    /\ UNCHANGED <<dataVars, xferVars, lifeVars, threadVars, params>>

Retr(f) == TransferCommand("RETR", f)
Stor(f) == TransferCommand("STOR", f)
Appe(f) == TransferCommand("STOR", f)   \* the same operation, elsewhere in the file
List    == TransferCommand("LIST", "none")      \* locks no file
Nlst    == TransferCommand("NLST", "none")

\* The file is not fit for the command, or the 150 reply could not be sent.
Refuse ==
    /\ ClientStep("locked", "unlock")
    /\ UNCHANGED <<dataVars, xferVars, lifeVars, cmd, threadVars, heapVars>>

\* session_open_data_connection, up to its select().
OpenData ==
    /\ \/ /\ data_socket # Null
          /\ ClientStep("locked", "opened")
          /\ UNCHANGED dataVars
       \/ /\ data_socket = Null /\ data_mode = "active"
          /\ ClientStep("locked", "opened")
          /\ Connect(data_listen_socket)
       \/ /\ data_socket = Null /\ data_mode = "passive" /\ data_listen_socket
          /\ ClientStep("locked", "select")
          /\ UNCHANGED dataVars
       \/ /\ data_socket = Null              \* connect failed, nothing to accept on
          /\ ~ (data_mode = "passive" /\ data_listen_socket)
          /\ ClientStep("locked", "unlock")
          /\ UNCHANGED dataVars
    /\ UNCHANGED <<xferVars, lifeVars, cmd, threadVars, heapVars>>

\* ... and after it, under the lock again: the listener must still be there.
\* The retries of accept() stay in "select".
Accept ==
    /\ \/ /\ data_listen_socket /\ ~ should_quit
          /\ ClientStep("select", "opened")
          /\ Connect(FALSE)
       \/ /\ ClientStep("select", "unlock")  \* timeout, error, listener gone
          /\ UNCHANGED dataVars
    /\ UNCHANGED <<xferVars, lifeVars, cmd, threadVars, heapVars>>

\* What session_start_transfer_thread does once it has found the state idle:
\* the lock goes with the parameters.  An older thread is not joined; its
\* handle is overwritten.
LaunchThread(t) ==
    /\ tpc[t] = "none" /\ \A u \in Transfers : u < t => tpc[u] # "none"
    /\ ClientStep("opened", "cmd")
    /\ params' = [params EXCEPT ![t] =
                    [op |-> cmd.op, file |-> cmd.file,
                     lock_acquired |-> NeedsLock(cmd.op), freed |-> FALSE]]
    /\ locks' = IF NeedsLock(cmd.op)
                THEN (locks \ {LockOf(cmd, Null)}) \cup {LockOf(cmd, t)}
                ELSE locks
    /\ transfer_params' = t
    /\ transfer_thread' = t
    /\ transfer_thread_state' = "starting"
    /\ tpc' = [tpc EXCEPT ![t] = "start"]
    /\ data_socket' = IF data_socket = New THEN t ELSE data_socket
    /\ cmd' = NoCmd
    /\ UNCHANGED <<data_mode, data_listen_socket, sock, transfer_should_abort, lifeVars, local>>

\* Faulty variant: the state is not looked at.
StartInAnyState == \E t \in Transfers : LaunchThread(t)

StartTransfer == \E t \in Transfers : transfer_thread_state = "idle" /\ LaunchThread(t)

\* session_start_transfer_thread fails: a transfer is active, or no memory or
\* thread is to be had.  The handler replies 451 and closes the data
\* connection, whoever uses it.
StartFails ==
    /\ ClientStep("opened", "unlock")
    /\ CloseData
    /\ UNCHANGED <<xferVars, lifeVars, cmd, threadVars, heapVars>>

\* Faulty variant: an error path returns with the file locked.
HandlerReturnsLocked ==
    /\ ClientStep("unlock", "cmd")
    /\ cmd' = NoCmd
    /\ UNCHANGED <<dataVars, xferVars, lifeVars, threadVars, heapVars>>

\* The end of a handler that did not start a thread.
HandlerUnlock ==
    /\ ClientStep("unlock", "cmd")
    /\ locks' = locks \ {LockOf(cmd, Null)}
    /\ cmd' = NoCmd
    /\ UNCHANGED <<dataVars, xferVars, lifeVars, threadVars, params>>

\* cmd_handle_abor reads the thread's state ...
Abor ==
    /\ ClientStep("cmd", IF transfer_thread_state = "running" THEN "abor" ELSE "abor_none")
    /\ UNCHANGED <<dataVars, xferVars, lifeVars, cmd, threadVars, heapVars>>

\* ... closes the data connection and replies 225 ...
AborNone ==
    /\ ClientStep("abor_none", "cmd")
    /\ CloseData
    /\ UNCHANGED <<xferVars, lifeVars, cmd, threadVars, heapVars>>

\* ... or raises the flag ...
AborFlag ==
    /\ ClientStep("abor", "abor_close")
    /\ transfer_should_abort' = TRUE
    /\ UNCHANGED <<dataVars, transfer_thread_state, transfer_thread, transfer_params,
                   lifeVars, cmd, threadVars, heapVars>>

\* Faulty variant: the flag alone has to stop the thread.
AborFlagOnly ==
    /\ ClientStep("abor_close", "abor_reply")
    /\ UNCHANGED <<dataVars, xferVars, lifeVars, cmd, threadVars, heapVars>>

\* ... closes the data connection ...
AborClose ==
    /\ ClientStep("abor_close", "abor_reply")
    /\ CloseData
    /\ UNCHANGED <<xferVars, lifeVars, cmd, threadVars, heapVars>>

\* ... and replies 426.
AborReply ==
    /\ ClientStep("abor_reply", "cmd")
    /\ UNCHANGED <<dataVars, xferVars, lifeVars, cmd, threadVars, heapVars>>

\* cmd_handle_rein closes the data connection ...
Rein ==
    /\ ClientStep("cmd", "rein")
    /\ CloseData
    /\ UNCHANGED <<xferVars, lifeVars, cmd, threadVars, heapVars>>

\* ... and runs session_reset_state, which forgets thread and parameters.
ReinReset ==
    /\ ClientStep("rein", "cmd")
    /\ data_mode' = "none" /\ data_socket' = Null /\ data_listen_socket' = FALSE
    /\ transfer_should_abort' = FALSE
    /\ transfer_thread' = Null
    /\ transfer_thread_state' = "idle"
    /\ transfer_params' = Null
    /\ UNCHANGED <<sock, lifeVars, cmd, threadVars, heapVars>>

\* QUIT, a closed or silent control connection or the end of the server lead
\* client_thread into session_destroy.
Quit ==
    /\ ClientStep("cmd", "destroy")
    /\ should_quit' = TRUE
    /\ UNCHANGED <<dataVars, xferVars, alive, fault, cmd, threadVars, heapVars>>

DestroyClose ==
    /\ ClientStep("destroy", "join")
    /\ CloseData
    /\ UNCHANGED <<xferVars, lifeVars, cmd, threadVars, heapVars>>

\* Faulty variant: the session is freed without the join.
FreeAtOnce ==
    /\ ClientStep("join", "gone")
    /\ transfer_thread' = Null
    /\ alive' = FALSE
    /\ UNCHANGED <<dataVars, transfer_should_abort, transfer_thread_state, transfer_params,
                   should_quit, fault, cmd, threadVars, heapVars>>

\* pthread_join of the last thread started, then free(session).
JoinAndFree ==
    /\ ClientStep("join", "gone")
    /\ transfer_thread # Null => tpc[transfer_thread] = "done"
    /\ transfer_thread' = Null
    /\ alive' = FALSE
    /\ UNCHANGED <<dataVars, transfer_should_abort, transfer_thread_state, transfer_params,
                   should_quit, fault, cmd, threadVars, heapVars>>

-----------------------------------------------------------------------------
(* A transfer thread                                                       *)

\* params->operation, once the thread has its parameters.
Op(t) == IF local[t].params = Null THEN "none" ELSE params[local[t].params].op

Live(t) == tpc[t] \notin {"none", "done"}

\* A step of thread t needs the session, and no fault has ended the process.
ThreadStep(t, from, to) ==
    /\ fault = {} /\ alive
    /\ tpc[t] = from
    /\ tpc' = [tpc EXCEPT ![t] = to]

\* The thread leaves its loop with a status.
Ends(t, status) == local' = [local EXCEPT ![t].result = status, ![t].left = 0]

\* The call in progress, if any, is over.
Returns(t) == /\ sock' = [sock EXCEPT ![t] = "none"]
              /\ UNCHANGED <<data_mode, data_socket, data_listen_socket>>

\* What a failed send or recv means to the thread.
Failed == IF transfer_should_abort THEN "aborted" ELSE "conn_error"

\* transfer_thread_func announces itself ...
Run(t) ==
    /\ ThreadStep(t, "start", "params")
    /\ transfer_thread_state' = "running"
    /\ UNCHANGED <<dataVars, transfer_should_abort, transfer_thread, transfer_params,
                   lifeVars, clientVars, local, heapVars>>

\* ... and takes its parameters from the session, without the lock.
ReadParams(t) ==
    /\ ThreadStep(t, "params", "check")
    /\ local' = [local EXCEPT ![t].params = transfer_params]
    /\ fault' = IF transfer_params = Null THEN {"null_params"} ELSE {}
    /\ UNCHANGED <<dataVars, xferVars, should_quit, alive, clientVars, heapVars>>

\* The tests before the loops of transfer_send_file, transfer_receive_file,
\* their ASCII versions and transfer_send_list.  transfer_send_nlst has none.
CheckSocket(t) ==
    /\ \/ /\ Op(t) # "NLST" /\ data_socket = Null
          /\ ThreadStep(t, "check", "close")
          /\ Ends(t, "conn_error")
       \/ /\ Op(t) = "NLST" \/ data_socket # Null
          /\ ThreadStep(t, "check", "close") \* size, memory or directory error
          /\ Ends(t, "io_error")
       \/ /\ Op(t) = "NLST" \/ data_socket # Null
          /\ ThreadStep(t, "check", "loop")
          /\ \E n \in 0 .. MaxChunks : local' = [local EXCEPT ![t].left = n]
    /\ UNCHANGED <<dataVars, xferVars, lifeVars, clientVars, heapVars>>

\* Faulty variant: one turn too many, with nothing left to send.
LoopHeadOffByOne(t) ==
    LET sent == ~ Receives(Op(t)) /\ local[t].left < 0 IN
    /\ \/ /\ sent
          /\ ThreadStep(t, "loop", "close")
          /\ Ends(t, "ok")
       \/ /\ ~ sent /\ transfer_should_abort
          /\ ThreadStep(t, "loop", "close")
          /\ Ends(t, "aborted")
       \/ /\ ~ sent /\ ~ transfer_should_abort /\ Op(t) \in {"RETR", "LIST"}
          /\ ThreadStep(t, "loop", "close")
          /\ Ends(t, "io_error")
       \/ /\ ~ sent /\ ~ transfer_should_abort
          /\ ThreadStep(t, "loop", "pick")
          /\ UNCHANGED local
    /\ UNCHANGED <<dataVars, xferVars, lifeVars, clientVars, heapVars>>

\* The head of the loops: the sender stops when nothing remains, both look
\* at the abort flag, the sender reads the file or formats an entry.
LoopHead(t) ==
    LET sent == ~ Receives(Op(t)) /\ local[t].left = 0 IN
    /\ \/ /\ sent
          /\ ThreadStep(t, "loop", "close")
          /\ Ends(t, "ok")
       \/ /\ ~ sent /\ transfer_should_abort
          /\ ThreadStep(t, "loop", "close")
          /\ Ends(t, "aborted")
       \/ /\ ~ sent /\ ~ transfer_should_abort /\ Op(t) \in {"RETR", "LIST"}
          /\ ThreadStep(t, "loop", "close")
          /\ Ends(t, "io_error")
       \/ /\ ~ sent /\ ~ transfer_should_abort
          /\ ThreadStep(t, "loop", "pick")
          /\ UNCHANGED local
    /\ UNCHANGED <<dataVars, xferVars, lifeVars, clientVars, heapVars>>

\* session->data_socket is read afresh, without the lock, for every call of
\* net_send_all or net_receive.
PickSocket(t) ==
    /\ ThreadStep(t, "pick", "io")
    /\ sock' = [sock EXCEPT ![t] = IF data_socket = Null THEN "none" ELSE "current"]
    /\ local' = [local EXCEPT ![t].foreign = @ \/ data_socket \notin {Null, t}]
    /\ UNCHANGED <<data_mode, data_socket, data_listen_socket, xferVars, lifeVars, clientVars,
                   heapVars>>

\* The client still has the other end of the connection.
Connected(t) == sock[t] \in {"current", "closed"}

\* The client takes or sends a buffer; the receiver writes it to the file.  How
\* many a sender still has to send is in left, how many more the client will
\* send to a receiver is bounded by it.
Chunk(t) ==
    /\ Connected(t)
    /\ Receives(Op(t)) => local[t].left > 0
    /\ \/ /\ ThreadStep(t, "io", "loop")
          /\ local' = [local EXCEPT ![t].left = @ - 1]
       \/ /\ Receives(Op(t))
          /\ ThreadStep(t, "io", "close")
          /\ Ends(t, "io_error")
    /\ Returns(t)
    /\ UNCHANGED <<xferVars, lifeVars, clientVars, heapVars>>

\* What a recv of 0 bytes means to the thread.
EndOfStream == IF transfer_should_abort THEN "aborted" ELSE "ok"

\* The client closes its end of an upload: recv returns 0.
ClientEof(t) ==
    /\ Connected(t) /\ Receives(Op(t))
    /\ ThreadStep(t, "io", "close")
    /\ Ends(t, EndOfStream)
    /\ Returns(t)
    /\ UNCHANGED <<xferVars, lifeVars, clientVars, heapVars>>

\* The connection breaks, or the socket was closed before the call began.
ClientReset(t) ==
    /\ Connected(t)
    /\ ThreadStep(t, "io", "close")
    /\ Ends(t, Failed)
    /\ Returns(t)
    /\ UNCHANGED <<xferVars, lifeVars, clientVars, heapVars>>

\* The socket was shut down, or there was none: the call fails, except that
\* a recv in progress returns 0, as at the end of the stream.
SocketGone(t) ==
    /\ ~ Connected(t)
    /\ ThreadStep(t, "io", "close")
    /\ \/ Ends(t, Failed)
       \/ /\ Receives(Op(t)) /\ sock[t] = "shut"
          /\ Ends(t, EndOfStream)
    /\ Returns(t)
    /\ UNCHANGED <<xferVars, lifeVars, clientVars, heapVars>>

\* Faulty variant: the data connection is left open.
ThreadLeavesOpen(t) ==
    /\ ThreadStep(t, "close", "reply")
    /\ UNCHANGED <<dataVars, xferVars, lifeVars, clientVars, local, heapVars>>

ThreadClose(t) ==
    /\ ThreadStep(t, "close", "reply")
    /\ CloseData
    /\ UNCHANGED <<xferVars, lifeVars, clientVars, local, heapVars>>

\* The completion reply, and in case of an abort the clearing of the flag yet
\* to come.
Reply(t) ==
    /\ ThreadStep(t, "reply", IF local[t].result = "aborted" THEN "clear" ELSE "unlock")
    /\ UNCHANGED <<dataVars, xferVars, lifeVars, clientVars, local, heapVars>>

ClearAbort(t) ==
    /\ ThreadStep(t, "clear", "unlock")
    /\ transfer_should_abort' = FALSE
    /\ UNCHANGED <<dataVars, transfer_thread_state, transfer_thread, transfer_params,
                   lifeVars, clientVars, local, heapVars>>

\* The file lock is released if params->lock_acquired says so.
ThreadUnlock(t) ==
    LET i == local[t].params IN
    /\ ThreadStep(t, "unlock", "free")
    /\ \/ /\ params[i].freed
          /\ fault' = {"freed_params"}
          /\ UNCHANGED heapVars
       \/ /\ ~ params[i].freed /\ params[i].lock_acquired
          /\ locks' = locks \ {LockOf(params[i], i)}
          /\ params' = [params EXCEPT ![i].lock_acquired = FALSE]
          /\ UNCHANGED fault
       \/ /\ ~ params[i].freed /\ ~ params[i].lock_acquired
          /\ UNCHANGED <<fault, heapVars>>
    /\ UNCHANGED <<dataVars, xferVars, should_quit, alive, clientVars, local>>

\* Faulty variant: the pointer is reset, the memory is not freed.
ForgetParams(t) ==
    /\ ThreadStep(t, "free", "final")
    /\ transfer_params' = Null
    /\ UNCHANGED <<dataVars, transfer_should_abort, transfer_thread_state, transfer_thread,
                   lifeVars, clientVars, local, heapVars>>

\* free(session->transfer_params), whatever it points to now.
FreeParams(t) ==
    /\ ThreadStep(t, "free", "final")
    /\ params' = IF transfer_params = Null THEN params
                 ELSE [params EXCEPT ![transfer_params] = [NoParams EXCEPT !.freed = TRUE]]
    /\ transfer_params' = Null
    /\ UNCHANGED <<dataVars, transfer_should_abort, transfer_thread_state, transfer_thread,
                   lifeVars, clientVars, local, locks>>

SetState(t, from, to, state) ==
    /\ ThreadStep(t, from, to)
    /\ transfer_thread_state' = state
    /\ UNCHANGED <<dataVars, transfer_should_abort, transfer_thread, transfer_params,
                   lifeVars, clientVars, local, heapVars>>

FinalState(t) ==
    SetState(t, "final", "idle",
             IF local[t].result = "aborted" THEN "aborted" ELSE "completing")

BecomeIdle(t) == SetState(t, "idle", "log", "idle")

\* The last line of the thread logs session->client_ip.
LogAndExit(t) ==
    /\ ThreadStep(t, "log", "done")
    /\ local' = [local EXCEPT ![t] = NoLocal]
    /\ UNCHANGED <<dataVars, xferVars, lifeVars, clientVars, heapVars>>

\* A thread that is still running finds the session freed.
UseFreedSession(t) ==
    /\ fault = {} /\ ~ alive /\ Live(t)
    /\ fault' = {"freed_session"}
    /\ UNCHANGED <<dataVars, xferVars, should_quit, alive, clientVars, threadVars, heapVars>>

-----------------------------------------------------------------------------
(* Specifications                                                          *)

\* Steps the server takes by itself.
Handler ==
    Refuse \/ OpenData \/ Accept \/ StartTransfer \/ StartFails \/ HandlerUnlock
    \/ AborNone \/ AborFlag \/ AborClose \/ AborReply \/ ReinReset
    \/ DestroyClose \/ JoinAndFree

Thread(t) ==
    Run(t) \/ ReadParams(t) \/ CheckSocket(t) \/ LoopHead(t) \/ PickSocket(t)
    \/ SocketGone(t) \/ ThreadClose(t) \/ Reply(t) \/ ClearAbort(t) \/ ThreadUnlock(t)
    \/ FreeParams(t) \/ FinalState(t) \/ BecomeIdle(t) \/ LogAndExit(t)

\* Steps the client takes on the data connection.
Peer(t) == Chunk(t) \/ ClientEof(t) \/ ClientReset(t)

\* Commands that set a transfer up.
Setup == Pasv \/ Port \/ List \/ Nlst
         \/ \E f \in Files : Retr(f) \/ Stor(f) \/ Appe(f)

System == Handler \/ Abor \/ Quit
          \/ \E t \in Transfers : Thread(t) \/ Peer(t) \/ UseFreedSession(t)

\* No transfer thread is left to disturb.
Quiescent == \A t \in Transfers : ~ Live(t)

\* Thread t has yet to send its completion reply.
ReplyPending(t) ==
    tpc[t] \in {"start", "params", "check", "loop", "pick", "io", "close", "reply"}

\* The client has every completion reply it waits for.
Answered == \A t \in Transfers : ~ ReplyPending(t)

\* What the client sends: any order of commands, or, if it is polite, the next
\* transfer only after the reply to the last, as RFC 959 asks; ABOR and QUIT
\* excepted.
Command == (polite => Answered) /\ Setup

\* The client does not send REIN while a transfer thread runs.
Next == System \/ Command \/ (Quiescent /\ Rein)

\* REIN at any time: MCSessionFreed.cfg.
AnyNext == System \/ Command \/ Rein

Spec    == Init /\ [][Next]_vars
AnySpec == Init /\ [][AnyNext]_vars

\* The server's threads are scheduled: a handler or thread that can move does.
\* The client owes nothing.
Fairness == WF_vars(Handler) /\ \A t \in Transfers : WF_vars(Thread(t))

FairSpec == Spec /\ Fairness

-----------------------------------------------------------------------------
(* Properties                                                              *)

\* The types of the session, the threads and what they hold.
TypeOK ==
    /\ data_mode \in {"none", "active", "passive"}
    /\ data_socket \in Transfers \cup {Null, New}
    /\ data_listen_socket \in BOOLEAN
    /\ sock \in [Transfers -> {"none", "current", "closed", "shut"}]
    /\ transfer_should_abort \in BOOLEAN
    /\ transfer_thread_state \in {"idle", "starting", "running", "completing", "aborted"}
    /\ transfer_thread \in Transfers \cup {Null}
    /\ transfer_params \in Transfers \cup {Null}
    /\ should_quit \in BOOLEAN /\ alive \in BOOLEAN
    /\ fault \in SUBSET {"freed_session", "freed_params", "null_params"}
    /\ cpc \in {"cmd", "locked", "select", "opened", "unlock", "abor", "abor_none",
                "abor_close", "abor_reply", "rein", "destroy", "join", "gone"}
    /\ cmd.op \in Ops \cup {"none"} /\ cmd.file \in Files \cup {"none"}
    /\ polite \in BOOLEAN
    /\ tpc \in [Transfers -> {"none", "start", "params", "check", "loop", "pick", "io", "close",
                              "reply", "clear", "unlock", "free", "final", "idle", "log", "done"}]
    /\ \A t \in Transfers :
          /\ local[t].params \in Transfers \cup {Null}
          /\ local[t].left \in 0 .. MaxChunks
          /\ local[t].result \in {"none", "ok", "aborted", "conn_error", "io_error"}
          /\ params[t].lock_acquired \in BOOLEAN /\ params[t].freed \in BOOLEAN

\* A thread counts as the session's transfer until it has set the state back to
\* idle.  What is left of it then is the line that logs session->client_ip.
Working(t) == tpc[t] \notin {"none", "log", "done"}

\* The session knows its transfer: the state is idle exactly when no thread
\* works, and there is never more than one.  This is what the test in
\* session_start_transfer_thread relies on.
OneTransferAtATime ==
    /\ \A t, u \in Transfers : Working(t) /\ Working(u) => t = u
    /\ transfer_thread_state = "idle" <=> \A t \in Transfers : ~ Working(t)

\* How far session_destroy gets with "wait for transfer thread to complete
\* before freeing session": when the session is freed, the thread started last
\* has exited.  An earlier one, whose handle the next start has overwritten
\* (session.c:1152), may still have its last log line before it, but no more.
FreedAfterLast ==
    ~ alive => \A t \in Transfers :
        Live(t) => tpc[t] = "log" /\ \E u \in Transfers : u > t /\ tpc[u] = "done"

\* "This prevents use-after-free when transfer thread accesses session"
\* (session.c:149).  It does not: that log line reads the freed session, and
\* REIN makes the session forget a thread that is in the middle of its transfer.
NoUseAfterFree == "freed_session" \notin fault

\* Thread t is going to release the lock recorded in parameters i.
WillRelease(t, i) ==
    /\ tpc[t] \in {"start", "params", "check", "loop", "pick", "io", "close", "reply", "clear",
                   "unlock"}
    /\ i = IF tpc[t] \in {"start", "params"} THEN transfer_params ELSE local[t].params
    /\ params[i].lock_acquired /\ ~ params[i].freed

\* Every file lock has exactly one party that is going to release it, through
\* the hand-over from the handler to the thread in cmd_handle_retr, _stor and
\* _appe and through every error path; nothing stays locked after the session.
LocksHaveOwner ==
    /\ \A l \in locks :
          \/ l.by = Null /\ cpc \in {"locked", "select", "opened", "unlock"}
          \/ \E t \in Transfers : /\ WillRelease(t, l.by)
                                  /\ \A u \in Transfers : WillRelease(u, l.by) => u = t
    /\ cpc = "gone" => locks = {}

\* The parameters malloc'd for a thread are freed by it, once, and nobody
\* reads them afterwards.
ParamsHaveOwner ==
    /\ \A t \in Transfers :
          tpc[t] \in {"check", "loop", "pick", "io", "close", "reply", "clear", "unlock", "free"}
             => local[t].params = t /\ ~ params[t].freed
    /\ \A i \in Transfers :
          params[i] # NoParams /\ ~ params[i].freed
             => transfer_params = i /\ tpc[i] \notin {"final", "idle", "log", "done"}
    /\ fault \subseteq {"freed_session"}

\* With a polite client a transfer only ever sends and receives on the
\* connection that was opened for it, although session->data_socket is read
\* without the lock.
OwnConnection == polite => \A t \in Transfers : ~ local[t].foreign

\* session_destroy gets through its pthread_join: closing the data connection
\* "will cause transfer thread to exit".
DestroyCompletes == (cpc = "destroy") ~> (cpc = "gone")

\* It does so with a polite client; an impolite one is SessionHang.
PoliteDestroyCompletes == (polite /\ cpc = "destroy") ~> (cpc = "gone")

\* The ABOR of a polite client interrupts the transfer it finds running, blocked
\* or not.
AborEnds ==
    \A t \in Transfers : (polite /\ cpc = "abor" /\ Working(t)) ~> ~ Working(t)

\* transfer.c answers an aborted transfer with "the 226 response for ABOR
\* command sequence": a transfer that a polite client starts has not been
\* aborted already.
StartsUnaborted ==
    polite => \A t \in Transfers : tpc[t] = "start" => ~ transfer_should_abort

=============================================================================
