-------------------------- MODULE ClientTransfers --------------------------
(***************************************************************************)
(* The client's asynchronous transfers over one control and one data       *)
(* connection (client/src/ftp/core): commands are sent and answered in the *)
(* user's threads, a worker thread per transfer moves the data and reads   *)
(* the completion reply.  All of them read replies from the same socket    *)
(* and use client.data_conn, whichever connection it holds at the moment.  *)
(*                                                                         *)
(* A job is PASV, RETR or STOR, and the worker.  The server is abstracted  *)
(* to what it sends; SessionTransfer has its threads.  Passive mode only,  *)
(* APPE is like STOR.                                                      *)
(***************************************************************************)
EXTENDS Integers, Sequences, FiniteSets

CONSTANTS MaxJobs,        \* bound: transfers the user starts
          Size,           \* bound: chunks in a file
          Pausable,       \* bound: the transfers the user pauses
          Spoilable,      \* bound: the transfers that fail in a local file or
                          \* in the progress callback
          MaxConcurrent   \* TransferManager.max_concurrent

ASSUME MaxJobsIsNat  == MaxJobs \in Nat
ASSUME SizeIsNat     == Size \in Nat
ASSUME MaxConcurrentIsNat == MaxConcurrent \in Nat \ {0}

Jobs == 1 .. MaxJobs
None == 0

VARIABLES
    \* the control connection
    requests,       \* commands sent and not yet handled
    replies,        \* replies sent and not yet read
    is_connected,   \* control_conn.is_connected
    \* the server
    server,         \* its command thread: listener, command that opens data
    busy,           \* the job of its transfer thread
    conn,           \* the connection that thread uses
    fin,            \* connections the server has closed
    \* data connections, each named after the job whose PASV opened it
    connection,     \* client.data_conn.connection
    socket,         \* socket[c]: the client's end
    pipe,           \* pipe[c]: chunks under way
    left, got,      \* per job: chunks yet to be sent, chunks received
    \* the user's threads
    jpc, kind,      \* per job: progress of its commands, RETR or STOR
    apc,            \* progress of an abort, or of another command
    pausing,        \* jobs whose pause() is between test and assignment
    \* the TransferManager
    wpc,            \* per job: progress of the worker
    status, cancel_event, pause_event,
    active_count,
    told,           \* per job: what the completion callback was given
    calm,           \* ghost: see Disturb
    spoilt          \* ghost: downloads that an exception of the local file or
                    \* of the progress callback has cut short

controlVars == <<requests, replies, is_connected>>
serverVars  == <<server, busy, conn, fin>>
dataVars    == <<connection, socket, pipe, left, got>>
userVars    == <<jpc, kind, apc, pausing>>
eventVars   == <<cancel_event, pause_event>>
vars == <<controlVars, serverVars, dataVars, userVars, wpc, status, eventVars,
          active_count, told, calm, spoilt>>

Idle == [listener |-> None, opening |-> None]

Init ==
    /\ requests = <<>> /\ replies = <<>> /\ is_connected = TRUE
    /\ server = Idle /\ busy = None /\ conn = None /\ fin = {}
    /\ connection = None
    /\ socket = [c \in Jobs |-> "none"] /\ pipe = [c \in Jobs |-> 0]
    /\ left = [j \in Jobs |-> Size] /\ got = [j \in Jobs |-> 0]
    /\ jpc = [j \in Jobs |-> "none"] /\ kind = [j \in Jobs |-> "RETR"]
    /\ apc = "none" /\ pausing = {}
    /\ wpc = [j \in Jobs |-> "none"]
    /\ status = [j \in Jobs |-> "pending"]
    /\ cancel_event = {} /\ pause_event = Jobs
    /\ active_count = 0
    /\ told = [j \in Jobs |-> "nothing"]
    /\ calm = TRUE /\ spoilt = {}

-----------------------------------------------------------------------------
(* Replies                                                                 *)

\* A reply belongs to the command or transfer of a job, or to ABOR (None).
ReplyTo(j, code) == [code |-> code, job |-> j]

Success(r)     == r.code \in 200 .. 299
Preliminary(r) == r.code \in 100 .. 199

Says(j, code) == replies' = Append(replies, ReplyTo(j, code))

\* recv_multiline, under _recv_lock: one reader gets the whole reply.
Read == is_connected /\ replies # <<>> /\ replies' = Tail(replies)

\* The reader waits and nothing will come: the server has nothing to do for
\* this client.  After 30 seconds the socket times out.  Bound: a server that
\* has something to say says it in time.
Stranded == /\ is_connected /\ replies = <<>> /\ requests = <<>>
            /\ server.opening = None /\ busy = None

\* recv then marks the connection as lost, for everybody.
TimedOut == Stranded /\ is_connected' = FALSE

\* A thread that uses the connection finds it lost, by its own timeout or
\* another's.
FindsLost == TimedOut \/ (~ is_connected /\ UNCHANGED is_connected)

-----------------------------------------------------------------------------
(* The server: what cmd_handle_pasv, _retr, _stor, _abor and the transfer  *)
(* thread send and close.                                                  *)

Handles(op) ==
    /\ requests # <<>> /\ Head(requests).op = op
    /\ server.opening = None
    /\ requests' = Tail(requests)

\* PASV closes the data connection; a transfer that uses it loses it.
HandlePasv ==
    /\ Handles("PASV")
    /\ LET j == Head(requests).job IN
       \/ /\ Says(j, 227)
          /\ server' = [server EXCEPT !.listener = j]
          /\ fin' = fin \cup ({conn} \ {None})
       \/ Says(j, 425) /\ UNCHANGED <<server, fin>>
    /\ UNCHANGED <<is_connected, busy, conn, dataVars, userVars, wpc, status, eventVars,
                   active_count, told, calm, spoilt>>

\* The 150 goes out before the data connection is opened.
HandleTransfer ==
    /\ Handles("TRANSFER")
    /\ LET j == Head(requests).job IN
       \/ Says(j, 150) /\ server' = [server EXCEPT !.opening = j]
       \/ Says(j, 450) /\ UNCHANGED server
    /\ UNCHANGED <<is_connected, busy, conn, fin, dataVars, userVars, wpc, status, eventVars,
                   active_count, told, calm, spoilt>>

\* Somebody has connected to the listener.
ClientConnects == server.listener # None /\ socket[server.listener] # "none"

\* The client has connected: the transfer thread starts, unless one runs.
Accept ==
    LET c == server.listener IN
    /\ server.opening # None
    /\ ClientConnects
    /\ \/ /\ busy = None
          /\ busy' = server.opening /\ conn' = c
          /\ UNCHANGED <<fin, replies>>
       \/ /\ busy # None
          /\ Says(server.opening, 451)
          /\ fin' = fin \cup {c}
          /\ UNCHANGED <<busy, conn>>
    /\ server' = Idle
    /\ UNCHANGED <<requests, is_connected, dataVars, userVars, wpc, status, eventVars,
                   active_count, told, calm, spoilt>>

\* Nobody connects in time, or there is no listener.
AcceptFails ==
    /\ server.opening # None
    /\ ~ ClientConnects
    /\ Says(server.opening, 425)
    /\ server' = [server EXCEPT !.opening = None]
    /\ UNCHANGED <<requests, is_connected, busy, conn, fin, dataVars, userVars, wpc, status,
                   eventVars, active_count, told, calm, spoilt>>

\* cmd_handle_abor: 426 if a transfer runs, 225 if not; the transfer thread
\* replies for itself.
HandleAbor ==
    /\ Handles("ABOR")
    /\ Says(None, IF busy # None THEN 426 ELSE 225)
    /\ server' = Idle
    /\ fin' = fin \cup ({conn} \ {None})
    /\ UNCHANGED <<is_connected, busy, conn, dataVars, userVars, wpc, status, eventVars,
                   active_count, told, calm, spoilt>>

\* Any command that touches none of this: CWD, PWD, NOOP, ...
HandleOther ==
    /\ Handles("OTHER")
    /\ Says(None, 250)
    /\ UNCHANGED <<is_connected, serverVars, dataVars, userVars, wpc, status, eventVars,
                   active_count, told, calm, spoilt>>

\* transfer_send_file, transfer_receive_file: one chunk.
ServerMoves ==
    /\ busy # None /\ conn \notin fin
    /\ \/ /\ kind[busy] = "RETR" /\ left[busy] > 0 /\ socket[conn] = "open"
          /\ pipe' = [pipe EXCEPT ![conn] = @ + 1]
          /\ left' = [left EXCEPT ![busy] = @ - 1]
          /\ UNCHANGED got
       \/ /\ kind[busy] = "STOR" /\ pipe[conn] > 0
          /\ pipe' = [pipe EXCEPT ![conn] = @ - 1]
          /\ got' = [got EXCEPT ![busy] = @ + 1]
          /\ UNCHANGED left
    /\ UNCHANGED <<controlVars, serverVars, connection, socket, userVars, wpc, status, eventVars,
                   active_count, told, calm, spoilt>>

\* The transfer thread is through: everything sent, or the end of the upload
\* seen.  A client that closes early looks like the end of an upload.
ServerThrough ==
    IF kind[busy] = "RETR" THEN left[busy] = 0
                           ELSE socket[conn] = "closed" /\ pipe[conn] = 0

\* The thread closes what there is of a data connection, then replies.
Finishes(code) ==
    /\ Says(busy, code)
    /\ fin' = fin \cup {conn}
    /\ server' = [server EXCEPT !.listener = None]
    /\ busy' = None /\ conn' = None
    /\ UNCHANGED <<requests, is_connected, dataVars, userVars, wpc, status, eventVars,
                   active_count, told, calm, spoilt>>

\* 226 when through or aborted, 426 when the connection is gone.
ServerFinishes ==
    /\ busy # None
    /\ \/ ServerThrough /\ conn \notin fin /\ Finishes(226)
       \/ conn \in fin /\ (Finishes(226) \/ Finishes(426))
       \/ kind[busy] = "RETR" /\ socket[conn] = "closed" /\ Finishes(426)

\* The file cannot be read or written any further.
ServerBreaks == busy # None /\ Finishes(451)

ServerStep == HandlePasv \/ HandleTransfer \/ HandleAbor \/ HandleOther
              \/ Accept \/ AcceptFails \/ ServerMoves \/ ServerFinishes

-----------------------------------------------------------------------------
(* client.data_conn                                                        *)

Connected == connection # None /\ socket[connection] = "open"

\* connect() "if not already connected" succeeds while the server listens.
CanConnect == Connected \/ (connection # None /\ server.listener = connection)

\* close() closes the connection that is current now.
Closed == IF connection = None THEN socket
          ELSE [socket EXCEPT ![connection] = IF @ = "none" THEN @ ELSE "closed"]

\* Nothing will come: the server has closed the connection, or, until recv
\* times out, nobody sends.
Deserted(c) ==
    \/ c \in fin
    \/ server.opening = None /\ ~ (conn = c /\ kind[busy] = "RETR")

-----------------------------------------------------------------------------
(* The user's threads.  Bound: the user disturbs the connection once, and not *)
(* between the two steps of a pause; after that only what is over is followed *)
(* by a new transfer.                                                        *)

Send(op, j) == is_connected /\ requests' = Append(requests, [op |-> op, job |-> j])

\* A job that is over leaves nothing to be read.
Over(j) == jpc[j] \in {"none", "failed"} \/ wpc[j] = "done"

\* Bookkeeping: what may make a reply reach the wrong reader.  A job starts
\* before the last is over, an abort or another command, a worker that gives up
\* on an exception.
Disturb(what) == calm' = (calm /\ ~ what)

Commands == {"none", "pasv", "passive", "retr", "started", "failed"}

\* The user starts a transfer.
Pasv(j, k) ==
    /\ jpc[j] = "none" /\ \A i \in 1 .. j - 1 : jpc[i] # "none"
    /\ Send("PASV", j)
    /\ calm \/ \A i \in Jobs : Over(i)
    /\ jpc' = [jpc EXCEPT ![j] = "pasv"]
    /\ kind' = [kind EXCEPT ![j] = k]
    /\ Disturb(\E i \in Jobs : ~ Over(i))
    /\ UNCHANGED <<replies, is_connected, serverVars, dataVars, apc, pausing, wpc, status,
                   eventVars, active_count, told, spoilt>>

\* parse_pasv_response raises for a success that is no 227.
PasvReply(j) ==
    /\ jpc[j] = "pasv" /\ Read
    /\ LET r == Head(replies) IN
       IF r.code = 227
       THEN /\ jpc' = [jpc EXCEPT ![j] = "passive"]
            /\ connection' = r.job
       ELSE jpc' = [jpc EXCEPT ![j] = "failed"] /\ UNCHANGED connection
    /\ UNCHANGED <<requests, is_connected, serverVars, socket, pipe, left, got, kind, apc, pausing,
                   wpc, status, eventVars, active_count, told, calm, spoilt>>

RetrOrStor(j) ==
    /\ jpc[j] = "passive"
    /\ Send("TRANSFER", j)
    /\ jpc' = [jpc EXCEPT ![j] = "retr"]
    /\ UNCHANGED <<replies, is_connected, serverVars, dataVars, kind, apc, pausing, wpc, status,
                   eventVars, active_count, told, calm, spoilt>>

\* start_download, start_upload, after an attempt to connect.
StartWorker(j) ==
    /\ jpc' = [jpc EXCEPT ![j] = "started"]
    /\ wpc' = [wpc EXCEPT ![j] = "pending"]
    /\ socket' = IF CanConnect THEN [socket EXCEPT ![connection] = "open"] ELSE socket

\* Faulty variant: the worker starts whatever the reply was.
RetrReplyAny(j) ==
    /\ jpc[j] = "retr" /\ Read
    /\ StartWorker(j)
    /\ UNCHANGED <<requests, is_connected, serverVars, connection, pipe, left, got, kind, apc,
                   pausing, status, eventVars, active_count, told, calm, spoilt>>

RetrReply(j) ==
    /\ jpc[j] = "retr" /\ Read
    /\ LET r == Head(replies) IN
       IF Preliminary(r) \/ Success(r)
       THEN StartWorker(j)
       ELSE jpc' = [jpc EXCEPT ![j] = "failed"] /\ UNCHANGED <<wpc, socket>>
    /\ UNCHANGED <<requests, is_connected, serverVars, connection, pipe, left, got, kind, apc,
                   pausing, status, eventVars, active_count, told, calm, spoilt>>

\* The reply does not come, or another thread has found the connection lost.
CommandFails(j) ==
    /\ \/ jpc[j] \in {"pasv", "retr"} /\ FindsLost
       \/ jpc[j] = "passive" /\ ~ is_connected /\ FindsLost
    /\ jpc' = [jpc EXCEPT ![j] = "failed"]
    /\ UNCHANGED <<requests, replies, serverVars, dataVars, kind, apc, pausing, wpc, status,
                   eventVars, active_count, told, calm, spoilt>>

\* There is a Transfer object.
Exists(j) == wpc[j] # "none"
IsActive(j) == Exists(j) /\ status[j] \in {"running", "paused"}

\* Transfer.cancel for each of a set of transfers.
CancelAll(js) ==
    /\ cancel_event' = cancel_event \cup js
    /\ status' = [j \in Jobs |-> IF j \in js THEN "cancelled" ELSE status[j]]

\* cancel_transfer, while calm.  By the time it tests is_active the status is "cancelled",
\* so that it never sends ABOR.
Cancel(j) ==
    /\ Exists(j) /\ calm
    /\ CancelAll({j})
    /\ UNCHANGED <<controlVars, serverVars, dataVars, userVars, wpc, pause_event, active_count,
                   told, calm, spoilt>>

\* pause and resume test the status, ...  Bound: one at a time, of Pausable
\* transfers, while calm.
Toggle(j) ==
    /\ IsActive(j)
    /\ j \in Pausable /\ pausing = {} /\ calm
    /\ pausing' = pausing \cup {<<j, IF status[j] = "running" THEN "pause" ELSE "resume">>}
    /\ UNCHANGED <<controlVars, serverVars, dataVars, jpc, kind, apc, wpc, status, eventVars,
                   active_count, told, calm, spoilt>>

\* ... then set the event and the status, whatever that is by now.
ToggleSet(j, how) ==
    /\ <<j, how>> \in pausing
    /\ pausing' = pausing \ {<<j, how>>}
    /\ pause_event' = IF how = "pause" THEN pause_event \ {j} ELSE pause_event \cup {j}
    /\ status' = [status EXCEPT ![j] = IF how = "pause" THEN "paused" ELSE "running"]
    /\ UNCHANGED <<controlVars, serverVars, dataVars, jpc, kind, apc, wpc, cancel_event,
                   active_count, told, calm, spoilt>>

\* The abort of the command line cancels what is active, then sends ABOR; the
\* one of the GUI, in a thread of its own, sends ABOR first.
Abort(ui) ==
    /\ apc = "none" /\ calm /\ pausing = {}
    /\ Send("ABOR", None)
    /\ apc' = ui
    /\ CancelAll(IF ui = "cli" THEN {j \in Jobs : IsActive(j)} ELSE {})
    /\ Disturb(TRUE)
    /\ UNCHANGED <<replies, is_connected, serverVars, dataVars, jpc, kind, pausing, wpc,
                   pause_event, active_count, told, spoilt>>

\* Another command, such as the CWD and PWD of the GUI's navigation, in a thread
\* of its own, which reads the next reply there is.
OtherCommand ==
    /\ apc = "none" /\ calm /\ pausing = {}
    /\ Send("OTHER", None)
    /\ apc' = "other"
    /\ Disturb(TRUE)
    /\ UNCHANGED <<replies, is_connected, serverVars, dataVars, jpc, kind, pausing, wpc, status,
                   eventVars, active_count, told, spoilt>>

Aborting == {"cli", "gui", "cli_second", "gui_second", "other"}
Second(ui) == IF ui = "cli" THEN "cli_second" ELSE "gui_second"
AfterAbort == IF apc \in {"gui", "gui_second"} THEN "stop" ELSE "over"

\* AborCommand.execute: another reply is read if the first is no success.
\* Another command reads one.
AbortReply ==
    /\ apc \in Aborting /\ Read
    /\ apc' = IF apc \in {"cli", "gui"} /\ ~ Success(Head(replies)) THEN Second(apc) ELSE AfterAbort
    /\ UNCHANGED <<requests, is_connected, serverVars, dataVars, jpc, kind, pausing, wpc, status,
                   eventVars, active_count, told, calm, spoilt>>

\* Only the first wait for a reply passes its exception on.
AbortFails ==
    /\ apc \in Aborting
    /\ FindsLost
    /\ apc' = IF apc = "gui_second" THEN "stop" ELSE "over"
    /\ UNCHANGED <<requests, replies, serverVars, dataVars, jpc, kind, pausing, wpc, status,
                   eventVars, active_count, told, calm, spoilt>>

\* The GUI goes on with stop_all, which waits some time for the workers, ...
AbortStop ==
    /\ apc = "stop"
    /\ apc' = "close"
    /\ CancelAll({j \in Jobs : IsActive(j)})
    /\ UNCHANGED <<controlVars, serverVars, dataVars, jpc, kind, pausing, wpc, pause_event,
                   active_count, told, calm, spoilt>>

\* ... and data_conn.close.
AbortClose ==
    /\ apc = "close"
    /\ apc' = "over"
    /\ socket' = Closed
    /\ UNCHANGED <<controlVars, serverVars, connection, pipe, left, got, jpc, kind, pausing, wpc,
                   status, eventVars, active_count, told, calm, spoilt>>

UserStep(j) == PasvReply(j) \/ RetrOrStor(j) \/ RetrReply(j) \/ CommandFails(j)

AbortStep == AbortReply \/ AbortFails \/ AbortStop \/ AbortClose

-----------------------------------------------------------------------------
(* The workers                                                             *)

Work(j, from, to) == wpc[j] = from /\ wpc' = [wpc EXCEPT ![j] = to]

\* _wait_for_slot ...
WaitForSlot(j) ==
    /\ Work(j, "pending", "slot")
    /\ active_count < MaxConcurrent
    /\ UNCHANGED <<controlVars, serverVars, dataVars, userVars, status, eventVars, active_count,
                   told, calm, spoilt>>

\* ... and _acquire_slot are two critical sections.
AcquireSlot(j) ==
    /\ Work(j, "slot", "begin")
    /\ active_count' = active_count + 1
    /\ UNCHANGED <<controlVars, serverVars, dataVars, userVars, status, eventVars, told, calm,
                   spoilt>>

\* The worker is through: status, end_time, callback.
Conclude(j, verdict) ==
    /\ status' = [status EXCEPT ![j] = verdict]
    /\ told' = [told EXCEPT ![j] = IF verdict = "completed" THEN "success" ELSE "failure"]

\* Faulty variant: an exception skips the finally.
RaiseWithSlot(j) ==
    /\ wpc' = [wpc EXCEPT ![j] = "done"]
    /\ Conclude(j, "failed")

\* An exception.  Before the completion reply is read, it leaves it unread.
Raise(j) ==
    /\ wpc' = [wpc EXCEPT ![j] = "release"]
    /\ Conclude(j, "failed")

\* The status is RUNNING, whatever it was.  The connection, or then the local
\* file, may not open.
Begin(j) ==
    /\ wpc[j] = "begin"
    /\ \/ /\ CanConnect
          /\ wpc' = [wpc EXCEPT ![j] = "loop"]
          /\ socket' = [socket EXCEPT ![connection] = "open"]
          /\ status' = [status EXCEPT ![j] = "running"]
          /\ UNCHANGED <<told, calm>>
       \/ /\ ~ CanConnect \/ (j \in Spoilable /\ calm)
          /\ Raise(j)
          /\ Disturb(TRUE)
          /\ socket' = IF CanConnect THEN [socket EXCEPT ![connection] = "open"] ELSE socket
    /\ UNCHANGED <<controlVars, serverVars, connection, pipe, left, got, userVars, eventVars,
                   active_count, spoilt>>

\* Faulty variant: a cancelled transfer is left without its reply.
LoopHeadLeaves(j) ==
    /\ Work(j, "loop", IF j \in cancel_event THEN "release" ELSE "paused")
    /\ UNCHANGED <<controlVars, serverVars, dataVars, userVars, status, eventVars, active_count,
                   told, calm, spoilt>>

\* The test of cancel_event.
LoopHead(j) ==
    /\ Work(j, "loop", IF j \in cancel_event THEN "close" ELSE "paused")
    /\ UNCHANGED <<controlVars, serverVars, dataVars, userVars, status, eventVars, active_count,
                   told, calm, spoilt>>

\* pause_event.wait()
Unpaused(j) ==
    /\ Work(j, "paused", "io")
    /\ j \in pause_event
    /\ UNCHANGED <<controlVars, serverVars, dataVars, userVars, status, eventVars, active_count,
                   told, calm, spoilt>>

\* recv_data: a chunk; or the end, which it reports as an error, and the loop
\* is left.  So it is on an exception of the file, which loses the chunk, or of
\* the progress callback.
Receive(j) ==
    LET c == connection IN
    /\ wpc[j] = "io" /\ kind[j] = "RETR"
    /\ \/ /\ Connected /\ pipe[c] > 0
          /\ wpc' = [wpc EXCEPT ![j] = "loop"]
          /\ pipe' = [pipe EXCEPT ![c] = @ - 1]
          /\ got' = [got EXCEPT ![j] = @ + 1]
          /\ UNCHANGED <<socket, spoilt>>
       \/ /\ Connected /\ pipe[c] > 0
          /\ j \in Spoilable /\ calm
          /\ wpc' = [wpc EXCEPT ![j] = "close"]
          /\ pipe' = [pipe EXCEPT ![c] = @ - 1]
          /\ got' = got \/ got' = [got EXCEPT ![j] = @ + 1]
          /\ spoilt' = spoilt \cup {j}
          /\ UNCHANGED socket
       \/ /\ Connected /\ pipe[c] = 0 /\ Deserted(c)
          /\ wpc' = [wpc EXCEPT ![j] = "close"]
          /\ socket' = [socket EXCEPT ![c] = "lost"]
          /\ UNCHANGED <<pipe, got, spoilt>>
       \/ /\ ~ Connected
          /\ wpc' = [wpc EXCEPT ![j] = "close"]
          /\ UNCHANGED <<socket, pipe, got, spoilt>>
    /\ UNCHANGED <<controlVars, serverVars, connection, left, userVars, status, eventVars,
                   active_count, told, calm>>

\* The next chunk is read from the file, which may be at its end, and sent.
\* On a connection the server has closed the data is lost or the call fails.
SendChunk(j) ==
    LET c == connection IN
    /\ wpc[j] = "io" /\ kind[j] = "STOR"
    /\ \/ /\ left[j] = 0
          /\ wpc' = [wpc EXCEPT ![j] = "close"]
          /\ UNCHANGED <<socket, pipe, left, status, told, calm>>
       \/ /\ left[j] > 0 /\ Connected
          /\ wpc' = [wpc EXCEPT ![j] = "loop"]
          /\ pipe' = IF c \in fin THEN pipe ELSE [pipe EXCEPT ![c] = @ + 1]
          /\ left' = [left EXCEPT ![j] = @ - 1]
          /\ UNCHANGED <<socket, status, told, calm>>
       \/ /\ left[j] > 0 /\ (~ Connected \/ c \in fin)
          /\ Raise(j)
          /\ Disturb(TRUE)
          /\ socket' = IF Connected THEN [socket EXCEPT ![c] = "lost"] ELSE socket
          /\ UNCHANGED <<pipe, left>>
    /\ UNCHANGED <<controlVars, serverVars, connection, got, userVars, eventVars, active_count,
                   spoilt>>

\* Elsewhere an exception of the local file or of the progress callback ends
\* the worker: in the loop of an upload, and when the file of a download is
\* closed.
LocalError(j) ==
    /\ \/ wpc[j] = "io" /\ kind[j] = "STOR"
       \/ wpc[j] = "close" /\ kind[j] = "RETR"
    /\ j \in Spoilable /\ calm
    /\ Raise(j)
    /\ Disturb(TRUE)
    /\ UNCHANGED <<controlVars, serverVars, dataVars, userVars, eventVars, active_count, spoilt>>

\* data_conn.close()
CloseData(j) ==
    /\ Work(j, "close", "reply")
    /\ socket' = Closed
    /\ UNCHANGED <<controlVars, serverVars, connection, pipe, left, got, userVars, status,
                   eventVars, active_count, told, calm, spoilt>>

\* Faulty variant: the reply alone decides.
VerdictOfReply(j, r) == IF Success(r) THEN "completed" ELSE "failed"

Verdict(j, r) ==
    IF j \in cancel_event THEN "cancelled"
    ELSE IF Success(r) THEN "completed" ELSE "failed"

\* The completion reply.
WorkerReply(j) ==
    /\ Work(j, "reply", "release")
    /\ Read
    /\ Conclude(j, Verdict(j, Head(replies)))
    /\ UNCHANGED <<requests, is_connected, serverVars, dataVars, userVars, eventVars, active_count,
                   calm, spoilt>>

WorkerReplyFails(j) ==
    /\ wpc[j] = "reply"
    /\ FindsLost
    /\ Raise(j)
    /\ UNCHANGED <<requests, replies, serverVars, dataVars, userVars, eventVars, active_count,
                   calm, spoilt>>

\* Faulty variant: the slot is not returned.
ReleaseNothing(j) ==
    /\ Work(j, "release", "done")
    /\ UNCHANGED <<controlVars, serverVars, dataVars, userVars, status, eventVars, active_count,
                   told, calm, spoilt>>

\* Faulty variant: both the except branch and the finally return the slot.
ReleaseTwice(j) ==
    /\ Work(j, "release", "done")
    /\ active_count' = active_count - 2
    /\ UNCHANGED <<controlVars, serverVars, dataVars, userVars, status, eventVars, told, calm,
                   spoilt>>

\* _release_slot
ReleaseSlot(j) ==
    /\ Work(j, "release", "done")
    /\ active_count' = active_count - 1
    /\ UNCHANGED <<controlVars, serverVars, dataVars, userVars, status, eventVars, told, calm,
                   spoilt>>

Worker(j) ==
    WaitForSlot(j) \/ AcquireSlot(j) \/ Begin(j) \/ LoopHead(j) \/ Unpaused(j) \/ Receive(j)
    \/ SendChunk(j) \/ CloseData(j) \/ WorkerReply(j) \/ WorkerReplyFails(j) \/ ReleaseSlot(j)

-----------------------------------------------------------------------------
(* Specifications                                                          *)

Next ==
    \/ ServerStep \/ ServerBreaks
    \/ OtherCommand \/ AbortStep \/ \E ui \in {"cli", "gui"} : Abort(ui)
    \/ \E j \in Jobs :
          \/ \E k \in {"RETR", "STOR"} : Pasv(j, k)
          \/ UserStep(j) \/ Worker(j) \/ LocalError(j)
          \/ Cancel(j) \/ Toggle(j) \/ \E how \in {"pause", "resume"} : ToggleSet(j, how)

Spec == Init /\ [][Next]_vars

\* The server goes on, threads are scheduled, a command that was begun is
\* finished.  The user owes nothing.  Each Event.set wakes every thread that
\* waits, also if the event is cleared at once.
Fairness ==
    /\ WF_vars(ServerStep) /\ WF_vars(AbortStep)
    /\ \A j \in Jobs : WF_vars(UserStep(j)) /\ WF_vars(Worker(j))
    /\ \A j \in Jobs \cap Pausable : SF_vars(Unpaused(j))

FairSpec == Spec /\ Fairness

-----------------------------------------------------------------------------
(* Properties                                                              *)

\* The types of the client's and the server's state.
TypeOK ==
    /\ \A i \in DOMAIN requests :
          requests[i] \in [op : {"PASV", "TRANSFER", "ABOR", "OTHER"}, job : Jobs \cup {None}]
    /\ \A i \in DOMAIN replies :
          replies[i] \in [code : {150, 225, 226, 227, 250, 425, 426, 450, 451},
                          job : Jobs \cup {None}]
    /\ is_connected \in BOOLEAN /\ calm \in BOOLEAN
    /\ server \in [listener : Jobs \cup {None}, opening : Jobs \cup {None}]
    /\ {busy, conn, connection} \subseteq Jobs \cup {None}
    /\ fin \subseteq Jobs
    /\ socket \in [Jobs -> {"none", "open", "lost", "closed"}]
    /\ pipe \in [Jobs -> Nat] /\ left \in [Jobs -> 0 .. Size] /\ got \in [Jobs -> Nat]
    /\ jpc \in [Jobs -> Commands] /\ kind \in [Jobs -> {"RETR", "STOR"}]
    /\ apc \in Aborting \cup {"none", "stop", "close", "over"}
    /\ pausing \subseteq Jobs \X {"pause", "resume"}
    /\ wpc \in [Jobs -> {"none", "pending", "slot", "begin", "loop", "paused", "io", "close",
                         "reply", "release", "done"}]
    /\ status \in [Jobs -> {"pending", "running", "paused", "completed", "failed", "cancelled"}]
    /\ cancel_event \subseteq Jobs /\ pause_event \subseteq Jobs
    /\ active_count \in Nat
    /\ told \in [Jobs -> {"nothing", "success", "failure"}]
    /\ spoilt \subseteq Jobs

HasSlot(j) == wpc[j] \notin {"none", "pending", "slot", "done"}

\* active_count is the number of workers between _acquire_slot and the finally
\* of _download_worker and _upload_worker: whatever a worker raises, and
\* however workers overtake each other in _wait_for_slot, each returns its slot
\* exactly once.
SlotsExact == active_count = Cardinality({j \in Jobs : HasSlot(j)})

\* The code of a reply that the thread of job j waiting for one may get.
Expects(j) ==
    CASE jpc[j] = "pasv"                        -> {227, 425}
      [] jpc[j] = "retr"                        -> {150, 450}
      [] jpc[j] = "started" /\ wpc[j] = "reply" -> {225, 226, 425, 426, 451}
      [] OTHER                                  -> {}

\* Until it is disturbed, the control connection of commands.py and transfer.py
\* stays in step: whoever waits for a reply finds its own at the head, never
\* the completion of another transfer or of one that was cancelled.
RepliesMatch ==
    \A j \in Jobs :
        calm /\ replies # <<>> /\ Expects(j) # {}
           => Head(replies).job = j /\ Head(replies).code \in Expects(j)

\* Until it is disturbed, a callback is told of success (transfer.py) only
\* when every chunk of the file has arrived, whatever was cancelled, paused or
\* broken on the way, with one exception: a download whose local file or whose
\* progress callback raised an exception in the loop.
SuccessIsWholeUnlessSpoilt ==
    \A j \in Jobs : calm /\ told[j] = "success" => got[j] = Size \/ j \in spoilt

\* Without the exception it does not hold (MCClientTransfersSpoilt.cfg): the
\* loop is left, the worker reads the server's 226, and success is told of a
\* file cut short.
SuccessIsWhole == \A j \in Jobs : calm /\ told[j] = "success" => got[j] = Size

\* Until it is disturbed, no recv_multiline waits for a reply that nobody
\* sends, which would end in a timeout that marks the control connection lost.
StaysConnected == calm => is_connected

\* Every worker ends, and returns its slot, whatever became of connections and
\* replies and whatever was paused and resumed, unless a transfer stays paused
\* for ever and keeps its slot (transfer.py): the user does not resume it, or
\* has cancelled it since, after which resume does nothing.
WorkerEndsUnlessLeftPaused ==
    \A j \in Jobs : \/ (wpc[j] = "pending") ~> (wpc[j] = "done")
                    \/ <>[](pause_event # Jobs)

\* report.tex: "cancel_event (exits if cancelled)".  It does not hold of a
\* transfer cancelled while paused (MCClientTransfersCancel.cfg).
CancelEnds == \A j \in Jobs : (j \in cancel_event) ~> (wpc[j] = "done")

\* report.tex: max_concurrent is 1 so that data connections do not conflict.
OneWorkerAtATime == \A i, j \in Jobs : HasSlot(i) /\ HasSlot(j) => i = j

\* A callback that is told of success has got the whole file, after an abort
\* too.  It does not hold (MCClientTransfersAbort.cfg).
SuccessIsWholeAlways ==
    \A j \in Jobs : told[j] = "success" => got[j] = Size \/ j \in spoilt

=============================================================================
