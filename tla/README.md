# Verification of SimpleFTP

SimpleFTP is an FTP server in C (`src/server`, POSIX threads or Winsock) and a
client in Python (`src/client`). This directory holds TLA+ models of the parts
in which things happen concurrently or in an order that is hard to test, TLC
instances that check them, and TLAPS proofs.

## 1. Inventory

| Component | Source | State | Operations | What makes it correct |
|---|---|---|---|---|
| Server life cycle | `server.c`, `main.c` | `g_server_running`, `g_listening_socket`, `g_current_connections` | accept loop, connection limit, one detached thread per connection, stop by signal, clean-up | no slot lost or returned twice; the limit is never exceeded; a client is turned away only at the limit; the signal ends the server |
| Session | `session.c` | `session_t`: login, directory, REST and RNFR state, data connection, transfer thread | create, reset, destroy, PASV/PORT, open and close the data connection, start the transfer thread | one transfer at a time; freed after its threads; data connection of one command never used for another |
| Command handlers | `handler.c`, `command.c` | none of their own | one handler per command, in the client thread | whatever they take (file lock, data connection, parameters) has one owner on every path |
| Transfer engine | `transfer.c` | the thread's locals | send, receive, list; completion reply; release of lock and parameters | ABOR ends it; parameters are used while they live, and freed once |
| File locks | `filelock.c` | table of per-path entries, one mutex | try and blocking acquire, release, two queries | mutual exclusion, exact counters, no leak, no entry freed under one who still uses it, writers first |
| Authentication | `auth.c` | table of users, read-only from loading to clean-up | load, look up, check a password, zero the table | the rights of a session are those of the account that logged in, also while the table is zeroed |
| File system | `filesys.c` | none | path helpers, chunked read and write, directory listing | pure, or I/O |
| Network | `network.c` | none | sockets, timeouts, lines, passive port search | wrappers; the search misses no port |
| Protocol | `protocol.c` | none | parse a command, normalise a path, format a reply, PORT and PASV addresses | what the client meant is what is read |
| Logger, utilities | `logger.c`, `utils.c` | the log file, a mutex | | the mutex matters to the signal handler |
| Client core | `client/src/ftp/core` | control and data connection, transfers | commands, `TransferManager` with worker threads | each reply is read by who waits for it; success means the whole file; slots are returned; workers end |
| Client UI | `client/src/ftp/ui` | widgets, menus | user events | |

How they interact: `server_run` accepts a connection, creates the session and
starts `client_thread`, which reads a line, and calls the handler through the
command table. RETR, STOR, APPE, LIST and NLST open the data connection, take a
file lock (not LIST and NLST) and start `transfer_thread_func`, to which lock
and parameters are handed over; from then on two threads share the `session_t`,
some of it under `session->lock`, some of it not. All sessions share the lock
table, the user table, the command table and the connection count.

Hard to test: the client thread closing or replacing the data connection while
the transfer thread sends or receives on it; ABOR, QUIT and REIN at every stage
of a transfer; the hand-over of the file lock; the end of a session against its
transfer thread; the removal of lock entries against waiters; the connection
count against failures; the signal handler against the thread it interrupts.
`PROJECT.json` lists each such hazard at its line.

## 2. Modules

| Module | What it is |
|---|---|
| `RWLock` | abstract specification: a reader/writer lock per path |
| `FileLock` | `filelock.c`, every entry point |
| `SessionTransfer` | one session: client thread, transfer threads, the `session_t` they share |
| `FileService` | files shared by all sessions: RETR, STOR, APPE, DELE, RNFR, RNTO and the transfer thread's reads and writes, over `RWLock` |
| `SessionControl` | the control connection of one session: login, rights, directory, REST, RNFR, the command table |
| `Server` | main thread, client threads, signal handler |
| `Auth` | the user table: loading, look-up, zeroing at the end under client threads that still read it |
| `ClientTransfers` | the client's `TransferManager`, its workers and the user's commands on one control connection, with a server |
| `Loops`, `Ascii`, `Paths`, `Lines`, `Ports` | pure algorithms: line ends, path arguments, command lines, port numbers |
| `FileLockProofs`, `SessionTransferProofs`, `FileServiceProofs`, `SessionControlProofs`, `ServerProofs`, `AuthProofs`, `ClientTransfersProofs`, `ConversionsProofs` | theorems and proofs |
| `MC*` | what TLC instantiates |

### FileLock
Each function runs under `g_file_lock_mutex`, so it is one action, except that
`pthread_cond_wait` gives the mutex up: a blocking acquire is split into the
call and a retry after each wake-up, and a wake-up may be spurious. `entry` is
the linked list as a function from paths; `pc` says what each caller does;
`dangling` collects callers whose entry was freed while they waited on it, and
`astray` says that one of them has gone on with it: what the program does then
is undefined, and nothing is said of it. Callers release only what they hold, as
all callers in the repository do. A failing `calloc` makes a call return -1
without effect and is left out. `Next` has the whole interface, the two blocking
calls included, which no code calls yet. The blocking read lock is where entries
are freed under a waiter: `release_common` removes an entry that only sleeping
readers are left to use. `OnlyWokenReadersDangle` is what is true of that,
`NobodyDangles` what should be. The abstract lock is reached by the mapping
`shared[p]` = callers holding the read lock, `exclusive[p]` = the writer.

### SessionTransfer
`cpc` is the place of the client thread between the calls that matter, `tpc[t]`
that of transfer thread `t`. A step is what happens under `session->lock` or one
unlocked access. `data_socket` holds the transfer a connection was opened for;
`sock[t]` follows the socket of the call thread `t` is blocked in, which may be
closed (`close` alone leaves the call blocked) or shut down (it returns) by the
other thread. `params[t]` and `locks` are the heap block and the file locks of
the session. Path checks, permissions and the file system enter as the free
choice of a handler to refuse; what the peer of the data connection does is
free, too. RETR, STOR, APPE, LIST and NLST share their structure in the code and
their actions in the model; so do the binary, ASCII and listing loops, which
differ in the tests before the loop (`CheckSocket`) and in whether reading may
fail (`LoopHead`).

`polite` is a choice made at the start: a polite client waits for the completion
reply before it sets up the next transfer (ABOR and QUIT at any time), another
sends its commands in any order. In `Next` both send REIN only between
transfers, in `AnyNext` at any time. A thread that has set the state idle still
logs `session->client_ip` (`tpc[t] = "log"`); reading it after the session is
freed is a fault like any other.

### FileService
`handler[s]` and `thread[s]` say where the command and the transfer of session
`s` are: tests without the lock (`checked`), lock taken (`locked`), tests
repeated under the lock (`ready`), hand-over to the thread or release. The locks
are those of `RWLock`, which `FileLock` is proved to implement; the holder
changes from `<<s, "handler">>` to `<<s, "thread">>` at the hand-over. A file is
a sequence of buffers, each named after the session that wrote it; `SendChunk`
and `ReceiveChunk` open the path anew, as `fs_read_file_chunk` and
`fs_write_file_chunk` do. Permissions, the data connection and I/O errors are
free choices to refuse or to break off. What a failed upload leaves in its file
is not constrained. An upload of no bytes creates no file, as in the code.
`Next` is for sessions that do not upload to a name another is renaming to,
`AnyNext` for all. `DirectoryNext` adds the renaming of directories, which takes
no lock of the files below; MKD and RMD enter as directories that may come and
go above a name without a file. Names that reach one file by two paths are left
out.

### SessionControl
The client thread handles one command at a time and the fields modelled here are
written by no other thread, so a command is one step: the previous handler of
its table entry (`Cleared`), then the handler. `session` is the control part of
`session_t`; a path is a sequence of names, which `Resolve` normalises with a
fold as `normalize_and_validate_path` does with its array of components. Users,
their homes and permissions, and the directories are constants: `auth.c` is
read-only once the server runs. Every refusal, for whatever reason, is
`Refused`: what the previous handler cleared stays cleared. Commands that treat
this state alike share a name (`LIST` is also NLST, `SIZE` also MDTM, `CWD` also
CDUP, `TYPE` all that touch none of it). `login`, `since` and `acted` are ghost
variables, used by the properties only: the user whose password was last
accepted, the commands handled since REST and RNFR, and what the last command
did to files. An empty home directory, which the code takes for no restriction
and the format of the user file cannot express, is left out; so are limits on
the length of paths. QUIT, ABOR and the data connection are in
`SessionTransfer`.

### Server
`mpc` is the main thread, `hpc` the signal handler, which runs on the main
thread and stops it meanwhile, `cst[c]` the life of a connection from its
arrival through its thread to its end. Of the main thread's log calls the one
after `accept` is modelled, as the place where it holds the logger's mutex. One
signal arrives at most, at any moment. If it finds the main thread inside the
logger, the handler's own log call waits for ever for that mutex;
`StopCompletesOutsideLogger` leaves this case out, `StopCompletes` does not.

### Auth
`main` is the main thread from `auth_init` to the end of the process, `pc[c]`
the client threads, which `server_cleanup` does not wait for. A look-up is one
step under `g_auth_lock`; `auth_get_user` returns a pointer, here the index of
the slot (or `Virtual` for `g_virtual_anonymous`), which `session_authenticate`
reads field by field after the lock is released. `auth_cleanup` zeroes the table
under the lock, in any order of its fields, and a string that is copied
meanwhile may come out cut. A line of `users.db` is a record. `Parses` says
which lines `sscanf` takes (none with an empty field), and `Stored`, `Given`
what the table then holds and grants. What a user should be granted is said by
the documents instead, in `Named` and `Granted`: a line of anonymous needs no
hash (`auth.c:220`). Where the two differ (`Unread`), `ActsAsLoggedIn` allows
both, and `ActsAsDocumented` does not. `USER`, `PASS` and one other command
stand for all. The clients share nothing but the table, which they only read, so
one of them, against the main thread, is enough for TLC; the theorems are about
any number. `auth_load_users` is one step for each line it reads (`LoadLine`)
and one that leaves the loop (`LoadEnds`), so that what the table holds after n
lines can be said by an invariant. What a session does with its rights
afterwards is `SessionControl`.

### ClientTransfers
A job is PASV, then RETR or STOR, then a worker of the `TransferManager`.
`requests` and `replies` are the two directions of the control connection; every
thread that waits for a reply takes the one at the head (`Read`), whoever it was
meant for, which is what `recv_multiline` under `_recv_lock` does.
`client.data_conn` is one object for all jobs, and `connection` is the
connection it holds now. `socket`, `pipe` and `fin` are the two ends of each
data connection. `wpc[j]` follows the worker through slot, loop, pause, close,
reply and the `finally` that returns the slot. An exception is `Raise`, except
in the loop of a download: there `transfer.py` notes it in `transfer.error` and
leaves the loop as at the end of the file, and the worker reads the completion
reply and goes by it; such a download is `spoilt`. The local file and the
progress callback fail for the jobs of `Spoilable`, a bound. `OtherCommand` is
any other command that the window sends on the same control connection, while
workers may wait on it. `Stranded` says that a reader waits for a reply that
nobody will send; the socket timeout of 30 seconds then marks the connection as
lost. The server is what it sends and closes; its threads are `SessionTransfer`.
Abort is the command of the command line (cancel, ABOR, one or two replies) or
of the window (ABOR, replies, `stop_all`, close).

`calm` is true until something happens that the client does not arrange for: an
abort, another command, a job started before the last is over, or a worker that
raises with a reply outstanding. That is where most of what can go wrong begins,
so the user does no more of it afterwards. Pausing, cancelling, local failures,
aborts and other commands begin while the client is calm, and the last two not
between the two steps of `pause()`: bounds, too. Three invariants are about the
calm part, which contains pauses, cancelled and spoilt transfers, and refusals
and failures of the server; slots and the end of workers are about all of it.

### Ascii, Paths, Lines, Ports
Operators, each named after the function it stands for; `MCConversions` makes
the inputs, in two steps (`given`, then `input`), and the stream of an upload
grows by one segment with each call of `recv`. A C loop over the bytes of a
buffer is, in `Loops`, the sequence of what each turn writes (`put`) and where
it goes on (`next`); `Written` puts what the turns write together. The Telnet
filter, the two line-end conversions, the tokens of a path, the runs of slashes
and the loop of `client_thread` (whose turns write commands, or `Left` when a
line is too long and the thread leaves) are such loops; the loops of
`transfer.c` over buffers are recursive functions.

What they should compute is stated without the loops: by the set of indices of
the stream that are kept, each at the place of its rank among them (`Kept`,
`Rank`), whatever `recv` made of the stream, except that nothing is said of the
contents if it split a CRLF (`Split`), which the code stores as it came; by laws
(`Composes`, `GoesUp`, `GoesDown`, `IsCanonical`); by the inverse
(`DownloadIsExact`, `Carries`, `ReadAsMeant`); by the set of free ports
(`FindsFree`). `SessionControl` and `FileService` take the result of path
resolution as a value, `SessionTransfer` takes a buffer as one, and
`ClientTransfers` a command: these modules say why they may.

## 3. Runs

| Run | Bounds | Shows |
|---|---|---|
| `FileLock` | 4 callers, 2 paths | until a freed entry is used: exclusion, exact counters, no leak, writer priority, progress of writers, refinement of `RWLock`; only readers of the blocking call lose their entry |
| `Session` | 2 transfers, 1 buffer, 2 files, all commands, polite clients and others | one transfer at a time; locks and parameters have exactly one owner; freed after the thread started last; polite: own connection, the session's end and ABOR get through |
| `SessionFreed` (violation) | 2 transfers, 1 buffer, 1 file | REIN during a transfer makes the session forget its thread, which then uses the freed session (`session.c:149`) |
| `SessionHang` (violation) | 1 upload | PASV during a transfer can make `session_destroy` hang |
| `FileService` | 2 sessions, 2 paths, 2 buffers a file, 2 commands or transfers under way | a download sends the file as admitted; an upload leaves what it should; no file gets a hole |
| `FileServiceRename` (violation) | 2 sessions, 2 paths, 1 buffer | RNTO replaces a file that came to be after its test |
| `SessionControl` | 5 users, 4 directories, 5 arguments, offsets up to 1 | rights are those of one login; no command acts outside them; what REST and RNFR left is pending over no login and no command but NOOP and those of its kind |
| `SessionControlHome` (violation) | the same | who may read, and has the home `/` (anonymous by default), can read only `/` itself |
| `Server` | 4 connections, limit 2 | count, limit; a signal ends the server, if it does not arrive inside the logger |
| `Auth` | 1 client, every `users.db` of up to 3 of 4 lines, 2 slots | a handler acts with the rights that `users.db` grants the account that logged in, while the table is zeroed; an anonymous line without a hash is excepted |
| `ClientTransfers` | 2 jobs of 1 chunk, one of which may be paused and may fail locally | slots are exact; replies reach their readers; success means the whole file unless the loop of a download raised; no reply is waited for in vain; workers end unless a transfer is left paused |
| `Conversions` | files and streams of up to 6 bytes in buffers of up to 3; paths of up to 4 and 4 characters in 3 directories; 1 or 2 lines; 16 port numbers | the algorithms compute what they should, where no CRLF is split by `recv`, arguments fit, and commands contain no Telnet command but IP and DM |

Six of the properties have an exception, where the code does not do what a
comment or document of the repository says: `OnlyWokenReadersDangle`,
`FreedAfterLast`, `StopCompletesOutsideLogger`, `OnlyRefusalsLeavePending`,
`SuccessIsWholeUnlessSpoilt` and `ActsAsLoggedIn`. Each has a counterpart
without the exception, which a violation run or one of the configurations
further below refutes; so have `UploadIsExact`, for split CRLF, and
`WorkerEndsUnlessLeftPaused`. `FileService` leaves a case out of `Next` instead,
the one of `FileServiceRename`.

Why the bounds are enough: two callers conflict on a path, a third waits and a
fourth keeps asking; the second path shows that paths do not disturb each other.
Two transfers are what it takes to confuse a thread with its successor; one
buffer, with the loop taken zero or one times, reaches every branch of the
loops. Two commands or transfers at a time, of one session or of two, are what a
conflict on a file takes; two buffers allow a restart offset inside a file, and
an offset beyond the end of a shorter one. The five users are an administrator,
the default anonymous one, two with separate homes and different rights, and one
whose home does not exist; the arguments reach a home, leave it, and enter
another's, absolutely and from each directory. Four connections fill a limit of
two with one refused and one arriving after a slot came back.

Three lines of `users.db` for two slots fill the table, repeat a name and leave
a line over. Two jobs are what it takes for a reply, a connection or a slot to
reach the wrong worker, and one chunk separates a transfer that was begun from
one that is over. `max_concurrent` is 1, the only limit the constructor lets
through; both user interfaces leave it `None`, which is no limit, and the run
passes with 2 as well, which is none for two workers. A buffer of 3 bytes is cut
before, within and after CR LF; the path buffers are small enough to be
exceeded; the command buffers are in the order of the code's (name, argument,
parser, line) and are exceeded one by one; at least half of all ports are needed
for the sum of start and index to leave 16 bits, and the ranges reach all ports
but one.

Deadlock is checked for `FileService` and `SessionControl`. In `FileLock`
nothing is said after a caller has gone astray; that waiters get on otherwise is
`WriterProgress`. A transfer session, the server, the process of `Auth` and the
jobs of the client end, so their runs say `CHECK_DEADLOCK FALSE`; that they end
where they should is `PoliteDestroyCompletes`, `StopCompletesOutsideLogger` and
`WorkerEndsUnlessLeftPaused`. An input of `Conversions` is evaluated once.

Fairness: a thread that can run is scheduled (weak fairness of each thread, of
the handler in progress, of the main thread outside `accept`). The holder of a
file lock releases it, and a woken waiter looks at its condition; spurious
wake-ups and new calls owe nothing. The FTP client owes nothing to the server
models. In `ClientTransfers` the server goes on, as its own runs show it does,
each worker is scheduled, and a command or an abort that was begun goes on; the
user owes nothing, not even to resume a transfer. Fairness is strong in one
place only, for a worker in `pause_event.wait()`: each `Event.set` wakes every
thread that waits, also if the event is cleared again at once, so a worker does
not sleep through resumptions without end.

### More configurations

These are kept beside the runs; `tlc -config X.cfg M` reproduces what they show.

| Configuration | Shows |
|---|---|
| `MCFileLockBlocking.cfg` | `NobodyDangles`: `release_common` (`filelock.c:280`) frees the entry that a reader of the blocking call waits on |
| `MCSessionStaleAbort.cfg` | the abort flag is cleared only by a transfer that ends as aborted: ABOR after the loop aborts the next transfer |
| `MCSessionFreedLog.cfg` | without REIN, too: the next start overwrites the handle of a thread that has yet to log (`session.c:1152`, `transfer.c:965`), and nobody joins it before the session is freed |
| `MCSessionControlPending.cfg` | `PendingIsGotAndCleared`: an offset is not cleared by a RETR or STOR that is refused (`session.h:325`), nor a rename by a RNTO that is (`session.h:349`) |
| `MCFileServiceDirectory.cfg` | a download whose directory is renamed away and replaced sends the file that took its place, and is answered `226` |
| `MCServerSignal.cfg` | `StopCompletes`: the signal handler logs (`server.c:387`), and blocks if it interrupted the holder of the logger's mutex, although `server_stop` can be called from a handler (`server.h:55`) |
| `MCServerSlots.cfg` (passes) | a client is refused only at the limit, nothing is accepted after the stop, slots come back |
| `MCAuthLoad.cfg` (passes) | look-ups find the first line of a name among those that fit the table |
| `MCAuthNull.cfg` | a client thread calls a handler that `cmd_cleanup` has cleared (`command.c:162`), as `server_cleanup` does not wait for the threads |
| `MCAuthAnonymous.cfg` | `ActsAsDocumented`: the documented line `anonymous::/pub:1` (`auth.c:220`) is refused by the reader, because `%[^:]` needs a character, and anonymous gets the default home |
| `MCClientTransfersSpoilt.cfg` | `SuccessIsWhole`: an exception of the local file or of the progress callback in the loop of a download (`transfer.py:335`) ends in success |
| `MCClientTransfersCancel.cfg` | a cancelled transfer that is paused does not end (`report.tex:192`) |
| `MCClientTransfersAbort.cfg` | after an abort, a truncated download can be reported as success |
| `MCClientTransfersSlots.cfg` | with `max_concurrent` 1, two workers both find the slot free and run together (`report.tex:193`) |
| `MCConversionsSplit.cfg` | CR LF that recv cuts in two is stored as CR LF (`transfer.c:466` "convert CRLF to LF") |
| `MCConversionsOption.cfg` | the branch that skips the option byte of WILL, WONT, DO and DONT is never reached (`protocol.c:48` shadows 53), so the option becomes part of the command |

Observations without a run of their own: `226` is sent before the lock is
released and the state is idle, so that a prompt next command may get `450` or
`451`; ABOR in state STARTING, or a second transfer command during a transfer,
shuts the data connection without the flag, and an upload cut short that way is
answered `226`; `report.tex` and `README.md` speak of a thread pool, the code
starts one thread per connection; `report.tex:74` gives anonymous users
administrator rights, the code read access; USER in a session that is logged in
changes the name and keeps the rights.

Of the client: the worker and the abort share the replies `426` and `226` of an
aborted transfer, and whichever of them waits for a third runs into the timeout
that marks the control connection as lost; an upload whose send fails leaves its
reply unread; cancelling sends no ABOR, and a cancelled upload is answered
`226`; jobs that overlap share one `data_conn`, so that the second PASV takes it
away from the first; pause and resume test the status and set it in two steps; a
job in state PENDING counts as not active.

Of the algorithms: a path beyond `SESSION_MAX_PATH` or 256 components is cut
without an error and then names another file; so is an argument of 512 to 525
characters, which the line buffer admits; a name that contains `..` anywhere is
refused; after IAC and an ordinary byte the filter skips one byte more than its
comment says (`protocol.c:65`); a restart offset in ASCII mode counts bytes of
the file, while the client's size counts bytes of the stream; the size of a
range of all 65536 ports would be 0, and is a modulus, but the one caller asks
for 20000 to 65535.

## 4. Proofs

`FileLockProofs`, `SessionTransferProofs`, `FileServiceProofs`,
`SessionControlProofs`, `ServerProofs`, `AuthProofs` and `ClientTransfersProofs`
prove the invariants of their runs (and a few more) for every finite set of
callers or clients, every set of sessions, paths, users, homes and permissions,
any number of transfers, any size of files and any limit. `ConversionsProofs`
proves the four invariants of `Conversions`: for files, streams, path arguments
and command lines of any length, any way `recv` cuts a stream, any size of every
buffer, and port numbers of any width. The bounds of the models that a run gives
values to are parameters there. Every invariant of a run that passes is stated
by a theorem.

The assumptions are the named ones of the modules: `CallersFinite`,
`NoEntryIsNoEntry`; `BoundsAreNat`, `OpsAreTransfers` (`SessionTransfer`);
`BoundsAreNat`, `NoFileIsNoFile`, `NoneIsNoPath` (`FileService`);
`NoUserIsNoUser`, `PermsOfTyped`, `MaxOffsetIsNat`; `ClientsFinite`, `MaxIsInt`;
`MaxUsersIsPositive`, `FilesHaveLines`, `DefaultsAreRights` (`Auth`);
`MaxJobsIsNat`, `SizeIsNat`, `MaxConcurrentIsNat`; and of the algorithms
`BufferIsPositive` (`Ascii`), `SizesAreNat`, `LettersAreNoControl` (`Paths`),
`SizesArePositive`, `TelnetHasSignals` (`Lines`), `ByteIsPositive` (`Ports`).
They give numbers their type and keep names that stand for "none" apart from the
real ones.

`FileLock`: exclusion alone is not inductive, because the code looks at
counters, not at callers. `IInv` adds that the counters of each entry equal the
cardinalities of the sets of holders and of waiting writers, that a missing
entry means there are none, that an entry in the table is in use, and that only
woken readers dangle. All of it is said until a caller is astray, after which no
step is taken. The step that changes a set by one caller changes the counter by
one (`CountMoves`). Exclusion, the exact queries, the absence of leaks and the
implementation of `RWLock` follow.

`SessionTransfer`: `IInv` is six parts. `Types`; `Knows`, that what the session
remembers of its transfer (state, handle, identity) is what the thread of that
transfer is at, and that no other thread has work left; `Memory`, that the
parameters of a thread are live exactly while it is before their `free`;
`LocksHeld`, that a lock is held by the command between taking it and handing it
over, or by the thread from there to its release, and is the one its parameters
name; `Data`, that the connection a transfer was started with is in the session
only until its thread closes it; `Remains`, that a sender in its loop has
something left to send. None is inductive without the others: that two threads
never share the session's state rests on the state being idle only when the
thread is through, and that rests on what an abort and a failed start may set.
`OwnConnection` needs more, which only a polite client gives: `Polite` says that
while a completion reply is pending no command is under way and the data
connection is the transfer's or none, and that no thread looks at the socket of
another; it is inductive with `IInv` while `polite` is true, and no step changes
that. `FreedAfterLastThread` needs to know which handle the session has
(`Handles`): the one of the transfer started last. `ReleasesHeld` is proved
beside the invariants: no lock is released that is not held.

`FileService`: `IInv` is `Types`; `Stages`, what the step that a command or
transfer is at says of its paths and its counts; `Exclusion`, that a writer is
alone; `Locks`, that a command or transfer that is past its lock and before its
release is among the holders, for its path and in its mode; and `Jobs`, what a
transfer that was admitted may rely on. For a download (`DownloadOK`) that is:
the file is the one it found, and what was sent is the part that began at the
offset. For an upload (`UploadOK`): the file is what it found with the buffers
received so far put at the offset. A step of another session keeps this because
it would need a lock that excludes the transfer's; a step of the session itself
because a session has one transfer. That `WriteChunk` takes the contents
expected after k buffers to those expected after k + 1 is the lemma
`BufferReceived`.

`Server`: the count equals the number of connections that hold a slot until the
clean-up. The inductive invariant ties the place of the main thread to the one
connection it handles (accepted, admitted, or being undone) and the place of the
handler to `running` and `listening`. A signal may come in any state, inside the
logger as well: that only `StopCompletesOutsideLogger` leaves out, which TLC
checks.

`SessionControl`: the four invariants are inductive together, not one by one.
That a rename acts within the rights of the login needs to know that the pending
source was tested under them, and that needs every login and every other command
to clear it; that a path passes the access test only where the login may act
needs the permissions and the home to be those of the login (`RightsOfLogin`).
The lemma `AccessIsEntitled` is the step from the code's prefix test to
`Entitled`.

`ClientTransfers`: the invariant for the slots adds to `SlotsExact` that only a
job whose command was answered has a worker. A worker is therefore started once,
from nothing, and every later step moves it between places with and without a
slot as the counter says (`WorkerMoves`); the server, the user and aborts touch
neither. Nothing is assumed of replies, so `SlotsExact` and `TypeOK` hold when
the client is disturbed. The other three invariants are about the time before
that, and come from `InOrder`: at most one job is under way, and for each stage
of it (`Asking`, `Passive`, `Requesting`, `Working`, `Through`) it is known
which commands and replies are on the control connection, whether the server
waits for the data connection or transfers on it, and how the chunks of the file
divide into those yet to be sent, under way and received. A job that is over
leaves nothing behind that another could read (`ComesToRest`). That no command
or worker fails for want of a reply (`NotStranded`) is what keeps the
connection; that a worker which was not cancelled, and whose loop raised
nothing, reads `226` only after the server has everything is what makes success
whole (`SuccessesWholeUnlessSpoilt`). A client that was disturbed does not count
as calm again, so that only steps from calm to calm matter.

`Ports`: the sum of start and index stays below twice the size of the range, so
that both reductions, by the size and to 16 bits, take at most one turn
(`Wraps`). Then each port of the range is tried once (`EveryPortOnce`), and the
least index at which a port is free, which exists because the naturals are well
founded, gives `SearchIsComplete`.

`Auth`: `Filled` says what the table holds after each line of `users.db`: the
lines read so far that parse, in their order, from the first slot on. A line
therefore belongs in the slot of its rank among those (`Rank`), and because
ranks keep the order of lines (`RankOrders`), the first slot with a name is that
of the first line with it (`LookUp`), which is `LoadExact`. `Sessions` says what
a login has found out at each of its steps, but only while the server runs:
after that its rights may be anything. It is inductive with `Phases`, by which
the table is zeroed only after `g_server_running` is false, and a thread that
sees that leaves without dispatching another command. What a login gets is
therefore what the code's reader gives its name; `DecidedByStored` compares that
with what the documents grant, line by line, and finds only the anonymous line
without a hash between them. Hence `ActsAsLoggedIn`.

`Ascii`, `Paths` and `Lines` recurse over data, and the library's induction
theorems cannot be used, as they take an operator. What is used in their place
is proved first, from the fact that a set of natural numbers that is not empty
has a least member (`Least`): induction as a statement about sets (`Up`,
`Down`), that a function defined by recursion on a decreasing measure exists and
is unique (`Recursion`, `RecursionUnique`), hence what a loop writes
(`WrittenIs`), that a loop from byte n on writes what it would of the rest alone
(`WrittenShifted`), that `Concat` grows on the right (`ConcatSnoc`), and
induction over sequences (`SnocInduction`). `InputInv` is the invariant of
`MCConversions`: its inputs are inputs the theorems about the operators are
about; each of its steps, `Recv` among them, keeps the stream cut as it was
received.

`Ascii`: `crlf_to_lf` puts each byte it keeps at the place of its rank among
those it keeps, and the loop of an upload is taken one buffer at a time: after k
calls of `recv` the file holds, from the offset on, what those k segments were
to store (`StoredTo`). Ranks add up over segments because the code takes both
bytes of a pair that `recv` cuts (`Taken`). `UploadTakes` is what the code
stores for any cuts; where none splits a pair, `Taken` is `Kept`, and
`UploadExact` follows. A download is the inverse: no buffer of the sender ends
between a CR it inserted and its LF, so that `crlf_to_lf` of the whole is what
it is of the buffers one by one.

`Paths`: the tokens of a path do not depend on how it is spelled. They do not
change when runs of slashes become one (`NormalTokens`), and those of two paths
joined at a slash are those of the one, then those of the other (`NamesJoin`, by
`PathInduction`: a path is empty, or begins with a slash or with a run of other
characters). Resolving can be interrupted anywhere (`ResolveJoin`), and what it
leaves has no `.` and `..` and is no longer than the tokens were (`ResolvedIs`),
so that what `Build` makes of it is not cut and resolves to itself (`BuildIs`).
`PathIsCanonical` and `PathComposes` follow. `IsDirectory` is what a session's
directory always is; every `CWD` that is not refused keeps it
(`DirectoriesStay`), so that `PathGoesUp` and `PathGoesDown` hold wherever a
session got to, not only in the three directories of the run. That the laws are
about arguments that fit the buffers is said in the laws: beyond them the code
cuts.

`Lines`: `Passes(a, out, V)` says that the part a of a line adds out to what is
filtered, whatever follows it. Bytes that are neither IAC nor IP pass as they
are, an escaped IAC as one, a signal as nothing, and parts that pass do so one
after the other (`PassesBoth`). A command with signals in it is therefore
filtered to its text (`FilterSent`), which is cut, trimmed and split into its
name and its argument (`ParseIs`). As nothing before the end of a command
contains CR, the line ends where the command does, or does not fit
(`ReceiveFirst`). `CommandsAreRead` is by induction over the commands, for
whatever follows them (`Obeys`): a command that fits adds its answer, and the
first that does not fit adds `Left` and ends the session.

Only model-checked: liveness (fairness is out of the prover's reach), and what
the violation runs and the other configurations show.

## 5. Not modelled, and the plan

Next would be directories of their own, with MKD and RMD as steps.

Of the modelled parts: the client's active mode, listings, synchronous path and
login; `auth_add_user`, `auth_save_users` and `auth_has_permission`, which
nothing calls; the hash; the formatting of listings and replies; the parsing of
TYPE, MODE and STRU.

Not planned: the user interfaces, the log output, the Windows branches, and
descriptor numbers that are reused after a close.
