----------------------------- MODULE FileService -----------------------------
(***************************************************************************)
(* The files that all sessions of the server share, and the commands that  *)
(* read, write, delete and rename them (handler.c), with the part of them  *)
(* that a transfer thread carries out (transfer.c, filesys.c).  The lock   *)
(* manager is the reader/writer lock of RWLock, which FileLock implements. *)
(*                                                                         *)
(* A session's handler runs one command at a time, and one transfer thread *)
(* may run beside it.  Contents are sequences of buffers, a buffer is the  *)
(* session that wrote it.  Permissions and the data connection are reasons *)
(* to refuse, which is a choice here.  A directory is only renamed here.   *)
(***************************************************************************)
EXTENDS Naturals, Sequences, FiniteSets

CONSTANTS Sessions,
          Paths,        \* absolute paths of files
          NoFile,       \* "there is no file of that name"
          Original,     \* a buffer that was there before
          MaxSize,      \* bound: buffers in a file
          MaxJobs       \* bound: commands and transfers under way at a time

ASSUME BoundsAreNat == MaxSize \in Nat \ {0} /\ MaxJobs \in Nat
ASSUME NoFileIsNoFile == NoFile \notin Seq(Sessions \cup {Original})
ASSUME NoneIsNoPath == "none" \notin Paths

VARIABLES disk,         \* disk[p]: the contents of p, or NoFile
          shared,       \* the read locks: shared[p] is a set of holders
          exclusive,    \* the write locks
          handler,      \* handler[s]: the command the client thread is at
          thread,       \* thread[s]: the transfer the transfer thread is at
          rename_from   \* rename_from[s]: the path RNFR named, or "none"

vars == <<disk, shared, exclusive, handler, thread, rename_from>>
lockVars == <<shared, exclusive>>

-----------------------------------------------------------------------------
\* A lock is held by a handler until it hands the lock to its thread.
H(s) == <<s, "handler">>
T(s) == <<s, "thread">>
Holders == Sessions \X {"handler", "thread"}

Lock == INSTANCE RWLock WITH Callers <- Holders

\* A command under way.  Ghosts: base is the file as it was when the command
\* was admitted, sent what a download has sent.
Job(op, p, to, offset) ==
    [step |-> "checked", op |-> op, path |-> p, to |-> to, offset |-> offset,
     base |-> NoFile, size |-> 0, moved |-> 0, sent |-> <<>>]

NoJob == [Job("none", "none", "none", 0) EXCEPT !.step = "idle"]

Reads(op) == op = "RETR"

Init ==
    /\ disk \in [Paths -> {NoFile, <<>>, <<Original>>}]
    /\ Lock!Init
    /\ handler = [s \in Sessions |-> NoJob]
    /\ thread = [s \in Sessions |-> NoJob]
    /\ rename_from = [s \in Sessions |-> "none"]

-----------------------------------------------------------------------------
(* Files                                                                   *)

Exists(p) == disk[p] # NoFile
Size(p)   == IF Exists(p) THEN Len(disk[p]) ELSE 0

Delete(p) == disk' = [disk EXCEPT ![p] = NoFile]

\* fs_write_file_chunk: the file is created if need be; a buffer within it is
\* overwritten, what follows stays.
WriteChunk(p, offset, chunk) ==
    disk' = [disk EXCEPT ![p] =
               [i \in 1 .. (IF offset < Size(p) THEN Size(p) ELSE offset + 1) |->
                  CASE i = offset + 1 -> chunk
                    [] i # offset + 1 /\ i <= Size(p) -> disk[p][i]
                    [] OTHER -> NoFile]]        \* a hole

-----------------------------------------------------------------------------
(* The handlers                                                            *)

Underway == Cardinality({s \in Sessions : handler[s].step # "idle"})
            + Cardinality({s \in Sessions : thread[s].step # "idle"})

\* The command handler of s gets past its checks of path and permission.
\* Every command but RNTO makes the session forget the RNFR before it.
Begins(s, job) ==
    /\ handler[s].step = "idle"
    /\ Underway < MaxJobs
    /\ handler' = [handler EXCEPT ![s] = job]
    /\ UNCHANGED <<disk, lockVars, thread>>

Forget(s) == rename_from' = [rename_from EXCEPT ![s] = "none"]

Retr(s, p, offset) ==
    /\ Exists(p)
    /\ Begins(s, Job("RETR", p, "none", offset))
    /\ Forget(s)

Stor(s, p, offset) == Begins(s, Job("STOR", p, "none", offset)) /\ Forget(s)

Appe(s, p) == Begins(s, Job("APPE", p, "none", 0)) /\ Forget(s)

Dele(s, p) ==
    /\ Exists(p)
    /\ Begins(s, Job("DELE", p, "none", 0))
    /\ Forget(s)

\* cmd_handle_rnfr takes the lock and releases it at once.
Rnfr(s, p) ==
    /\ handler[s].step = "idle"
    /\ Exists(p)
    /\ shared[p] = {} /\ exclusive[p] = {}
    /\ rename_from' = [rename_from EXCEPT ![s] = p]
    /\ UNCHANGED <<disk, lockVars, handler, thread>>

\* RNFR refused, and most commands that have nothing to do with files.
Other(s) ==
    /\ handler[s].step = "idle"
    /\ rename_from[s] # "none"
    /\ Forget(s)
    /\ UNCHANGED <<disk, lockVars, handler, thread>>

\* Refused here, RNTO leaves the pending rename as it is.
Rnto(s, to) ==
    /\ rename_from[s] # "none"
    /\ ~ Exists(to)
    /\ Begins(s, Job("RNTO", rename_from[s], to, 0))
    /\ UNCHANGED rename_from

\* The handler is done but for the release of its lock.
Ending(job) == [Job(job.op, job.path, "none", 0) EXCEPT !.step = "unlock"]

\* The handler goes on to a step.
Handles(s, from, to) ==
    /\ handler[s].step = from
    /\ handler' = [handler EXCEPT ![s] = IF to = "unlock" THEN Ending(@) ELSE [@ EXCEPT !.step = to]]

\* Faulty variant: an upload is content with the read lock.
TryLockShared(s) ==
    /\ Handles(s, "checked", "locked")
    /\ IF handler[s].op \in {"RETR", "STOR"}
       THEN Lock!GrantShared(H(s), handler[s].path)
       ELSE Lock!GrantExclusive(H(s), handler[s].path)
    /\ UNCHANGED <<disk, thread, rename_from>>

\* file_lock_try_acquire_shared or _exclusive ...
TryLock(s) ==
    /\ Handles(s, "checked", "locked")
    /\ IF Reads(handler[s].op)
       THEN Lock!GrantShared(H(s), handler[s].path)
       ELSE Lock!GrantExclusive(H(s), handler[s].path)
    /\ UNCHANGED <<disk, thread, rename_from>>

Conflict(s) ==
    LET j == handler[s] IN
    exclusive[j.path] # {} \/ (~ Reads(j.op) /\ shared[j.path] # {})

\* The handler returns; RNTO clears the pending rename now.
Returns(s) ==
    /\ handler' = [handler EXCEPT ![s] = NoJob]
    /\ rename_from' = IF handler[s].op = "RNTO" THEN [rename_from EXCEPT ![s] = "none"]
                      ELSE rename_from

\* ... or 450, "File is busy, try again later".
Busy(s) ==
    /\ handler[s].step = "checked"
    /\ Conflict(s)
    /\ Returns(s)
    /\ UNCHANGED <<disk, lockVars, thread>>

\* "Revalidate file state while holding the lock".
Fits(job) == Exists(job.path) /\ job.offset <= Size(job.path)

Locked(s, op) == handler[s].step = "locked" /\ handler[s].op = op

Admits(s, offset, base) ==
    /\ handler' = [handler EXCEPT ![s] = [@ EXCEPT !.step = "ready", !.offset = offset,
                                                   !.base = base]]
    /\ UNCHANGED <<lockVars, thread, rename_from>>

AdmitRetr(s) ==
    /\ Locked(s, "RETR")
    /\ Fits(handler[s])
    /\ Admits(s, handler[s].offset, disk[handler[s].path])
    /\ UNCHANGED disk

\* Faulty variant: the restart offset is not compared with the size.
AdmitStorAnyOffset(s) ==
    LET j == handler[s] IN
    /\ Locked(s, "STOR")
    /\ \/ j.offset > 0 /\ Exists(j.path) /\ UNCHANGED disk /\ Admits(s, j.offset, disk[j.path])
       \/ j.offset = 0 /\ Delete(j.path) /\ Admits(s, 0, NoFile)

\* An upload from a restart offset needs the file, one from 0 deletes it.
AdmitStor(s) ==
    LET j == handler[s] IN
    /\ Locked(s, "STOR")
    /\ \/ j.offset > 0 /\ Fits(j) /\ UNCHANGED disk /\ Admits(s, j.offset, disk[j.path])
       \/ j.offset = 0 /\ Delete(j.path) /\ Admits(s, 0, NoFile)

\* Faulty variant: an append writes from the start of the file.
AdmitAppeAtStart(s) ==
    /\ Locked(s, "APPE")
    /\ Admits(s, 0, disk[handler[s].path])
    /\ UNCHANGED disk

AdmitAppe(s) ==
    /\ Locked(s, "APPE")
    /\ Admits(s, Size(handler[s].path), disk[handler[s].path])
    /\ UNCHANGED disk

AdmitRnto(s) ==
    /\ Locked(s, "RNTO")
    /\ Exists(handler[s].path) /\ ~ Exists(handler[s].to)
    /\ Admits(s, 0, disk[handler[s].path])
    /\ UNCHANGED disk

AdmitDele(s) ==
    /\ Locked(s, "DELE")
    /\ Exists(handler[s].path)
    /\ Handles(s, "locked", "unlock")
    /\ Delete(handler[s].path)
    /\ UNCHANGED <<lockVars, thread, rename_from>>

\* Validation fails, or later the 150 reply, the data connection, the start
\* of the thread or the rename.
Refuse(s) ==
    /\ Handles(s, "locked", "unlock") \/ Handles(s, "ready", "unlock")
    /\ UNCHANGED <<disk, lockVars, thread, rename_from>>

\* rename(2) replaces a file that came to be after the check.
Rename(s) ==
    LET j == handler[s] IN
    /\ j.op = "RNTO"
    /\ Handles(s, "ready", "unlock")
    /\ disk' = [disk EXCEPT ![j.to] = disk[j.path], ![j.path] = NoFile]
    /\ UNCHANGED <<lockVars, thread, rename_from>>

\* RNFR and RNTO of a directory, from above p to above q, where there is no
\* directory.  The lock is that of the directory's own path, which nobody else
\* takes, and so the command is one step.  Above a name without a file, MKD and
\* RMD may make and remove the directory at any time, whoever is about to use it.
RenameDirectory(s, p, q) ==
    /\ handler[s].step = "idle"
    /\ Exists(p) /\ ~ Exists(q)
    /\ disk' = [disk EXCEPT ![q] = disk[p], ![p] = NoFile]
    /\ Forget(s)
    /\ UNCHANGED <<lockVars, handler, thread>>

Unlock(s) ==
    /\ handler[s].step = "unlock"
    /\ Lock!GiveBack(H(s), handler[s].path)
    /\ Returns(s)
    /\ UNCHANGED <<disk, thread>>

\* session_start_transfer_thread: thread and lock change hands.
StartTransfer(s) ==
    LET j == handler[s]
        HandOver(held) == IF H(s) \in held THEN (held \ {H(s)}) \cup {T(s)} ELSE held
    IN
    /\ j.step = "ready" /\ j.op \in {"RETR", "STOR", "APPE"}
    /\ thread[s].step = "idle"
    /\ thread' = [thread EXCEPT ![s] = [j EXCEPT !.step = IF Reads(j.op) THEN "start" ELSE "move"]]
    /\ handler' = [handler EXCEPT ![s] = NoJob]
    /\ shared' = [shared EXCEPT ![j.path] = HandOver(@)]
    /\ exclusive' = [exclusive EXCEPT ![j.path] = HandOver(@)]
    /\ UNCHANGED <<disk, rename_from>>

-----------------------------------------------------------------------------
(* The transfer thread                                                     *)

ThreadStep(s, from, job) ==
    /\ thread[s].step = from
    /\ thread' = [thread EXCEPT ![s] = job]
    /\ UNCHANGED <<lockVars, handler, rename_from>>

\* The sender asks for the size again.
StartSending(s) ==
    LET j == thread[s] IN
    /\ ThreadStep(s, "start", [j EXCEPT !.step = "move", !.size = Size(j.path)])
    /\ Fits(j)
    /\ UNCHANGED disk

\* Faulty variant: the file is read from its start.
SendChunkFromStart(s) ==
    LET j == thread[s] IN
    /\ Reads(j.op) /\ Exists(j.path)
    /\ j.offset + j.moved < j.size /\ j.offset + j.moved < Size(j.path)
    /\ ThreadStep(s, "move", [j EXCEPT !.moved = @ + 1,
                                       !.sent = Append(@, disk[j.path][j.moved + 1])])
    /\ UNCHANGED disk

\* fs_read_file_chunk opens the path anew for every buffer.
SendChunk(s) ==
    LET j == thread[s] IN
    /\ Reads(j.op) /\ Exists(j.path)
    /\ j.offset + j.moved < j.size /\ j.offset + j.moved < Size(j.path)
    /\ ThreadStep(s, "move", [j EXCEPT !.moved = @ + 1,
                                       !.sent = Append(@, disk[j.path][j.offset + j.moved + 1])])
    /\ UNCHANGED disk

\* So does fs_write_file_chunk.
ReceiveChunk(s) ==
    LET j == thread[s] IN
    /\ ~ Reads(j.op)
    /\ j.offset + j.moved < MaxSize
    /\ ThreadStep(s, "move", [j EXCEPT !.moved = @ + 1])
    /\ WriteChunk(j.path, j.offset + j.moved, s)

\* Everything is sent, or the client has ended the upload.
Complete(s) ==
    LET j == thread[s] IN
    /\ Reads(j.op) => j.offset + j.moved = j.size
    /\ ThreadStep(s, "move", [j EXCEPT !.step = "complete"])
    /\ UNCHANGED disk

\* ABOR, a lost connection, a file error.
Break(s) ==
    LET broken == [Job(thread[s].op, thread[s].path, "none", 0) EXCEPT !.step = "broken"] IN
    /\ ThreadStep(s, "start", broken) \/ ThreadStep(s, "move", broken)
    /\ UNCHANGED disk

ThreadUnlock(s) ==
    /\ thread[s].step \in {"complete", "broken"}
    /\ thread' = [thread EXCEPT ![s] = NoJob]
    /\ Lock!GiveBack(T(s), thread[s].path)
    /\ UNCHANGED <<disk, handler, rename_from>>

-----------------------------------------------------------------------------
Command(s) ==
    \/ Other(s)
    \/ \E p \in Paths : \/ Appe(s, p) \/ Dele(s, p) \/ Rnfr(s, p) \/ Rnto(s, p)
                        \/ \E offset \in 0 .. MaxSize : Retr(s, p, offset) \/ Stor(s, p, offset)

Handler(s) ==
    \/ TryLock(s) \/ Busy(s) \/ Refuse(s) \/ Unlock(s) \/ StartTransfer(s)
    \/ AdmitRetr(s) \/ AdmitStor(s) \/ AdmitAppe(s) \/ AdmitRnto(s) \/ AdmitDele(s)

Thread(s) ==
    StartSending(s) \/ SendChunk(s) \/ ReceiveChunk(s) \/ Complete(s) \/ Break(s) \/ ThreadUnlock(s)

\* Nobody has come to use the name that s is about to rename to.
Uncontended(s) ==
    LET to == handler[s].to IN
    to # "none" => ~ Exists(to) /\ shared[to] = {} /\ exclusive[to] = {}

\* The sessions agree on new names: none uploads to a name to which another
\* is just renaming a file.
Next == \E s \in Sessions :
            Command(s) \/ Handler(s) \/ Thread(s) \/ (Uncontended(s) /\ Rename(s))

\* They do not.
AnyNext == \E s \in Sessions : Command(s) \/ Handler(s) \/ Thread(s) \/ Rename(s)

\* Each file is in a directory of its own, and directories are renamed, too.
DirectoryNext == Next \/ \E s \in Sessions, p, q \in Paths : RenameDirectory(s, p, q)

Spec    == Init /\ [][Next]_vars
AnySpec == Init /\ [][AnyNext]_vars
DirectorySpec == Init /\ [][DirectoryNext]_vars

-----------------------------------------------------------------------------
(* Properties                                                              *)

Contents == UNION {[1 .. n -> Sessions \cup {Original}] : n \in 0 .. MaxSize}

\* The types of the shared files, the locks and the commands under way; no
\* file has a hole or grows past the bound.
TypeOK ==
    /\ disk \in [Paths -> Contents \cup {NoFile}]
    /\ shared \in [Paths -> SUBSET Holders] /\ exclusive \in [Paths -> SUBSET Holders]
    /\ rename_from \in [Sessions -> Paths \cup {"none"}]
    /\ \A s \in Sessions :
          /\ handler[s].step \in {"idle", "checked", "locked", "ready", "unlock"}
          /\ thread[s].step \in {"idle", "start", "move", "complete", "broken"}
          /\ \A j \in {handler[s], thread[s]} :
                /\ j.op \in {"none", "RETR", "STOR", "APPE", "DELE", "RNTO"}
                /\ j.path \in Paths \cup {"none"} /\ j.to \in Paths \cup {"none"}
                /\ j.offset \in 0 .. MaxSize /\ j.moved \in 0 .. MaxSize

\* The transfers of s from their admission to their end.
Admitted(s) == {j \in {handler[s], thread[s]} :
                  j.step \in {"ready", "start", "move", "complete"}}

\* While a download is under way, its file stays as it was when the command
\* was admitted: neither the server nor another session touches it, although
\* the sender opens the path anew for every buffer.
StableDownload ==
    \A s \in Sessions : \A j \in Admitted(s) : j.op = "RETR" => disk[j.path] = j.base

\* A download answered with "Transfer complete" has sent the file it was asked
\* for, from the restart offset to the end.
DownloadExact ==
    \A s \in Sessions :
        LET j == thread[s] IN
        j.step = "complete" /\ j.op = "RETR"
           => j.sent = SubSeq(j.base, j.offset + 1, Len(j.base))

\* What an upload by s must have made of its file by now: moved buffers, put
\* over or after what was there.
Expected(s, j) ==
    LET old == IF j.base = NoFile THEN <<>> ELSE j.base
        from == IF j.op = "APPE" THEN Len(old) ELSE j.offset
        written == [i \in 1 .. j.moved |-> s]
    IN  IF j.moved = 0 THEN j.base
        ELSE SubSeq(old, 1, from) \o written \o SubSeq(old, from + j.moved + 1, Len(old))

\* While an upload is under way, its file holds what it found and what it has
\* received, and nothing of anybody else's.
UploadExact ==
    \A s \in Sessions : \A j \in Admitted(s) :
        j.op \in {"STOR", "APPE"} => disk[j.path] = Expected(s, j)

\* The report: the file locks make writes exclusive and "prevent races".  So
\* RNTO, which refuses an existing destination, never replaces a file.
RenameReplacesNothing ==
    [][\A s \in Sessions :
         handler[s].op = "RNTO" /\ handler[s].step = "ready" /\ handler'[s].step = "unlock"
         /\ disk' # disk => ~ Exists(handler[s].to)]_vars

=============================================================================
