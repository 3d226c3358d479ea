-------------------------- MODULE FileServiceProofs --------------------------
(***************************************************************************)
(* What downloads and uploads may rely on, for any number of sessions, any *)
(* files and sizes: theorems about Spec of FileService.                    *)
(*                                                                         *)
(* A command that was admitted holds the lock of its file, from its        *)
(* handler or from its thread (Locked), and nobody writes a file without   *)
(* the write lock of it, or, as the target of a rename, while somebody     *)
(* holds a lock of it.  So an admitted command finds what it knew of its   *)
(* file, changed only by itself (Job invariants).                          *)
(***************************************************************************)
EXTENDS FileService, SequenceTheorems, TLAPS

Buffers == Sessions \cup {Original}

HandlerSteps  == {"idle", "checked", "locked", "ready", "unlock"}
ThreadSteps   == {"idle", "start", "move", "complete", "broken"}
Steps         == HandlerSteps \cup ThreadSteps
AdmittedSteps == {"ready", "start", "move", "complete"}
Uploads       == {"STOR", "APPE"}
Ops == {"none", "RETR", "STOR", "APPE", "DELE", "RNTO"}

PathOrNone == Paths \cup {"none"}

JobSet == [step : Steps,
           op : Ops,
           path : PathOrNone, to : PathOrNone,
           offset : 0 .. MaxSize, base : Contents \cup {NoFile}, size : 0 .. MaxSize,
           moved : 0 .. MaxSize, sent : Seq(Buffers)]

Types ==
    /\ disk \in [Paths -> Contents \cup {NoFile}]
    /\ shared \in [Paths -> SUBSET Holders] /\ exclusive \in [Paths -> SUBSET Holders]
    /\ rename_from \in [Sessions -> PathOrNone]
    /\ handler \in [Sessions -> JobSet] /\ thread \in [Sessions -> JobSet]

\* What the steps of handlers and threads say of their commands.
Stages ==
    \A s \in Sessions :
        /\ handler[s].step \in HandlerSteps /\ thread[s].step \in ThreadSteps
        /\ handler[s].moved = 0 /\ handler[s].sent = <<>>
        /\ handler[s].step # "idle" => handler[s].path \in Paths
        /\ handler[s].step # "idle" /\ handler[s].op = "RNTO" /\ handler[s].step # "unlock"
              => handler[s].to \in Paths
        /\ thread[s].step # "idle" => thread[s].path \in Paths
        /\ thread[s].step # "idle" => thread[s].op \in {"RETR"} \cup Uploads
        /\ thread[s].step = "start" => thread[s].op = "RETR" /\ thread[s].moved = 0
                                       /\ thread[s].sent = <<>>

\* A writer is alone.
Exclusion ==
    \A p \in Paths : /\ exclusive[p] # {} => shared[p] = {}
                     /\ \A h, k \in exclusive[p] : h = k

Holds(h, job) ==
    IF Reads(job.op) THEN h \in shared[job.path] ELSE h \in exclusive[job.path]

\* From the lock to its release a command holds its file.
Locks ==
    \A s \in Sessions :
        /\ handler[s].step \in {"locked", "ready", "unlock"} => Holds(H(s), handler[s])
        /\ thread[s].step # "idle" => Holds(T(s), thread[s])

\* A download that was admitted: the file is what it was, and what was sent is
\* the part of it from the offset on.
DownloadOK(j) ==
    /\ j.base \in Contents /\ disk[j.path] = j.base
    /\ j.offset + j.moved <= Len(j.base)
    /\ j.step \in {"move", "complete"} => j.size = Len(j.base)
    /\ j.step = "complete" => j.offset + j.moved = j.size
    /\ Len(j.sent) = j.moved
    /\ \A i \in 1 .. j.moved : j.sent[i] = j.base[j.offset + i]

\* An upload that was admitted: it goes on within or right after the file it
\* found, and the file is that file with what was received put over it.
UploadOK(s, j) ==
    /\ j.base = NoFile => j.offset = 0
    /\ j.base # NoFile => j.offset <= Len(j.base)
    /\ j.op = "APPE" /\ j.base # NoFile => j.offset = Len(j.base)
    /\ j.offset + j.moved <= MaxSize
    /\ disk[j.path] = Expected(s, j)

JobOK(s, j) ==
    j.step \in AdmittedSteps => /\ j.op = "RETR" => DownloadOK(j)
                                /\ j.op \in Uploads => UploadOK(s, j)

Jobs == \A s \in Sessions : JobOK(s, handler[s]) /\ JobOK(s, thread[s])

IInv == Types /\ Stages /\ Exclusion /\ Locks /\ Jobs

-----------------------------------------------------------------------------
(* Files, locks and jobs                                                   *)

\* The contents of files are the sequences up to the bound.
LEMMA InContents ==
    /\ \A c : c \in Contents <=> c \in Seq(Buffers) /\ Len(c) \in 0 .. MaxSize
    /\ <<>> \in Contents /\ <<Original>> \in Contents
    /\ NoFile \notin Contents
<1>1. ASSUME NEW c, c \in Contents PROVE c \in Seq(Buffers) /\ Len(c) \in 0 .. MaxSize
  <2>1. PICK n \in 0 .. MaxSize : c \in [1 .. n -> Buffers]
    BY <1>1 DEF Contents, Buffers
  <2>2. n \in Nat
    BY BoundsAreNat
  <2> QED
    BY <2>1, <2>2
<1>2. ASSUME NEW c, c \in Seq(Buffers), Len(c) \in 0 .. MaxSize PROVE c \in Contents
  <2>1. c \in [1 .. Len(c) -> Buffers]
    BY <1>2
  <2> QED
    BY <1>2, <2>1 DEF Contents, Buffers
<1>3. <<>> \in Seq(Buffers) /\ Len(<<>>) \in 0 .. MaxSize
  BY BoundsAreNat
<1>4. <<Original>> \in Seq(Buffers) /\ Len(<<Original>>) \in 0 .. MaxSize
  BY BoundsAreNat DEF Buffers
<1>5. NoFile \notin Seq(Buffers)
  BY NoFileIsNoFile DEF Buffers
<1> QED
  BY <1>1, <1>2, <1>3, <1>4, <1>5

\* Handlers and threads are different holders.
LEMMA HoldersApart ==
    \A s, u \in Sessions : /\ H(s) \in Holders /\ T(s) \in Holders /\ H(s) # T(u)
                           /\ (H(s) = H(u) => s = u) /\ (T(s) = T(u) => s = u)
  BY DEF H, T, Holders

LEMMA JobTyped ==
    ASSUME NEW op \in Ops,
           NEW p \in PathOrNone, NEW to \in PathOrNone, NEW offset \in 0 .. MaxSize
    PROVE  /\ Job(op, p, to, offset) \in JobSet
           /\ Job(op, p, to, offset).step = "checked"
           /\ Job(op, p, to, offset).op = op /\ Job(op, p, to, offset).path = p
           /\ Job(op, p, to, offset).to = to
           /\ Job(op, p, to, offset).moved = 0 /\ Job(op, p, to, offset).sent = <<>>
<1>1. <<>> \in Seq(Buffers) /\ 0 \in 0 .. MaxSize
  BY BoundsAreNat
<1>2. Job(op, p, to, offset) \in JobSet
  BY <1>1 DEF Job, JobSet, HandlerSteps, Steps
<1> QED
  BY <1>2 DEF Job

LEMMA AtStep ==
    ASSUME NEW op \in Ops,
           NEW p \in PathOrNone, NEW step \in Steps
    PROVE  \E job \in JobSet :
              /\ job = [Job(op, p, "none", 0) EXCEPT !.step = step]
              /\ job.step = step /\ job.op = op /\ job.path = p
              /\ job.moved = 0 /\ job.sent = <<>>
<1>1. PICK k : k = Job(op, p, "none", 0)
  OBVIOUS
<1>2. /\ k \in JobSet /\ k.op = op /\ k.path = p /\ k.moved = 0 /\ k.sent = <<>>
  <2>1. 0 \in 0 .. MaxSize /\ "none" \in PathOrNone
    BY BoundsAreNat DEF PathOrNone
  <2> QED
    BY <1>1, <2>1, JobTyped
<1>3. PICK job : job = [k EXCEPT !.step = step]
  OBVIOUS
<1>4. job \in JobSet /\ job.step = step /\ job.op = op /\ job.path = p
      /\ job.moved = 0 /\ job.sent = <<>>
  BY <1>2, <1>3 DEF JobSet
<1> QED
  BY <1>1, <1>3, <1>4

\* Who holds a file to write it is the only one who holds it.
LEMMA WriterAlone ==
    ASSUME IInv, NEW p \in Paths, NEW h \in exclusive[p], NEW u \in Sessions
    PROVE  /\ handler[u].step \in {"locked", "ready", "unlock"} /\ handler[u].path = p => h = H(u)
           /\ thread[u].step # "idle" /\ thread[u].path = p => h = T(u)
  BY DEF IInv, Exclusion, Locks, Holds

\* A file that nobody holds is no admitted command's.
LEMMA NobodyHolds ==
    ASSUME IInv, NEW p \in Paths, shared[p] = {}, exclusive[p] = {}, NEW u \in Sessions
    PROVE  /\ handler[u].step \in {"locked", "ready", "unlock"} => handler[u].path # p
           /\ thread[u].step # "idle" => thread[u].path # p
  BY DEF IInv, Locks, Holds

\* What was known of a job is still known when its file did not change.
LEMMA HandlerKept ==
    ASSUME NEW u \in Sessions, JobOK(u, handler[u]), handler'[u] = handler[u],
           handler[u].step \in AdmittedSteps => disk'[handler[u].path] = disk[handler[u].path]
    PROVE  JobOK(u, handler[u])'
  BY DEF JobOK, DownloadOK, UploadOK

LEMMA ThreadKept ==
    ASSUME NEW u \in Sessions, JobOK(u, thread[u]), thread'[u] = thread[u],
           thread[u].step \in AdmittedSteps => disk'[thread[u].path] = disk[thread[u].path]
    PROVE  JobOK(u, thread[u])'
  BY DEF JobOK, DownloadOK, UploadOK

\* The file changes only under the write lock of h, or where nobody looks.
WritesAs(h) ==
    \A p \in Paths : \/ disk'[p] = disk[p]
                     \/ h \in exclusive[p]
                     \/ shared[p] = {} /\ exclusive[p] = {}

\* A step of a handler that takes and returns no lock.
LEMMA HandlerChanges ==
    ASSUME IInv, NEW s \in Sessions, NEW job \in JobSet,
           handler' = [handler EXCEPT ![s] = job], UNCHANGED <<lockVars, thread>>,
           disk' \in [Paths -> Contents \cup {NoFile}],
           rename_from' \in [Sessions -> PathOrNone],
           job.step \in HandlerSteps, job.moved = 0, job.sent = <<>>,
           job.step # "idle" => job.path \in Paths,
           job.step # "idle" /\ job.op = "RNTO" /\ job.step # "unlock" => job.to \in Paths,
           job.step \in {"locked", "ready", "unlock"} => Holds(H(s), job),
           WritesAs(H(s)), JobOK(s, job)'
    PROVE  IInv'
<1> USE DEF IInv, lockVars
<1>1. Types'
  BY DEF Types
<1>2. handler'[s] = job /\ \A u \in Sessions : u # s => handler'[u] = handler[u]
  BY DEF Types
<1>3. Stages'
  BY <1>2 DEF Stages
<1>4. Exclusion'
  BY DEF Exclusion
<1>5. Locks'
  BY <1>2 DEF Locks, Holds
<1>6. ASSUME NEW u \in Sessions PROVE JobOK(u, handler[u])' /\ JobOK(u, thread[u])'
  <2>1. JobOK(u, handler[u]) /\ JobOK(u, thread[u])
    BY DEF Jobs
  <2>2. thread[u].step \in AdmittedSteps => disk'[thread[u].path] = disk[thread[u].path]
    <3> SUFFICES ASSUME thread[u].step \in AdmittedSteps
                 PROVE  disk'[thread[u].path] = disk[thread[u].path]
      OBVIOUS
    <3>1. thread[u].path \in Paths /\ thread[u].step # "idle"
      BY DEF Stages, AdmittedSteps
    <3> QED
      BY <3>1, WriterAlone, NobodyHolds, HoldersApart DEF WritesAs
  <2>3. CASE u = s
    BY <1>2, <2>1, <2>2, <2>3, ThreadKept
  <2>4. CASE u # s
    <3>1. handler[u].step \in AdmittedSteps => disk'[handler[u].path] = disk[handler[u].path]
      <4> SUFFICES ASSUME handler[u].step \in AdmittedSteps
                   PROVE  disk'[handler[u].path] = disk[handler[u].path]
        OBVIOUS
      <4>1. handler[u].path \in Paths /\ handler[u].step \in {"locked", "ready", "unlock"}
        BY DEF Stages, AdmittedSteps, HandlerSteps
      <4> QED
        BY <2>4, <4>1, WriterAlone, NobodyHolds, HoldersApart DEF WritesAs
    <3> QED
      BY <1>2, <2>1, <2>2, <2>4, <3>1, HandlerKept, ThreadKept
  <2> QED
    BY <2>3, <2>4
<1>7. Jobs'
  BY <1>6 DEF Jobs
<1> QED
  BY <1>1, <1>3, <1>4, <1>5, <1>7

\* A step of a thread that returns no lock.
LEMMA ThreadChanges ==
    ASSUME IInv, NEW s \in Sessions, NEW job \in JobSet,
           thread' = [thread EXCEPT ![s] = job], UNCHANGED <<lockVars, handler, rename_from>>,
           disk' \in [Paths -> Contents \cup {NoFile}],
           thread[s].step # "idle", job.step \in ThreadSteps \ {"idle", "start"},
           job.op = thread[s].op, job.path = thread[s].path,
           WritesAs(T(s)), JobOK(s, job)'
    PROVE  IInv'
<1> USE DEF IInv, lockVars
<1>1. Types'
  BY DEF Types
<1>2. thread'[s] = job /\ \A u \in Sessions : u # s => thread'[u] = thread[u]
  BY DEF Types
<1>3. Stages'
  BY <1>2 DEF Stages
<1>4. Exclusion'
  BY DEF Exclusion
<1>5. Locks'
  BY <1>2 DEF Locks, Holds
<1>6. ASSUME NEW u \in Sessions PROVE JobOK(u, handler[u])' /\ JobOK(u, thread[u])'
  <2>1. JobOK(u, handler[u]) /\ JobOK(u, thread[u])
    BY DEF Jobs
  <2>2. handler[u].step \in AdmittedSteps => disk'[handler[u].path] = disk[handler[u].path]
    <3> SUFFICES ASSUME handler[u].step \in AdmittedSteps
                 PROVE  disk'[handler[u].path] = disk[handler[u].path]
      OBVIOUS
    <3>1. handler[u].path \in Paths /\ handler[u].step \in {"locked", "ready", "unlock"}
      BY DEF Stages, AdmittedSteps, HandlerSteps
    <3> QED
      BY <3>1, WriterAlone, NobodyHolds, HoldersApart DEF WritesAs
  <2>3. CASE u = s
    BY <1>2, <2>1, <2>2, <2>3, HandlerKept
  <2>4. CASE u # s
    <3>1. thread[u].step \in AdmittedSteps => disk'[thread[u].path] = disk[thread[u].path]
      <4> SUFFICES ASSUME thread[u].step \in AdmittedSteps
                   PROVE  disk'[thread[u].path] = disk[thread[u].path]
        OBVIOUS
      <4>1. thread[u].path \in Paths /\ thread[u].step # "idle"
        BY DEF Stages, AdmittedSteps
      <4> QED
        BY <2>4, <4>1, WriterAlone, NobodyHolds, HoldersApart DEF WritesAs
    <3> QED
      BY <1>2, <2>1, <2>2, <2>4, <3>1, HandlerKept, ThreadKept
  <2> QED
    BY <2>3, <2>4
<1>7. Jobs'
  BY <1>6 DEF Jobs
<1> QED
  BY <1>1, <1>3, <1>4, <1>5, <1>7

-----------------------------------------------------------------------------
(* What a buffer does to an upload                                         *)

\* The file an upload found, and its size after the first k buffers of it.
Old(j) == IF j.base = NoFile THEN <<>> ELSE j.base

SizeWith(j, k) == IF Len(Old(j)) < j.offset + k THEN j.offset + k ELSE Len(Old(j))

\* The upload begins within or right after the file it found.
Continues(j) ==
    /\ j.op \in Uploads
    /\ j.offset <= Len(Old(j))
    /\ j.op = "APPE" => j.offset = Len(Old(j))

LEMMA UploadContinues ==
    ASSUME NEW s \in Sessions, NEW j \in JobSet, j.op \in Uploads, UploadOK(s, j)
    PROVE  Continues(j) /\ Old(j) \in Seq(Buffers) /\ Len(Old(j)) \in 0 .. MaxSize
<1>1. Old(j) \in Contents
  BY InContents DEF Old, JobSet
<1>2. Old(j) \in Seq(Buffers) /\ Len(Old(j)) \in 0 .. MaxSize
  BY <1>1, InContents
<1>3. j.offset \in 0 .. MaxSize
  BY DEF JobSet
<1>4. Len(<<>>) = 0
  OBVIOUS
<1>5. j.offset <= Len(Old(j)) /\ (j.op = "APPE" => j.offset = Len(Old(j)))
  <2>1. CASE j.base = NoFile
    BY <1>3, <1>4, <2>1, BoundsAreNat DEF UploadOK, Old
  <2>2. CASE j.base # NoFile
    BY <2>2 DEF UploadOK, Old
  <2> QED
    BY <2>1, <2>2
<1> QED
  BY <1>2, <1>5 DEF Continues

\* Expected, buffer by buffer.
LEMMA ExpectedIs ==
    ASSUME NEW s \in Sessions, NEW j \in JobSet, Continues(j), Old(j) \in Seq(Buffers),
           j.moved > 0
    PROVE  /\ Expected(s, j) \in Seq(Buffers)
           /\ Len(Expected(s, j)) = SizeWith(j, j.moved)
           /\ \A i \in 1 .. SizeWith(j, j.moved) :
                 Expected(s, j)[i] = IF j.offset < i /\ i <= j.offset + j.moved THEN s
                                     ELSE Old(j)[i]
<1> DEFINE old == Old(j)
           o == j.offset
           k == j.moved
           a == SubSeq(old, 1, o)
           b == [i \in 1 .. k |-> s]
           c == SubSeq(old, o + k + 1, Len(old))
<1>1. o \in Nat /\ k \in Nat /\ k > 0 /\ Len(old) \in Nat /\ o <= Len(old)
  BY LenProperties, BoundsAreNat DEF JobSet, Continues
<1>2. Expected(s, j) = a \o b \o c
  <2>1. j.moved # 0
    BY <1>1
  <2>2. j.op = "APPE" => Len(old) = j.offset
    BY DEF Continues
  <2> QED
    BY <2>1, <2>2, Zenon DEF Expected, Old
<1>3. \A i \in 1 .. Len(old) : old[i] \in Buffers
  BY ElementOfSeq
<1> HIDE DEF old, o, k
<1>4. /\ a \in Seq(Buffers) /\ Len(a) = o
      /\ \A i \in 1 .. o : a[i] = old[i]
  <2>1. \A i \in 1 .. o : old[i] \in Buffers
    BY <1>1, <1>3
  <2>2. /\ a \in Seq(Buffers) /\ Len(a) = IF 1 <= o THEN o - 1 + 1 ELSE 0
        /\ \A i \in 1 .. o - 1 + 1 : a[i] = old[1 + i - 1]
    BY <1>1, <2>1, SubSeqProperties
  <2> HIDE DEF a
  <2> QED
    BY <1>1, <2>2
<1>5. /\ c \in Seq(Buffers) /\ Len(c) = IF o + k + 1 <= Len(old) THEN Len(old) - (o + k) ELSE 0
      /\ \A i \in 1 .. Len(old) - (o + k) : c[i] = old[o + k + i]
  <2>1. \A i \in (o + k + 1) .. Len(old) : old[i] \in Buffers
    BY <1>1, <1>3
  <2>2. /\ c \in Seq(Buffers)
        /\ Len(c) = IF o + k + 1 <= Len(old) THEN Len(old) - (o + k + 1) + 1 ELSE 0
        /\ \A i \in 1 .. Len(old) - (o + k + 1) + 1 : c[i] = old[o + k + 1 + i - 1]
    BY <1>1, <2>1, SubSeqProperties
  <2> HIDE DEF c
  <2> QED
    BY <1>1, <2>2
<1> HIDE DEF a, c
<1>5a. Len(c) \in Nat /\ (o + k <= Len(old) => o + k + Len(c) = Len(old))
                    /\ (Len(old) < o + k => Len(c) = 0)
  <2>1. CASE o + k + 1 <= Len(old)
    <3>1. Len(c) = Len(old) - (o + k)
      BY <1>5, <2>1
    <3> QED
      BY <1>1, <2>1, <3>1
  <2>2. CASE ~ (o + k + 1 <= Len(old))
    <3>1. Len(c) = 0
      BY <1>5, <2>2
    <3> QED
      BY <1>1, <2>2, <3>1
  <2> QED
    BY <2>1, <2>2
<1>6. /\ b \in Seq(Buffers) /\ Len(b) = k
      /\ \A i \in 1 .. k : b[i] = s
  BY <1>1 DEF Buffers
<1> HIDE DEF b
<1>7. /\ a \o b \in Seq(Buffers) /\ Len(a \o b) = o + k
      /\ \A i \in 1 .. o + k : (a \o b)[i] = IF i <= o THEN a[i] ELSE b[i - o]
  <2>1. a \in Seq(Buffers) /\ b \in Seq(Buffers) /\ Len(a) = o /\ Len(b) = k
    BY <1>4, <1>6
  <2>2. /\ a \o b \in Seq(Buffers) /\ Len(a \o b) = Len(a) + Len(b)
        /\ \A i \in 1 .. Len(a) + Len(b) :
              (a \o b)[i] = IF i <= Len(a) THEN a[i] ELSE b[i - Len(a)]
    BY <2>1, ConcatProperties
  <2> QED
    BY <2>1, <2>2
<1> DEFINE ab == a \o b
<1> HIDE DEF ab
<1>8. /\ ab \o c \in Seq(Buffers) /\ Len(ab \o c) = o + k + Len(c)
      /\ \A i \in 1 .. o + k + Len(c) :
            (ab \o c)[i] = IF i <= o + k THEN ab[i] ELSE c[i - (o + k)]
  <2>1. ab \in Seq(Buffers) /\ Len(ab) = o + k
    BY <1>7 DEF ab
  <2>2. /\ ab \o c \in Seq(Buffers) /\ Len(ab \o c) = Len(ab) + Len(c)
        /\ \A i \in 1 .. Len(ab) + Len(c) :
              (ab \o c)[i] = IF i <= Len(ab) THEN ab[i] ELSE c[i - Len(ab)]
    BY <1>5, <2>1, ConcatProperties
  <2> QED
    BY <2>1, <2>2
<1>9. o + k + Len(c) = SizeWith(j, k)
  BY <1>1, <1>5a DEF SizeWith, old, o
<1>10. ASSUME NEW i \in 1 .. SizeWith(j, k)
       PROVE  (ab \o c)[i] = IF o < i /\ i <= o + k THEN s ELSE old[i]
  <2>1. i \in 1 .. o + k + Len(c)
    BY <1>9
  <2>2. CASE i <= o
    BY <1>1, <1>4, <1>5a, <1>7, <1>8, <2>1, <2>2 DEF ab
  <2>3. CASE o < i /\ i <= o + k
    <3>1. (ab \o c)[i] = ab[i]
      BY <1>1, <1>8, <2>1, <2>3
    <3>2. i \in 1 .. o + k /\ ~ (i <= o)
      BY <1>1, <1>5a, <2>1, <2>3
    <3>3. ab[i] = b[i - o]
      BY <1>7, <3>2 DEF ab
    <3> QED
      BY <1>1, <1>6, <1>5a, <2>1, <2>3, <3>1, <3>3
  <2>4. CASE o + k < i
    <3>1. (ab \o c)[i] = c[i - (o + k)]
      BY <1>1, <1>5a, <1>8, <2>1, <2>4
    <3>2. i - (o + k) \in 1 .. Len(old) - (o + k)
      BY <1>1, <1>5a, <2>1, <2>4
    <3> QED
      BY <1>1, <1>5, <2>1, <2>4, <3>1, <3>2
  <2>5. i \in Nat
    BY <1>1, <1>5a, <2>1
  <2>6. i <= o \/ (o < i /\ i <= o + k) \/ o + k < i
    BY <1>1, <2>5
  <2> QED
    BY <2>2, <2>3, <2>4, <2>6
<1> QED
  BY <1>2, <1>8, <1>9, <1>10 DEF ab, old, o, k

\* The file of an upload under way, buffer by buffer.
LEMMA UploadedFile ==
    ASSUME NEW s \in Sessions, NEW j \in JobSet, j.op \in Uploads, UploadOK(s, j)
    PROVE  /\ j.moved > 0 => disk[j.path] # NoFile
           /\ Size(j.path) = SizeWith(j, j.moved)
           /\ \A i \in 1 .. SizeWith(j, j.moved) :
                 disk[j.path][i] = IF j.offset < i /\ i <= j.offset + j.moved THEN s
                                   ELSE Old(j)[i]
<1>1. Continues(j) /\ Old(j) \in Seq(Buffers) /\ Len(Old(j)) \in 0 .. MaxSize
  BY UploadContinues
<1>2. disk[j.path] = Expected(s, j) /\ j.moved \in Nat /\ j.offset \in Nat
  BY BoundsAreNat DEF UploadOK, JobSet
<1>3. CASE j.moved > 0
  <2>1. Expected(s, j) # NoFile
    BY <1>1, <1>3, ExpectedIs, NoFileIsNoFile DEF Buffers
  <2> QED
    BY <1>1, <1>2, <1>3, <2>1, ExpectedIs DEF Size, Exists
<1>4. CASE j.moved = 0
  <2>1. Expected(s, j) = j.base
    BY <1>4 DEF Expected
  <2>2. Size(j.path) = Len(Old(j))
    BY <1>2, <2>1 DEF Size, Exists, Old
  <2>3. SizeWith(j, j.moved) = Len(Old(j))
    BY <1>1, <1>2, <1>4, BoundsAreNat DEF SizeWith, Continues
  <2>4. ASSUME NEW i \in 1 .. Len(Old(j)) PROVE disk[j.path][i] = Old(j)[i]
    BY <1>2, <2>1, <2>4 DEF Old
  <2> QED
    BY <1>2, <1>4, <2>2, <2>3, <2>4
<1> QED
  BY <1>2, <1>3, <1>4

\* fs_write_file_chunk puts the next buffer where an upload expects it.
LEMMA BufferReceived ==
    ASSUME Types, NEW s \in Sessions, NEW j \in JobSet, j.op \in Uploads, j.path \in Paths,
           UploadOK(s, j), j.offset + j.moved < MaxSize,
           WriteChunk(j.path, j.offset + j.moved, s)
    PROVE  /\ disk' \in [Paths -> Contents \cup {NoFile}]
           /\ \A p \in Paths : p # j.path => disk'[p] = disk[p]
           /\ [j EXCEPT !.moved = @ + 1] \in JobSet
           /\ UploadOK(s, [j EXCEPT !.moved = @ + 1])'
<1>1. Continues(j) /\ Old(j) \in Seq(Buffers) /\ Len(Old(j)) \in 0 .. MaxSize
  BY UploadContinues
<1>2. j.moved \in Nat /\ j.offset \in Nat /\ MaxSize \in Nat /\ j.offset <= Len(Old(j))
  BY <1>1, BoundsAreNat DEF JobSet, Continues
<1> DEFINE at == j.offset + j.moved
           n == SizeWith(j, j.moved + 1)
           file == [i \in 1 .. n |->
                      CASE i = at + 1 -> s
                        [] i # at + 1 /\ i <= Size(j.path) -> disk[j.path][i]
                        [] OTHER -> NoFile]
<1>3. n \in 0 .. MaxSize /\ n = IF at < Size(j.path) THEN Size(j.path) ELSE at + 1
  <2>1. Size(j.path) = SizeWith(j, j.moved)
    BY UploadedFile
  <2> QED
    BY <1>1, <1>2, <2>1 DEF SizeWith
<1>4. disk' = [disk EXCEPT ![j.path] = file]
  BY <1>3 DEF WriteChunk
<1>5. ASSUME NEW i \in 1 .. n
      PROVE  file[i] = IF j.offset < i /\ i <= j.offset + (j.moved + 1) THEN s ELSE Old(j)[i]
  <2>1. file[i] = CASE i = at + 1 -> s
                    [] i # at + 1 /\ i <= Size(j.path) -> disk[j.path][i]
                    [] OTHER -> NoFile
    OBVIOUS
  <2> HIDE DEF file
  <2>2. CASE i = at + 1
    BY <1>2, <2>1, <2>2
  <2>3. CASE i # at + 1
    <3>1. i \in 1 .. SizeWith(j, j.moved) /\ i \in Nat
      BY <1>1, <1>2, <2>3 DEF SizeWith
    <3>2. Size(j.path) = SizeWith(j, j.moved)
      BY UploadedFile
    <3>3. i <= Size(j.path)
      BY <1>1, <1>2, <3>1, <3>2 DEF SizeWith
    <3>4. file[i] = disk[j.path][i]
      BY <2>1, <2>3, <3>3
    <3>5. disk[j.path][i] = IF j.offset < i /\ i <= j.offset + j.moved THEN s ELSE Old(j)[i]
      BY <3>1, UploadedFile
    <3> QED
      BY <1>2, <2>3, <3>1, <3>4, <3>5
  <2> QED
    BY <2>2, <2>3
<1>6. \A i \in 1 .. n : file[i] \in Buffers
  <2> SUFFICES ASSUME NEW i \in 1 .. n PROVE file[i] \in Buffers
    OBVIOUS
  <2>1. file[i] = IF j.offset < i /\ i <= j.offset + (j.moved + 1) THEN s ELSE Old(j)[i]
    BY <1>5
  <2> HIDE DEF file
  <2>2. ~ (j.offset < i /\ i <= j.offset + (j.moved + 1)) => i \in 1 .. Len(Old(j))
    BY <1>1, <1>2 DEF SizeWith
  <2>3. i \in 1 .. Len(Old(j)) => Old(j)[i] \in Buffers
    BY <1>1, ElementOfSeq
  <2> QED
    BY <2>1, <2>2, <2>3 DEF Buffers
<1>7. file \in Seq(Buffers) /\ Len(file) = n
  <2>1. file \in [1 .. n -> Buffers]
    BY <1>6
  <2>2. n \in Nat
    BY <1>2, <1>3
  <2> HIDE DEF file, n
  <2> QED
    BY <2>1, <2>2
<1>8. file \in Contents
  BY <1>3, <1>7, InContents
<1> HIDE DEF file, n, at
<1>9. disk' \in [Paths -> Contents \cup {NoFile}] /\ disk'[j.path] = file
      /\ \A p \in Paths : p # j.path => disk'[p] = disk[p]
  BY <1>4, <1>8 DEF Types
<1> DEFINE k == [j EXCEPT !.moved = @ + 1]
<1>10. /\ k \in JobSet /\ k.moved = j.moved + 1 /\ k.offset = j.offset /\ k.base = j.base
       /\ k.op = j.op /\ k.path = j.path
  <2>1. j.moved + 1 \in 0 .. MaxSize
    BY <1>2
  <2> QED
    BY <2>1 DEF JobSet
<1> HIDE DEF k
<1>11. Old(k) = Old(j) /\ Continues(k) /\ SizeWith(k, k.moved) = n /\ k.moved > 0
  BY <1>1, <1>2, <1>10 DEF Old, Continues, SizeWith, n
<1>12. file = Expected(s, k)
  <2>1. /\ Expected(s, k) \in Seq(Buffers) /\ Len(Expected(s, k)) = n
        /\ \A i \in 1 .. n : Expected(s, k)[i] =
               IF j.offset < i /\ i <= j.offset + (j.moved + 1) THEN s ELSE Old(j)[i]
    <3>1. Old(k) \in Seq(Buffers)
      BY <1>1, <1>11
    <3> QED
      BY <1>10, <1>11, <3>1, ExpectedIs
  <2>2. \A i \in 1 .. Len(file) : file[i] = Expected(s, k)[i]
    BY <1>5, <1>7, <2>1
  <2> QED
    BY <1>7, <2>1, <2>2, SeqEqual
<1>13. UploadOK(s, k)'
  BY <1>2, <1>9, <1>10, <1>12 DEF UploadOK
<1> QED
  BY <1>9, <1>10, <1>13 DEF k

-----------------------------------------------------------------------------
(* The steps of the handlers that take and return no lock                  *)

LEMMA NoJobTyped ==
    NoJob \in JobSet /\ NoJob.step = "idle" /\ NoJob.moved = 0 /\ NoJob.sent = <<>>
<1>1. /\ "none" \in Ops
      /\ "none" \in PathOrNone /\ "idle" \in Steps
  BY DEF HandlerSteps, Steps, Ops, PathOrNone
<1>2. PICK job \in JobSet :
          /\ job = [Job("none", "none", "none", 0) EXCEPT !.step = "idle"]
          /\ job.step = "idle" /\ job.moved = 0 /\ job.sent = <<>>
  BY <1>1, AtStep
<1>3. NoJob = job
  BY <1>2, Zenon DEF NoJob
<1> QED
  BY <1>2, <1>3

LEMMA InitOK == Init => IInv
<1> SUFFICES ASSUME Init PROVE IInv
  OBVIOUS
<1> USE DEF Init, Lock!Init
<1>1. NoJob \in JobSet /\ NoJob.step = "idle" /\ NoJob.moved = 0 /\ NoJob.sent = <<>>
  BY NoJobTyped
<1>2. Types
  BY <1>1, InContents DEF Types, PathOrNone
<1>3. Stages /\ Locks /\ Jobs
  BY <1>1 DEF Stages, Locks, Jobs, JobOK, HandlerSteps, ThreadSteps, AdmittedSteps
<1>4. Exclusion
  BY DEF Exclusion
<1> QED
  BY <1>2, <1>3, <1>4 DEF IInv

LEMMA BeginsOK ==
    ASSUME IInv, NEW s \in Sessions, NEW op \in {"RETR", "STOR", "APPE", "DELE", "RNTO"},
           NEW p \in Paths, NEW to \in PathOrNone, op = "RNTO" => to \in Paths,
           NEW offset \in 0 .. MaxSize,
           Begins(s, Job(op, p, to, offset)),
           rename_from' \in [Sessions -> PathOrNone]
    PROVE  IInv'
<1>1. PICK job : job = Job(op, p, to, offset)
  OBVIOUS
<1>2. /\ job \in JobSet /\ job.step = "checked" /\ job.op = op /\ job.path = p /\ job.to = to
      /\ job.moved = 0 /\ job.sent = <<>>
  <2>1. op \in Ops /\ p \in PathOrNone
    BY DEF Ops, PathOrNone
  <2> QED
    BY <1>1, <2>1, JobTyped
<1>3. disk' \in [Paths -> Contents \cup {NoFile}] /\ WritesAs(H(s))
  BY DEF Begins, WritesAs, IInv, Types
<1>4. JobOK(s, job)'
  BY <1>2 DEF JobOK, AdmittedSteps
<1>5. handler' = [handler EXCEPT ![s] = job] /\ UNCHANGED <<lockVars, thread>>
  BY <1>1 DEF Begins
<1> QED
  BY <1>2, <1>3, <1>4, <1>5, HandlerChanges DEF HandlerSteps

\* Only the pending rename changes.
LEMMA RenameFromOK ==
    ASSUME IInv, UNCHANGED <<disk, lockVars, handler, thread>>,
           rename_from' \in [Sessions -> PathOrNone]
    PROVE  IInv'
  BY DEF IInv, lockVars, Types, Stages, Exclusion, Locks, Holds, Jobs, JobOK, DownloadOK, UploadOK

LEMMA CommandOK ==
    ASSUME IInv, NEW s \in Sessions, Command(s)
    PROVE  IInv'
<1>1. rename_from \in [Sessions -> PathOrNone]
  BY DEF IInv, Types
<1>2. CASE Other(s)
  BY <1>1, <1>2, RenameFromOK DEF Other, Forget, PathOrNone
<1>3. ASSUME NEW p \in Paths, Appe(s, p) \/ Dele(s, p) PROVE IInv'
  <2>1. 0 \in 0 .. MaxSize
    BY BoundsAreNat
  <2>2. rename_from' \in [Sessions -> PathOrNone]
    BY <1>1, <1>3 DEF Appe, Dele, Forget, PathOrNone
  <2> QED
    BY <1>3, <2>1, <2>2, BeginsOK DEF Appe, Dele, PathOrNone
<1>4. ASSUME NEW p \in Paths, Rnfr(s, p) PROVE IInv'
  <2>1. rename_from' \in [Sessions -> PathOrNone]
    BY <1>1, <1>4 DEF Rnfr, PathOrNone
  <2> QED
    BY <1>4, <2>1, RenameFromOK DEF Rnfr
<1>5. ASSUME NEW p \in Paths, Rnto(s, p) PROVE IInv'
  <2>1. 0 \in 0 .. MaxSize
    BY BoundsAreNat
  <2>2. rename_from' = rename_from /\ rename_from[s] \in Paths
    BY <1>1, <1>5 DEF Rnto, PathOrNone
  <2> QED
    BY <1>1, <1>5, <2>1, <2>2, BeginsOK DEF Rnto, PathOrNone
<1>6. ASSUME NEW p \in Paths, NEW offset \in 0 .. MaxSize, Retr(s, p, offset) \/ Stor(s, p, offset)
      PROVE  IInv'
  <2>1. rename_from' \in [Sessions -> PathOrNone]
    BY <1>1, <1>6 DEF Retr, Stor, Forget, PathOrNone
  <2> QED
    BY <1>6, <2>1, BeginsOK DEF Retr, Stor, PathOrNone
<1> QED
  BY <1>2, <1>3, <1>4, <1>5, <1>6 DEF Command

\* The handler ends its command, and keeps the lock until it returns.
LEMMA EndingOK ==
    ASSUME IInv, NEW s \in Sessions, handler[s].step \in {"locked", "ready"},
           handler' = [handler EXCEPT ![s] = Ending(@)],
           UNCHANGED <<lockVars, thread, rename_from>>,
           disk' \in [Paths -> Contents \cup {NoFile}], WritesAs(H(s))
    PROVE  IInv'
<1>1. handler[s] \in JobSet /\ handler[s].path \in Paths /\ Holds(H(s), handler[s])
      /\ rename_from' \in [Sessions -> PathOrNone]
  BY DEF IInv, Types, Stages, Locks
<1>2. handler[s].op \in Ops
  BY <1>1 DEF JobSet
<1>2a. handler[s].path \in PathOrNone /\ "unlock" \in Steps
  BY <1>1 DEF HandlerSteps, Steps, PathOrNone
<1>3. PICK job \in JobSet :
          /\ job = Ending(handler[s])
          /\ job.step = "unlock" /\ job.op = handler[s].op /\ job.path = handler[s].path
          /\ job.moved = 0 /\ job.sent = <<>>
  BY <1>2, <1>2a, AtStep DEF Ending
<1>4. Holds(H(s), job)
  BY <1>1, <1>3 DEF Holds
<1>5. JobOK(s, job)'
  BY <1>3 DEF JobOK, AdmittedSteps
<1>6. handler' = [handler EXCEPT ![s] = job]
  BY <1>3 DEF IInv, Types
<1> QED
  BY <1>1, <1>3, <1>4, <1>5, <1>6, HandlerChanges DEF HandlerSteps

\* The handler has found its file as the command wants it.
LEMMA AdmitsOK ==
    ASSUME IInv, NEW s \in Sessions, handler[s].step = "locked",
           NEW offset \in 0 .. MaxSize, NEW base \in Contents \cup {NoFile},
           Admits(s, offset, base),
           disk' \in [Paths -> Contents \cup {NoFile}], WritesAs(H(s)),
           handler[s].op = "RETR" \/ handler[s].op \in Uploads => disk'[handler[s].path] = base,
           handler[s].op = "RETR" => base # NoFile,
           base = NoFile => offset = 0 \/ handler[s].op = "RNTO",
           base # NoFile => offset <= Len(base),
           handler[s].op = "APPE" /\ base # NoFile => offset = Len(base)
    PROVE  IInv'
<1>1. PICK job : job = [handler[s] EXCEPT !.step = "ready", !.offset = offset, !.base = base]
  OBVIOUS
<1>2. /\ handler[s] \in JobSet /\ handler[s].path \in Paths /\ Holds(H(s), handler[s])
      /\ handler[s].moved = 0 /\ handler[s].sent = <<>>
      /\ handler[s].op = "RNTO" => handler[s].to \in Paths
      /\ rename_from' \in [Sessions -> PathOrNone]
  BY DEF IInv, Types, Stages, Locks, Admits
<1>3. /\ job \in JobSet /\ job.step = "ready" /\ job.op = handler[s].op
      /\ job.path = handler[s].path /\ job.to = handler[s].to /\ job.moved = 0
      /\ job.sent = <<>> /\ job.offset = offset /\ job.base = base
  BY <1>1, <1>2 DEF JobSet, HandlerSteps, Steps
<1>4. Holds(H(s), job)
  BY <1>2, <1>3 DEF Holds
<1>5. JobOK(s, job)'
  <2>1. job.op = "RETR" => DownloadOK(job)'
    <3> SUFFICES ASSUME job.op = "RETR" PROVE DownloadOK(job)'
      OBVIOUS
    <3>1. base \in Contents /\ disk'[job.path] = base /\ offset <= Len(base) /\ Len(<<>>) = 0
      BY <1>3
    <3>2. offset + 0 <= Len(base) /\ 1 .. 0 = {}
      BY <3>1, BoundsAreNat
    <3> QED
      BY <1>3, <3>1, <3>2 DEF DownloadOK
  <2>2. job.op \in Uploads => UploadOK(s, job)'
    <3> SUFFICES ASSUME job.op \in Uploads PROVE UploadOK(s, job)'
      OBVIOUS
    <3>1. Expected(s, job) = base
      BY <1>3 DEF Expected
    <3>2. offset + 0 <= MaxSize
      BY BoundsAreNat
    <3> QED
      BY <1>3, <3>1, <3>2 DEF UploadOK, Uploads
  <2> QED
    BY <2>1, <2>2 DEF JobOK
<1>6. handler' = [handler EXCEPT ![s] = job] /\ UNCHANGED <<lockVars, thread>>
  BY <1>1 DEF Admits, IInv, Types
<1> QED
  BY <1>2, <1>3, <1>4, <1>5, <1>6, HandlerChanges DEF HandlerSteps

\* The file of an admitted command, and who may change it.
LEMMA OwnFile ==
    ASSUME IInv, NEW s \in Sessions, handler[s].step \in {"locked", "ready"}
    PROVE  /\ handler[s] \in JobSet /\ handler[s].path \in Paths
           /\ handler[s].op # "RETR" => H(s) \in exclusive[handler[s].path]
           /\ disk[handler[s].path] \in Contents \cup {NoFile}
           /\ handler[s].offset \in 0 .. MaxSize
  BY DEF IInv, Types, Stages, Locks, Holds, Reads, JobSet

LEMMA DeleteWrites ==
    ASSUME IInv, NEW s \in Sessions, handler[s].step \in {"locked", "ready"},
           handler[s].op # "RETR", Delete(handler[s].path)
    PROVE  /\ disk' \in [Paths -> Contents \cup {NoFile}] /\ WritesAs(H(s))
           /\ disk'[handler[s].path] = NoFile
  BY OwnFile DEF Delete, WritesAs, IInv, Types

LEMMA NothingWritten ==
    ASSUME IInv, NEW s \in Sessions, UNCHANGED disk
    PROVE  disk' \in [Paths -> Contents \cup {NoFile}] /\ WritesAs(H(s)) /\ WritesAs(T(s))
  BY DEF WritesAs, IInv, Types

LEMMA AdmissionOK ==
    ASSUME IInv, NEW s \in Sessions,
           AdmitRetr(s) \/ AdmitStor(s) \/ AdmitAppe(s) \/ AdmitRnto(s)
    PROVE  IInv'
<1>1. handler[s].step = "locked"
  BY DEF AdmitRetr, AdmitStor, AdmitAppe, AdmitRnto, Locked
<1> DEFINE p == handler[s].path
<1>2. p \in Paths /\ disk[p] \in Contents \cup {NoFile} /\ handler[s].offset \in 0 .. MaxSize
      /\ 0 \in 0 .. MaxSize /\ NoFile \in Contents \cup {NoFile}
  BY <1>1, OwnFile, BoundsAreNat
<1>3. disk[p] # NoFile => Len(disk[p]) \in 0 .. MaxSize
  BY <1>2, InContents
<1>4. CASE AdmitRetr(s)
  <2>1. /\ UNCHANGED disk /\ handler[s].op = "RETR" /\ disk[p] # NoFile
        /\ handler[s].offset <= Len(disk[p]) /\ Admits(s, handler[s].offset, disk[p])
    BY <1>4 DEF AdmitRetr, Locked, Fits, Exists, Size
  <2> QED
    BY <1>1, <1>2, <2>1, NothingWritten, AdmitsOK
<1>5. CASE AdmitStor(s)
  <2>1. handler[s].op = "STOR"
    BY <1>5 DEF AdmitStor, Locked
  <2>2. CASE Fits(handler[s]) /\ UNCHANGED disk /\ Admits(s, handler[s].offset, disk[p])
    <3>1. disk[p] # NoFile /\ handler[s].offset <= Len(disk[p])
      BY <2>2 DEF Fits, Exists, Size
    <3> QED
      BY <1>1, <1>2, <2>1, <2>2, <3>1, NothingWritten, AdmitsOK
  <2>3. CASE Delete(p) /\ Admits(s, 0, NoFile)
    <3>1. disk' \in [Paths -> Contents \cup {NoFile}] /\ WritesAs(H(s)) /\ disk'[p] = NoFile
      BY <1>1, <2>1, <2>3, DeleteWrites
    <3> QED
      BY <1>1, <1>2, <2>1, <2>3, <3>1, AdmitsOK
  <2> QED
    BY <1>5, <2>2, <2>3 DEF AdmitStor
<1>6. CASE AdmitAppe(s)
  <2>1. /\ UNCHANGED disk /\ handler[s].op = "APPE" /\ Admits(s, Size(p), disk[p])
        /\ Size(p) \in 0 .. MaxSize
        /\ disk[p] = NoFile => Size(p) = 0
        /\ disk[p] # NoFile => Size(p) = Len(disk[p])
    BY <1>2, <1>3, <1>6 DEF AdmitAppe, Locked, Size, Exists
  <2>2. disk[p] # NoFile => Size(p) <= Len(disk[p])
    BY <1>3, <2>1
  <2> QED
    BY <1>1, <1>2, <2>1, <2>2, NothingWritten, AdmitsOK
<1>7. CASE AdmitRnto(s)
  <2>1. /\ UNCHANGED disk /\ handler[s].op = "RNTO" /\ Admits(s, 0, disk[p])
        /\ disk[p] # NoFile
    BY <1>7 DEF AdmitRnto, Locked, Exists
  <2>2. 0 <= Len(disk[p])
    BY <1>3, <2>1, BoundsAreNat
  <2> QED
    BY <1>1, <1>2, <2>1, <2>2, NothingWritten, AdmitsOK DEF Uploads
<1> QED
  BY <1>4, <1>5, <1>6, <1>7

LEMMA EndsOK ==
    ASSUME IInv, NEW s \in Sessions, AdmitDele(s) \/ Refuse(s) \/ (Uncontended(s) /\ Rename(s))
    PROVE  IInv'
<1>1. /\ handler[s].step \in {"locked", "ready"}
      /\ handler' = [handler EXCEPT ![s] = Ending(@)]
      /\ UNCHANGED <<lockVars, thread, rename_from>>
  BY DEF AdmitDele, Refuse, Rename, Handles
<1>2. disk' \in [Paths -> Contents \cup {NoFile}] /\ WritesAs(H(s))
  <2>1. CASE AdmitDele(s)
    BY <1>1, <2>1, DeleteWrites DEF AdmitDele, Locked
  <2>2. CASE Refuse(s)
    BY <2>2, NothingWritten DEF Refuse
  <2>3. CASE Uncontended(s) /\ Rename(s)
    <3> DEFINE from == handler[s].path
               to == handler[s].to
    <3>1. /\ handler[s].op = "RNTO" /\ handler[s].step = "ready"
          /\ disk' = [disk EXCEPT ![to] = disk[from], ![from] = NoFile]
      BY <2>3 DEF Rename, Handles
    <3>2. to \in Paths
      BY <3>1 DEF IInv, Stages
    <3>3. shared[to] = {} /\ exclusive[to] = {}
      BY <2>3, <3>2, NoneIsNoPath DEF Uncontended
    <3>4. from \in Paths /\ H(s) \in exclusive[from] /\ disk[from] \in Contents \cup {NoFile}
      BY <3>1, OwnFile
    <3>5. disk \in [Paths -> Contents \cup {NoFile}]
      BY DEF IInv, Types
    <3> HIDE DEF from, to
    <3>6. disk' \in [Paths -> Contents \cup {NoFile}]
      BY <3>1, <3>2, <3>4, <3>5
    <3>7. \A p \in Paths : p # from /\ p # to => disk'[p] = disk[p]
      BY <3>1, <3>2, <3>4, <3>5
    <3> QED
      BY <3>3, <3>4, <3>6, <3>7 DEF WritesAs
  <2> QED
    BY <2>1, <2>2, <2>3
<1> QED
  BY <1>1, <1>2, EndingOK

LEMMA BusyOK ==
    ASSUME IInv, NEW s \in Sessions, Busy(s)
    PROVE  IInv'
<1>1. JobOK(s, NoJob)'
  BY NoJobTyped DEF JobOK, AdmittedSteps
<1>2. rename_from' \in [Sessions -> PathOrNone]
  BY DEF Busy, Returns, IInv, Types, PathOrNone
<1>3. /\ handler' = [handler EXCEPT ![s] = NoJob] /\ UNCHANGED <<disk, lockVars, thread>>
  BY DEF Busy, Returns
<1>4. NoJob.step \notin {"locked", "ready", "unlock"} /\ NoJob.step \in HandlerSteps
  BY NoJobTyped DEF HandlerSteps
<1>5. disk' \in [Paths -> Contents \cup {NoFile}] /\ WritesAs(H(s))
  BY <1>3, NothingWritten
<1> QED
  BY <1>1, <1>2, <1>3, <1>4, <1>5, NoJobTyped, HandlerChanges

-----------------------------------------------------------------------------
(* The steps that take and return locks                                    *)

LEMMA TryLockOK ==
    ASSUME IInv, NEW s \in Sessions, TryLock(s)
    PROVE  IInv'
<1> USE DEF IInv
<1> DEFINE p == handler[s].path
<1>1. PICK job : job = [handler[s] EXCEPT !.step = "locked"]
  OBVIOUS
<1>2. /\ handler[s].step = "checked" /\ handler[s] \in JobSet /\ p \in Paths
      /\ handler' = [handler EXCEPT ![s] = job]
      /\ UNCHANGED <<disk, thread, rename_from>>
  BY <1>1 DEF TryLock, Handles, Types, Stages
<1>3. /\ job \in JobSet /\ job.step = "locked" /\ job.op = handler[s].op /\ job.path = p
      /\ job.to = handler[s].to /\ job.moved = handler[s].moved /\ job.sent = handler[s].sent
  BY <1>1, <1>2 DEF JobSet, Steps, HandlerSteps
<1>4. handler'[s] = job /\ \A u \in Sessions : u # s => handler'[u] = handler[u]
  BY <1>2 DEF Types
<1>5. \/ /\ Reads(job.op) /\ exclusive[p] = {}
         /\ shared' = [shared EXCEPT ![p] = @ \cup {H(s)}] /\ exclusive' = exclusive
      \/ /\ ~ Reads(job.op) /\ exclusive[p] = {} /\ shared[p] = {}
         /\ exclusive' = [exclusive EXCEPT ![p] = {H(s)}] /\ shared' = shared
  BY <1>3 DEF TryLock, Lock!GrantShared, Lock!GrantExclusive
<1>6. H(s) \in Holders
  BY HoldersApart
<1>7. /\ shared' \in [Paths -> SUBSET Holders] /\ exclusive' \in [Paths -> SUBSET Holders]
      /\ \A q \in Paths : shared[q] \subseteq shared'[q] /\ exclusive[q] \subseteq exclusive'[q]
      /\ \A q \in Paths : q # p => shared'[q] = shared[q] /\ exclusive'[q] = exclusive[q]
      /\ Holds(H(s), job)'
      /\ exclusive'[p] # {} => shared'[p] = {} /\ exclusive'[p] = {H(s)}
  <2>1. CASE /\ Reads(job.op) /\ exclusive[p] = {}
             /\ shared' = [shared EXCEPT ![p] = @ \cup {H(s)}] /\ exclusive' = exclusive
    BY <1>2, <1>3, <1>6, <2>1 DEF Types, Holds
  <2>2. CASE /\ ~ Reads(job.op) /\ exclusive[p] = {} /\ shared[p] = {}
             /\ exclusive' = [exclusive EXCEPT ![p] = {H(s)}] /\ shared' = shared
    BY <1>2, <1>3, <1>6, <2>2 DEF Types, Holds
  <2> QED
    BY <1>5, <2>1, <2>2
<1> HIDE DEF p
<1>8. Types'
  BY <1>2, <1>3, <1>7 DEF Types
<1>9. Stages'
  BY <1>2, <1>3, <1>4 DEF Stages, HandlerSteps, p
<1>10. Exclusion'
  <2> SUFFICES ASSUME NEW q \in Paths
               PROVE  /\ exclusive'[q] # {} => shared'[q] = {}
                      /\ \A h, k \in exclusive'[q] : h = k
    BY DEF Exclusion
  <2> QED
    BY <1>7 DEF Exclusion
<1>11. Locks'
  <2> SUFFICES ASSUME NEW u \in Sessions
               PROVE  /\ handler'[u].step \in {"locked", "ready", "unlock"} => Holds(H(u), handler[u])'
                      /\ thread'[u].step # "idle" => Holds(T(u), thread[u])'
    BY DEF Locks
  <2>1. thread'[u].step # "idle" => Holds(T(u), thread[u])'
    BY <1>2, <1>7 DEF Locks, Holds, Stages
  <2>2. CASE u = s
    BY <1>4, <1>7, <2>1, <2>2 DEF Holds
  <2>3. CASE u # s
    BY <1>4, <1>7, <2>1, <2>3 DEF Locks, Holds, Stages
  <2> QED
    BY <2>2, <2>3
<1>12. Jobs'
  <2> SUFFICES ASSUME NEW u \in Sessions PROVE JobOK(u, handler[u])' /\ JobOK(u, thread[u])'
    BY DEF Jobs
  <2>1. JobOK(u, handler[u]) /\ JobOK(u, thread[u])
    BY DEF Jobs
  <2>2. JobOK(u, thread[u])'
    BY <1>2, <2>1, ThreadKept
  <2>3. CASE u = s
    BY <1>3, <1>4, <2>2, <2>3 DEF JobOK, AdmittedSteps
  <2>4. CASE u # s
    BY <1>2, <1>4, <2>1, <2>2, <2>4, HandlerKept
  <2> QED
    BY <2>3, <2>4
<1> QED
  BY <1>8, <1>9, <1>10, <1>11, <1>12

\* A holder gives its lock back: the others keep theirs.
LEMMA GivenBack ==
    ASSUME IInv, NEW h, NEW p \in Paths, Lock!GiveBack(h, p)
    PROVE  /\ shared' \in [Paths -> SUBSET Holders] /\ exclusive' \in [Paths -> SUBSET Holders]
           /\ Exclusion'
           /\ \A q \in Paths, k \in Holders : k # h =>
                 /\ k \in shared'[q] <=> k \in shared[q]
                 /\ k \in exclusive'[q] <=> k \in exclusive[q]
<1>1. /\ shared' = [shared EXCEPT ![p] = @ \ {h}]
      /\ exclusive' = [exclusive EXCEPT ![p] = @ \ {h}]
  BY DEF Lock!GiveBack
<1>2. shared \in [Paths -> SUBSET Holders] /\ exclusive \in [Paths -> SUBSET Holders]
  BY DEF IInv, Types
<1>3. \A q \in Paths : shared'[q] \subseteq shared[q] /\ exclusive'[q] \subseteq exclusive[q]
  BY <1>1, <1>2
<1>4. Exclusion'
  BY <1>3 DEF IInv, Exclusion
<1> QED
  BY <1>1, <1>2, <1>4

LEMMA UnlockOK ==
    ASSUME IInv, NEW s \in Sessions, Unlock(s)
    PROVE  IInv'
<1> USE DEF IInv
<1>1. /\ handler[s].step = "unlock" /\ handler[s].path \in Paths
      /\ handler' = [handler EXCEPT ![s] = NoJob] /\ UNCHANGED <<disk, thread>>
      /\ Lock!GiveBack(H(s), handler[s].path)
      /\ rename_from' \in [Sessions -> PathOrNone]
  BY DEF Unlock, Returns, Stages, Types, PathOrNone
<1>2. handler'[s] = NoJob /\ \A u \in Sessions : u # s => handler'[u] = handler[u]
  BY <1>1 DEF Types
<1>3. /\ shared' \in [Paths -> SUBSET Holders] /\ exclusive' \in [Paths -> SUBSET Holders]
      /\ Exclusion'
      /\ \A q \in Paths, k \in Holders : k # H(s) =>
            /\ k \in shared'[q] <=> k \in shared[q]
            /\ k \in exclusive'[q] <=> k \in exclusive[q]
  BY <1>1, GivenBack
<1>4. Types'
  BY <1>1, <1>3, NoJobTyped DEF Types
<1>5. Stages'
  BY <1>1, <1>2, NoJobTyped DEF Stages, HandlerSteps
<1>6. Locks'
  <2> SUFFICES ASSUME NEW u \in Sessions
               PROVE  /\ handler'[u].step \in {"locked", "ready", "unlock"} => Holds(H(u), handler[u])'
                      /\ thread'[u].step # "idle" => Holds(T(u), thread[u])'
    BY DEF Locks
  <2>1. thread'[u].step # "idle" => Holds(T(u), thread[u])'
    BY <1>1, <1>3, HoldersApart DEF Locks, Holds, Stages
  <2>2. CASE u = s
    BY <1>2, <2>1, <2>2, NoJobTyped
  <2>3. CASE u # s
    BY <1>2, <1>3, <2>1, <2>3, HoldersApart DEF Locks, Holds, Stages
  <2> QED
    BY <2>2, <2>3
<1>7. Jobs'
  <2> SUFFICES ASSUME NEW u \in Sessions PROVE JobOK(u, handler[u])' /\ JobOK(u, thread[u])'
    BY DEF Jobs
  <2>1. JobOK(u, handler[u]) /\ JobOK(u, thread[u])
    BY DEF Jobs
  <2>2. JobOK(u, thread[u])'
    BY <1>1, <2>1, ThreadKept
  <2>3. CASE u = s
    BY <1>2, <2>2, <2>3, NoJobTyped DEF JobOK, AdmittedSteps
  <2>4. CASE u # s
    BY <1>1, <1>2, <2>1, <2>2, <2>4, HandlerKept
  <2> QED
    BY <2>3, <2>4
<1> QED
  BY <1>3, <1>4, <1>5, <1>6, <1>7

LEMMA ThreadUnlockOK ==
    ASSUME IInv, NEW s \in Sessions, ThreadUnlock(s)
    PROVE  IInv'
<1> USE DEF IInv
<1>1. /\ thread[s].step # "idle" /\ thread[s].path \in Paths
      /\ thread' = [thread EXCEPT ![s] = NoJob] /\ UNCHANGED <<disk, handler, rename_from>>
      /\ Lock!GiveBack(T(s), thread[s].path)
  BY DEF ThreadUnlock, Stages
<1>2. thread'[s] = NoJob /\ \A u \in Sessions : u # s => thread'[u] = thread[u]
  BY <1>1 DEF Types
<1>3. /\ shared' \in [Paths -> SUBSET Holders] /\ exclusive' \in [Paths -> SUBSET Holders]
      /\ Exclusion'
      /\ \A q \in Paths, k \in Holders : k # T(s) =>
            /\ k \in shared'[q] <=> k \in shared[q]
            /\ k \in exclusive'[q] <=> k \in exclusive[q]
  BY <1>1, GivenBack
<1>4. Types'
  BY <1>1, <1>3, NoJobTyped DEF Types
<1>5. Stages'
  BY <1>1, <1>2, NoJobTyped DEF Stages, ThreadSteps
<1>6. Locks'
  <2> SUFFICES ASSUME NEW u \in Sessions
               PROVE  /\ handler'[u].step \in {"locked", "ready", "unlock"} => Holds(H(u), handler[u])'
                      /\ thread'[u].step # "idle" => Holds(T(u), thread[u])'
    BY DEF Locks
  <2>1. handler'[u].step \in {"locked", "ready", "unlock"} => Holds(H(u), handler[u])'
    BY <1>1, <1>3, HoldersApart DEF Locks, Holds, Stages
  <2>2. CASE u = s
    BY <1>2, <2>1, <2>2, NoJobTyped
  <2>3. CASE u # s
    BY <1>2, <1>3, <2>1, <2>3, HoldersApart DEF Locks, Holds, Stages
  <2> QED
    BY <2>2, <2>3
<1>7. Jobs'
  <2> SUFFICES ASSUME NEW u \in Sessions PROVE JobOK(u, handler[u])' /\ JobOK(u, thread[u])'
    BY DEF Jobs
  <2>1. JobOK(u, handler[u]) /\ JobOK(u, thread[u])
    BY DEF Jobs
  <2>2. JobOK(u, handler[u])'
    BY <1>1, <2>1, HandlerKept
  <2>3. CASE u = s
    BY <1>2, <2>2, <2>3, NoJobTyped DEF JobOK, AdmittedSteps
  <2>4. CASE u # s
    BY <1>1, <1>2, <2>1, <2>2, <2>4, ThreadKept
  <2> QED
    BY <2>3, <2>4
<1> QED
  BY <1>3, <1>4, <1>5, <1>6, <1>7

\* The thread of a transfer takes over what its handler held and knew.
LEMMA StartTransferOK ==
    ASSUME IInv, NEW s \in Sessions, StartTransfer(s)
    PROVE  IInv'
<1> USE DEF IInv
<1> DEFINE p == handler[s].path
           HandOver(held) == IF H(s) \in held THEN (held \ {H(s)}) \cup {T(s)} ELSE held
<1>1. PICK job : job = [handler[s] EXCEPT !.step = IF Reads(handler[s].op) THEN "start" ELSE "move"]
  OBVIOUS
<1>2. /\ handler[s].step = "ready" /\ handler[s].op \in {"RETR", "STOR", "APPE"}
      /\ handler[s] \in JobSet /\ p \in Paths /\ thread[s].step = "idle"
      /\ handler[s].moved = 0 /\ handler[s].sent = <<>>
      /\ thread' = [thread EXCEPT ![s] = job] /\ handler' = [handler EXCEPT ![s] = NoJob]
      /\ shared' = [shared EXCEPT ![p] = HandOver(@)]
      /\ exclusive' = [exclusive EXCEPT ![p] = HandOver(@)]
      /\ UNCHANGED <<disk, rename_from>>
  BY <1>1 DEF StartTransfer, Types, Stages
<1>3. /\ job \in JobSet /\ job.step = IF Reads(job.op) THEN "start" ELSE "move"
      /\ job.op = handler[s].op /\ job.path = p /\ job.moved = 0 /\ job.sent = <<>>
      /\ job.offset = handler[s].offset /\ job.base = handler[s].base
  BY <1>1, <1>2 DEF JobSet, Steps, ThreadSteps
<1>4. /\ handler'[s] = NoJob /\ thread'[s] = job
      /\ \A u \in Sessions : u # s => handler'[u] = handler[u] /\ thread'[u] = thread[u]
  BY <1>2 DEF Types
<1>5. /\ shared \in [Paths -> SUBSET Holders] /\ exclusive \in [Paths -> SUBSET Holders]
      /\ H(s) \in Holders /\ T(s) \in Holders /\ H(s) # T(s)
  BY HoldersApart DEF Types
<1>6. \A q \in Paths : q # p => shared'[q] = shared[q] /\ exclusive'[q] = exclusive[q]
  BY <1>2, <1>5
<1>7. shared'[p] = HandOver(shared[p]) /\ exclusive'[p] = HandOver(exclusive[p])
  BY <1>2, <1>5
<1>8. shared' \in [Paths -> SUBSET Holders] /\ exclusive' \in [Paths -> SUBSET Holders]
  <2>1. HandOver(shared[p]) \in SUBSET Holders /\ HandOver(exclusive[p]) \in SUBSET Holders
    BY <1>2, <1>5
  <2> HIDE DEF HandOver
  <2> QED
    BY <1>2, <1>5, <2>1
<1>9. /\ Holds(T(s), job)'
      /\ \A q \in Paths, k \in Holders : k # H(s) =>
            /\ k \in shared[q] => k \in shared'[q]
            /\ k \in exclusive[q] => k \in exclusive'[q]
  <2>1. Holds(H(s), handler[s])
    BY <1>2 DEF Locks
  <2>2. Holds(T(s), job)'
    BY <1>3, <1>7, <2>1 DEF Holds
  <2> QED
    BY <1>6, <1>7, <2>2
<1>10. Exclusion'
  <2>1. exclusive[p] # {} => shared[p] = {}
    BY <1>2 DEF Exclusion
  <2>2. \A h, k \in exclusive[p] : h = k
    BY <1>2 DEF Exclusion
  <2>3. exclusive'[p] # {} => shared'[p] = {}
    BY <1>7, <2>1
  <2>4. \A h, k \in exclusive'[p] : h = k
    BY <1>7, <2>2
  <2> SUFFICES ASSUME NEW q \in Paths
               PROVE  /\ exclusive'[q] # {} => shared'[q] = {}
                      /\ \A h, k \in exclusive'[q] : h = k
    BY DEF Exclusion
  <2> HIDE DEF p
  <2>5. CASE q = p
    BY <2>3, <2>4, <2>5
  <2>6. CASE q # p
    BY <1>6, <2>6 DEF Exclusion
  <2> QED
    BY <2>5, <2>6
<1> HIDE DEF p, HandOver
<1>11. Types'
  BY <1>2, <1>3, <1>8, NoJobTyped DEF Types
<1>12. Stages'
  BY <1>2, <1>3, <1>4, NoJobTyped DEF Stages, HandlerSteps, ThreadSteps, Reads, Uploads, p
<1>13. Locks'
  <2> SUFFICES ASSUME NEW u \in Sessions
               PROVE  /\ handler'[u].step \in {"locked", "ready", "unlock"} => Holds(H(u), handler[u])'
                      /\ thread'[u].step # "idle" => Holds(T(u), thread[u])'
    BY DEF Locks
  <2>1. CASE u = s
    BY <1>4, <1>9, <2>1, NoJobTyped DEF Holds
  <2>2. CASE u # s
    <3>1. H(u) # H(s) /\ T(u) # H(s) /\ H(u) \in Holders /\ T(u) \in Holders
      BY <2>2, HoldersApart
    <3> QED
      BY <1>4, <1>9, <2>2, <3>1 DEF Locks, Holds, Stages
  <2> QED
    BY <2>1, <2>2
<1>14. JobOK(s, job)'
  <2>1. JobOK(s, handler[s]) /\ handler[s].step \in AdmittedSteps
    BY <1>2 DEF Jobs, AdmittedSteps
  <2>2. job.op = "RETR" => DownloadOK(job)'
    BY <1>2, <1>3, <2>1 DEF JobOK, DownloadOK, Reads, p
  <2>3. job.op \in Uploads => UploadOK(s, job)'
    <3>1. Expected(s, job) = job.base /\ Expected(s, handler[s]) = handler[s].base
      BY <1>2, <1>3 DEF Expected
    <3> QED
      BY <1>2, <1>3, <2>1, <3>1 DEF JobOK, UploadOK, p
  <2> QED
    BY <2>2, <2>3 DEF JobOK
<1>15. Jobs'
  <2> SUFFICES ASSUME NEW u \in Sessions PROVE JobOK(u, handler[u])' /\ JobOK(u, thread[u])'
    BY DEF Jobs
  <2>1. JobOK(u, handler[u]) /\ JobOK(u, thread[u])
    BY DEF Jobs
  <2>2. CASE u = s
    <3>1. JobOK(u, handler[u])'
      BY <1>4, <2>2, NoJobTyped DEF JobOK, AdmittedSteps
    <3>2. JobOK(u, thread[u])'
      BY <1>4, <1>14, <2>2 DEF JobOK, DownloadOK, UploadOK
    <3> QED
      BY <3>1, <3>2
  <2>3. CASE u # s
    BY <1>2, <1>4, <2>1, <2>3, HandlerKept, ThreadKept
  <2> QED
    BY <2>2, <2>3
<1> QED
  BY <1>10, <1>11, <1>12, <1>13, <1>15

-----------------------------------------------------------------------------
(* The steps of the transfer threads                                       *)

\* The file of a transfer under way, and who may change it.
LEMMA ThreadsFile ==
    ASSUME IInv, NEW s \in Sessions, thread[s].step # "idle"
    PROVE  /\ thread[s] \in JobSet /\ thread[s].path \in Paths
           /\ thread[s].op \in {"RETR"} \cup Uploads
           /\ thread[s].op # "RETR" => T(s) \in exclusive[thread[s].path]
           /\ thread[s].step \in AdmittedSteps /\ thread[s].op = "RETR" => DownloadOK(thread[s])
           /\ thread[s].step \in AdmittedSteps /\ thread[s].op \in Uploads => UploadOK(s, thread[s])
           /\ thread[s].step = "start" => thread[s].op = "RETR"
  BY DEF IInv, Types, Stages, Locks, Holds, Reads, Jobs, JobOK

LEMMA StartSendingOK ==
    ASSUME IInv, NEW s \in Sessions, StartSending(s)
    PROVE  IInv'
<1> DEFINE j == thread[s]
<1>1. /\ j.step = "start" /\ UNCHANGED <<disk, lockVars, handler, rename_from>>
      /\ thread' = [thread EXCEPT ![s] = [j EXCEPT !.step = "move", !.size = Size(j.path)]]
  BY DEF StartSending, ThreadStep
<1>2. /\ j \in JobSet /\ j.path \in Paths /\ j.op = "RETR" /\ DownloadOK(j)
  BY <1>1, ThreadsFile DEF AdmittedSteps
<1>3. Size(j.path) = Len(j.base) /\ Len(j.base) \in 0 .. MaxSize
  BY <1>2, InContents DEF DownloadOK, Size, Exists
<1>4. PICK job : job = [j EXCEPT !.step = "move", !.size = Size(j.path)]
  OBVIOUS
<1>5. /\ job \in JobSet /\ job.step = "move" /\ job.op = j.op /\ job.path = j.path
      /\ job.offset = j.offset /\ job.base = j.base /\ job.moved = j.moved
      /\ job.sent = j.sent /\ job.size = Len(j.base)
  BY <1>2, <1>3, <1>4 DEF JobSet, Steps, ThreadSteps
<1>6. JobOK(s, job)'
  BY <1>1, <1>2, <1>5 DEF JobOK, DownloadOK, Uploads
<1>7. thread' = [thread EXCEPT ![s] = job] /\ job.step \in ThreadSteps \ {"idle", "start"}
      /\ thread[s].step # "idle"
  BY <1>1, <1>4, <1>5 DEF ThreadSteps
<1>8. disk' \in [Paths -> Contents \cup {NoFile}] /\ WritesAs(T(s))
  BY <1>1, NothingWritten
<1> QED
  BY <1>1, <1>5, <1>6, <1>7, <1>8, ThreadChanges

LEMMA SendChunkOK ==
    ASSUME IInv, NEW s \in Sessions, SendChunk(s)
    PROVE  IInv'
<1> DEFINE j == thread[s]
<1>1. /\ j.step = "move" /\ j.op = "RETR" /\ UNCHANGED <<disk, lockVars, handler, rename_from>>
      /\ j.offset + j.moved < j.size
      /\ thread' = [thread EXCEPT ![s] =
                      [j EXCEPT !.moved = @ + 1,
                                !.sent = Append(@, disk[j.path][j.offset + j.moved + 1])]]
  BY DEF SendChunk, ThreadStep, Reads
<1>2. /\ j \in JobSet /\ j.path \in Paths /\ DownloadOK(j)
  BY <1>1, ThreadsFile DEF AdmittedSteps
<1>3. /\ disk[j.path] = j.base /\ j.base \in Seq(Buffers) /\ Len(j.base) \in 0 .. MaxSize
      /\ j.size = Len(j.base) /\ j.offset \in Nat /\ j.moved \in Nat
      /\ j.sent \in Seq(Buffers) /\ Len(j.sent) = j.moved
  BY <1>1, <1>2, InContents, BoundsAreNat DEF DownloadOK, JobSet
<1> DEFINE b == j.base[j.offset + j.moved + 1]
<1>3a. /\ j.offset \in Nat /\ j.moved \in Nat /\ MaxSize \in Nat
       /\ Len(j.base) \in Nat /\ Len(j.base) <= MaxSize
       /\ j.offset + j.moved < Len(j.base)
  BY <1>1, <1>3, BoundsAreNat
<1>4. b \in Buffers /\ j.moved + 1 \in 0 .. MaxSize /\ j.offset + (j.moved + 1) <= Len(j.base)
  <2>1. j.offset + j.moved + 1 \in 1 .. Len(j.base)
    BY <1>3a
  <2>2. b \in Buffers
    BY <1>3, <2>1, ElementOfSeq
  <2>3. j.offset + (j.moved + 1) <= Len(j.base)
    BY <1>3a
  <2>4. j.moved + 1 \in 0 .. MaxSize
    <3>1. j.moved + 1 <= j.offset + (j.moved + 1)
      BY <1>3a
    <3> QED
      BY <1>3a, <2>3, <3>1
  <2> QED
    BY <2>2, <2>3, <2>4
<1>5. /\ Append(j.sent, b) \in Seq(Buffers) /\ Len(Append(j.sent, b)) = j.moved + 1
      /\ \A i \in 1 .. j.moved + 1 :
            Append(j.sent, b)[i] = IF i <= j.moved THEN j.sent[i] ELSE b
  BY <1>3, <1>4, AppendProperties
<1>6. PICK job : job = [j EXCEPT !.moved = @ + 1, !.sent = Append(@, b)]
  OBVIOUS
<1> HIDE DEF b
<1>7. /\ job \in JobSet /\ job.step = "move" /\ job.op = j.op /\ job.path = j.path
      /\ job.offset = j.offset /\ job.base = j.base /\ job.size = j.size
      /\ job.moved = j.moved + 1 /\ job.sent = Append(j.sent, b)
  BY <1>1, <1>2, <1>4, <1>5, <1>6 DEF JobSet
<1>8. ASSUME NEW i \in 1 .. j.moved + 1 PROVE Append(j.sent, b)[i] = j.base[j.offset + i]
  <2>1. CASE i <= j.moved
    BY <1>2, <1>3, <1>5, <2>1 DEF DownloadOK
  <2>2. CASE ~ (i <= j.moved)
    <3>1. i = j.moved + 1 /\ j.offset + i = j.offset + j.moved + 1
      BY <1>3a, <2>2
    <3> QED
      BY <1>5, <2>2, <3>1 DEF b
  <2> QED
    BY <2>1, <2>2
<1>9. JobOK(s, job)'
  <2>1. DownloadOK(job)'
    BY <1>1, <1>2, <1>3, <1>4, <1>5, <1>7, <1>8 DEF DownloadOK
  <2> QED
    BY <1>1, <1>7, <2>1 DEF JobOK, Uploads
<1>10. thread' = [thread EXCEPT ![s] = job] /\ job.step \in ThreadSteps \ {"idle", "start"}
      /\ thread[s].step # "idle"
  BY <1>1, <1>3, <1>6, <1>7 DEF ThreadSteps, b
<1>11. disk' \in [Paths -> Contents \cup {NoFile}] /\ WritesAs(T(s))
  BY <1>1, NothingWritten
<1> QED
  BY <1>1, <1>7, <1>9, <1>10, <1>11, ThreadChanges

LEMMA ReceiveChunkOK ==
    ASSUME IInv, NEW s \in Sessions, ReceiveChunk(s)
    PROVE  IInv'
<1> DEFINE p == thread[s].path
<1>1. PICK j : j = thread[s]
  OBVIOUS
<1>2. /\ j.step = "move" /\ j.op # "RETR" /\ UNCHANGED <<lockVars, handler, rename_from>>
      /\ j.offset + j.moved < MaxSize /\ WriteChunk(j.path, j.offset + j.moved, s)
      /\ thread' = [thread EXCEPT ![s] = [j EXCEPT !.moved = @ + 1]]
  BY <1>1 DEF ReceiveChunk, ThreadStep, Reads
<1>3. /\ j \in JobSet /\ j.path \in Paths /\ j.op \in Uploads /\ UploadOK(s, j)
      /\ T(s) \in exclusive[j.path] /\ Types
  BY <1>1, <1>2, ThreadsFile DEF AdmittedSteps, IInv
<1>4. PICK job : job = [j EXCEPT !.moved = @ + 1]
  OBVIOUS
<1>5. /\ disk' \in [Paths -> Contents \cup {NoFile}]
      /\ \A q \in Paths : q # j.path => disk'[q] = disk[q]
      /\ job \in JobSet /\ UploadOK(s, job)'
  BY <1>2, <1>3, <1>4, BufferReceived
<1>6. job.step = "move" /\ job.op = j.op /\ job.path = j.path
  BY <1>2, <1>3, <1>4 DEF JobSet
<1>7. JobOK(s, job)'
  BY <1>3, <1>5, <1>6 DEF JobOK, Uploads
<1>8. WritesAs(T(s))
  BY <1>3, <1>5 DEF WritesAs
<1>9. thread' = [thread EXCEPT ![s] = job] /\ job.step \in ThreadSteps \ {"idle", "start"}
      /\ thread[s].step # "idle" /\ job.op = thread[s].op /\ job.path = thread[s].path
  BY <1>1, <1>2, <1>4, <1>6 DEF ThreadSteps
<1> QED
  BY <1>2, <1>5, <1>7, <1>8, <1>9, ThreadChanges

LEMMA CompleteOK ==
    ASSUME IInv, NEW s \in Sessions, Complete(s)
    PROVE  IInv'
<1>1. PICK j : j = thread[s]
  OBVIOUS
<1>2. /\ j.step = "move" /\ UNCHANGED <<disk, lockVars, handler, rename_from>>
      /\ j.op = "RETR" => j.offset + j.moved = j.size
      /\ thread' = [thread EXCEPT ![s] = [j EXCEPT !.step = "complete"]]
  BY <1>1 DEF Complete, ThreadStep, Reads
<1>3. /\ j \in JobSet /\ j.op = "RETR" => DownloadOK(j)
      /\ j.op \in Uploads => UploadOK(s, j)
  BY <1>1, <1>2, ThreadsFile DEF AdmittedSteps
<1>4. PICK job : job = [j EXCEPT !.step = "complete"]
  OBVIOUS
<1>5. /\ job \in JobSet /\ job.step = "complete" /\ job.op = j.op /\ job.path = j.path
      /\ job.offset = j.offset /\ job.base = j.base /\ job.size = j.size
      /\ job.moved = j.moved /\ job.sent = j.sent
  BY <1>1, <1>2, <1>4, ThreadsFile DEF JobSet, Steps, ThreadSteps
<1>6. JobOK(s, job)'
  <2>1. job.op = "RETR" => DownloadOK(job)'
    BY <1>1, <1>2, <1>5, ThreadsFile DEF DownloadOK, AdmittedSteps
  <2>2. job.op \in Uploads => UploadOK(s, job)'
    <3>1. Expected(s, job) = Expected(s, j)
      BY <1>5 DEF Expected
    <3> QED
      BY <1>1, <1>2, <1>5, <3>1, ThreadsFile DEF UploadOK, AdmittedSteps
  <2> QED
    BY <2>1, <2>2 DEF JobOK
<1>7. thread' = [thread EXCEPT ![s] = job] /\ job.step \in ThreadSteps \ {"idle", "start"}
      /\ thread[s].step # "idle" /\ job.op = thread[s].op /\ job.path = thread[s].path
  BY <1>1, <1>2, <1>4, <1>5 DEF ThreadSteps
<1>8. disk' \in [Paths -> Contents \cup {NoFile}] /\ WritesAs(T(s))
  BY <1>2, NothingWritten
<1> QED
  BY <1>2, <1>5, <1>6, <1>7, <1>8, ThreadChanges

LEMMA BreakOK ==
    ASSUME IInv, NEW s \in Sessions, Break(s)
    PROVE  IInv'
<1>1. /\ thread[s].step \in {"start", "move"} /\ UNCHANGED <<disk, lockVars, handler, rename_from>>
      /\ thread' = [thread EXCEPT ![s] = [Job(thread[s].op, thread[s].path, "none", 0)
                                           EXCEPT !.step = "broken"]]
  BY DEF Break, ThreadStep
<1>2. thread[s].op \in Ops /\ thread[s].path \in PathOrNone /\ "broken" \in Steps
  BY <1>1, ThreadsFile DEF JobSet, Steps, ThreadSteps
<1>3. PICK job \in JobSet :
          /\ job = [Job(thread[s].op, thread[s].path, "none", 0) EXCEPT !.step = "broken"]
          /\ job.step = "broken" /\ job.op = thread[s].op /\ job.path = thread[s].path
  BY <1>2, AtStep
<1>4. JobOK(s, job)'
  BY <1>3 DEF JobOK, AdmittedSteps
<1>5. thread' = [thread EXCEPT ![s] = job]
  BY <1>1, <1>3
<1>6. job.step \in ThreadSteps \ {"idle", "start"} /\ thread[s].step # "idle"
  BY <1>1, <1>3 DEF ThreadSteps
<1>7. disk' \in [Paths -> Contents \cup {NoFile}] /\ WritesAs(T(s))
  BY <1>1, NothingWritten
<1> QED
  BY <1>1, <1>3, <1>4, <1>5, <1>6, <1>7, ThreadChanges

-----------------------------------------------------------------------------
(* The theorems                                                            *)

\* Every step of every session keeps the inductive invariant.
LEMMA NextOK == IInv /\ [Next]_vars => IInv'
<1> SUFFICES ASSUME IInv, [Next]_vars PROVE IInv'
  OBVIOUS
<1>1. CASE UNCHANGED vars
  <2>1. rename_from' \in [Sessions -> PathOrNone]
    BY <1>1 DEF vars, IInv, Types
  <2> QED
    BY <1>1, <2>1, RenameFromOK DEF vars, lockVars
<1>2. ASSUME NEW s \in Sessions, Command(s) PROVE IInv'
  BY <1>2, CommandOK
<1>3. ASSUME NEW s \in Sessions, Handler(s) PROVE IInv'
  BY <1>3, TryLockOK, BusyOK, EndsOK, UnlockOK, StartTransferOK, AdmissionOK DEF Handler
<1>4. ASSUME NEW s \in Sessions, Thread(s) PROVE IInv'
  BY <1>4, StartSendingOK, SendChunkOK, ReceiveChunkOK, CompleteOK, BreakOK, ThreadUnlockOK
     DEF Thread
<1>5. ASSUME NEW s \in Sessions, Uncontended(s) /\ Rename(s) PROVE IInv'
  BY <1>5, EndsOK
<1> QED
  BY <1>1, <1>2, <1>3, <1>4, <1>5 DEF Next

\* The inductive invariant: from its lock to its release every command holds
\* its file, writers are alone, and an admitted transfer finds its file as it
\* left it.
THEOREM Invariance == Spec => []IInv
<1>1. Init => IInv
  BY InitOK
<1>2. IInv /\ [Next]_vars => IInv'
  BY NextOK
<1> QED
  BY <1>1, <1>2, PTL DEF Spec

\* Files have no holes and do not outgrow the bound; locks and commands are of
\* their types (the structs of filelock.c and session.h).
THEOREM TypeCorrect == Spec => []TypeOK
<1>1. IInv => TypeOK
  BY DEF IInv, Types, Stages, TypeOK, JobSet, Ops, PathOrNone, HandlerSteps, ThreadSteps
<1> QED
  BY <1>1, Invariance, PTL

\* A transfer's file while it is under way, from its handler's admission to the
\* end of its thread.
LEMMA AdmittedOK ==
    ASSUME IInv, NEW s \in Sessions, NEW j \in Admitted(s)
    PROVE  JobOK(s, j) /\ j.step \in AdmittedSteps
  BY DEF IInv, Jobs, Admitted, AdmittedSteps

\* While a download is under way nobody changes its file, although
\* fs_read_file_chunk opens the path anew for every buffer.
THEOREM DownloadsStable == Spec => []StableDownload
<1>1. IInv => StableDownload
  BY AdmittedOK DEF StableDownload, JobOK, DownloadOK
<1> QED
  BY <1>1, Invariance, PTL

\* A download answered with 226 has sent its file from the restart offset to
\* the end (transfer_send_thread).
THEOREM DownloadsExact == Spec => []DownloadExact
<1>1. IInv => DownloadExact
  <2> SUFFICES ASSUME IInv, NEW s \in Sessions, NEW j, j = thread[s],
                      j.step = "complete", j.op = "RETR"
               PROVE  j.sent = SubSeq(j.base, j.offset + 1, Len(j.base))
    BY DEF DownloadExact
  <2>1. j \in JobSet /\ DownloadOK(j)
    BY ThreadsFile DEF AdmittedSteps
  <2>2. /\ j.base \in Seq(Buffers) /\ j.sent \in Seq(Buffers) /\ Len(j.base) \in Nat
        /\ j.offset \in Nat /\ j.moved \in Nat /\ j.offset + j.moved = Len(j.base)
        /\ Len(j.sent) = j.moved
        /\ \A i \in 1 .. j.moved : j.sent[i] = j.base[j.offset + i]
    BY <2>1, InContents, BoundsAreNat DEF DownloadOK, JobSet
  <2> DEFINE rest == SubSeq(j.base, j.offset + 1, Len(j.base))
  <2>3. \A i \in (j.offset + 1) .. Len(j.base) : j.base[i] \in Buffers
    BY <2>2, ElementOfSeq
  <2>4. /\ rest \in Seq(Buffers)
        /\ Len(rest) = IF j.offset + 1 <= Len(j.base) THEN Len(j.base) - (j.offset + 1) + 1 ELSE 0
        /\ \A i \in 1 .. Len(j.base) - (j.offset + 1) + 1 : rest[i] = j.base[j.offset + 1 + i - 1]
    <3>1. PICK base, m, n : base = j.base /\ m = j.offset + 1 /\ n = Len(j.base)
      OBVIOUS
    <3>2. m \in Int /\ n \in Int /\ \A i \in m .. n : base[i] \in Buffers
      BY <2>2, <2>3, <3>1
    <3>3. /\ SubSeq(base, m, n) \in Seq(Buffers)
          /\ Len(SubSeq(base, m, n)) = IF m <= n THEN n - m + 1 ELSE 0
          /\ \A i \in 1 .. n - m + 1 : SubSeq(base, m, n)[i] = base[m + i - 1]
      BY <3>2, SubSeqProperties
    <3> QED
      BY <3>1, <3>3
  <2> HIDE DEF rest
  <2>5. Len(rest) = j.moved
    BY <2>2, <2>4
  <2>6. ASSUME NEW i \in 1 .. j.moved PROVE j.sent[i] = rest[i]
    <3>1. i \in 1 .. Len(j.base) - (j.offset + 1) + 1 /\ j.offset + 1 + i - 1 = j.offset + i
      BY <2>2
    <3> QED
      BY <2>2, <2>4, <3>1
  <2>7. j.sent = rest
    <3>1. PICK sent : sent = j.sent
      OBVIOUS
    <3>2. /\ sent \in Seq(Buffers) /\ rest \in Seq(Buffers) /\ Len(sent) = Len(rest)
          /\ \A i \in 1 .. Len(sent) : sent[i] = rest[i]
      BY <2>2, <2>4, <2>5, <2>6, <3>1
    <3> QED
      BY <3>1, <3>2, SeqEqual
  <2> QED
    BY <2>7 DEF rest
<1> QED
  BY <1>1, Invariance, PTL

\* An upload's file holds what it found, with what was received put over or
\* after it, and nothing of anybody else's (transfer_receive_thread).
THEOREM UploadsExact == Spec => []UploadExact
<1>1. IInv => UploadExact
  BY AdmittedOK DEF UploadExact, JobOK, UploadOK, Uploads
<1> QED
  BY <1>1, Invariance, PTL
=============================================================================
