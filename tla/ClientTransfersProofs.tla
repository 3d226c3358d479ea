------------------------ MODULE ClientTransfersProofs ------------------------
(***************************************************************************)
(* Theorems about Spec of ClientTransfers, for any number and size of      *)
(* transfers and any limit on the workers, with aborts, pauses and lost    *)
(* connections.                                                            *)
(*                                                                         *)
(* The slots of the TransferManager are exact: a worker is started once,   *)
(* before it has a slot, which holds because a job whose command was not   *)
(* answered has no worker; every later step of a worker moves it between   *)
(* places with and without a slot as the counter says.  Everything else    *)
(* leaves workers and counter alone.                                       *)
(*                                                                         *)
(* While the client is calm, one job at a time has the connections, and    *)
(* what is under way on them, at the server and in the data connection is  *)
(* known for each stage of its progress (InOrder): that replies reach      *)
(* their readers, that success means the whole file, and that no reply is  *)
(* waited for in vain, is read off it.                                     *)
(***************************************************************************)
EXTENDS ClientTransfers, FiniteSetTheorems, SequenceTheorems, TLAPS

Places == {"none", "pending", "slot", "begin", "loop", "paused", "io", "close", "reply",
           "release", "done"}
NoSlot == {"none", "pending", "slot", "done"}
Holders == {j \in Jobs : HasSlot(j)}

\* Slots: the inductive invariant.
IInv ==
    /\ wpc \in [Jobs -> Places] /\ jpc \in [Jobs -> Commands]
    /\ \A j \in Jobs : wpc[j] # "none" => jpc[j] = "started"
    /\ SlotsExact

-----------------------------------------------------------------------------
\* The jobs that hold a slot can be counted.
LEMMA HoldersFinite ==
    /\ IsFiniteSet(Holders) /\ Cardinality(Holders) \in Nat
    /\ IsFiniteSet(Holders') /\ Cardinality(Holders') \in Nat
<1>1. IsFiniteSet(Jobs)
  BY MaxJobsIsNat, FS_Interval DEF Jobs
<1>2. Holders \in SUBSET Jobs /\ Holders' \in SUBSET Jobs
  BY DEF Holders
<1> QED
  BY <1>1, <1>2, FS_Subset, FS_CardinalityType

\* A step that leaves jobs, workers and the counter alone.
LEMMA Elsewhere ==
    ASSUME IInv, UNCHANGED <<jpc, wpc, active_count>>
    PROVE  IInv'
  BY DEF IInv, SlotsExact, HasSlot

\* A command of a job without a worker.
LEMMA CommandMoves ==
    ASSUME IInv, NEW j \in Jobs, jpc[j] # "started", NEW place \in Commands,
           jpc' = [jpc EXCEPT ![j] = place], UNCHANGED <<wpc, active_count>>
    PROVE  IInv'
  BY DEF IInv, SlotsExact, HasSlot

\* A worker moves, and the counter with it.
LEMMA WorkerMoves ==
    ASSUME IInv, NEW j \in Jobs, NEW to \in Places,
           wpc' = [wpc EXCEPT ![j] = to],
           \/ jpc' = jpc /\ jpc[j] = "started"
           \/ jpc' = [jpc EXCEPT ![j] = "started"],
           active_count' = active_count - (IF wpc[j] \in NoSlot THEN 0 ELSE 1)
                                        + (IF to \in NoSlot THEN 0 ELSE 1)
    PROVE  IInv'
<1>1. /\ wpc' \in [Jobs -> Places] /\ jpc' \in [Jobs -> Commands]
      /\ \A i \in Jobs : wpc'[i] # "none" => jpc'[i] = "started"
  BY DEF IInv, Commands
<1>2. wpc'[j] = to /\ \A i \in Jobs \ {j} : wpc'[i] = wpc[i]
  BY DEF IInv
<1>3. /\ j \in Holders <=> wpc[j] \notin NoSlot
      /\ j \in Holders' <=> to \notin NoSlot
      /\ Holders \ {j} = Holders' \ {j}
  BY <1>2 DEF Holders, HasSlot, NoSlot
<1>4. Cardinality(Holders') = Cardinality(Holders) - (IF j \in Holders THEN 1 ELSE 0)
                                                   + (IF j \in Holders' THEN 1 ELSE 0)
  <2>1. Cardinality(Holders \ {j})
           = IF j \in Holders THEN Cardinality(Holders) - 1 ELSE Cardinality(Holders)
    BY HoldersFinite, FS_RemoveElement
  <2>2. Cardinality(Holders' \ {j})
           = IF j \in Holders' THEN Cardinality(Holders') - 1 ELSE Cardinality(Holders')
    BY HoldersFinite, FS_RemoveElement
  <2>3. Cardinality(Holders \ {j}) = Cardinality(Holders' \ {j})
    BY <1>3
  <2> QED
    BY <2>1, <2>2, <2>3, HoldersFinite
<1>5. active_count = Cardinality(Holders)
  BY DEF IInv, SlotsExact, Holders
<1>6. active_count' = Cardinality(Holders')
  BY <1>3, <1>4, <1>5, HoldersFinite
<1> QED
  BY <1>1, <1>6 DEF IInv, SlotsExact, Holders

-----------------------------------------------------------------------------
\* Initially there is no worker.
LEMMA InitOK == Init => IInv
<1> SUFFICES ASSUME Init PROVE IInv
  OBVIOUS
<1>1. Holders = {}
  BY DEF Init, Holders, HasSlot
<1>2. active_count = Cardinality(Holders)
  BY <1>1, FS_EmptySet DEF Init
<1> QED
  BY <1>2 DEF Init, IInv, SlotsExact, Holders, Places, Commands

\* The server, aborts and the user's other commands touch neither.
LEMMA ServerOK == ASSUME IInv, ServerStep \/ ServerBreaks PROVE IInv'
<1>1. UNCHANGED <<jpc, wpc, active_count>>
  BY Zenon DEF ServerStep, ServerBreaks, HandlePasv, HandleTransfer, Accept, AcceptFails,
               HandleAbor,
         HandleOther, ServerMoves, ServerFinishes, Finishes, userVars
<1> QED
  BY <1>1, Elsewhere

LEMMA AbortOK ==
    ASSUME IInv, OtherCommand \/ AbortStep \/ (\E ui \in {"cli", "gui"} : Abort(ui)) PROVE IInv'
<1>1. UNCHANGED <<jpc, wpc, active_count>>
  BY Zenon DEF OtherCommand, AbortStep, AbortReply, AbortFails, AbortStop, AbortClose, Abort
<1> QED
  BY <1>1, Elsewhere

LEMMA ToggleOK ==
    ASSUME IInv, NEW j \in Jobs,
           Cancel(j) \/ Toggle(j) \/ (\E how \in {"pause", "resume"} : ToggleSet(j, how))
    PROVE  IInv'
<1>1. UNCHANGED <<jpc, wpc, active_count>>
  BY Zenon DEF Cancel, Toggle, ToggleSet, userVars
<1> QED
  BY <1>1, Elsewhere

\* PASV, RETR, STOR and what is made of their replies.
LEMMA UserOK ==
    ASSUME IInv, NEW j \in Jobs,
           (\E k \in {"RETR", "STOR"} : Pasv(j, k)) \/ UserStep(j)
    PROVE  IInv'
<1>1. CASE \E k \in {"RETR", "STOR"} : Pasv(j, k)
  BY <1>1, CommandMoves DEF Pasv, Commands
<1>2. CASE PasvReply(j)
  <2>1. \E place \in {"passive", "failed"} : jpc' = [jpc EXCEPT ![j] = place]
    BY <1>2 DEF PasvReply
  <2> QED
    BY <1>2, <2>1, CommandMoves DEF PasvReply, Commands
<1>3. CASE RetrOrStor(j)
  BY <1>3, CommandMoves DEF RetrOrStor, Commands
<1>4. CASE CommandFails(j)
  BY <1>4, CommandMoves DEF CommandFails, Commands
<1>5. CASE RetrReply(j)
  <2>1. jpc[j] = "retr" /\ active_count' = active_count
    BY <1>5 DEF RetrReply
  <2>2. wpc[j] = "none"
    BY <2>1 DEF IInv
  <2>3. CASE StartWorker(j)
    <3>1. active_count' = active_count - (IF wpc[j] \in NoSlot THEN 0 ELSE 1)
                                       + (IF "pending" \in NoSlot THEN 0 ELSE 1)
      BY <2>1, <2>2, HoldersFinite DEF IInv, SlotsExact, NoSlot, Holders
    <3> QED
      BY <2>3, <3>1, WorkerMoves DEF StartWorker, Places
  <2>4. CASE jpc' = [jpc EXCEPT ![j] = "failed"] /\ UNCHANGED wpc
    BY <2>1, <2>4, CommandMoves DEF Commands
  <2> QED
    BY <1>5, <2>3, <2>4 DEF RetrReply
<1> QED
  BY <1>1, <1>2, <1>3, <1>4, <1>5 DEF UserStep

\* A worker that keeps its slot, or keeps having none.
LEMMA WorkerStays ==
    ASSUME IInv, NEW j \in Jobs, NEW to \in Places \ {"none"}, wpc[j] # "none",
           wpc' = [wpc EXCEPT ![j] = to], UNCHANGED <<jpc, active_count>>,
           wpc[j] \in NoSlot <=> to \in NoSlot
    PROVE  IInv'
<1>1. active_count \in Nat
  BY HoldersFinite DEF IInv, SlotsExact, Holders
<1>2. active_count' = active_count - (IF wpc[j] \in NoSlot THEN 0 ELSE 1)
                                   + (IF to \in NoSlot THEN 0 ELSE 1)
  BY <1>1
<1> QED
  BY <1>2, WorkerMoves DEF IInv

\* The worker, from its start to the return of its slot.
LEMMA WorkerOK == ASSUME IInv, NEW j \in Jobs, Worker(j) \/ LocalError(j) PROVE IInv'
<1> USE DEF NoSlot, Places, userVars, Work
<1>0. active_count \in Nat
  BY HoldersFinite DEF IInv, SlotsExact, Holders
<1>1. CASE WaitForSlot(j)
  BY <1>1, WorkerStays DEF WaitForSlot
<1>2. CASE AcquireSlot(j)
  <2>1. /\ wpc[j] = "slot" /\ wpc' = [wpc EXCEPT ![j] = "begin"]
        /\ active_count' = active_count + 1 /\ jpc' = jpc
    BY <1>2 DEF AcquireSlot
  <2>2. jpc[j] = "started"
    BY <2>1 DEF IInv
  <2>3. active_count' = active_count - (IF wpc[j] \in NoSlot THEN 0 ELSE 1)
                                     + (IF "begin" \in NoSlot THEN 0 ELSE 1)
    BY <1>0, <2>1
  <2> QED
    BY <2>1, <2>2, <2>3, WorkerMoves
<1>3. CASE Begin(j)
  BY <1>3, WorkerStays DEF Begin, Raise
<1>4. CASE LoopHead(j)
  BY <1>4, WorkerStays DEF LoopHead
<1>5. CASE Unpaused(j)
  BY <1>5, WorkerStays DEF Unpaused
<1>6. CASE Receive(j)
  BY <1>6, WorkerStays DEF Receive
<1>7. CASE SendChunk(j)
  BY <1>7, WorkerStays DEF SendChunk, Raise
<1>8. CASE CloseData(j)
  BY <1>8, WorkerStays DEF CloseData
<1>9. CASE WorkerReply(j)
  BY <1>9, WorkerStays DEF WorkerReply
<1>10. CASE WorkerReplyFails(j)
  BY <1>10, WorkerStays DEF WorkerReplyFails, Raise
<1>11. CASE ReleaseSlot(j)
  <2>1. /\ wpc[j] = "release" /\ wpc' = [wpc EXCEPT ![j] = "done"]
        /\ active_count' = active_count - 1 /\ jpc' = jpc
    BY <1>11 DEF ReleaseSlot
  <2>2. jpc[j] = "started"
    BY <2>1 DEF IInv
  <2>3. active_count' = active_count - (IF wpc[j] \in NoSlot THEN 0 ELSE 1)
                                     + (IF "done" \in NoSlot THEN 0 ELSE 1)
    BY <1>0, <2>1
  <2> QED
    BY <2>1, <2>2, <2>3, WorkerMoves
<1>12. CASE LocalError(j)
  BY <1>12, WorkerStays DEF LocalError, Raise
<1> QED
  BY <1>1, <1>2, <1>3, <1>4, <1>5, <1>6, <1>7, <1>8, <1>9, <1>10, <1>11, <1>12 DEF Worker

-----------------------------------------------------------------------------
\* The invariant holds in every state: no step of the client, its user or the
\* server breaks it.
THEOREM Invariance == Spec => []IInv
<1>1. IInv /\ [Next]_vars => IInv'
  <2> SUFFICES ASSUME IInv, [Next]_vars PROVE IInv'
    OBVIOUS
  <2>1. CASE ServerStep \/ ServerBreaks
    BY <2>1, ServerOK
  <2>2. CASE OtherCommand \/ AbortStep \/ (\E ui \in {"cli", "gui"} : Abort(ui))
    BY <2>2, AbortOK
  <2>3. ASSUME NEW j \in Jobs,
               \/ \E k \in {"RETR", "STOR"} : Pasv(j, k)
               \/ UserStep(j) \/ Worker(j) \/ LocalError(j)
               \/ Cancel(j) \/ Toggle(j) \/ \E how \in {"pause", "resume"} : ToggleSet(j, how)
        PROVE  IInv'
    BY <2>3, UserOK, WorkerOK, ToggleOK
  <2>4. CASE UNCHANGED vars
    BY <2>4, Elsewhere DEF vars, userVars
  <2> QED
    BY <2>1, <2>2, <2>3, <2>4 DEF Next
<1> QED
  BY InitOK, <1>1, PTL DEF Spec

\* Whatever a worker raises and however workers overtake each other, each slot
\* taken is returned exactly once (transfer.py:306-307, 400, 404-405, 493).
THEOREM SlotsReturnedOnce == Spec => []SlotsExact
<1>1. IInv => SlotsExact
  BY DEF IInv
<1> QED
  BY Invariance, <1>1, PTL

-----------------------------------------------------------------------------
(* Types                                                                   *)

JobOrNone == Jobs \cup {None}
Codes == {150, 225, 226, 227, 250, 425, 426, 450, 451}
Verbs == {"PASV", "TRANSFER", "ABOR", "OTHER"}
Replies  == [code : Codes, job : JobOrNone]
Requests == [op : Verbs, job : JobOrNone]
Kinds == {"RETR", "STOR"}
Sockets == {"none", "open", "lost", "closed"}
Statuses == {"pending", "running", "paused", "completed", "failed", "cancelled"}
Aborts == {"cli", "gui", "cli_second", "gui_second", "other", "none", "stop", "close", "over"}
Answers == {"nothing", "success", "failure"}

ControlTypes ==
    /\ requests \in Seq(Requests) /\ replies \in Seq(Replies)
    /\ is_connected \in BOOLEAN

\* A transfer thread has a connection.
ServerTypes ==
    /\ server \in [listener : JobOrNone, opening : JobOrNone]
    /\ busy \in JobOrNone /\ conn \in JobOrNone /\ (busy = None <=> conn = None)
    /\ fin \in SUBSET Jobs

DataTypes ==
    /\ connection \in JobOrNone /\ socket \in [Jobs -> Sockets]
    /\ pipe \in [Jobs -> Nat] /\ left \in [Jobs -> 0 .. Size] /\ got \in [Jobs -> Nat]

UserTypes ==
    /\ kind \in [Jobs -> Kinds] /\ apc \in Aborts
    /\ pausing \in SUBSET (Jobs \X {"pause", "resume"})
    /\ calm \in BOOLEAN

WorkerTypes ==
    /\ status \in [Jobs -> Statuses] /\ told \in [Jobs -> Answers]
    /\ cancel_event \in SUBSET Jobs /\ pause_event \in SUBSET Jobs
    /\ spoilt \in SUBSET Jobs

\* The types of TypeOK that the invariant above does not have.
Types == ControlTypes /\ ServerTypes /\ DataTypes /\ UserTypes /\ WorkerTypes

\* None is no job.
LEMMA NoneIsNoJob == None \notin Jobs /\ Jobs \in SUBSET JobOrNone /\ None \in JobOrNone
  BY DEF None, Jobs, JobOrNone

LEMMA Vocabulary ==
    /\ 150 \in Codes /\ 225 \in Codes /\ 226 \in Codes /\ 227 \in Codes /\ 250 \in Codes
    /\ 425 \in Codes /\ 426 \in Codes /\ 450 \in Codes /\ 451 \in Codes
    /\ "PASV" \in Verbs /\ "TRANSFER" \in Verbs /\ "ABOR" \in Verbs /\ "OTHER" \in Verbs
  BY DEF Codes, Verbs

LEMMA InitTypes == Init => Types
  BY SizeIsNat DEF Init, Types, ControlTypes, ServerTypes, DataTypes, UserTypes, WorkerTypes,
     JobOrNone, Kinds, Sockets, Statuses, Aborts, Answers, Idle

\* What a step leaves alone keeps its type.
LEMMA Untouched ==
    /\ ControlTypes /\ UNCHANGED controlVars => ControlTypes'
    /\ ServerTypes /\ UNCHANGED serverVars => ServerTypes'
    /\ DataTypes /\ UNCHANGED dataVars => DataTypes'
    /\ UserTypes /\ UNCHANGED <<userVars, calm>> => UserTypes'
    /\ WorkerTypes /\ UNCHANGED <<status, eventVars, told, spoilt>> => WorkerTypes'
<1>1. ControlTypes /\ UNCHANGED controlVars => ControlTypes'
  BY DEF ControlTypes, controlVars
<1>2. ServerTypes /\ UNCHANGED serverVars => ServerTypes'
  BY DEF ServerTypes, serverVars
<1>3. DataTypes /\ UNCHANGED dataVars => DataTypes'
  BY DEF DataTypes, dataVars
<1>4. UserTypes /\ UNCHANGED <<userVars, calm>> => UserTypes'
  BY DEF UserTypes, userVars
<1>5. WorkerTypes /\ UNCHANGED <<status, eventVars, told, spoilt>> => WorkerTypes'
  BY DEF WorkerTypes, eventVars
<1> QED
  BY <1>1, <1>2, <1>3, <1>4, <1>5

\* A reply and a request are sent, and taken.
LEMMA Saying ==
    ASSUME ControlTypes, NEW j \in JobOrNone, NEW code \in Codes, Says(j, code)
    PROVE  replies' \in Seq(Replies)
  BY DEF ControlTypes, Replies, Says, ReplyTo

LEMMA Sending ==
    ASSUME ControlTypes, NEW j \in JobOrNone, NEW op \in Verbs, Send(op, j)
    PROVE  requests' \in Seq(Requests)
  BY DEF ControlTypes, Requests, Send

LEMMA Reading ==
    ASSUME ControlTypes, Read
    PROVE  Head(replies).job \in JobOrNone /\ replies' \in Seq(Replies)
<1>1. Head(replies) \in Replies /\ replies' \in Seq(Replies)
  BY DEF ControlTypes, Read
<1> QED
  BY <1>1 DEF Replies

LEMMA Handling ==
    ASSUME ControlTypes, NEW op, Handles(op)
    PROVE  Head(requests).job \in JobOrNone /\ requests' \in Seq(Requests)
<1>1. Head(requests) \in Requests /\ requests' \in Seq(Requests)
  BY DEF ControlTypes, Handles
<1> QED
  BY <1>1 DEF Requests

LEMMA PasvTypes == ASSUME Types, HandlePasv PROVE Types'
<1> USE DEF Types
<1>1. Handles("PASV") /\ UNCHANGED <<is_connected, busy, conn, dataVars, userVars, status,
                                     eventVars, told, calm, spoilt>>
  BY DEF HandlePasv
<1>2. PICK j \in JobOrNone : j = Head(requests).job
  BY <1>1, Handling
<1>3. \/ Says(j, 227) /\ server' = [server EXCEPT !.listener = j] /\ fin' = fin \cup ({conn} \ {None})
      \/ Says(j, 425) /\ UNCHANGED <<server, fin>>
  BY <1>2 DEF HandlePasv
<1>4. requests' \in Seq(Requests) /\ replies' \in Seq(Replies)
  BY <1>1, <1>3, Handling, Saying, Vocabulary
<1>5. ControlTypes'
  BY <1>1, <1>4 DEF ControlTypes
<1>6. ServerTypes'
  BY <1>1, <1>3 DEF ServerTypes, JobOrNone
<1> QED
  BY <1>1, <1>5, <1>6, Untouched

LEMMA TransferTypes == ASSUME Types, HandleTransfer PROVE Types'
<1> USE DEF Types
<1>1. Handles("TRANSFER") /\ UNCHANGED <<is_connected, busy, conn, fin, dataVars, userVars,
                                         status, eventVars, told, calm, spoilt>>
  BY DEF HandleTransfer
<1>2. PICK j \in JobOrNone : j = Head(requests).job
  BY <1>1, Handling
<1>3. \/ Says(j, 150) /\ server' = [server EXCEPT !.opening = j]
      \/ Says(j, 450) /\ UNCHANGED server
  BY <1>2 DEF HandleTransfer
<1>4. requests' \in Seq(Requests) /\ replies' \in Seq(Replies)
  BY <1>1, <1>3, Handling, Saying, Vocabulary
<1>5. ControlTypes'
  BY <1>1, <1>4 DEF ControlTypes
<1>6. ServerTypes'
  BY <1>1, <1>3 DEF ServerTypes
<1> QED
  BY <1>1, <1>5, <1>6, Untouched

\* The server's other steps.
LEMMA ServerStepTypes == ASSUME Types, ServerStep \/ ServerBreaks PROVE Types'
<1> USE DEF Types
<1>0. /\ server.opening \in JobOrNone /\ server.listener \in JobOrNone
      /\ [server EXCEPT !.opening = None] \in [listener : JobOrNone, opening : JobOrNone]
      /\ [server EXCEPT !.listener = None] \in [listener : JobOrNone, opening : JobOrNone]
      /\ Idle \in [listener : JobOrNone, opening : JobOrNone]
  BY NoneIsNoJob DEF ServerTypes, Idle
<1>1. CASE HandlePasv
  BY <1>1, PasvTypes
<1>2. CASE HandleTransfer
  BY <1>2, TransferTypes
<1>3. CASE Accept
  <2>1. UNCHANGED <<requests, is_connected, dataVars, userVars, status, eventVars, told, calm,
                    spoilt>>
    BY <1>3 DEF Accept
  <2>2. replies' = replies \/ Says(server.opening, 451)
    BY <1>3 DEF Accept
  <2>3. ControlTypes'
    BY <1>0, <2>1, <2>2, Saying, Vocabulary DEF ControlTypes
  <2>4. ServerTypes'
    BY <1>0, <1>3, NoneIsNoJob DEF Accept, ClientConnects, ServerTypes, JobOrNone
  <2> QED
    BY <2>1, <2>3, <2>4, Untouched
<1>4. CASE AcceptFails
  <2>1. /\ UNCHANGED <<requests, is_connected, busy, conn, fin, dataVars, userVars, status,
                       eventVars, told, calm, spoilt>>
        /\ Says(server.opening, 425) /\ server' = [server EXCEPT !.opening = None]
    BY <1>4 DEF AcceptFails
  <2>2. ControlTypes'
    BY <1>0, <2>1, Saying, Vocabulary DEF ControlTypes
  <2>3. ServerTypes'
    BY <1>0, <2>1 DEF ServerTypes
  <2> QED
    BY <2>1, <2>2, <2>3, Untouched
<1>5. CASE HandleAbor
  <2>1. /\ UNCHANGED <<is_connected, busy, conn, dataVars, userVars, status, eventVars, told, calm,
                       spoilt>>
        /\ Handles("ABOR") /\ (Says(None, 426) \/ Says(None, 225))
        /\ server' = Idle /\ fin' = fin \cup ({conn} \ {None})
    BY <1>5 DEF HandleAbor
  <2>2. requests' \in Seq(Requests) /\ replies' \in Seq(Replies)
    BY <2>1, Handling, Saying, Vocabulary, NoneIsNoJob
  <2>3. ControlTypes'
    BY <2>1, <2>2 DEF ControlTypes
  <2>4. ServerTypes'
    BY <1>0, <2>1 DEF ServerTypes, JobOrNone
  <2> QED
    BY <2>1, <2>3, <2>4, Untouched
<1>6. CASE ServerMoves
  <2>1. UNCHANGED <<controlVars, serverVars, connection, socket, userVars, status, eventVars,
                    told, calm, spoilt>>
    BY <1>6 DEF ServerMoves
  <2>2. busy \in Jobs /\ conn \in Jobs
    BY <1>6 DEF ServerMoves, ServerTypes, JobOrNone
  <2>3. DataTypes'
    BY <1>6, <2>1, <2>2, SizeIsNat DEF ServerMoves, DataTypes
  <2> QED
    BY <2>1, <2>3, Untouched
<1>7. CASE ServerFinishes \/ ServerBreaks
  <2>1. PICK code \in {226, 426, 451} : busy # None /\ Finishes(code)
    BY <1>7 DEF ServerFinishes, ServerBreaks
  <2>2. /\ UNCHANGED <<requests, is_connected, dataVars, userVars, status, eventVars, told, calm,
                       spoilt>>
        /\ Says(busy, code) /\ fin' = fin \cup {conn} /\ busy' = None /\ conn' = None
        /\ server' = [server EXCEPT !.listener = None]
    BY <2>1 DEF Finishes
  <2>3. code \in Codes
    BY DEF Codes
  <2>4. ControlTypes'
    BY <2>2, <2>3, Saying DEF ControlTypes, ServerTypes
  <2>5. ServerTypes'
    BY <1>0, <2>1, <2>2 DEF ServerTypes, JobOrNone
  <2> QED
    BY <2>2, <2>4, <2>5, Untouched
<1>8. CASE HandleOther
  <2>1. /\ UNCHANGED <<is_connected, serverVars, dataVars, userVars, status, eventVars, told, calm,
                       spoilt>>
        /\ Handles("OTHER") /\ Says(None, 250)
    BY <1>8 DEF HandleOther
  <2>2. requests' \in Seq(Requests) /\ replies' \in Seq(Replies)
    BY <2>1, Handling, Saying, Vocabulary, NoneIsNoJob
  <2>3. ControlTypes'
    BY <2>1, <2>2 DEF ControlTypes
  <2> QED
    BY <2>1, <2>3, Untouched
<1> QED
  BY <1>1, <1>2, <1>3, <1>4, <1>5, <1>6, <1>7, <1>8 DEF ServerStep

\* Aborts.
LEMMA AbortTypes ==
    ASSUME Types, OtherCommand \/ AbortStep \/ (\E ui \in {"cli", "gui"} : Abort(ui)) PROVE Types'
<1> USE DEF Types
<1>1. CASE AbortStep
  <2>1. UNCHANGED <<requests, serverVars, connection, pipe, left, got, kind, pausing, pause_event,
                    told, calm, spoilt>>
    BY <1>1 DEF AbortStep, AbortReply, AbortFails, AbortStop, AbortClose, controlVars, dataVars,
       eventVars
  <2>2. ControlTypes'
    <3>1. is_connected' \in BOOLEAN /\ (replies' = replies \/ Read)
      BY <1>1 DEF AbortStep, AbortReply, AbortFails, AbortStop, AbortClose, controlVars, FindsLost,
         TimedOut, ControlTypes
    <3> QED
      BY <2>1, <3>1, Reading DEF ControlTypes
  <2>3. DataTypes'
    <3>1. socket' = socket \/ socket' = Closed
      BY <1>1 DEF AbortStep, AbortReply, AbortFails, AbortStop, AbortClose, dataVars
    <3> QED
      BY <2>1, <3>1 DEF DataTypes, Closed, Sockets
  <2>4. apc' \in Aborts
    BY <1>1 DEF AbortStep, AbortReply, AbortFails, AbortStop, AbortClose, Aborting, AfterAbort,
       Second, Aborts
  <2>5. cancel_event' \in SUBSET Jobs /\ status' \in [Jobs -> Statuses]
    BY <1>1 DEF AbortStep, AbortReply, AbortFails, AbortStop, AbortClose, CancelAll, WorkerTypes,
       Statuses, eventVars
  <2> QED
    BY <2>1, <2>2, <2>3, <2>4, <2>5, Untouched DEF UserTypes, WorkerTypes
<1>2. ASSUME NEW ui \in {"cli", "gui"}, Abort(ui) PROVE Types'
  <2>1. /\ UNCHANGED <<replies, is_connected, serverVars, dataVars, kind, pausing, pause_event,
                       told, spoilt>>
        /\ Send("ABOR", None) /\ apc' = ui /\ Disturb(TRUE)
        /\ \E js \in SUBSET Jobs : CancelAll(js)
    BY <1>2 DEF Abort
  <2>2. ControlTypes'
    BY <2>1, Sending, Vocabulary, NoneIsNoJob DEF ControlTypes
  <2>3. UserTypes'
    BY <2>1 DEF UserTypes, Disturb, Aborts
  <2>4. WorkerTypes'
    BY <2>1 DEF WorkerTypes, CancelAll, Statuses
  <2> QED
    BY <2>1, <2>2, <2>3, <2>4, Untouched
<1>3. CASE OtherCommand
  <2>1. /\ UNCHANGED <<replies, is_connected, serverVars, dataVars, kind, pausing, status,
                       eventVars,
                       told, spoilt>>
        /\ Send("OTHER", None) /\ apc' = "other" /\ Disturb(TRUE)
    BY <1>3 DEF OtherCommand
  <2>2. ControlTypes'
    BY <2>1, Sending, Vocabulary, NoneIsNoJob DEF ControlTypes
  <2>3. UserTypes'
    BY <2>1 DEF UserTypes, Disturb, Aborts
  <2> QED
    BY <2>1, <2>2, <2>3, Untouched
<1> QED
  BY <1>1, <1>2, <1>3

\* The user's commands.
LEMMA UserTypesKept ==
    ASSUME Types, NEW j \in Jobs, (\E k \in {"RETR", "STOR"} : Pasv(j, k)) \/ UserStep(j)
    PROVE  Types'
<1> USE DEF Types
<1>0. j \in JobOrNone
  BY NoneIsNoJob
<1>1. ASSUME NEW k \in {"RETR", "STOR"}, Pasv(j, k) PROVE Types'
  <2>1. /\ UNCHANGED <<replies, is_connected, serverVars, dataVars, apc, pausing, status,
                       eventVars, told, spoilt>>
        /\ Send("PASV", j) /\ kind' = [kind EXCEPT ![j] = k]
        /\ Disturb(\E i \in Jobs : ~ Over(i))
    BY <1>1 DEF Pasv
  <2>2. ControlTypes'
    BY <1>0, <2>1, Sending, Vocabulary DEF ControlTypes
  <2>3. UserTypes'
    BY <2>1 DEF UserTypes, Disturb, Kinds
  <2> QED
    BY <2>1, <2>2, <2>3, Untouched
<1>2. CASE PasvReply(j)
  <2>1. /\ UNCHANGED <<requests, is_connected, serverVars, socket, pipe, left, got, kind, apc,
                       pausing, status, eventVars, told, calm, spoilt>>
        /\ Read /\ connection' \in {Head(replies).job, connection}
    BY <1>2 DEF PasvReply
  <2>2. ControlTypes' /\ DataTypes'
    BY <2>1, Reading DEF ControlTypes, DataTypes
  <2> QED
    BY <2>1, <2>2, Untouched DEF UserTypes
<1>3. CASE RetrOrStor(j)
  <2>1. /\ UNCHANGED <<replies, is_connected, serverVars, dataVars, kind, apc, pausing, status,
                       eventVars, told, calm, spoilt>>
        /\ Send("TRANSFER", j)
    BY <1>3 DEF RetrOrStor
  <2>2. ControlTypes'
    BY <1>0, <2>1, Sending, Vocabulary DEF ControlTypes
  <2> QED
    BY <2>1, <2>2, Untouched DEF UserTypes
<1>4. CASE RetrReply(j)
  <2>1. /\ UNCHANGED <<requests, is_connected, serverVars, connection, pipe, left, got, kind, apc,
                       pausing, status, eventVars, told, calm, spoilt>>
        /\ Read /\ (socket' = socket \/ socket' = [socket EXCEPT ![connection] = "open"])
    BY <1>4 DEF RetrReply, StartWorker
  <2>2. ControlTypes' /\ DataTypes'
    BY <2>1, Reading DEF ControlTypes, DataTypes, Sockets
  <2> QED
    BY <2>1, <2>2, Untouched DEF UserTypes
<1>5. CASE CommandFails(j)
  <2>1. /\ UNCHANGED <<requests, replies, serverVars, dataVars, kind, apc, pausing, status,
                       eventVars, told, calm, spoilt>>
        /\ is_connected' \in BOOLEAN
    BY <1>5 DEF CommandFails, FindsLost, TimedOut, ControlTypes
  <2>2. ControlTypes'
    BY <2>1 DEF ControlTypes
  <2> QED
    BY <2>1, <2>2, Untouched DEF UserTypes
<1> QED
  BY <1>1, <1>2, <1>3, <1>4, <1>5 DEF UserStep

\* The user cancels and pauses.
LEMMA ToggleTypes ==
    ASSUME Types, NEW j \in Jobs,
           Cancel(j) \/ Toggle(j) \/ (\E how \in {"pause", "resume"} : ToggleSet(j, how))
    PROVE  Types'
<1> USE DEF Types
<1>1. CASE Cancel(j)
  <2>1. /\ UNCHANGED <<controlVars, serverVars, dataVars, userVars, pause_event, told, calm,
                       spoilt>>
        /\ CancelAll({j})
    BY <1>1 DEF Cancel
  <2>2. WorkerTypes'
    BY <2>1 DEF WorkerTypes, CancelAll, Statuses
  <2> QED
    BY <2>1, <2>2, Untouched
<1>2. CASE Toggle(j)
  <2>1. /\ UNCHANGED <<controlVars, serverVars, dataVars, kind, apc, status, eventVars, told, calm,
                       spoilt>>
        /\ \E how \in {"pause", "resume"} : pausing' = pausing \cup {<<j, how>>}
    BY <1>2 DEF Toggle
  <2> QED
    BY <2>1, Untouched DEF UserTypes
<1>3. ASSUME NEW how \in {"pause", "resume"}, ToggleSet(j, how) PROVE Types'
  <2>1. UNCHANGED <<controlVars, serverVars, dataVars, kind, apc, cancel_event, told, calm, spoilt>>
    BY <1>3 DEF ToggleSet
  <2>2. UserTypes'
    BY <1>3, <2>1 DEF ToggleSet, UserTypes
  <2>3. WorkerTypes'
    BY <1>3, <2>1 DEF ToggleSet, WorkerTypes, Statuses
  <2> QED
    BY <2>1, <2>2, <2>3, Untouched
<1> QED
  BY <1>1, <1>2, <1>3

\* A worker that is through: its status, and what the callback is told.
LEMMA Concluding ==
    ASSUME WorkerTypes, NEW j \in Jobs, NEW verdict \in Statuses, Conclude(j, verdict),
           UNCHANGED <<eventVars, spoilt>>
    PROVE  WorkerTypes'
  BY DEF WorkerTypes, Conclude, Answers, eventVars

\* The worker.
LEMMA WorkerTypesKept ==
    ASSUME Types, NEW j \in Jobs, Worker(j) \/ LocalError(j) PROVE Types'
<1> USE DEF Types
<1>0. "failed" \in Statuses /\ "completed" \in Statuses /\ "cancelled" \in Statuses
  BY DEF Statuses
<1>1. CASE \/ WaitForSlot(j) \/ AcquireSlot(j) \/ LoopHead(j) \/ Unpaused(j) \/ ReleaseSlot(j)
  <2>1. UNCHANGED <<controlVars, serverVars, dataVars, userVars, status, eventVars, told, calm,
                    spoilt>>
    BY <1>1 DEF WaitForSlot, AcquireSlot, LoopHead, Unpaused, ReleaseSlot
  <2> QED
    BY <2>1, Untouched
<1>2. CASE Begin(j)
  <2>1. /\ UNCHANGED <<controlVars, serverVars, connection, pipe, left, got, userVars, eventVars,
                       spoilt>>
        /\ socket' = socket \/ socket' = [socket EXCEPT ![connection] = "open"]
        /\ calm' = calm \/ Disturb(TRUE)
        /\ \/ told' = told /\ status' = [status EXCEPT ![j] = "running"]
           \/ Conclude(j, "failed")
    BY <1>2 DEF Begin, Raise
  <2>2. DataTypes'
    BY <2>1 DEF DataTypes, Sockets
  <2>3. UserTypes'
    BY <2>1 DEF UserTypes, userVars, Disturb
  <2>4. WorkerTypes'
    <3>1. CASE told' = told /\ status' = [status EXCEPT ![j] = "running"]
      BY <2>1, <3>1 DEF WorkerTypes, Statuses, eventVars
    <3> QED
      BY <1>0, <2>1, <3>1, Concluding
  <2> QED
    BY <2>1, <2>2, <2>3, <2>4, Untouched
<1>3. CASE Receive(j)
  <2>1. /\ UNCHANGED <<controlVars, serverVars, connection, left, userVars, status, eventVars, told,
                       calm>>
        /\ spoilt' = spoilt \/ spoilt' = spoilt \cup {j}
    BY <1>3 DEF Receive
  <2>2. DataTypes'
    <3>1. pipe' = pipe \/ (connection \in Jobs /\ pipe[connection] > 0
                           /\ pipe' = [pipe EXCEPT ![connection] = @ - 1])
      BY <1>3 DEF Receive, Connected, DataTypes, JobOrNone
    <3>2. got' = got \/ got' = [got EXCEPT ![j] = @ + 1]
      BY <1>3 DEF Receive
    <3>3. socket' = socket \/ socket' = [socket EXCEPT ![connection] = "lost"]
      BY <1>3 DEF Receive
    <3>4. pipe' \in [Jobs -> Nat] /\ got' \in [Jobs -> Nat]
      BY <3>1, <3>2 DEF DataTypes
    <3>5. socket' \in [Jobs -> Sockets]
      BY <3>3 DEF DataTypes, Sockets
    <3> QED
      BY <2>1, <3>4, <3>5 DEF DataTypes
  <2>3. WorkerTypes'
    BY <2>1 DEF WorkerTypes, eventVars
  <2> QED
    BY <2>1, <2>2, <2>3, Untouched
<1>4. CASE SendChunk(j)
  <2>1. /\ UNCHANGED <<controlVars, serverVars, connection, got, userVars, eventVars, spoilt>>
        /\ \/ UNCHANGED <<status, told, calm, spoilt>>
           \/ Conclude(j, "failed") /\ Disturb(TRUE)
    BY <1>4 DEF SendChunk, Raise
  <2>2. DataTypes'
    <3>1. left[j] > 0 => left[j] - 1 \in 0 .. Size
      BY SizeIsNat DEF DataTypes
    <3>2. left' \in [Jobs -> 0 .. Size]
      BY <1>4, <3>1 DEF SendChunk, DataTypes
    <3>3. \/ pipe' = pipe
          \/ connection \in Jobs /\ pipe' = [pipe EXCEPT ![connection] = @ + 1]
      BY <1>4 DEF SendChunk, Connected, DataTypes, JobOrNone
    <3>4. pipe' \in [Jobs -> Nat]
      BY <3>3 DEF DataTypes
    <3>5. socket' = socket \/ socket' = [socket EXCEPT ![connection] = "lost"]
      BY <1>4 DEF SendChunk
    <3>6. socket' \in [Jobs -> Sockets]
      BY <3>5 DEF DataTypes, Sockets
    <3> QED
      BY <2>1, <3>2, <3>4, <3>6 DEF DataTypes
  <2>3. UserTypes'
    BY <2>1 DEF UserTypes, userVars, Disturb
  <2>4. WorkerTypes'
    BY <1>0, <2>1, Concluding, Untouched
  <2> QED
    BY <2>1, <2>2, <2>3, <2>4, Untouched
<1>5. CASE CloseData(j)
  <2>1. /\ UNCHANGED <<controlVars, serverVars, connection, pipe, left, got, userVars, status,
                       eventVars, told, calm, spoilt>>
        /\ socket' = Closed
    BY <1>5 DEF CloseData
  <2>2. DataTypes'
    BY <2>1 DEF DataTypes, Closed, Sockets
  <2> QED
    BY <2>1, <2>2, Untouched
<1>6. CASE WorkerReply(j)
  <2>1. /\ UNCHANGED <<requests, is_connected, serverVars, dataVars, userVars, eventVars, calm,
                       spoilt>>
        /\ Read /\ Conclude(j, Verdict(j, Head(replies)))
    BY <1>6 DEF WorkerReply
  <2>2. ControlTypes'
    BY <2>1, Reading DEF ControlTypes
  <2>3. WorkerTypes'
    <3>1. Verdict(j, Head(replies)) \in Statuses
      BY <1>0 DEF Verdict
    <3> QED
      BY <2>1, <3>1, Concluding
  <2> QED
    BY <2>1, <2>2, <2>3, Untouched
<1>7. CASE WorkerReplyFails(j)
  <2>1. /\ UNCHANGED <<requests, replies, serverVars, dataVars, userVars, eventVars, calm, spoilt>>
        /\ FindsLost /\ Conclude(j, "failed")
    BY <1>7 DEF WorkerReplyFails, Raise
  <2>2. ControlTypes'
    BY <2>1 DEF ControlTypes, FindsLost, TimedOut
  <2>3. WorkerTypes'
    BY <1>0, <2>1, Concluding
  <2> QED
    BY <2>1, <2>2, <2>3, Untouched
<1>8. CASE LocalError(j)
  <2>1. /\ UNCHANGED <<controlVars, serverVars, dataVars, userVars, eventVars, spoilt>>
        /\ Conclude(j, "failed") /\ Disturb(TRUE)
    BY <1>8 DEF LocalError, Raise
  <2>2. UserTypes'
    BY <2>1 DEF UserTypes, userVars, Disturb
  <2>3. WorkerTypes'
    BY <1>0, <2>1, Concluding
  <2> QED
    BY <2>1, <2>2, <2>3, Untouched
<1> QED
  BY <1>1, <1>2, <1>3, <1>4, <1>5, <1>6, <1>7, <1>8 DEF Worker

\* Each step keeps the types.
LEMMA NextTypes == Types /\ [Next]_vars => Types'
<1> SUFFICES ASSUME Types, [Next]_vars PROVE Types'
  OBVIOUS
<1>1. CASE ServerStep \/ ServerBreaks
  BY <1>1, ServerStepTypes
<1>2. CASE OtherCommand \/ AbortStep \/ (\E ui \in {"cli", "gui"} : Abort(ui))
  BY <1>2, AbortTypes
<1>3. ASSUME NEW j \in Jobs,
             \/ \E k \in {"RETR", "STOR"} : Pasv(j, k)
             \/ UserStep(j) \/ Worker(j) \/ LocalError(j)
             \/ Cancel(j) \/ Toggle(j) \/ \E how \in {"pause", "resume"} : ToggleSet(j, how)
      PROVE  Types'
  BY <1>3, UserTypesKept, WorkerTypesKept, ToggleTypes
<1>4. CASE UNCHANGED vars
  <2>1. UNCHANGED <<controlVars, serverVars, dataVars, userVars, calm, status, eventVars, told,
                    spoilt>>
    BY <1>4 DEF vars
  <2> QED
    BY <2>1, Untouched DEF Types
<1> QED
  BY <1>1, <1>2, <1>3, <1>4 DEF Next

\* The client's and the server's state have their types, whatever is aborted,
\* cancelled or lost.
THEOREM TypeCorrect == Spec => []TypeOK
<1>1. IInv /\ Types => TypeOK
  <2> SUFFICES ASSUME IInv, Types PROVE TypeOK
    OBVIOUS
  <2> USE DEF Types
  <2>1. /\ \A i \in DOMAIN requests : requests[i] \in Requests
        /\ \A i \in DOMAIN replies : replies[i] \in Replies
    BY DEF ControlTypes
  <2>2. /\ \A i \in DOMAIN requests :
              requests[i] \in [op : {"PASV", "TRANSFER", "ABOR", "OTHER"}, job : Jobs \cup {None}]
        /\ \A i \in DOMAIN replies :
              replies[i] \in [code : {150, 225, 226, 227, 250, 425, 426, 450, 451},
                              job : Jobs \cup {None}]
    BY <2>1 DEF Requests, Replies, Verbs, Codes, JobOrNone
  <2>3. active_count \in Nat
    BY HoldersFinite DEF IInv, SlotsExact, Holders
  <2>4. /\ server \in [listener : Jobs \cup {None}, opening : Jobs \cup {None}]
        /\ {busy, conn, connection} \subseteq Jobs \cup {None} /\ fin \subseteq Jobs
    BY DEF ServerTypes, DataTypes, JobOrNone
  <2>5. /\ socket \in [Jobs -> {"none", "open", "lost", "closed"}]
        /\ pipe \in [Jobs -> Nat] /\ left \in [Jobs -> 0 .. Size] /\ got \in [Jobs -> Nat]
    BY DEF DataTypes, Sockets
  <2>6. /\ kind \in [Jobs -> {"RETR", "STOR"}] /\ calm \in BOOLEAN /\ is_connected \in BOOLEAN
        /\ apc \in Aborting \cup {"none", "stop", "close", "over"}
        /\ pausing \subseteq Jobs \X {"pause", "resume"}
    BY DEF UserTypes, ControlTypes, Kinds, Aborts, Aborting
  <2>7. /\ status \in [Jobs -> {"pending", "running", "paused", "completed", "failed", "cancelled"}]
        /\ cancel_event \subseteq Jobs /\ pause_event \subseteq Jobs
        /\ told \in [Jobs -> {"nothing", "success", "failure"}] /\ spoilt \subseteq Jobs
    BY DEF WorkerTypes, Statuses, Answers
  <2> QED
    BY <2>2, <2>3, <2>4, <2>5, <2>6, <2>7 DEF TypeOK, IInv, Places
<1> QED
  BY <1>1, Invariance, InitTypes, NextTypes, PTL DEF Spec

-----------------------------------------------------------------------------
(* Order: what a job and the server are at while the client is calm        *)

\* The control connection and the server, as a job finds them: nothing under
\* way; its command sent; its command or its transfer answered; ...
Free  == server.opening = None /\ busy = None /\ conn = None
Quiet == Free /\ requests = <<>> /\ replies = <<>>
Asked(j, op) == Free /\ requests = <<[op |-> op, job |-> j]>> /\ replies = <<>>
Answered(j, codes) == /\ Free /\ requests = <<>>
                      /\ \E code \in codes : replies = <<ReplyTo(j, code)>>

\* ... the server waiting for its data connection; the server transferring.
Opens(j) == /\ server = [listener |-> j, opening |-> j] /\ busy = None /\ conn = None
            /\ requests = <<>> /\ j \notin fin
Moves(j) == /\ server.opening = None /\ busy = j /\ conn = j
            /\ requests = <<>> /\ replies = <<>> /\ j \notin fin

\* The transfer is over for the server.
Completed(j) == Answered(j, {226, 425, 426, 451})

\* No data connection was opened for the job, and no data sent.
Fresh(j) == /\ socket[j] = "none" /\ j \notin fin /\ told[j] = "nothing"
            /\ left[j] = Size /\ pipe[j] = 0 /\ got[j] = 0

\* A job's progress, from PASV ...
Asking(j) ==
    /\ jpc[j] = "pasv" /\ Fresh(j)
    /\ \/ Asked(j, "PASV") \/ Answered(j, {425})
       \/ Answered(j, {227}) /\ server.listener = j

Passive(j) ==
    /\ jpc[j] = "passive" /\ Fresh(j)
    /\ Quiet /\ server.listener = j /\ connection = j

\* ... over RETR or STOR, whose 150 may be followed by a failure to connect, ...
Requesting(j) ==
    /\ jpc[j] = "retr" /\ Fresh(j)
    /\ server.listener = j /\ connection = j
    /\ \/ Asked(j, "TRANSFER") \/ Answered(j, {450})
       \/ (Opens(j) /\ replies = <<ReplyTo(j, 150)>>)
       \/ Free /\ requests = <<>> /\ replies = <<ReplyTo(j, 150), ReplyTo(j, 425)>>

\* ... the worker up to the completion reply, ...
Opened == {"pending", "slot", "begin", "loop", "paused", "io"}

Line(j) ==
    \/ wpc[j] \in Opened /\ socket[j] = "open"
    \/ wpc[j] = "close" /\ socket[j] \in {"open", "lost"}
    \/ wpc[j] = "reply" /\ socket[j] = "closed"

Chunks(j) ==
    /\ j \notin spoilt /\ (kind[j] = "RETR" \/ j \notin fin) =>
          left[j] + pipe[j] + got[j] = Size
    /\ wpc[j] \in {"close", "reply"} /\ j \notin cancel_event /\ j \notin spoilt =>
          IF kind[j] = "RETR" THEN pipe[j] = 0 /\ Completed(j) ELSE left[j] = 0
    /\ replies = <<ReplyTo(j, 226)>> =>
          IF kind[j] = "RETR" THEN left[j] = 0
          ELSE wpc[j] = "reply" /\ (j \notin spoilt => left[j] + got[j] = Size)

Working(j) ==
    /\ jpc[j] = "started" /\ connection = j /\ told[j] = "nothing"
    /\ (Opens(j) /\ replies = <<>>) \/ Moves(j) \/ Completed(j)
    /\ Line(j) /\ Chunks(j)

\* ... to the return of its slot.
Whole(j) == told[j] = "success" => got[j] = Size \/ j \in spoilt
Through(j) == jpc[j] = "started" /\ wpc[j] = "release" /\ Quiet /\ Whole(j)

Active(j)  == Asking(j) \/ Passive(j) \/ Requesting(j) \/ Working(j) \/ Through(j)
Resting(j) == Over(j) /\ (jpc[j] = "none" => Fresh(j)) /\ Whole(j)

\* Until the client is disturbed, one job at a time has the connections.
Alone(j) == Active(j) /\ \A i \in Jobs \ {j} : Resting(i)

InOrder == /\ is_connected /\ apc = "none"
           /\ \/ Quiet /\ \A j \in Jobs : Resting(j)
              \/ \E j \in Jobs : Alone(j)

CalmInv == calm => InOrder

\* A step that concerns no job but j.
Only(j) ==
    \A i \in Jobs \ {j} :
        /\ jpc'[i] = jpc[i] /\ wpc'[i] = wpc[i] /\ told'[i] = told[i]
        /\ socket'[i] = socket[i] /\ pipe'[i] = pipe[i]
        /\ left'[i] = left[i] /\ got'[i] = got[i]
        /\ i \in fin' <=> i \in fin
        /\ i \in spoilt' <=> i \in spoilt

-----------------------------------------------------------------------------
\* The first of one reply or request.
LEMMA Firsts ==
    ASSUME NEW a, NEW b
    PROVE  /\ <<a>> # <<>> /\ Head(<<a>>) = a /\ Tail(<<a>>) = <<>>
           /\ Append(<<>>, a) = <<a>>
           /\ <<a>> = <<b>> => a = b
<1>1. <<a>> # <<>> /\ Head(<<a>>) = a
  OBVIOUS
<1>2. Tail(<<a>>) = <<>>
  OBVIOUS
<1>3. Append(<<>>, a) = <<a>>
  OBVIOUS
<1>4. <<a>> = <<b>> => a = b
  OBVIOUS
<1> QED
  BY <1>1, <1>2, <1>3, <1>4

\* The first of two is taken; a second is sent.
LEMMA TakeFirst ==
    ASSUME NEW a, NEW b
    PROVE  <<a, b>> # <<>> /\ Head(<<a, b>>) = a /\ Tail(<<a, b>>) = <<b>>
  OBVIOUS

LEMMA AppendSecond == ASSUME NEW a, NEW b PROVE Append(<<a>>, b) = <<a, b>>
<1> DEFINE s == Append(<<a>>, b)
           t == <<a, b>>
<1>1. <<a>> \in Seq({a, b}) /\ t \in Seq({a, b}) /\ Len(<<a>>) = 1 /\ Len(t) = 2
      /\ <<a>>[1] = a /\ t[1] = a /\ t[2] = b
  OBVIOUS
<1>2. s \in Seq({a, b}) /\ Len(s) = 2 /\ s[1] = a /\ s[2] = b
  BY <1>1
<1> HIDE DEF s, t
<1>3. \A i \in 1 .. Len(s) : s[i] = t[i]
  BY <1>1, <1>2
<1>4. s = t
  BY <1>1, <1>2, <1>3, SeqEqual
<1> QED
  BY <1>4 DEF s, t

\* A reply names its code and its job.
LEMMA Codings ==
    ASSUME NEW j, NEW code, NEW i, NEW other
    PROVE  /\ ReplyTo(j, code).code = code /\ ReplyTo(j, code).job = j
           /\ ReplyTo(j, code) = ReplyTo(i, other) => j = i /\ code = other
  BY DEF ReplyTo

\* A job at rest stays so while another goes on.
LEMMA OthersRest ==
    ASSUME NEW j, \A i \in Jobs \ {j} : Resting(i), Only(j)
    PROVE  \A i \in Jobs \ {j} : Resting(i)'
  BY DEF Only, Resting, Over, Fresh, Whole

\* A step of the one job under way: it goes on, or comes to rest.
LEMMA GoesOn ==
    ASSUME NEW j \in Jobs, Alone(j), Only(j), Active(j)', is_connected', apc' = "none"
    PROVE  InOrder'
<1>1. \A i \in Jobs \ {j} : Resting(i)'
  BY OthersRest DEF Alone
<1> QED
  BY <1>1 DEF InOrder, Alone

LEMMA ComesToRest ==
    ASSUME NEW j \in Jobs, Alone(j), Only(j), Quiet', Resting(j)', is_connected', apc' = "none"
    PROVE  InOrder'
<1>1. \A i \in Jobs \ {j} : Resting(i)'
  BY OthersRest DEF Alone
<1> QED
  BY <1>1 DEF InOrder

\* A job under way is not over, and the job that is not over is alone.
LEMMA ActiveIsNotOver == ASSUME IInv, NEW j \in Jobs, Active(j) PROVE ~ Over(j)
  BY DEF IInv, Active, Asking, Passive, Requesting, Working, Through, Line, Opened, Over

LEMMA NotOverIsAlone == ASSUME InOrder, NEW j \in Jobs, ~ Over(j) PROVE Alone(j)
<1>1. ~ Resting(j)
  BY DEF Resting
<1>2. PICK i \in Jobs : Alone(i)
  BY <1>1 DEF InOrder
<1>3. i = j
  BY <1>1, <1>2 DEF Alone
<1> QED
  BY <1>2, <1>3

\* Initially there is no job.
LEMMA InitCalm == Init => CalmInv
<1> SUFFICES ASSUME Init PROVE InOrder
  BY DEF CalmInv
<1>1. Quiet
  BY DEF Init, Quiet, Free, Idle
<1>2. \A j \in Jobs : Resting(j)
  BY DEF Init, Resting, Over, Fresh, Whole
<1> QED
  BY <1>1, <1>2 DEF Init, InOrder

-----------------------------------------------------------------------------
(* The server, while a job is alone                                        *)

\* The server does nothing for a client that is quiet.
LEMMA ServesAJob ==
    ASSUME InOrder, ServerStep \/ ServerBreaks
    PROVE  \E j \in Jobs : Alone(j)
<1>1. ~ Quiet
  BY DEF Quiet, Free, ServerStep, ServerBreaks, HandlePasv, HandleTransfer, Accept, AcceptFails,
     HandleAbor, HandleOther, ServerMoves, ServerFinishes, Handles
<1> QED
  BY <1>1 DEF InOrder

\* The command it handles is the job's, whose thread waits for the answer.
LEMMA HandlesCommand ==
    ASSUME NEW j \in Jobs, Alone(j), NEW op, Handles(op)
    PROVE  /\ Head(requests).job = j /\ requests' = <<>> /\ replies = <<>> /\ Free
           /\ \/ op = "PASV" /\ Asking(j)
              \/ op = "TRANSFER" /\ Requesting(j)
<1>1. requests # <<>> /\ Head(requests).op = op /\ requests' = Tail(requests)
  BY DEF Handles
<1>2. PICK verb : /\ Asked(j, verb)
                  /\ \/ verb = "PASV" /\ Asking(j)
                     \/ verb = "TRANSFER" /\ Requesting(j)
  BY <1>1 DEF Alone, Active, Asking, Passive, Requesting, Working, Through, Quiet, Answered, Opens,
     Moves, Completed
<1>3. requests = <<[op |-> verb, job |-> j]>> /\ replies = <<>> /\ Free
  BY <1>2 DEF Asked
<1>4. Head(requests) = [op |-> verb, job |-> j] /\ Tail(requests) = <<>>
  BY <1>3, Firsts
<1> QED
  BY <1>1, <1>2, <1>3, <1>4

LEMMA PasvInOrder ==
    ASSUME Types, NEW j \in Jobs, Alone(j), is_connected, apc = "none", HandlePasv
    PROVE  InOrder'
<1>1. /\ Handles("PASV")
      /\ UNCHANGED <<is_connected, busy, conn, dataVars, userVars, wpc, told, spoilt>>
  BY DEF HandlePasv
<1>2. Head(requests).job = j /\ requests' = <<>> /\ replies = <<>> /\ Free /\ Asking(j)
  BY <1>1, HandlesCommand
<1>3. PICK code \in {227, 425} : /\ replies' = <<ReplyTo(j, code)>> /\ fin' = fin
                                 /\ server'.opening = None
                                 /\ code = 227 => server'.listener = j
  <2>1. /\ Append(replies, ReplyTo(j, 227)) = <<ReplyTo(j, 227)>>
        /\ Append(replies, ReplyTo(j, 425)) = <<ReplyTo(j, 425)>>
    BY <1>2, Firsts
  <2>2. fin \cup ({conn} \ {None}) = fin
    BY <1>2 DEF Free
  <2>3. server.opening = None /\ server \in [listener : JobOrNone, opening : JobOrNone]
    BY <1>2 DEF Free, Types, ServerTypes
  <2>4. \/ Says(j, 227) /\ server' = [server EXCEPT !.listener = j] /\ fin' = fin
        \/ Says(j, 425) /\ server' = server /\ fin' = fin
    BY <1>2, <2>2 DEF HandlePasv
  <2>5. CASE Says(j, 227) /\ server' = [server EXCEPT !.listener = j] /\ fin' = fin
    <3>1. server'.opening = None /\ server'.listener = j
      BY <2>3, <2>5
    <3> QED
      BY <2>1, <2>5, <3>1 DEF Says
  <2>6. CASE Says(j, 425) /\ server' = server /\ fin' = fin
    BY <2>1, <2>3, <2>6 DEF Says
  <2> QED
    BY <2>4, <2>5, <2>6
<1>4. Only(j)
  BY <1>1, <1>3 DEF Only, dataVars, userVars
<1>5. Free'
  BY <1>1, <1>2, <1>3 DEF Free
<1>6. Asking(j)'
  BY <1>1, <1>2, <1>3, <1>5 DEF Asking, Fresh, Answered, dataVars, userVars
<1> QED
  BY <1>1, <1>4, <1>6, GoesOn DEF Active, userVars

LEMMA TransferInOrder ==
    ASSUME Types, NEW j \in Jobs, Alone(j), is_connected, apc = "none", HandleTransfer
    PROVE  InOrder'
<1>1. /\ Handles("TRANSFER")
      /\ UNCHANGED <<is_connected, busy, conn, fin, dataVars, userVars, wpc, told, spoilt>>
  BY DEF HandleTransfer
<1>2. Head(requests).job = j /\ requests' = <<>> /\ replies = <<>> /\ Free /\ Requesting(j)
  BY <1>1, HandlesCommand
<1>3. server.opening = None /\ server.listener = j /\ j \notin fin /\ busy = None /\ conn = None
      /\ server \in [listener : JobOrNone, opening : JobOrNone]
  BY <1>2 DEF Free, Requesting, Fresh, Types, ServerTypes
<1>4. /\ Append(replies, ReplyTo(j, 150)) = <<ReplyTo(j, 150)>>
      /\ Append(replies, ReplyTo(j, 450)) = <<ReplyTo(j, 450)>>
  BY <1>2, Firsts
<1>5. \/ replies' = <<ReplyTo(j, 150)>> /\ server' = [server EXCEPT !.opening = j]
      \/ replies' = <<ReplyTo(j, 450)>> /\ server' = server
  BY <1>2, <1>4 DEF HandleTransfer, Says
<1>6. Only(j)
  BY <1>1 DEF Only, dataVars, userVars
<1>7. jpc'[j] = "retr" /\ Fresh(j)' /\ connection' = j /\ server'.listener = j
  BY <1>1, <1>2, <1>3, <1>5 DEF Requesting, Fresh, dataVars, userVars
<1>8. Requesting(j)'
  <2>1. CASE replies' = <<ReplyTo(j, 150)>> /\ server' = [server EXCEPT !.opening = j]
    <3>1. server' = [listener |-> j, opening |-> j]
      BY <1>3, <2>1
    <3>2. Opens(j)'
      BY <1>1, <1>2, <1>3, <3>1 DEF Opens
    <3> QED
      BY <1>7, <2>1, <3>2 DEF Requesting
  <2>2. CASE replies' = <<ReplyTo(j, 450)>> /\ server' = server
    <3>1. Answered(j, {450})'
      BY <1>1, <1>2, <1>3, <2>2 DEF Answered, Free
    <3> QED
      BY <1>7, <3>1 DEF Requesting
  <2> QED
    BY <1>5, <2>1, <2>2
<1> QED
  BY <1>1, <1>6, <1>8, GoesOn DEF Active, userVars

\* The server waits for the data connection of the job.
LEMMA OpensForJob ==
    ASSUME NEW j \in Jobs, Alone(j), server.opening # None
    PROVE  /\ Opens(j)
           /\ \/ Requesting(j) /\ replies = <<ReplyTo(j, 150)>> /\ socket[j] = "none"
              \/ Working(j) /\ replies = <<>> /\ socket[j] # "none"
<1>1. ~ Free /\ ~ Quiet /\ ~ Moves(j) /\ ~ Completed(j)
  BY DEF Free, Quiet, Moves, Completed, Answered
<1>2. ~ Asked(j, "PASV") /\ ~ Asked(j, "TRANSFER")
      /\ ~ Answered(j, {425}) /\ ~ Answered(j, {227}) /\ ~ Answered(j, {450})
  BY <1>1 DEF Asked, Answered
<1>3. CASE Requesting(j)
  BY <1>1, <1>2, <1>3 DEF Requesting, Fresh
<1>4. CASE Working(j)
  BY <1>1, <1>4 DEF Working, Line
<1> QED
  BY <1>1, <1>2, <1>3, <1>4 DEF Alone, Active, Asking, Passive, Through

\* The server transfers for the job.
LEMMA MovesForJob ==
    ASSUME NEW j \in Jobs, Alone(j), busy # None
    PROVE  Moves(j) /\ Working(j) /\ ~ Completed(j)
<1>1. ~ Free /\ ~ Quiet /\ ~ Opens(j) /\ ~ Completed(j)
  BY DEF Free, Quiet, Opens, Completed, Answered
<1>2. ~ Asked(j, "PASV") /\ ~ Asked(j, "TRANSFER")
      /\ ~ Answered(j, {425}) /\ ~ Answered(j, {227}) /\ ~ Answered(j, {450})
  BY <1>1 DEF Asked, Answered
<1> QED
  BY <1>1, <1>2 DEF Alone, Active, Asking, Passive, Requesting, Working, Through

LEMMA AcceptInOrder ==
    ASSUME Types, NEW j \in Jobs, Alone(j), is_connected, apc = "none", Accept
    PROVE  InOrder'
<1>1. /\ UNCHANGED <<requests, is_connected, dataVars, userVars, wpc, eventVars, told,
                  spoilt>>
      /\ server.opening # None /\ ClientConnects /\ server' = Idle
  BY DEF Accept
<1>2. Opens(j) /\ Working(j) /\ replies = <<>>
  <2>1. Opens(j)
    BY <1>1, OpensForJob
  <2>2. socket[j] # "none"
    BY <1>1, <2>1 DEF ClientConnects, Opens
  <2> QED
    BY <1>1, <2>1, <2>2, OpensForJob
<1>3. busy' = j /\ conn' = j /\ fin' = fin /\ replies' = replies
  BY <1>2 DEF Accept, Opens
<1>4. Only(j)
  BY <1>1, <1>3 DEF Only, dataVars, userVars
<1>5. Moves(j)'
  BY <1>1, <1>2, <1>3 DEF Moves, Opens, Idle
<1>6. ~ Completed(j) /\ replies' # <<ReplyTo(j, 226)>>
  BY <1>2, <1>3, Firsts DEF Completed, Answered, Free, Opens
<1>7. Chunks(j)'
  BY <1>1, <1>2, <1>3, <1>6 DEF Working, Chunks, dataVars, userVars, eventVars
<1>8. Working(j)'
  BY <1>1, <1>2, <1>5, <1>7 DEF Working, Line, dataVars, userVars
<1> QED
  BY <1>1, <1>4, <1>8, GoesOn DEF Active, userVars

LEMMA AcceptFailsInOrder ==
    ASSUME Types, NEW j \in Jobs, Alone(j), is_connected, apc = "none", AcceptFails
    PROVE  InOrder'
<1>1. /\ UNCHANGED <<requests, is_connected, busy, conn, fin, dataVars, userVars, wpc, told,
                     spoilt>>
      /\ server.opening # None /\ ~ ClientConnects
      /\ Says(server.opening, 425) /\ server' = [server EXCEPT !.opening = None]
  BY DEF AcceptFails
<1>2. Opens(j) /\ Requesting(j) /\ replies = <<ReplyTo(j, 150)>>
  <2>1. Opens(j)
    BY <1>1, OpensForJob
  <2>2. socket[j] = "none"
    BY <1>1, <2>1, NoneIsNoJob DEF ClientConnects, Opens
  <2> QED
    BY <1>1, <2>1, <2>2, OpensForJob
<1>3. server'.opening = None /\ server'.listener = j /\ server.opening = j
  BY <1>1, <1>2 DEF Opens
<1>4. replies' = <<ReplyTo(j, 150), ReplyTo(j, 425)>>
  <2>1. Append(<<ReplyTo(j, 150)>>, ReplyTo(j, 425)) = <<ReplyTo(j, 150), ReplyTo(j, 425)>>
    BY AppendSecond
  <2> QED
    BY <1>1, <1>2, <1>3, <2>1 DEF Says
<1>5. Only(j)
  BY <1>1 DEF Only, dataVars, userVars
<1>6. Requesting(j)'
  BY <1>1, <1>2, <1>3, <1>4 DEF Requesting, Fresh, Opens, Free, dataVars, userVars
<1> QED
  BY <1>1, <1>5, <1>6, GoesOn DEF Active, userVars

LEMMA MovesInOrder ==
    ASSUME Types, NEW j \in Jobs, Alone(j), is_connected, apc = "none", ServerMoves
    PROVE  InOrder'
<1>1. /\ UNCHANGED <<controlVars, serverVars, connection, socket, userVars, wpc, eventVars, told,
                  spoilt>>
      /\ busy # None
  BY DEF ServerMoves
<1>2. Moves(j) /\ Working(j) /\ ~ Completed(j) /\ busy = j /\ conn = j /\ j \notin fin
  BY <1>1, MovesForJob DEF Moves
<1>3. pipe[j] \in Nat /\ left[j] \in Nat /\ got[j] \in Nat
      /\ pipe \in [Jobs -> Nat] /\ left \in [Jobs -> 0 .. Size] /\ got \in [Jobs -> Nat]
  BY SizeIsNat DEF Types, DataTypes
<1>4. \/ /\ kind[j] = "RETR" /\ pipe' = [pipe EXCEPT ![j] = pipe[j] + 1]
         /\ left' = [left EXCEPT ![j] = left[j] - 1] /\ got' = got
      \/ /\ kind[j] = "STOR" /\ pipe' = [pipe EXCEPT ![j] = pipe[j] - 1]
         /\ got' = [got EXCEPT ![j] = got[j] + 1] /\ left' = left
  BY <1>2 DEF ServerMoves
<1>5. Only(j)
  BY <1>1, <1>3, <1>4 DEF Only, serverVars, userVars
<1>6. Moves(j)'
  BY <1>1, <1>2 DEF Moves, controlVars, serverVars
<1>7. j \notin spoilt => left'[j] + pipe'[j] + got'[j] = Size
  <2>1. j \notin spoilt => left[j] + pipe[j] + got[j] = Size
    BY <1>2 DEF Working, Chunks
  <2> QED
    BY <1>3, <1>4, <2>1
<1>8. replies' = <<>> /\ kind' = kind /\ cancel_event' = cancel_event /\ wpc' = wpc
      /\ <<>> # <<ReplyTo(j, 226)>> /\ <<>> # <<ReplyTo(j, 226)>>'
  BY <1>1, <1>2, Firsts DEF Moves, controlVars, userVars, eventVars
<1>9. Chunks(j)'
  <2>1. wpc[j] \in {"close", "reply"} /\ j \notin cancel_event /\ j \notin spoilt =>
           kind[j] # "RETR" /\ left[j] = 0
    BY <1>2 DEF Working, Chunks
  <2> QED
    BY <1>1, <1>4, <1>7, <1>8, <2>1 DEF Chunks
<1>10. Working(j)'
  BY <1>1, <1>2, <1>6, <1>9 DEF Working, Line, userVars
<1> QED
  BY <1>1, <1>5, <1>10, GoesOn DEF Active, controlVars, userVars

LEMMA FinishesInOrder ==
    ASSUME Types, NEW j \in Jobs, Alone(j), is_connected, apc = "none",
           ServerFinishes \/ ServerBreaks
    PROVE  InOrder'
<1>1. PICK code \in {226, 426, 451} : Finishes(code) /\ (code = 226 => ServerFinishes)
  BY DEF ServerFinishes, ServerBreaks
<1>2. /\ UNCHANGED <<requests, is_connected, dataVars, userVars, wpc, eventVars, told,
                  spoilt>>
      /\ Says(busy, code) /\ fin' = fin \cup {conn} /\ busy' = None /\ conn' = None
      /\ server' = [server EXCEPT !.listener = None]
  BY <1>1 DEF Finishes
<1>3. busy # None
  BY DEF ServerFinishes, ServerBreaks
<1>4. /\ Moves(j) /\ Working(j) /\ ~ Completed(j)
      /\ busy = j /\ conn = j /\ j \notin fin /\ replies = <<>> /\ server.opening = None
  BY <1>3, MovesForJob DEF Moves
<1>5. replies' = <<ReplyTo(j, code)>>
  <2>1. Append(<<>>, ReplyTo(j, code)) = <<ReplyTo(j, code)>>
    BY Firsts
  <2> QED
    BY <1>2, <1>4, <2>1 DEF Says
<1>6. server'.opening = None
  BY <1>2, <1>4 DEF Types, ServerTypes
<1>7. Completed(j)'
  BY <1>2, <1>4, <1>5, <1>6 DEF Completed, Answered, Free, Moves
<1>8. Only(j)
  BY <1>2, <1>4 DEF Only, dataVars, userVars
<1>9. /\ pipe' = pipe /\ left' = left /\ got' = got /\ kind' = kind /\ wpc' = wpc
      /\ cancel_event' = cancel_event /\ socket' = socket
  BY <1>2 DEF dataVars, userVars, eventVars
<1>10. /\ j \notin spoilt => left[j] + pipe[j] + got[j] = Size
       /\ wpc[j] \in {"close", "reply"} /\ j \notin cancel_event /\ j \notin spoilt =>
             IF kind[j] = "RETR" THEN FALSE ELSE left[j] = 0
  BY <1>4 DEF Working, Chunks
<1>11. code = 226 =>
          IF kind[j] = "RETR" THEN left[j] = 0 ELSE socket[j] = "closed" /\ pipe[j] = 0
  <2> SUFFICES ASSUME code = 226
               PROVE  IF kind[j] = "RETR" THEN left[j] = 0 ELSE socket[j] = "closed" /\ pipe[j] = 0
    OBVIOUS
  <2>1. ServerFinishes
    BY <1>1
  <2>2. ~ Says(j, 426)
    <3>1. Append(<<>>, ReplyTo(j, 426)) = <<ReplyTo(j, 426)>>
      BY Firsts
    <3>2. ReplyTo(j, 426) # ReplyTo(j, 226)
      BY Codings
    <3> QED
      BY <1>4, <1>5, <3>1, <3>2, Firsts DEF Says
  <2>3. ~ Finishes(426)
    BY <1>4, <2>2 DEF Finishes
  <2>4. ServerThrough
    BY <1>4, <2>1, <2>3 DEF ServerFinishes
  <2> QED
    BY <1>4, <2>4 DEF ServerThrough
<1>12. kind[j] = "RETR" \/ kind[j] = "STOR"
  BY DEF Types, UserTypes, Kinds
<1>13. Chunks(j)'
  <2>1. replies' = <<ReplyTo(j, 226)>> => code = 226
    <3>1. <<ReplyTo(j, code)>> = <<ReplyTo(j, 226)>> => ReplyTo(j, code) = ReplyTo(j, 226)
      BY Firsts
    <3> QED
      BY <1>5, <3>1, Codings
  <2>2. socket[j] = "closed" => wpc[j] = "reply"
    BY <1>4 DEF Working, Line
  <2>3. pipe[j] = 0 /\ j \notin spoilt => left[j] + got[j] = Size
    BY <1>10 DEF Types, DataTypes
  <2> QED
    BY <1>2, <1>7, <1>9, <1>10, <1>11, <2>1, <2>2, <2>3 DEF Chunks
<1>14. Working(j)'
  BY <1>2, <1>4, <1>7, <1>13 DEF Working, Line, dataVars, userVars
<1> QED
  BY <1>2, <1>8, <1>14, GoesOn DEF Active, userVars

\* No step of the server puts a calm client out of order.
LEMMA ServerInOrder ==
    ASSUME Types, InOrder, ServerStep \/ ServerBreaks PROVE InOrder'
<1>1. is_connected /\ apc = "none"
  BY DEF InOrder
<1>2. PICK j \in Jobs : Alone(j)
  BY ServesAJob
<1>3. ~ HandleAbor /\ ~ HandleOther
  <2> SUFFICES ASSUME HandleAbor \/ HandleOther PROVE FALSE
    OBVIOUS
  <2>1. Handles("ABOR") \/ Handles("OTHER")
    BY DEF HandleAbor, HandleOther
  <2> QED
    BY <1>2, <2>1, HandlesCommand
<1> QED
  BY <1>1, <1>2, <1>3, PasvInOrder, TransferInOrder, AcceptInOrder, AcceptFailsInOrder,
     MovesInOrder, FinishesInOrder DEF ServerStep

-----------------------------------------------------------------------------
(* The user's commands and the worker, while their job is alone            *)

\* While a job is under way and the client calm, no wait for a reply is in vain.
LEMMA NotStranded ==
    ASSUME NEW j \in Jobs, Alone(j), Asking(j) \/ Requesting(j) \/ Working(j)
    PROVE  ~ Stranded
<1>1. CASE Asking(j)
  BY <1>1, Firsts DEF Asking, Asked, Answered, Stranded
<1>2. CASE Requesting(j)
  BY <1>2, Firsts, NoneIsNoJob DEF Requesting, Asked, Answered, Opens, Stranded
<1>3. CASE Working(j)
  BY <1>3, Firsts, NoneIsNoJob DEF Working, Completed, Answered, Opens, Moves, Stranded
<1> QED
  BY <1>1, <1>2, <1>3

\* PASV is sent when all jobs are over.
LEMMA StartInOrder ==
    ASSUME IInv, Types, InOrder, NEW j \in Jobs, NEW k \in {"RETR", "STOR"}, Pasv(j, k), calm, calm'
    PROVE  InOrder'
<1>1. /\ jpc[j] = "none" /\ Send("PASV", j) /\ jpc' = [jpc EXCEPT ![j] = "pasv"]
      /\ UNCHANGED <<replies, is_connected, serverVars, dataVars, apc, wpc, told, spoilt>>
      /\ \A i \in Jobs : Over(i)
  BY DEF Pasv, Disturb
<1>2. Quiet /\ \A i \in Jobs : Resting(i)
  BY <1>1, ActiveIsNotOver DEF InOrder, Alone
<1>3. requests' = <<[op |-> "PASV", job |-> j]>>
  BY <1>1, <1>2, Firsts DEF Send, Quiet
<1>4. Asked(j, "PASV")'
  BY <1>1, <1>2, <1>3 DEF Asked, Quiet, Free, serverVars
<1>5. Asking(j)'
  BY <1>1, <1>2, <1>4 DEF IInv, Asking, Resting, Fresh, serverVars, dataVars
<1>6. \A i \in Jobs \ {j} : Resting(i)'
  BY <1>1, <1>2 DEF IInv, Resting, Over, Fresh, Whole, serverVars, dataVars
<1> QED
  BY <1>1, <1>5, <1>6 DEF InOrder, Alone, Active

\* The answer to PASV is its own: the connection is the job's.
LEMMA PasvReplyInOrder ==
    ASSUME IInv, Types, InOrder, NEW j \in Jobs, Alone(j), PasvReply(j)
    PROVE  InOrder'
<1>1. /\ jpc[j] = "pasv" /\ replies # <<>> /\ replies' = Tail(replies)
      /\ UNCHANGED <<requests, is_connected, serverVars, socket, pipe, left, got, apc, wpc, told,
                     spoilt>>
  BY DEF PasvReply, Read
<1>2. Asking(j)
  BY <1>1 DEF Alone, Active, Asking, Passive, Requesting, Working, Through
<1>3. PICK code \in {227, 425} : /\ replies = <<ReplyTo(j, code)>> /\ Free /\ requests = <<>>
                                 /\ code = 227 => server.listener = j
  BY <1>1, <1>2 DEF Asking, Asked, Answered
<1>4. replies' = <<>> /\ Head(replies).code = code /\ Head(replies).job = j
  BY <1>1, <1>3, Firsts, Codings
<1>5. Quiet'
  BY <1>1, <1>3, <1>4 DEF Quiet, Free, serverVars
<1>6. /\ jpc' = [jpc EXCEPT ![j] = IF code = 227 THEN "passive" ELSE "failed"]
      /\ code = 227 => connection' = j
  BY <1>4 DEF PasvReply
<1>7. Only(j)
  BY <1>1, <1>6 DEF IInv, Only, serverVars
<1>8. CASE code = 227
  <2>1. Passive(j)'
    BY <1>1, <1>2, <1>3, <1>5, <1>6, <1>8 DEF IInv, Asking, Passive, Fresh, serverVars
  <2> QED
    BY <1>1, <1>7, <2>1, GoesOn DEF Active, InOrder
<1>9. CASE code = 425
  <2>1. jpc'[j] = "failed"
    BY <1>6, <1>9 DEF IInv
  <2>2. Resting(j)'
    BY <1>1, <1>2, <2>1 DEF Resting, Over, Whole, Asking, Fresh
  <2> QED
    BY <1>1, <1>5, <1>7, <2>2, ComesToRest DEF InOrder
<1> QED
  BY <1>8, <1>9

LEMMA RetrOrStorInOrder ==
    ASSUME IInv, Types, InOrder, NEW j \in Jobs, Alone(j), RetrOrStor(j)
    PROVE  InOrder'
<1>1. /\ jpc[j] = "passive" /\ Send("TRANSFER", j) /\ jpc' = [jpc EXCEPT ![j] = "retr"]
      /\ UNCHANGED <<replies, is_connected, serverVars, dataVars, apc, wpc, told, spoilt>>
  BY DEF RetrOrStor
<1>2. Passive(j)
  BY <1>1 DEF Alone, Active, Asking, Passive, Requesting, Working, Through
<1>3. requests' = <<[op |-> "TRANSFER", job |-> j]>>
  BY <1>1, <1>2, Firsts DEF Send, Passive, Quiet
<1>4. Asked(j, "TRANSFER")'
  BY <1>1, <1>2, <1>3 DEF Asked, Passive, Quiet, Free, serverVars
<1>5. Requesting(j)'
  BY <1>1, <1>2, <1>4 DEF IInv, Requesting, Passive, Fresh, serverVars, dataVars
<1>6. Only(j)
  BY <1>1 DEF IInv, Only, serverVars, dataVars
<1> QED
  BY <1>1, <1>5, <1>6, GoesOn DEF Active, InOrder

\* The answer to RETR or STOR is its own; a worker starts with the data
\* connection open, and the completion reply still to come.
LEMMA RetrReplyInOrder ==
    ASSUME IInv, Types, InOrder, NEW j \in Jobs, Alone(j), RetrReply(j)
    PROVE  InOrder'
<1>1. /\ jpc[j] = "retr" /\ replies # <<>> /\ replies' = Tail(replies)
      /\ UNCHANGED <<requests, is_connected, serverVars, connection, pipe, left, got, apc, told,
                     spoilt>>
      /\ kind' = kind /\ cancel_event' = cancel_event
  BY DEF RetrReply, Read, eventVars
<1>2. Requesting(j) /\ wpc[j] = "none"
  BY <1>1 DEF IInv, Alone, Active, Asking, Passive, Requesting, Working, Through
<1>3. CASE Answered(j, {450})
  <2>1. replies = <<ReplyTo(j, 450)>> /\ Free /\ requests = <<>>
    BY <1>3 DEF Answered
  <2>2. replies' = <<>>
    BY <1>1, <2>1, Firsts
  <2>2a. Head(replies).code = 450
    BY <2>1, Firsts, Codings
  <2>3. jpc' = [jpc EXCEPT ![j] = "failed"] /\ wpc' = wpc /\ socket' = socket
    <3>1. ~ Preliminary(Head(replies)) /\ ~ Success(Head(replies))
      BY <2>2a DEF Preliminary, Success
    <3> QED
      BY <3>1 DEF RetrReply
  <2>4. Quiet'
    BY <1>1, <2>1, <2>2 DEF Quiet, Free, serverVars
  <2>5. jpc'[j] = "failed"
    BY <2>3 DEF IInv
  <2>6. Resting(j)'
    BY <1>1, <1>2, <2>5 DEF Resting, Over, Whole, Requesting, Fresh
  <2>7. Only(j)
    BY <1>1, <2>3 DEF IInv, Only, serverVars
  <2> QED
    BY <1>1, <2>4, <2>6, <2>7, ComesToRest DEF InOrder
<1>4. ASSUME NEW rest, Head(replies) = ReplyTo(j, 150), Tail(replies) = rest,
             \/ Opens(j) /\ rest = <<>>
             \/ Free /\ requests = <<>> /\ rest = <<ReplyTo(j, 425)>>
      PROVE  InOrder'
  <2>1. StartWorker(j) /\ replies' = rest
    <3>1. Head(replies).code = 150
      BY <1>4, Codings
    <3> QED
      BY <1>1, <1>4, <3>1 DEF RetrReply, Preliminary
  <2>2. connection = j /\ server.listener = j /\ Fresh(j)
    BY <1>2 DEF Requesting
  <2>3. CanConnect
    BY <2>2, NoneIsNoJob DEF CanConnect
  <2>4. /\ jpc' = [jpc EXCEPT ![j] = "started"] /\ wpc' = [wpc EXCEPT ![j] = "pending"]
        /\ socket' = [socket EXCEPT ![j] = "open"]
    BY <2>1, <2>2, <2>3 DEF StartWorker
  <2>5. jpc'[j] = "started" /\ wpc'[j] = "pending" /\ socket'[j] = "open"
    BY <2>4 DEF IInv, Types, DataTypes
  <2>6. Only(j)
    BY <1>1, <2>4 DEF IInv, Types, DataTypes, Only, serverVars
  <2>7. (Opens(j) /\ replies = <<>>)' \/ Completed(j)'
    <3>1. UNCHANGED <<requests, server, busy, conn, fin>> /\ replies' = rest
      BY <1>1, <2>1 DEF serverVars
    <3>2. CASE Opens(j) /\ rest = <<>>
      BY <3>1, <3>2 DEF Opens
    <3>3. CASE Free /\ requests = <<>> /\ rest = <<ReplyTo(j, 425)>>
      <4>1. Free' /\ requests' = <<>> /\ replies' = <<ReplyTo(j, 425)>>
        BY <3>1, <3>3 DEF Free
      <4> QED
        BY <4>1 DEF Completed, Answered
    <3> QED
      BY <1>4, <3>2, <3>3
  <2>8. replies' # <<ReplyTo(j, 226)>>
    BY <1>4, <2>1, Firsts, Codings
  <2>9. left'[j] + pipe'[j] + got'[j] = Size
    BY <1>1, <2>2, SizeIsNat DEF Fresh
  <2>10. Chunks(j)'
    BY <2>5, <2>8, <2>9 DEF Chunks
  <2>11. Working(j)'
    BY <1>1, <2>2, <2>5, <2>7, <2>10 DEF Working, Line, Opened, Fresh
  <2> QED
    BY <1>1, <2>6, <2>11, GoesOn DEF Active, InOrder
<1>5. CASE Opens(j) /\ replies = <<ReplyTo(j, 150)>>
  BY <1>4, <1>5, Firsts
<1>6. CASE Free /\ requests = <<>> /\ replies = <<ReplyTo(j, 150), ReplyTo(j, 425)>>
  <2>1. /\ Head(<<ReplyTo(j, 150), ReplyTo(j, 425)>>) = ReplyTo(j, 150)
        /\ Tail(<<ReplyTo(j, 150), ReplyTo(j, 425)>>) = <<ReplyTo(j, 425)>>
    BY TakeFirst
  <2> QED
    BY <1>4, <1>6, <2>1
<1> QED
  BY <1>1, <1>2, <1>3, <1>5, <1>6 DEF Requesting, Asked

\* No command fails for want of a reply.
LEMMA UserInOrder ==
    ASSUME IInv, Types, InOrder, NEW j \in Jobs, UserStep(j) PROVE InOrder'
<1>1. jpc[j] \in {"pasv", "passive", "retr"}
  BY DEF UserStep, PasvReply, RetrOrStor, RetrReply, CommandFails
<1>2. Alone(j)
  <2>1. ~ Over(j)
    BY <1>1 DEF IInv, Over
  <2> QED
    BY <2>1, NotOverIsAlone
<1>3. ~ CommandFails(j)
  <2> SUFFICES ASSUME CommandFails(j) PROVE FALSE
    OBVIOUS
  <2>1. is_connected
    BY DEF InOrder
  <2>2. jpc[j] \in {"pasv", "retr"} /\ Stranded
    BY <2>1 DEF CommandFails, FindsLost, TimedOut
  <2>3. Asking(j) \/ Requesting(j)
    BY <1>2, <2>2 DEF Alone, Active, Asking, Passive, Requesting, Working, Through
  <2> QED
    BY <1>2, <2>2, <2>3, NotStranded
<1> QED
  BY <1>2, <1>3, PasvReplyInOrder, RetrOrStorInOrder, RetrReplyInOrder DEF UserStep

\* Until it releases its slot, the worker of a calm client has its connection.
LEMMA WorkingForJob ==
    ASSUME IInv, NEW j \in Jobs, Alone(j), wpc[j] \in Opened \cup {"close", "reply"}
    PROVE  Working(j)
<1>1. jpc[j] = "started" /\ wpc[j] # "release"
  BY DEF IInv, Opened
<1> QED
  BY <1>1 DEF Alone, Active, Asking, Passive, Requesting, Through

\* A worker that goes to another place, without data.
LEMMA PlaceInOrder ==
    ASSUME IInv, Types, InOrder, NEW j \in Jobs, Alone(j), Working(j), wpc[j] \in Opened,
           NEW to \in Opened \cup {"close"}, wpc' = [wpc EXCEPT ![j] = to],
           to = "close" => \/ j \in cancel_event
                           \/ kind[j] = "RETR" /\ pipe[j] = 0 /\ Completed(j)
                           \/ kind[j] = "STOR" /\ left[j] = 0,
           UNCHANGED <<controlVars, serverVars, connection, pipe, left, got, jpc, kind, apc,
                       cancel_event, told, spoilt>>,
           \/ socket' = socket
           \/ to # "close" /\ socket' = [socket EXCEPT ![j] = "open"]
           \/ to = "close" /\ socket' = [socket EXCEPT ![j] = "lost"]
    PROVE  InOrder'
<1>1. socket[j] = "open"
  BY DEF Working, Line, Opened
<1>2. /\ wpc'[j] = to
      /\ to = "close" => socket'[j] \in {"open", "lost"}
      /\ to # "close" => socket'[j] = "open"
  BY <1>1 DEF IInv, Types, DataTypes
<1>3. Line(j)'
  BY <1>2 DEF Line
<1>4. Only(j)
  BY DEF IInv, Types, DataTypes, Only, serverVars
<1>5. /\ (Opens(j) /\ replies = <<>>) => (Opens(j) /\ replies = <<>>)'
      /\ Moves(j) => Moves(j)'
      /\ Completed(j) => Completed(j)'
      /\ replies' = replies
  BY DEF Opens, Moves, Completed, Answered, Free, controlVars, serverVars
<1>6. Chunks(j)'
  <2>1. replies = <<ReplyTo(j, 226)>> => kind[j] = "RETR" /\ left[j] = 0
    BY DEF Working, Chunks, Opened
  <2>2. j \notin spoilt /\ (kind[j] = "RETR" \/ j \notin fin) =>
           left[j] + pipe[j] + got[j] = Size
    BY DEF Working, Chunks
  <2>3. wpc'[j] \in {"close", "reply"} => to = "close"
    BY <1>2 DEF Opened
  <2> QED
    BY <1>5, <2>1, <2>2, <2>3 DEF Chunks, serverVars
<1>7. Working(j)'
  BY <1>3, <1>5, <1>6 DEF Working
<1> QED
  BY <1>4, <1>7, GoesOn DEF Active, InOrder, controlVars

\* A chunk is received: it is no longer under way.
LEMMA ReceiveInOrder ==
    ASSUME IInv, Types, InOrder, NEW j \in Jobs, Alone(j), Working(j), Receive(j)
    PROVE  InOrder'
<1>1. /\ wpc[j] = "io" /\ kind[j] = "RETR" /\ wpc[j] \in Opened
      /\ UNCHANGED <<controlVars, serverVars, connection, left, jpc, kind, apc, cancel_event, told>>
  BY DEF Receive, Opened, userVars, eventVars
<1>2. connection = j /\ socket[j] = "open" /\ Connected
  BY <1>1, NoneIsNoJob DEF Working, Line, Connected
<1>3. CASE /\ pipe[j] > 0 /\ wpc' = [wpc EXCEPT ![j] = "loop"] /\ socket' = socket
           /\ pipe' = [pipe EXCEPT ![j] = pipe[j] - 1] /\ got' = [got EXCEPT ![j] = got[j] + 1]
           /\ spoilt' = spoilt
  <2>1. wpc'[j] = "loop" /\ pipe'[j] = pipe[j] - 1 /\ got'[j] = got[j] + 1
        /\ pipe[j] \in Nat /\ got[j] \in Nat /\ left[j] \in Nat
    BY <1>3, SizeIsNat DEF IInv, Types, DataTypes
  <2>2. j \notin spoilt => left[j] + pipe[j] + got[j] = Size
    BY <1>1 DEF Working, Chunks
  <2>3. j \notin spoilt' => left'[j] + pipe'[j] + got'[j] = Size
    BY <1>1, <1>3, <2>1, <2>2
  <2>4. Only(j)
    BY <1>1, <1>3 DEF IInv, Types, DataTypes, Only, serverVars
  <2>5. /\ (Opens(j) /\ replies = <<>>) => (Opens(j) /\ replies = <<>>)'
        /\ Moves(j) => Moves(j)'
        /\ Completed(j) => Completed(j)'
        /\ replies' = replies
    BY <1>1 DEF Opens, Moves, Completed, Answered, Free, controlVars, serverVars
  <2>6. Chunks(j)'
    <3>1. replies = <<ReplyTo(j, 226)>> => left[j] = 0
      BY <1>1 DEF Working, Chunks
    <3> QED
      BY <1>1, <2>1, <2>3, <2>5, <3>1 DEF Chunks
  <2>7. Working(j)'
    BY <1>1, <1>2, <1>3, <2>1, <2>5, <2>6 DEF Working, Line, Opened
  <2> QED
    BY <1>1, <2>4, <2>7, GoesOn DEF Active, InOrder, controlVars
<1>4. CASE /\ pipe[j] = 0 /\ Deserted(j) /\ wpc' = [wpc EXCEPT ![j] = "close"]
           /\ socket' = [socket EXCEPT ![j] = "lost"] /\ UNCHANGED <<pipe, got, spoilt>>
  <2>1. Completed(j)
    BY <1>1, <1>4, NoneIsNoJob DEF Deserted, Working, Opens, Moves
  <2> QED
    BY <1>1, <1>4, <2>1, PlaceInOrder
<1>5. CASE /\ wpc' = [wpc EXCEPT ![j] = "close"] /\ socket' = socket
           /\ pipe' = [pipe EXCEPT ![j] = pipe[j] - 1]
           /\ got' = got \/ got' = [got EXCEPT ![j] = got[j] + 1]
           /\ spoilt' = spoilt \cup {j}
  <2>1. wpc'[j] = "close" /\ j \in spoilt'
    BY <1>5 DEF IInv
  <2>2. Only(j)
    BY <1>1, <1>5 DEF IInv, Types, DataTypes, Only, serverVars
  <2>3. /\ (Opens(j) /\ replies = <<>>) => (Opens(j) /\ replies = <<>>)'
        /\ Moves(j) => Moves(j)'
        /\ Completed(j) => Completed(j)'
        /\ replies' = replies
    BY <1>1 DEF Opens, Moves, Completed, Answered, Free, controlVars, serverVars
  <2>4. Chunks(j)'
    <3>1. replies = <<ReplyTo(j, 226)>> => left[j] = 0
      BY <1>1 DEF Working, Chunks
    <3> QED
      BY <1>1, <2>1, <2>3, <3>1 DEF Chunks
  <2>5. Line(j)'
    BY <1>2, <1>5, <2>1 DEF Line
  <2>6. Working(j)'
    BY <1>1, <2>3, <2>4, <2>5 DEF Working
  <2> QED
    BY <1>1, <2>2, <2>6, GoesOn DEF Active, InOrder, controlVars
<1> QED
  BY <1>2, <1>3, <1>4, <1>5 DEF Receive

\* A chunk is sent, or the file is at its end.
LEMMA SendChunkInOrder ==
    ASSUME IInv, Types, InOrder, NEW j \in Jobs, Alone(j), Working(j), SendChunk(j), calm'
    PROVE  InOrder'
<1>1. /\ wpc[j] = "io" /\ kind[j] = "STOR" /\ wpc[j] \in Opened
      /\ UNCHANGED <<controlVars, serverVars, connection, got, jpc, kind, apc, cancel_event>>
  BY DEF SendChunk, Opened, userVars, eventVars
<1>2. connection = j /\ socket[j] = "open"
  BY <1>1 DEF Working, Line
<1>3. CASE /\ left[j] = 0 /\ wpc' = [wpc EXCEPT ![j] = "close"]
           /\ UNCHANGED <<socket, pipe, left, told, spoilt>>
  BY <1>1, <1>3, PlaceInOrder
<1>4. CASE /\ left[j] > 0 /\ wpc' = [wpc EXCEPT ![j] = "loop"] /\ UNCHANGED <<socket, told, spoilt>>
           /\ pipe' = IF j \in fin THEN pipe ELSE [pipe EXCEPT ![j] = pipe[j] + 1]
           /\ left' = [left EXCEPT ![j] = left[j] - 1]
  <2>1. wpc'[j] = "loop" /\ (j \notin fin => pipe'[j] = pipe[j] + 1) /\ left'[j] = left[j] - 1
        /\ pipe[j] \in Nat /\ got[j] \in Nat /\ left[j] \in Nat
    BY <1>4, SizeIsNat DEF IInv, Types, DataTypes
  <2>2. j \notin spoilt /\ j \notin fin => left[j] + pipe[j] + got[j] = Size
    BY <1>1 DEF Working, Chunks
  <2>3. j \notin spoilt' /\ j \notin fin => left'[j] + pipe'[j] + got'[j] = Size
    BY <1>1, <1>4, <2>1, <2>2
  <2>4. Only(j)
    BY <1>1, <1>4 DEF IInv, Types, DataTypes, Only, serverVars
  <2>5. /\ (Opens(j) /\ replies = <<>>) => (Opens(j) /\ replies = <<>>)'
        /\ Moves(j) => Moves(j)'
        /\ Completed(j) => Completed(j)'
        /\ replies' = replies /\ fin' = fin
    BY <1>1 DEF Opens, Moves, Completed, Answered, Free, controlVars, serverVars
  <2>6. Chunks(j)'
    <3>1. replies # <<ReplyTo(j, 226)>>
      BY <1>1 DEF Working, Chunks
    <3> QED
      BY <1>1, <2>1, <2>3, <2>5, <3>1 DEF Chunks
  <2>7. Working(j)'
    BY <1>1, <1>2, <1>4, <2>1, <2>5, <2>6 DEF Working, Line, Opened
  <2> QED
    BY <1>1, <2>4, <2>7, GoesOn DEF Active, InOrder, controlVars
<1> QED
  BY <1>2, <1>3, <1>4 DEF SendChunk, Disturb

\* The connection is closed before the completion reply is read.
LEMMA CloseInOrder ==
    ASSUME IInv, Types, InOrder, NEW j \in Jobs, Alone(j), Working(j), CloseData(j)
    PROVE  InOrder'
<1>1. /\ wpc[j] = "close" /\ wpc' = [wpc EXCEPT ![j] = "reply"] /\ socket' = Closed
      /\ UNCHANGED <<controlVars, serverVars, connection, pipe, left, got, jpc, kind, apc,
                     cancel_event, told, spoilt>>
  BY DEF CloseData, Work, userVars, eventVars
<1>2. connection = j /\ socket[j] # "none"
  BY <1>1 DEF Working, Line, Opened
<1>3. socket' = [socket EXCEPT ![j] = "closed"]
  BY <1>1, <1>2, NoneIsNoJob DEF Closed
<1>4. wpc'[j] = "reply" /\ socket'[j] = "closed"
  BY <1>1, <1>3 DEF IInv, Types, DataTypes
<1>5. Only(j)
  BY <1>1, <1>3 DEF IInv, Types, DataTypes, Only, serverVars
<1>6. /\ (Opens(j) /\ replies = <<>>) => (Opens(j) /\ replies = <<>>)'
      /\ Moves(j) => Moves(j)'
      /\ Completed(j) => Completed(j)'
      /\ replies' = replies
  BY <1>1 DEF Opens, Moves, Completed, Answered, Free, controlVars, serverVars
<1>7. Chunks(j)'
  <2>1. Chunks(j)
    BY DEF Working
  <2>2. replies = <<ReplyTo(j, 226)>> => kind[j] = "RETR" /\ left[j] = 0
    BY <1>1, <2>1 DEF Chunks
  <2> QED
    BY <1>1, <1>4, <1>6, <2>1, <2>2 DEF Chunks, serverVars
<1>8. Working(j)'
  BY <1>1, <1>2, <1>4, <1>6, <1>7 DEF Working, Line
<1> QED
  BY <1>1, <1>5, <1>8, GoesOn DEF Active, InOrder, controlVars

\* The completion reply is its own; success is told of a file that is whole.
LEMMA WorkerReplyInOrder ==
    ASSUME IInv, Types, InOrder, NEW j \in Jobs, Alone(j), Working(j), WorkerReply(j)
    PROVE  InOrder'
<1>1. /\ wpc[j] = "reply" /\ wpc' = [wpc EXCEPT ![j] = "release"]
      /\ replies # <<>> /\ replies' = Tail(replies)
      /\ Conclude(j, Verdict(j, Head(replies)))
      /\ UNCHANGED <<requests, is_connected, serverVars, dataVars, jpc, kind, apc, spoilt>>
  BY DEF WorkerReply, Work, Read, userVars
<1>2. Completed(j)
  BY <1>1 DEF Working, Moves
<1>3. PICK code \in {226, 425, 426, 451} : replies = <<ReplyTo(j, code)>>
  BY <1>2 DEF Completed, Answered
<1>4. Free /\ requests = <<>>
  BY <1>2 DEF Completed, Answered
<1>5. Head(replies).code = code
  BY <1>3, Firsts, Codings
<1>6. Quiet'
  <2>1. replies' = <<>>
    BY <1>1, <1>3, Firsts
  <2> QED
    BY <1>1, <1>4, <2>1 DEF Quiet, Free, serverVars
<1>7. Success(Head(replies)) => code = 226
  BY <1>5 DEF Success
<1>8. Verdict(j, Head(replies)) = "completed" => code = 226 /\ j \notin cancel_event
  BY <1>7 DEF Verdict
<1>9. code = 226 /\ j \notin cancel_event /\ j \notin spoilt => got[j] = Size
  <2> SUFFICES ASSUME code = 226, j \notin cancel_event, j \notin spoilt PROVE got[j] = Size
    OBVIOUS
  <2>1. pipe[j] \in Nat /\ got[j] \in Nat /\ left[j] \in Nat
        /\ (kind[j] = "RETR" \/ kind[j] = "STOR")
    BY SizeIsNat DEF Types, DataTypes, UserTypes, Kinds
  <2>2. Chunks(j) /\ replies = <<ReplyTo(j, 226)>>
    BY <1>3 DEF Working
  <2>3. CASE kind[j] = "RETR"
    BY <1>1, <2>1, <2>2, <2>3 DEF Chunks
  <2>4. CASE kind[j] = "STOR"
    BY <1>1, <2>1, <2>2, <2>4 DEF Chunks
  <2> QED
    BY <2>1, <2>3, <2>4
<1>10. Through(j)'
  <2>1. /\ told' = [told EXCEPT ![j] = IF Verdict(j, Head(replies)) = "completed"
                                       THEN "success" ELSE "failure"]
        /\ got' = got
    BY <1>1 DEF Conclude, dataVars
  <2>2. told'[j] = "success" => Verdict(j, Head(replies)) = "completed"
    BY <2>1 DEF Types, WorkerTypes
  <2>3. Whole(j)'
    BY <1>1, <1>8, <1>9, <2>1, <2>2 DEF Whole
  <2>4. jpc'[j] = "started" /\ wpc'[j] = "release"
    BY <1>1 DEF IInv, Working
  <2> QED
    BY <1>6, <2>3, <2>4 DEF Through
<1>11. Only(j)
  BY <1>1 DEF IInv, Types, WorkerTypes, Conclude, Only, serverVars, dataVars
<1> QED
  BY <1>1, <1>10, <1>11, GoesOn DEF Active, InOrder

\* The slot is returned, and nothing is left over.
LEMMA ReleaseInOrder ==
    ASSUME IInv, Types, InOrder, NEW j \in Jobs, Alone(j), ReleaseSlot(j)
    PROVE  InOrder'
<1>1. /\ wpc[j] = "release" /\ wpc' = [wpc EXCEPT ![j] = "done"]
      /\ UNCHANGED <<controlVars, serverVars, dataVars, jpc, apc, told, spoilt>>
  BY DEF ReleaseSlot, Work, userVars
<1>2. jpc[j] = "started"
  BY <1>1 DEF IInv
<1>3. Through(j)
  BY <1>1, <1>2 DEF Alone, Active, Asking, Passive, Requesting, Working, Line, Opened
<1>4. wpc'[j] = "done"
  BY <1>1 DEF IInv
<1>5. Quiet'
  BY <1>1, <1>3 DEF Through, Quiet, Free, controlVars, serverVars
<1>6. Resting(j)'
  BY <1>1, <1>2, <1>3, <1>4 DEF Through, Resting, Over, Whole, dataVars
<1>7. Only(j)
  BY <1>1 DEF IInv, Only, serverVars, dataVars
<1> QED
  BY <1>1, <1>5, <1>6, <1>7, ComesToRest DEF InOrder, controlVars

\* No step of a worker puts a calm client out of order, unless it disturbs it.
LEMMA WorkerInOrder ==
    ASSUME IInv, Types, InOrder, NEW j \in Jobs, Worker(j), calm' PROVE InOrder'
<1>1. jpc[j] = "started" /\ wpc[j] \in Opened \cup {"close", "reply", "release"}
  <2>1. wpc[j] \in Opened \cup {"close", "reply", "release"}
    BY DEF Worker, WaitForSlot, AcquireSlot, Begin, LoopHead, Unpaused, Receive, SendChunk,
           CloseData,
       WorkerReply, WorkerReplyFails, ReleaseSlot, Work, Opened
  <2> QED
    BY <2>1 DEF IInv, Opened
<1>2. Alone(j)
  <2>1. ~ Over(j)
    BY <1>1 DEF Over, Opened
  <2> QED
    BY <2>1, NotOverIsAlone
<1>3. CASE ReleaseSlot(j)
  BY <1>2, <1>3, ReleaseInOrder
<1>4. CASE wpc[j] # "release"
  <2>1. Working(j)
    BY <1>1, <1>2, <1>4, WorkingForJob
  <2>2. CASE WaitForSlot(j) \/ AcquireSlot(j) \/ Unpaused(j)
    <3>1. PICK to \in {"slot", "begin", "io"} :
             /\ wpc' = [wpc EXCEPT ![j] = to] /\ wpc[j] \in {"pending", "slot", "paused"}
             /\ UNCHANGED <<controlVars, serverVars, dataVars, userVars, eventVars, told, spoilt>>
      BY <2>2 DEF WaitForSlot, AcquireSlot, Unpaused, Work
    <3>2. wpc[j] \in Opened /\ to \in Opened \cup {"close"} /\ to # "close"
      BY <3>1 DEF Opened
    <3> QED
      BY <1>2, <2>1, <3>1, <3>2, PlaceInOrder DEF dataVars, userVars, eventVars
  <2>3. CASE LoopHead(j)
    <3>1. PICK to : to = IF j \in cancel_event THEN "close" ELSE "paused"
      OBVIOUS
    <3>2. /\ wpc' = [wpc EXCEPT ![j] = to] /\ wpc[j] = "loop"
          /\ UNCHANGED <<controlVars, serverVars, dataVars, userVars, eventVars, told, spoilt>>
      BY <2>3, <3>1 DEF LoopHead, Work
    <3>3. wpc[j] \in Opened /\ to \in Opened \cup {"close"} /\ (to = "close" => j \in cancel_event)
      BY <3>1, <3>2 DEF Opened
    <3> QED
      BY <1>2, <2>1, <3>2, <3>3, PlaceInOrder DEF dataVars, userVars, eventVars
  <2>4. CASE Begin(j)
    <3>1. /\ wpc[j] = "begin" /\ wpc' = [wpc EXCEPT ![j] = "loop"]
          /\ socket' = [socket EXCEPT ![connection] = "open"]
          /\ UNCHANGED <<controlVars, serverVars, connection, pipe, left, got, userVars, eventVars,
                         told, spoilt>>
      BY <2>4 DEF Begin, Disturb
    <3>2. connection = j
      BY <2>1 DEF Working
    <3>3. wpc[j] \in Opened /\ "loop" \in Opened \cup {"close"}
      BY <3>1 DEF Opened
    <3> QED
      BY <1>2, <2>1, <3>1, <3>2, <3>3, PlaceInOrder DEF userVars, eventVars
  <2>5. ~ WorkerReplyFails(j)
    <3>1. is_connected /\ ~ Stranded
      BY <1>2, <2>1, NotStranded DEF InOrder
    <3> QED
      BY <3>1 DEF WorkerReplyFails, FindsLost, TimedOut
  <2> QED
    BY <1>2, <1>4, <2>1, <2>2, <2>3, <2>4, <2>5, ReceiveInOrder, SendChunkInOrder, CloseInOrder,
       WorkerReplyInOrder, ReleaseInOrder DEF Worker
<1> QED
  BY <1>2, <1>3, <1>4 DEF Worker, WaitForSlot, AcquireSlot, Begin, LoopHead, Unpaused, Receive,
     SendChunk, CloseData, WorkerReply, WorkerReplyFails, ReleaseSlot, Work

-----------------------------------------------------------------------------
\* Cancelling, pausing and resuming disturb nothing.
LEMMA EventsInOrder ==
    ASSUME InOrder, cancel_event \in SUBSET (cancel_event'),
           UNCHANGED <<controlVars, serverVars, dataVars, jpc, kind, apc, wpc, told, spoilt>>
    PROVE  InOrder'
<1> USE DEF controlVars, serverVars, dataVars
<1>1. Quiet' <=> Quiet
  BY DEF Quiet, Free
<1>2. ASSUME NEW j \in Jobs PROVE Resting(j) => Resting(j)'
  BY DEF Resting, Over, Fresh, Whole
<1>3. ASSUME NEW j \in Jobs, Active(j) PROVE Active(j)'
  <2>1. CASE Asking(j)
    BY <2>1 DEF Active, Asking, Asked, Answered, Free, Fresh
  <2>2. CASE Passive(j)
    BY <1>1, <2>2 DEF Active, Passive, Fresh
  <2>3. CASE Requesting(j)
    BY <2>3 DEF Active, Requesting, Asked, Answered, Opens, Free, Fresh
  <2>4. CASE Working(j)
    <3>1. Completed(j)' <=> Completed(j)
      BY DEF Completed, Answered, Free
    <3>2. Chunks(j)'
      <4>1. Chunks(j) /\ (j \in cancel_event => j \in cancel_event')
        BY <2>4 DEF Working
      <4> QED
        BY <3>1, <4>1 DEF Chunks
    <3> QED
      BY <2>4, <3>1, <3>2 DEF Active, Working, Line, Opens, Moves
  <2>5. CASE Through(j)
    BY <1>1, <2>5 DEF Active, Through, Whole
  <2> QED
    BY <1>3, <2>1, <2>2, <2>3, <2>4, <2>5 DEF Active
<1>4. \A j \in Jobs : Alone(j) => Alone(j)'
  BY <1>2, <1>3 DEF Alone
<1> QED
  BY <1>1, <1>2, <1>4 DEF InOrder

LEMMA ToggleInOrder ==
    ASSUME InOrder, NEW j \in Jobs,
           Cancel(j) \/ Toggle(j) \/ (\E how \in {"pause", "resume"} : ToggleSet(j, how))
    PROVE  InOrder'
<1>1. /\ cancel_event \in SUBSET (cancel_event')
      /\ UNCHANGED <<controlVars, serverVars, dataVars, jpc, kind, apc, wpc, told, spoilt>>
  <2>1. CASE Cancel(j)
    BY <2>1 DEF Cancel, CancelAll, userVars
  <2>2. CASE Toggle(j)
    BY <2>2 DEF Toggle, eventVars
  <2>3. CASE \E how \in {"pause", "resume"} : ToggleSet(j, how)
    BY <2>3 DEF ToggleSet
  <2> QED
    BY <2>1, <2>2, <2>3
<1> QED
  BY <1>1, EventsInOrder

\* A client that is disturbed is not calm again.
LEMMA NextCalm == IInv /\ Types /\ CalmInv /\ [Next]_vars => CalmInv'
<1> SUFFICES ASSUME IInv, Types, CalmInv, [Next]_vars, calm' PROVE InOrder'
  BY DEF CalmInv
<1>1. calm
  <2>1. CASE ServerStep \/ ServerBreaks
    BY <2>1 DEF ServerStep, ServerBreaks, HandlePasv, HandleTransfer, Accept, AcceptFails,
                HandleAbor,
       HandleOther, ServerMoves, ServerFinishes, Finishes
  <2>2. CASE OtherCommand \/ AbortStep \/ (\E ui \in {"cli", "gui"} : Abort(ui))
    BY <2>2 DEF OtherCommand, AbortStep, AbortReply, AbortFails, AbortStop, AbortClose, Abort,
       Disturb
  <2>3. ASSUME NEW j \in Jobs, (\E k \in {"RETR", "STOR"} : Pasv(j, k)) \/ UserStep(j)
        PROVE  calm
    BY <2>3 DEF Pasv, Disturb, UserStep, PasvReply, RetrOrStor, RetrReply, CommandFails
  <2>4. ASSUME NEW j \in Jobs, Worker(j) \/ LocalError(j) PROVE calm
    BY <2>4 DEF LocalError, Worker, WaitForSlot, AcquireSlot, Begin, LoopHead, Unpaused, Receive,
                SendChunk,
       CloseData, WorkerReply, WorkerReplyFails, ReleaseSlot, Disturb
  <2>5. ASSUME NEW j \in Jobs,
               Cancel(j) \/ Toggle(j) \/ (\E how \in {"pause", "resume"} : ToggleSet(j, how))
        PROVE  calm
    BY <2>5 DEF Cancel, Toggle, ToggleSet
  <2>6. CASE UNCHANGED vars
    BY <2>6 DEF vars
  <2> QED
    BY <2>1, <2>2, <2>3, <2>4, <2>5, <2>6 DEF Next
<1>2. InOrder
  BY <1>1 DEF CalmInv
<1>3. CASE ServerStep \/ ServerBreaks
  BY <1>2, <1>3, ServerInOrder
<1>4. ~ AbortStep /\ ~ OtherCommand
  BY <1>2 DEF InOrder, AbortStep, AbortReply, AbortFails, AbortStop, AbortClose, Aborting,
     OtherCommand, Disturb
<1>5. ~ \E ui \in {"cli", "gui"} : Abort(ui)
  BY DEF Abort, Disturb
<1>6. ASSUME NEW j \in Jobs, NEW k \in {"RETR", "STOR"}, Pasv(j, k) PROVE InOrder'
  BY <1>1, <1>2, <1>6, StartInOrder
<1>7. ASSUME NEW j \in Jobs,
             \/ UserStep(j) \/ Worker(j) \/ LocalError(j)
             \/ Cancel(j) \/ Toggle(j) \/ \E how \in {"pause", "resume"} : ToggleSet(j, how)
      PROVE  InOrder'
  <2>1. ~ LocalError(j)
    BY DEF LocalError, Disturb
  <2> QED
    BY <1>2, <1>7, <2>1, UserInOrder, WorkerInOrder, ToggleInOrder
<1>8. CASE UNCHANGED vars
  BY <1>2, <1>8, EventsInOrder DEF vars, userVars, eventVars
<1> QED
  BY <1>3, <1>4, <1>5, <1>6, <1>7, <1>8 DEF Next

\* Until the user disturbs the client, one job at a time has its connections.
THEOREM StaysInOrder == Spec => []CalmInv
  BY Invariance, InitTypes, NextTypes, InitCalm, NextCalm, PTL DEF Spec

\* Whoever waits for a reply finds its own at the head, as long as transfers
\* follow one another, also after one that was cancelled, paused, refused or
\* broken (connection.py recv_multiline, commands.py, transfer.py).
THEOREM RepliesReachReaders == Spec => []RepliesMatch
<1>1. IInv /\ CalmInv => RepliesMatch
  <2> SUFFICES ASSUME IInv, CalmInv, NEW j \in Jobs, calm, replies # <<>>, Expects(j) # {}
               PROVE  Head(replies).job = j /\ Head(replies).code \in Expects(j)
    BY DEF RepliesMatch
  <2>1. InOrder
    BY DEF CalmInv
  <2>2. \/ jpc[j] = "pasv" /\ Expects(j) = {227, 425}
        \/ jpc[j] = "retr" /\ Expects(j) = {150, 450}
        \/ /\ jpc[j] = "started" /\ wpc[j] = "reply"
           /\ Expects(j) = {225, 226, 425, 426, 451}
    BY DEF Expects
  <2>3. Alone(j)
    <3>1. ~ Over(j)
      BY <2>2 DEF IInv, Over
    <3> QED
      BY <2>1, <3>1, NotOverIsAlone
  <2>4. CASE jpc[j] = "pasv"
    <3>1. Asking(j)
      BY <2>3, <2>4 DEF Alone, Active, Passive, Requesting, Working, Through
    <3>2. PICK code \in {227, 425} : replies = <<ReplyTo(j, code)>>
      BY <3>1 DEF Asking, Asked, Answered
    <3> QED
      BY <2>2, <2>4, <3>2, Firsts, Codings
  <2>5. CASE jpc[j] = "retr"
    <3>1. Requesting(j)
      BY <2>3, <2>5 DEF Alone, Active, Asking, Passive, Working, Through
    <3>2. \/ replies = <<ReplyTo(j, 450)>> \/ replies = <<ReplyTo(j, 150)>>
          \/ replies = <<ReplyTo(j, 150), ReplyTo(j, 425)>>
      BY <3>1 DEF Requesting, Asked, Answered
    <3>3. Head(<<ReplyTo(j, 150), ReplyTo(j, 425)>>) = ReplyTo(j, 150)
      BY TakeFirst
    <3>4. Head(replies) = ReplyTo(j, 450) \/ Head(replies) = ReplyTo(j, 150)
      BY <3>2, <3>3, Firsts
    <3> QED
      BY <2>2, <2>5, <3>4, Codings
  <2>6. CASE jpc[j] = "started" /\ wpc[j] = "reply"
    <3>1. Working(j)
      BY <2>3, <2>6 DEF Alone, Active, Asking, Passive, Requesting, Through
    <3>2. PICK code \in {226, 425, 426, 451} : replies = <<ReplyTo(j, code)>>
      BY <3>1 DEF Working, Moves, Completed, Answered
    <3> QED
      BY <2>2, <2>6, <3>2, Firsts, Codings
  <2> QED
    BY <2>2, <2>4, <2>5, <2>6
<1> QED
  BY Invariance, StaysInOrder, <1>1, PTL

\* No thread of a client that is not disturbed waits for a reply in vain, so
\* that the control connection is not marked as lost.
THEOREM ConnectionKept == Spec => []StaysConnected
<1>1. CalmInv => StaysConnected
  BY DEF CalmInv, InOrder, StaysConnected
<1> QED
  BY StaysInOrder, <1>1, PTL

\* A callback of a client that is not disturbed is told of success only when
\* the whole file has arrived, or an exception in the loop of the download has
\* cut it short, which transfer.py reports in no other way.
THEOREM SuccessesWholeUnlessSpoilt == Spec => []SuccessIsWholeUnlessSpoilt
<1>1. CalmInv => SuccessIsWholeUnlessSpoilt
  <2> SUFFICES ASSUME CalmInv, NEW j \in Jobs, calm, told[j] = "success"
               PROVE  got[j] = Size \/ j \in spoilt
    BY DEF SuccessIsWholeUnlessSpoilt
  <2>1. InOrder
    BY DEF CalmInv
  <2>2. Active(j) \/ Resting(j)
    BY <2>1 DEF InOrder, Alone
  <2> QED
    BY <2>2 DEF Active, Asking, Passive, Requesting, Working, Through, Resting, Fresh, Whole
<1> QED
  BY StaysInOrder, <1>1, PTL
=============================================================================
