------------------------ MODULE ClusterIntegrity_proofs ------------------------
(***************************************************************************)
(* Theorems about ClusterIntegrity, for any set of files, of contents and  *)
(* of task names and any bounds: every variable keeps its type, and a flag *)
(* that is taken always belongs to a task that will release it.  Where no  *)
(* request of a sync loop times out and no flag is taken for abandoned,    *)
(* rounds of synchronisation follow one another: two of them never         *)
(* overlap, and the metadata the master compares are those of the worker's *)
(* files at that moment.  Where besides no file fails to be read and       *)
(* neither daemon starts again, the worker's files are a replica of the    *)
(* master's: ClusterIntegrity implements FileReplica.                      *)
(***************************************************************************)
EXTENDS ClusterIntegrity, TLAPS

(* Taking one message out of a queue leaves a queue of the same messages.  *)
LEMMA RemoveAtType ==
    ASSUME NEW S, NEW q \in Seq(S), NEW i \in DOMAIN q
    PROVE  RemoveAt(q, i) \in Seq(S)
<1>1. SubSeq(q, 1, i - 1) \in Seq(S)
  OBVIOUS
<1>2. SubSeq(q, i + 1, Len(q)) \in Seq(S)
  OBVIOUS
<1> QED
  BY <1>1, <1>2 DEF RemoveAt

LEMMA AppendType ==
    ASSUME NEW S, NEW q \in Seq(S), NEW e \in S
    PROVE  Append(q, e) \in Seq(S)
  OBVIOUS

LEMMA HeadTailType ==
    ASSUME NEW S, NEW q \in Seq(S), q # <<>>
    PROVE  Head(q) \in S /\ Tail(q) \in Seq(S)
  OBVIOUS

LEMMA NothingType == Nothing \in Load /\ Nothing \in KoFiles /\ Load \subseteq KoFiles
  BY DEF Nothing, Load, KoFiles

(* What is sent is a message if its parts have their types.                *)
LEMMA MsgType ==
    ASSUME NEW cmd \in Requests \cup Responses, NEW proc \in TaskIds \cup {Loop, None},
           NEW task \in TaskIds \cup {None}, NEW load \in Load, NEW at \in Nat
    PROVE  Msg(cmd, proc, task, load, at) \in Message
  BY DEF Msg, Message

LEMMA RequestType ==
    ASSUME NEW cmd \in Requests, NEW proc \in TaskIds \cup {Loop, None}
    PROVE  Request(cmd, proc) \in Message
  BY MsgType, NothingType DEF Request

LEMMA TaskRequestType ==
    ASSUME NEW cmd \in Requests, NEW proc \in TaskIds \cup {Loop, None},
           NEW task \in TaskIds \cup {None}
    PROVE  TaskRequest(cmd, proc, task) \in Message
  BY MsgType, NothingType DEF TaskRequest

LEMMA AnswerType ==
    ASSUME NEW q \in Seq(Message), NEW m \in Message, NEW cmd \in Responses,
           NEW task \in TaskIds \cup {None}
    PROVE  Answer(q, m, cmd, task) \in Seq(Message)
<1>1. m.proc \in TaskIds \cup {Loop, None}
  BY DEF Message
<1>2. Msg(cmd, m.proc, task, Nothing, 0) \in Message
  BY <1>1, MsgType, NothingType
<1> QED
  BY <1>2 DEF Answer

LEMMA ForgottenType ==
    ASSUME NEW q \in Seq(Message), NEW i \in DOMAIN q
    PROVE  Forgotten(q, i) \in Seq(Message)
<1>1. q[i] \in Message
  OBVIOUS
<1>2. [q[i] EXCEPT !.proc = None] \in Message
  BY <1>1 DEF Message
<1> QED
  BY <1>2 DEF Forgotten

LEMMA OvertakenType ==
    ASSUME NEW q \in Seq(Message), NEW i \in DOMAIN q, NEW j \in DOMAIN q, i < j
    PROVE  Overtaken(q, i, j) \in Seq(Message)
<1>1. \A k \in DOMAIN q : q[k] \in Message
  OBVIOUS
<1>2. [q[i] EXCEPT !.late = TRUE] \in Message
  BY <1>1 DEF Message
<1> DEFINE e(k) == IF k < i \/ k > j THEN q[k]
                   ELSE IF k < j THEN q[k + 1] ELSE [q[i] EXCEPT !.late = TRUE]
<1>3. \A k \in 1..Len(q) : e(k) \in Message
  BY <1>1, <1>2
<1>4. Overtaken(q, i, j) = [k \in 1..Len(q) |-> e(k)]
  BY DEF Overtaken
<1>5. Len(q) \in Nat
  OBVIOUS
<1> HIDE DEF e
<1> QED
  BY <1>3, <1>4, <1>5

(* The parts of the messages in the connection.                            *)
LEMMA ReceivedType ==
    ASSUME NEW q \in Seq(Message), NEW i \in DOMAIN q
    PROVE  /\ q[i] \in Message
           /\ q[i].cmd \in Requests \cup Responses
           /\ q[i].proc \in TaskIds \cup {Loop, None}
           /\ q[i].task \in TaskIds \cup {None}
           /\ q[i].load \in Load
           /\ q[i].at \in Nat
           /\ RemoveAt(q, i) \in Seq(Message)
<1>1. q[i] \in Message
  OBVIOUS
<1> QED
  BY <1>1, RemoveAtType DEF Message

LEMMA NewTaskType ==
    ASSUME \E u \in TaskIds : Unused(u)
    PROVE  NewTask \in TaskIds /\ Unused(NewTask)
  BY DEF NewTask

(* What is sent to the worker says, of every file, what to do with it.     *)
LEMMA CompareFilesType ==
    ASSUME NEW good \in FileMap, NEW check \in KoFiles
    PROVE  CompareFiles(good, check) \in KoFiles
  BY DEF CompareFiles, FileMap, KoFiles, FileState

LEMMA CompressFilesType ==
    ASSUME TypeOK, NEW ko \in KoFiles, NEW packed, NEW failed
    PROVE  CompressFiles(ko, packed, failed) \in Load
<1>1. MasterFiles \in FileMap
  BY DEF TypeOK, MasterFiles
<1> QED
  BY <1>1 DEF CompressFiles, FileMap, KoFiles, Load, FileState

LEMMA UpdatedType ==
    ASSUME TypeOK, NEW load \in Load, NEW skipped
    PROVE  Updated(load, skipped) \in FileMap
  BY DEF TypeOK, Updated, Load, FileMap

-----------------------------------------------------------------------------
(***************************************************************************)
(* Type correctness, action by action.                                     *)
(***************************************************************************)
MasterTasksOK ==
    /\ mTasks \in [TaskIds -> [pc : MasterPC, load : KoFiles, at : Nat]]
    /\ \A t \in TaskIds : mTasks[t].pc # "compress" => mTasks[t].load \in Load
WorkerTasksOK == wTasks \in [TaskIds -> [pc : WorkerPC, load : Load, at : Nat]]
ChannelsOK == toMaster \in Seq(Message) /\ toWorker \in Seq(Message)

LEMMA TypeParts == TypeOK => MasterTasksOK /\ WorkerTasksOK /\ ChannelsOK
  BY DEF TypeOK, MasterTasksOK, WorkerTasksOK, ChannelsOK

LEMMA TaskAtType ==
    /\ \A pc \in MasterPC : TaskAt(pc) \in [pc : MasterPC, load : Load, at : Nat]
    /\ \A pc \in WorkerPC : TaskAt(pc) \in [pc : WorkerPC, load : Load, at : Nat]
    /\ NoTask \in [pc : MasterPC, load : Load, at : Nat]
    /\ NoTask \in [pc : WorkerPC, load : Load, at : Nat]
  BY NothingType DEF TaskAt, NoTask, MasterPC, WorkerPC

LEMMA OtherTypes == ScanJob \in Job /\ Empty \in FileMap
  BY NothingType DEF ScanJob, Job, Empty, FileMap, FileState

LEMMA MasterTaskType ==
    ASSUME MasterTasksOK, NEW t \in TaskIds,
           NEW r \in [pc : MasterPC, load : KoFiles, at : Nat],
           r.pc # "compress" => r.load \in Load,
           mTasks' = [mTasks EXCEPT ![t] = r]
    PROVE  MasterTasksOK'
  BY DEF MasterTasksOK

LEMMA MasterTaskAtType ==
    ASSUME MasterTasksOK, NEW t \in TaskIds, NEW pc \in MasterPC,
           mTasks' = [mTasks EXCEPT ![t] = TaskAt(pc)]
    PROVE  MasterTasksOK'
<1> DEFINE r == TaskAt(pc)
<1>1. r \in [pc : MasterPC, load : KoFiles, at : Nat] /\ r.load \in Load
  BY TaskAtType, NothingType
<1> QED
  BY <1>1, MasterTaskType

LEMMA WorkerTaskAtType ==
    ASSUME WorkerTasksOK, NEW t \in TaskIds, NEW pc \in WorkerPC,
           wTasks' = [wTasks EXCEPT ![t] = TaskAt(pc)]
    PROVE  WorkerTasksOK'
  BY TaskAtType DEF WorkerTasksOK

LEMMA FaultType ==
    ASSUME TypeOK, NEW kind, Fault(kind) \/ UNCHANGED faults
    PROVE  faults' \in Nat
  BY DEF TypeOK, Fault

LEMMA InitType == Init => TypeOK
<1> SUFFICES ASSUME Init PROVE TypeOK
  OBVIOUS
<1>1. MasterTasksOK /\ WorkerTasksOK
  BY TaskAtType, NothingType DEF Init, MasterTasksOK, WorkerTasksOK
<1>2. hist \in Seq(FileMap) /\ hist # <<>>
  BY DEF Init
<1>3. integrityControl \in [at : Nat, files : FileMap]
  BY OtherTypes DEF Init
<1>4. /\ pool \in Seq(Job) /\ toMaster \in Seq(Message) /\ toWorker \in Seq(Message)
      /\ loop \in LoopPC /\ status \in Load
  BY NothingType DEF Init, LoopPC
<1>5. /\ integrityAlreadyExecuted \in BOOLEAN /\ syncIntegrityFree \in BOOLEAN
      /\ checkIntegrityFree \in BOOLEAN /\ connected \in BOOLEAN
      /\ faults \in Nat /\ applied \in Nat /\ workerFiles \in FileMap
  BY DEF Init
<1> QED
  BY <1>1, <1>2, <1>3, <1>4, <1>5 DEF TypeOK, MasterTasksOK, WorkerTasksOK

LEMMA ScanType ==
    ASSUME TypeOK, EditFile \/ FileStatusUpdate
    PROVE  TypeOK'
<1>1. MasterFiles \in FileMap
  BY DEF TypeOK, MasterFiles
<1>2. \A f \in Files, c \in FileState : [MasterFiles EXCEPT ![f] = c] \in FileMap
  BY <1>1 DEF FileMap
<1>3. CASE EditFile
  <2> PICK f \in Files, c \in FileState :
           hist' = Append(hist, [MasterFiles EXCEPT ![f] = c])
    BY <1>3 DEF EditFile
  <2> DEFINE m == [MasterFiles EXCEPT ![f] = c]
  <2>1. m \in FileMap /\ hist' = Append(hist, m)
    BY <1>2
  <2> HIDE DEF m
  <2>2. hist' \in Seq(FileMap) /\ hist' # <<>>
    BY <2>1 DEF TypeOK
  <2> QED
    BY <1>3, <2>2 DEF TypeOK, EditFile, workerVars, channels
<1>4. CASE FileStatusUpdate
  <2>1. faults' \in Nat
    BY <1>4, FaultType DEF FileStatusUpdate
  <2>2. PICK m \in FileMap : integrityControl' = [at |-> Len(hist), files |-> m]
    BY <1>1, <1>2, <1>4 DEF FileStatusUpdate, FileState
  <2>3. integrityControl' \in [at : Nat, files : FileMap]
    BY <2>2 DEF TypeOK
  <2> QED
    BY <1>4, <2>1, <2>3 DEF TypeOK, FileStatusUpdate, workerVars, channels
<1> QED
  BY <1>3, <1>4

LEMMA MasterHandlersType ==
    ASSUME TypeOK, MasterHandlers
    PROVE  TypeOK'
<1> USE TypeParts
<1>1. CASE GetPermission
  <2> PICK i \in DOMAIN toMaster : GetPermission!(i)
    BY <1>1 DEF GetPermission
  <2>1. PICK cmd \in Responses : toWorker' = Answer(toWorker, toMaster[i], cmd, None)
    BY DEF Permission, Responses
  <2>2. ChannelsOK'
    BY <2>1, ReceivedType, AnswerType DEF ChannelsOK
  <2>3. faults' \in Nat
    BY FaultType
  <2>4. integrityAlreadyExecuted' \in BOOLEAN /\ syncIntegrityFree' \in BOOLEAN
    BY DEF TypeOK
  <2> QED
    BY <2>2, <2>3, <2>4 DEF TypeOK, workerVars, ChannelsOK
<1>2. CASE SetupSyncIntegrity
  <2> PICK i \in DOMAIN toMaster : SetupSyncIntegrity!(i)
    BY <1>2 DEF SetupSyncIntegrity
  <2> DEFINE t == NewTask
  <2>1. t \in TaskIds
    BY NewTaskType
  <2>2. ChannelsOK'
    BY <2>1, ReceivedType, AnswerType DEF ChannelsOK, Responses
  <2>3. MasterTasksOK'
    BY <2>1, MasterTaskAtType DEF MasterPC
  <2> QED
    BY <2>2, <2>3 DEF TypeOK, workerVars, MasterTasksOK, ChannelsOK
<1>3. CASE EndReceivingIntegrityChecksums
  <2> PICK i \in DOMAIN toMaster : EndReceivingIntegrityChecksums!(i)
    BY <1>3 DEF EndReceivingIntegrityChecksums
  <2> DEFINE m == toMaster[i]
             r == [pc |-> "ready", load |-> m.load, at |-> 0]
  <2>1. PICK cmd \in Responses, task \in TaskIds \cup {None} :
             toWorker' = Answer(toWorker, m, cmd, task)
    BY ReceivedType DEF ChannelsOK, Responses
  <2>2. ChannelsOK'
    BY <2>1, ReceivedType, AnswerType DEF ChannelsOK
  <2>3. MasterTasksOK'
    <3>1. CASE UNCHANGED mTasks
      BY <3>1 DEF MasterTasksOK
    <3>2. CASE m.task # None /\ mTasks' = [mTasks EXCEPT ![m.task] = r]
      <4>1. m.task \in TaskIds /\ m.load \in Load
        BY <3>2, ReceivedType DEF ChannelsOK
      <4>2. r \in [pc : MasterPC, load : KoFiles, at : Nat] /\ r.load \in Load
        BY <4>1, NothingType DEF MasterPC
      <4> QED
        BY <3>2, <4>1, <4>2, MasterTaskType
    <3> QED
      BY <3>1, <3>2
  <2> QED
    BY <2>2, <2>3 DEF TypeOK, workerVars, MasterTasksOK, ChannelsOK
<1>4. CASE ProcessSyncErrorFromWorker
  <2> PICK i \in DOMAIN toMaster : ProcessSyncErrorFromWorker!(i)
    BY <1>4 DEF ProcessSyncErrorFromWorker
  <2>1. ChannelsOK'
    BY ReceivedType, AnswerType DEF ChannelsOK, Responses
  <2>2. MasterTasksOK'
    <3>1. CASE UNCHANGED mTasks
      BY <3>1 DEF MasterTasksOK
    <3>2. CASE /\ toMaster[i].task # None
               /\ mTasks' = [mTasks EXCEPT ![toMaster[i].task] = TaskAt("failed")]
      BY <3>2, ReceivedType, MasterTaskAtType DEF ChannelsOK, MasterPC
    <3> QED
      BY <3>1, <3>2
  <2> QED
    BY <2>1, <2>2 DEF TypeOK, workerVars, MasterTasksOK, ChannelsOK
<1>5. CASE CancelTaskOnMaster
  <2> PICK i \in DOMAIN toMaster : CancelTaskOnMaster!(i)
    BY <1>5 DEF CancelTaskOnMaster
  <2>1. ChannelsOK'
    BY ReceivedType, AnswerType DEF ChannelsOK, Responses
  <2> QED
    BY <2>1 DEF TypeOK, workerVars, masterVars, ChannelsOK
<1> QED
  BY <1>1, <1>2, <1>3, <1>4, <1>5 DEF MasterHandlers

(* The end of a task of the master, or of the worker.                      *)
LEMMA DoneType ==
    /\ \A t \in TaskIds : MasterTasksOK /\ MasterTaskDone(t)
          => MasterTasksOK' /\ syncIntegrityFree' \in BOOLEAN
    /\ \A t \in TaskIds : WorkerTasksOK /\ WorkerTaskDone(t)
          => WorkerTasksOK' /\ checkIntegrityFree' \in BOOLEAN
<1>1. ASSUME NEW t \in TaskIds, MasterTasksOK, MasterTaskDone(t)
      PROVE  MasterTasksOK'
  <2>1. mTasks' = [mTasks EXCEPT ![t] = TaskAt("none")]
    BY <1>1 DEF MasterTaskDone, NoTask
  <2> QED
    BY <1>1, <2>1, MasterTaskAtType DEF MasterPC
<1>2. ASSUME NEW t \in TaskIds, WorkerTasksOK, WorkerTaskDone(t)
      PROVE  WorkerTasksOK'
  <2>1. wTasks' = [wTasks EXCEPT ![t] = TaskAt("none")]
    BY <1>2 DEF WorkerTaskDone, NoTask
  <2> QED
    BY <1>2, <2>1, WorkerTaskAtType DEF WorkerPC
<1> QED
  BY <1>1, <1>2 DEF MasterTaskDone, WorkerTaskDone

LEMMA MasterTaskStepType ==
    ASSUME TypeOK, NEW t \in TaskIds, MasterTask(t)
    PROVE  TypeOK'
<1> USE TypeParts
<1>1. CASE Compare(t)
  <2> DEFINE ko == CompareFiles(integrityControl.files, mTasks[t].load)
             r  == [pc |-> "compress", load |-> ko, at |-> integrityControl.at]
  <2>1. ko \in KoFiles
    BY CompareFilesType DEF TypeOK
  <2> HIDE DEF ko
  <2>2. \/ /\ mTasks' = [mTasks EXCEPT ![t] = TaskAt("ok")]
           /\ toWorker' = Append(toWorker, Request("syn_m_c_ok", t))
        \/ mTasks' = [mTasks EXCEPT ![t] = r] /\ UNCHANGED toWorker
    BY <1>1 DEF Compare, ko
  <2>3. MasterTasksOK'
    <3>1. r \in [pc : MasterPC, load : KoFiles, at : Nat] /\ r.pc = "compress"
      BY <2>1 DEF MasterPC, TypeOK
    <3> QED
      BY <2>2, <3>1, MasterTaskType, MasterTaskAtType DEF MasterPC
  <2>4. ChannelsOK'
    <3>1. Request("syn_m_c_ok", t) \in Message
      BY RequestType DEF Requests
    <3> QED
      BY <1>1, <2>2, <3>1, AppendType DEF Compare, ChannelsOK
  <2> QED
    BY <1>1, <2>3, <2>4
    DEF Compare, TypeOK, workerVars, MasterTasksOK, ChannelsOK
<1>2. CASE Compress(t)
  <2> PICK packed, failed :
         /\ UNCHANGED faults \/ Fault("read")
         /\ mTasks' = [mTasks EXCEPT ![t] =
              [pc |-> "cmd", load |-> CompressFiles(mTasks[t].load, packed, failed),
               at |-> mTasks[t].at]]
    BY <1>2 DEF Compress
  <2> DEFINE load == CompressFiles(mTasks[t].load, packed, failed)
             r    == [pc |-> "cmd", load |-> load, at |-> mTasks[t].at]
  <2>1. load \in Load
    BY CompressFilesType DEF MasterTasksOK
  <2> HIDE DEF load
  <2>2. r \in [pc : MasterPC, load : KoFiles, at : Nat] /\ r.load \in Load
    BY <2>1, NothingType DEF MasterPC, MasterTasksOK
  <2>3. mTasks' = [mTasks EXCEPT ![t] = r]
    BY DEF load
  <2>4. MasterTasksOK'
    BY <2>2, <2>3, MasterTaskType
  <2>5. ChannelsOK'
    BY <1>2, RequestType DEF Compress, ChannelsOK, Requests
  <2>6. faults' \in Nat
    BY FaultType
  <2> QED
    BY <1>2, <2>4, <2>5, <2>6
    DEF Compress, TypeOK, workerVars, MasterTasksOK, ChannelsOK
<1>3. CASE MasterTaskAnswered(t)
  <2> PICK i \in DOMAIN toMaster : MasterTaskAnswered(t)!(i)
    BY <1>3 DEF MasterTaskAnswered
  <2>1. CASE mTasks[t].pc = "cmd"
    <3> DEFINE m == Msg("syn_m_c_e", t, toMaster[i].task, mTasks[t].load, mTasks[t].at)
    <3>1. m \in Message
      BY <2>1, ReceivedType, MsgType DEF MasterTasksOK, ChannelsOK, Requests
    <3>2. toWorker' = Append(toWorker, m)
      BY <2>1
    <3> HIDE DEF m
    <3>3. ChannelsOK'
      BY <3>1, <3>2, ReceivedType DEF ChannelsOK
    <3>4. MasterTasksOK'
      BY <2>1, MasterTaskAtType DEF MasterPC
    <3> QED
      BY <2>1, <3>3, <3>4 DEF TypeOK, workerVars, MasterTasksOK, ChannelsOK
  <2>2. CASE mTasks[t].pc # "cmd"
    <3>1. MasterTasksOK' /\ syncIntegrityFree' \in BOOLEAN
      BY <2>2, DoneType
    <3>2. ChannelsOK'
      BY <2>2, ReceivedType DEF ChannelsOK
    <3> QED
      BY <3>1, <3>2 DEF TypeOK, workerVars, MasterTasksOK, ChannelsOK
  <2> QED
    BY <2>1, <2>2
<1>4. CASE MasterTaskFails(t)
  <2>1. MasterTasksOK' /\ syncIntegrityFree' \in BOOLEAN
    BY <1>4, DoneType DEF MasterTaskFails
  <2>2. faults' \in Nat
    BY <1>4, FaultType DEF MasterTaskFails
  <2> QED
    BY <1>4, <2>1, <2>2
    DEF MasterTaskFails, TypeOK, workerVars, channels, MasterTasksOK
<1> QED
  BY <1>1, <1>2, <1>3, <1>4 DEF MasterTask

LEMMA MasterGivesUpType ==
    ASSUME TypeOK, NEW t \in TaskIds, NEW q \in Seq(Message),
           NEW wt \in TaskIds \cup {None}, MasterGivesUp(t, q, wt)
    PROVE  /\ MasterTasksOK'
           /\ syncIntegrityFree' \in BOOLEAN
           /\ toWorker' \in Seq(Message)
<1> USE TypeParts
<1>1. CASE mTasks[t].pc \in {"cmd", "end"}
  <2>1. TaskRequest("syn_m_c_r", t, wt) \in Message
    BY TaskRequestType DEF Requests
  <2>2. MasterTasksOK'
    BY <1>1, MasterTaskAtType DEF MasterGivesUp, MasterPC
  <2>3. toWorker' \in Seq(Message)
    BY <1>1, <2>1, AppendType DEF MasterGivesUp
  <2>4. syncIntegrityFree' \in BOOLEAN
    BY <1>1 DEF MasterGivesUp, TypeOK
  <2> QED
    BY <2>2, <2>3, <2>4
<1>2. CASE mTasks[t].pc \notin {"cmd", "end"}
  BY <1>2, DoneType DEF MasterGivesUp
<1> QED
  BY <1>1, <1>2

LEMMA MasterTimeoutsType ==
    ASSUME TypeOK, NEW t \in TaskIds, MasterFileTimeout(t) \/ MasterRequestTimeout(t)
    PROVE  TypeOK'
<1> USE TypeParts
<1>1. CASE MasterFileTimeout(t)
  <2>1. MasterTasksOK'
    BY <1>1, MasterTaskAtType DEF MasterFileTimeout, MasterPC
  <2>2. TaskRequest("cancel_task", t, t) \in Message
    BY TaskRequestType DEF Requests
  <2>3. ChannelsOK'
    BY <1>1, <2>2, AppendType DEF MasterFileTimeout, ChannelsOK
  <2>4. faults' \in Nat
    BY <1>1, FaultType DEF MasterFileTimeout
  <2> QED
    BY <1>1, <2>1, <2>3, <2>4
    DEF MasterFileTimeout, TypeOK, workerVars, MasterTasksOK, ChannelsOK
<1>2. CASE MasterRequestTimeout(t)
  <2>1. faults' \in Nat
    BY <1>2, FaultType DEF MasterRequestTimeout
  <2>2. MasterTasksOK' /\ syncIntegrityFree' \in BOOLEAN /\ ChannelsOK'
    <3>1. CASE \E i \in DOMAIN toWorker :
                 /\ MasterGivesUp(t, Forgotten(toWorker, i), toWorker[i].task)
                 /\ UNCHANGED toMaster
      BY <3>1, ForgottenType, ReceivedType, MasterGivesUpType DEF ChannelsOK
    <3>2. CASE \E i \in DOMAIN toMaster :
                 /\ MasterGivesUp(t, toWorker,
                       IF mTasks[t].pc = "cmd" THEN None ELSE toMaster[i].task)
                 /\ toMaster' = RemoveAt(toMaster, i)
      BY <3>2, ReceivedType, MasterGivesUpType DEF ChannelsOK
    <3> QED
      BY <1>2, <3>1, <3>2 DEF MasterRequestTimeout
  <2> QED
    BY <1>2, <2>1, <2>2
    DEF MasterRequestTimeout, TypeOK, workerVars, MasterTasksOK, ChannelsOK
<1> QED
  BY <1>1, <1>2

LEMMA WorkerLoopType ==
    ASSUME TypeOK, WorkerLoop \/ LoopFails
    PROVE  TypeOK'
<1> USE TypeParts
<1>1. CASE RequestPermission
  <2>1. ChannelsOK'
    <3>1. Request("syn_i_w_m_p", Loop) \in Message
      BY RequestType DEF Requests
    <3> QED
      BY <1>1, <3>1 DEF RequestPermission, ChannelsOK
  <2> QED
    BY <1>1, <2>1 DEF RequestPermission, TypeOK, masterVars, LoopPC, ChannelsOK
<1>2. CASE CollectStatus
  <2>1. pool' \in Seq(Job) /\ status' \in Load /\ loop' \in LoopPC
    BY <1>2 DEF CollectStatus, TypeOK, FileMap, Load, LoopPC
  <2> QED
    BY <1>2, <2>1 DEF CollectStatus, TypeOK, masterVars, channels
<1>3. CASE SendStatus
  <2>1. ChannelsOK'
    <3>1. Request("syn_i_w_m", Loop) \in Message
      BY RequestType DEF Requests
    <3> QED
      BY <1>3, <3>1 DEF SendStatus, ChannelsOK
  <2> QED
    BY <1>3, <2>1 DEF SendStatus, TypeOK, masterVars, LoopPC, ChannelsOK
<1>4. CASE LoopAnswered
  <2>0. PICK i \in DOMAIN toWorker : LoopAnswered!(i)
    BY <1>4 DEF LoopAnswered
  <2>1. toWorker' \in Seq(Message)
    BY <2>0, ReceivedType DEF ChannelsOK
  <2>2. /\ loop' \in LoopPC
        /\ pool' = pool \/ pool' = Append(pool, ScanJob)
        /\ status' = status \/ status' = Nothing
        /\ \/ toMaster' = toMaster
           \/ toMaster' = Append(toMaster,
                   Msg("syn_i_w_m_e", Loop, toWorker[i].task, status, 0))
    BY <2>0 DEF LoopPC
  <2>3. Msg("syn_i_w_m_e", Loop, toWorker[i].task, status, 0) \in Message
    BY ReceivedType, MsgType DEF TypeOK, Requests
  <2>4. ChannelsOK'
    <3> DEFINE m == Msg("syn_i_w_m_e", Loop, toWorker[i].task, status, 0)
    <3>1. m \in Message /\ (toMaster' = toMaster \/ toMaster' = Append(toMaster, m))
      BY <2>2, <2>3
    <3> HIDE DEF m
    <3> QED
      BY <2>1, <3>1 DEF ChannelsOK
  <2>5. pool' \in Seq(Job)
    <3>1. pool \in Seq(Job) /\ Append(pool, ScanJob) \in Seq(Job)
      BY OtherTypes, AppendType DEF TypeOK
    <3> QED
      BY <2>2, <3>1
  <2>6. status' \in Load
    BY <2>2, NothingType DEF TypeOK
  <2> QED
    BY <2>0, <2>2, <2>4, <2>5, <2>6 DEF TypeOK, masterVars, ChannelsOK
<1>5. CASE LoopFails
  <2>1. ChannelsOK'
    <3>1. Request("syn_i_w_m_r", Loop) \in Message
      BY RequestType DEF Requests
    <3> QED
      BY <1>5, <3>1 DEF LoopFails, ChannelsOK
  <2>2. faults' \in Nat
    BY <1>5, FaultType DEF LoopFails
  <2> QED
    BY <1>5, <2>1, <2>2, NothingType
    DEF LoopFails, TypeOK, masterVars, LoopPC, ChannelsOK
<1> QED
  BY <1>1, <1>2, <1>3, <1>4, <1>5 DEF WorkerLoop

LEMMA LoopTimeoutType ==
    ASSUME TypeOK, LoopRequestTimeout
    PROVE  TypeOK'
<1> USE TypeParts
<1>1. ASSUME NEW q \in Seq(Message), NEW t \in TaskIds \cup {None}, LoopGivesUp(q, t)
      PROVE  loop' \in LoopPC /\ toMaster' \in Seq(Message)
  <2>1. TaskRequest("syn_i_w_m_r", Loop, t) \in Message
    BY TaskRequestType DEF Requests
  <2> QED
    BY <1>1, <2>1 DEF LoopGivesUp, LoopPC
<1>2. loop' \in LoopPC /\ ChannelsOK'
  <2>1. CASE \E i \in DOMAIN toMaster :
               /\ LoopGivesUp(Forgotten(toMaster, i), toMaster[i].task)
               /\ UNCHANGED toWorker
    BY <1>1, <2>1, ForgottenType, ReceivedType DEF ChannelsOK
  <2>2. CASE \E i \in DOMAIN toWorker :
               /\ LoopGivesUp(toMaster,
                     IF loop = "cmd" THEN None ELSE toWorker[i].task)
               /\ toWorker' = RemoveAt(toWorker, i)
    BY <1>1, <2>2, ReceivedType DEF ChannelsOK
  <2> QED
    BY <2>1, <2>2 DEF LoopRequestTimeout
<1>3. faults' \in Nat
  BY FaultType DEF LoopRequestTimeout
<1> QED
  BY <1>2, <1>3, NothingType DEF LoopRequestTimeout, TypeOK, masterVars, ChannelsOK

LEMMA WorkerHandlersType ==
    ASSUME TypeOK, WorkerHandlers
    PROVE  TypeOK'
<1> USE TypeParts
<1>1. CASE AnswerOnWorker
  <2> PICK i \in DOMAIN toWorker : AnswerOnWorker!(i)
    BY <1>1 DEF AnswerOnWorker
  <2>1. ChannelsOK'
    BY ReceivedType, AnswerType DEF ChannelsOK, Responses
  <2> QED
    BY <2>1 DEF TypeOK, workerVars, masterVars, ChannelsOK
<1>2. CASE SetupReceiveFilesFromMaster
  <2> PICK i \in DOMAIN toWorker : SetupReceiveFilesFromMaster!(i)
    BY <1>2 DEF SetupReceiveFilesFromMaster
  <2> DEFINE t == NewTask
  <2>1. t \in TaskIds
    BY NewTaskType
  <2>2. ChannelsOK'
    BY <2>1, ReceivedType, AnswerType DEF ChannelsOK, Responses
  <2>3. WorkerTasksOK'
    BY <2>1, WorkerTaskAtType DEF WorkerPC
  <2> QED
    BY <2>2, <2>3 DEF TypeOK, masterVars, WorkerTasksOK, ChannelsOK
<1>3. CASE EndReceivingIntegrity
  <2> PICK i \in DOMAIN toWorker : EndReceivingIntegrity!(i)
    BY <1>3 DEF EndReceivingIntegrity
  <2> DEFINE m == toWorker[i]
             r == [pc |-> "ready", load |-> m.load, at |-> m.at]
  <2>1. PICK cmd \in Responses, task \in TaskIds \cup {None} :
             toMaster' = Answer(toMaster, m, cmd, task)
    BY ReceivedType DEF ChannelsOK, Responses
  <2>2. ChannelsOK'
    BY <2>1, ReceivedType, AnswerType DEF ChannelsOK
  <2>3. WorkerTasksOK'
    <3>1. CASE UNCHANGED wTasks
      BY <3>1 DEF WorkerTasksOK
    <3>2. CASE wTasks' = [wTasks EXCEPT ![m.task] = r]
      <4>1. r \in [pc : WorkerPC, load : Load, at : Nat]
        BY ReceivedType DEF WorkerPC, ChannelsOK
      <4> QED
        BY <3>2, <4>1 DEF WorkerTasksOK
    <3> QED
      BY <3>1, <3>2
  <2> QED
    BY <2>2, <2>3 DEF TypeOK, masterVars, WorkerTasksOK, ChannelsOK
<1>4. CASE ErrorReceivingIntegrity
  <2> PICK i \in DOMAIN toWorker : ErrorReceivingIntegrity!(i)
    BY <1>4 DEF ErrorReceivingIntegrity
  <2>1. ChannelsOK'
    BY ReceivedType, AnswerType DEF ChannelsOK, Responses
  <2>2. WorkerTasksOK'
    <3>1. CASE UNCHANGED wTasks
      BY <3>1 DEF WorkerTasksOK
    <3>2. CASE /\ toWorker[i].task # None
               /\ wTasks' = [wTasks EXCEPT ![toWorker[i].task] = TaskAt("failed")]
      BY <3>2, ReceivedType, WorkerTaskAtType DEF ChannelsOK, WorkerPC
    <3> QED
      BY <3>1, <3>2
  <2> QED
    BY <2>1, <2>2 DEF TypeOK, masterVars, WorkerTasksOK, ChannelsOK
<1> QED
  BY <1>1, <1>2, <1>3, <1>4 DEF WorkerHandlers

LEMMA WorkerTaskStepType ==
    ASSUME TypeOK, NEW t \in TaskIds, WorkerTask(t)
    PROVE  TypeOK'
<1> USE TypeParts
<1>1. CASE ProcessFiles(t)
  <2>1. CASE WorkerTaskDone(t) /\ UNCHANGED pool
    BY <1>1, <2>1, DoneType
    DEF ProcessFiles, TypeOK, masterVars, channels, WorkerTasksOK
  <2>2. CASE /\ wTasks' = [wTasks EXCEPT ![t] = TaskAt("apply")]
             /\ pool' = Append(pool, [kind |-> "apply", task |-> t,
                    load |-> wTasks[t].load, at |-> wTasks[t].at])
             /\ UNCHANGED checkIntegrityFree
    <3>1. [kind |-> "apply", task |-> t,
           load |-> wTasks[t].load, at |-> wTasks[t].at] \in Job
      BY DEF Job, WorkerTasksOK
    <3>2. pool' \in Seq(Job)
      BY <2>2, <3>1, AppendType DEF TypeOK
    <3>3. WorkerTasksOK'
      BY <2>2, WorkerTaskAtType DEF WorkerPC
    <3> QED
      BY <1>1, <2>2, <3>2, <3>3
      DEF ProcessFiles, TypeOK, masterVars, channels, WorkerTasksOK
  <2> QED
    BY <1>1, <2>1, <2>2 DEF ProcessFiles
<1>2. CASE ReportFailure(t)
  <2>1. Request("syn_i_w_m_r", t) \in Message
    BY RequestType DEF Requests
  <2>2. ChannelsOK'
    BY <1>2, <2>1, AppendType DEF ReportFailure, ChannelsOK
  <2>3. WorkerTasksOK'
    BY <1>2, WorkerTaskAtType DEF ReportFailure, WorkerPC
  <2>4. faults' \in Nat
    BY <1>2, FaultType DEF ReportFailure
  <2> QED
    BY <1>2, <2>2, <2>3, <2>4
    DEF ReportFailure, TypeOK, masterVars, ChannelsOK, WorkerTasksOK
<1>3. CASE WorkerTaskAnswered(t)
  <2> PICK i \in DOMAIN toWorker : WorkerTaskAnswered(t)!(i)
    BY <1>3 DEF WorkerTaskAnswered
  <2>1. ChannelsOK'
    BY ReceivedType DEF ChannelsOK
  <2>2. WorkerTasksOK' /\ checkIntegrityFree' \in BOOLEAN
    BY DoneType
  <2> QED
    BY <2>1, <2>2 DEF TypeOK, masterVars, ChannelsOK, WorkerTasksOK
<1> QED
  BY <1>1, <1>2, <1>3 DEF WorkerTask

LEMMA WorkerTimeoutsType ==
    ASSUME TypeOK, NEW t \in TaskIds, WorkerFileTimeout(t) \/ WorkerRequestTimeout(t)
    PROVE  TypeOK'
<1> USE TypeParts
<1>1. CASE WorkerFileTimeout(t)
  <2>1. WorkerTasksOK'
    BY <1>1, WorkerTaskAtType DEF WorkerFileTimeout, WorkerPC
  <2>2. TaskRequest("cancel_task", t, t) \in Message
    BY TaskRequestType DEF Requests
  <2>3. ChannelsOK'
    BY <1>1, <2>2, AppendType DEF WorkerFileTimeout, ChannelsOK
  <2>4. faults' \in Nat
    BY <1>1, FaultType DEF WorkerFileTimeout
  <2> QED
    BY <1>1, <2>1, <2>3, <2>4
    DEF WorkerFileTimeout, TypeOK, masterVars, WorkerTasksOK, ChannelsOK
<1>2. CASE WorkerRequestTimeout(t)
  <2>1. faults' \in Nat
    BY <1>2, FaultType DEF WorkerRequestTimeout
  <2>2. WorkerTasksOK' /\ checkIntegrityFree' \in BOOLEAN
    BY <1>2, DoneType DEF WorkerRequestTimeout
  <2>3. ChannelsOK'
    BY <1>2, ForgottenType, ReceivedType DEF WorkerRequestTimeout, ChannelsOK
  <2> QED
    BY <1>2, <2>1, <2>2, <2>3
    DEF WorkerRequestTimeout, TypeOK, masterVars, WorkerTasksOK, ChannelsOK
<1> QED
  BY <1>1, <1>2

LEMMA PoolType ==
    ASSUME TypeOK, ApplyFiles \/ DiscardScan
    PROVE  TypeOK'
<1> USE TypeParts
<1>1. pool' \in Seq(Job) /\ pool # <<>> /\ Head(pool) \in Job
  <2>1. pool \in Seq(Job)
    BY DEF TypeOK
  <2> QED
    BY <2>1, HeadTailType DEF ApplyFiles, DiscardScan
<1>2. CASE ApplyFiles
  <2> DEFINE job == Head(pool)
  <2>1. applied' \in Nat
    BY <1>1, <1>2 DEF ApplyFiles, Job
  <2>2. job.load \in Load
    BY <1>1 DEF Job
  <2>3. workerFiles' \in FileMap
    BY <1>2, <2>2, UpdatedType DEF ApplyFiles
  <2>4. faults' \in Nat
    BY <1>2, FaultType DEF ApplyFiles
  <2>5. WorkerTasksOK' /\ checkIntegrityFree' \in BOOLEAN
    <3>1. CASE UNCHANGED <<wTasks, checkIntegrityFree>>
      BY <3>1 DEF WorkerTasksOK, TypeOK
    <3>2. CASE WorkerTaskDone(job.task)
      BY <3>2, TaskAtType DEF WorkerTaskDone, WorkerTasksOK
    <3> QED
      BY <1>2, <3>1, <3>2 DEF ApplyFiles
  <2> QED
    BY <1>1, <1>2, <2>1, <2>3, <2>4, <2>5
    DEF ApplyFiles, TypeOK, masterVars, channels, WorkerTasksOK
<1>3. CASE DiscardScan
  BY <1>1, <1>3 DEF DiscardScan, TypeOK, masterVars, channels
<1> QED
  BY <1>2, <1>3

(* After the connection is lost nothing of it is left but jobs of the pool.*)
LEMMA DisconnectType ==
    ASSUME TypeOK, ConnectionLost \/ MasterRestart \/ WorkerRestart
    PROVE  TypeOK'
<1>1. MasterTasksOK' /\ WorkerTasksOK'
  BY TaskAtType, NothingType
  DEF ConnectionLost, MasterRestart, WorkerRestart, Disconnect,
      MasterTasksOK, WorkerTasksOK
<1>2. /\ toMaster' = <<>> /\ toWorker' = <<>> /\ connected' = FALSE
      /\ syncIntegrityFree' = TRUE /\ checkIntegrityFree' = TRUE
      /\ loop' = "off" /\ status' = Nothing /\ UNCHANGED <<hist, applied>>
  BY DEF ConnectionLost, MasterRestart, WorkerRestart, Disconnect
<1>3. \A n \in 0..Len(pool) : Orphans(n) \in Seq(Job)
  <2> SUFFICES ASSUME NEW n \in 0..Len(pool) PROVE Orphans(n) \in Seq(Job)
    OBVIOUS
  <2>1. \A i \in 1..n : pool[i] \in Job
    BY DEF TypeOK
  <2>2. \A i \in 1..n : [pool[i] EXCEPT !.task = None] \in Job
    BY <2>1 DEF Job
  <2> QED
    BY <2>2 DEF Orphans
<1>4. pool' \in Seq(Job)
  <2>1. CASE \E n \in 0..Len(pool) : pool' = Orphans(n)
    BY <1>3, <2>1
  <2>2. CASE pool' = <<>>
    BY <2>2
  <2> QED
    BY <2>1, <2>2 DEF ConnectionLost, MasterRestart, WorkerRestart
<1>5. faults' \in Nat
  BY FaultType DEF ConnectionLost, MasterRestart, WorkerRestart
<1>6. /\ integrityControl' \in [at : Nat, files : FileMap]
      /\ integrityAlreadyExecuted' \in BOOLEAN
  <2>1. CASE UNCHANGED <<integrityControl, integrityAlreadyExecuted>>
    BY <2>1 DEF TypeOK
  <2>2. CASE /\ integrityControl' = [at |-> 0, files |-> Empty]
             /\ integrityAlreadyExecuted' = FALSE
    BY <2>2, OtherTypes
  <2> QED
    BY <2>1, <2>2 DEF ConnectionLost, MasterRestart, WorkerRestart
<1>7. workerFiles' \in FileMap
  <2>1. CASE pool # <<>> /\ \E skipped : workerFiles' = Updated(Head(pool).load, skipped)
    <3>1. pool \in Seq(Job)
      BY DEF TypeOK
    <3>2. Head(pool) \in Job
      BY <2>1, <3>1, HeadTailType
    <3>3. Head(pool).load \in Load
      BY <3>2 DEF Job
    <3> QED
      BY <2>1, <3>3, UpdatedType
  <2>2. CASE UNCHANGED workerFiles
    BY <2>2 DEF TypeOK
  <2> QED
    BY <2>1, <2>2 DEF ConnectionLost, MasterRestart, WorkerRestart
<1>8. /\ toMaster' \in Seq(Message) /\ toWorker' \in Seq(Message)
      /\ loop' \in LoopPC /\ status' \in Load
  BY <1>2, NothingType DEF LoopPC
<1>9. /\ connected' \in BOOLEAN /\ syncIntegrityFree' \in BOOLEAN
      /\ checkIntegrityFree' \in BOOLEAN
  BY <1>2
<1>10. hist' \in Seq(FileMap) /\ hist' # <<>> /\ applied' \in Nat
  BY <1>2 DEF TypeOK
<1> QED
  BY <1>1, <1>4, <1>5, <1>6, <1>7, <1>8, <1>9, <1>10
  DEF TypeOK, MasterTasksOK, WorkerTasksOK

LEMMA ReadTogetherType ==
    ASSUME TypeOK, ReadTogether
    PROVE  TypeOK'
<1>1. ChannelsOK'
  BY TypeParts, OvertakenType DEF ReadTogether, Overtakes, ChannelsOK
<1> QED
  BY <1>1 DEF ReadTogether, TypeOK, ChannelsOK, masterVars, workerVars

LEMMA NextType == TypeOK /\ [Next]_vars => TypeOK'
<1> SUFFICES ASSUME TypeOK, [Next]_vars PROVE TypeOK'
  OBVIOUS
<1>1. CASE Next
  <2>1. CASE Reconnect
    BY <2>1 DEF Reconnect, TypeOK, masterVars, channels, LoopPC
  <2>2. CASE Timeouts
    BY <2>2, LoopTimeoutType, MasterTimeoutsType, WorkerTimeoutsType DEF Timeouts
  <2>3. CASE \E t \in TaskIds : MasterTask(t) \/ WorkerTask(t)
    BY <2>3, MasterTaskStepType, WorkerTaskStepType
  <2> QED
    BY <1>1, <2>1, <2>2, <2>3, ScanType, MasterHandlersType, WorkerLoopType,
       WorkerHandlersType, PoolType, DisconnectType, ReadTogetherType DEF Next
<1>2. CASE UNCHANGED vars
  BY <1>2 DEF vars, masterVars, workerVars, channels, TypeOK
<1> QED
  BY <1>1, <1>2

(* Every variable keeps its type: in particular what the master sends, and *)
(* what the worker's pool applies, is an update, with no class of          *)
(* compare_files left that the worker could take for the content of a file.*)
THEOREM TypeCorrect == Spec => []TypeOK
<1>1. Init => TypeOK
  BY InitType
<1>2. TypeOK /\ [Next]_vars => TypeOK'
  BY NextType
<1> QED
  BY <1>1, <1>2, PTL DEF Spec

-----------------------------------------------------------------------------
(***************************************************************************)
(* Flags.  A step leaves the flag and the tasks of a side alone, releases  *)
(* the flag, or leaves some task of that side alive.                       *)
(***************************************************************************)
MasterLockStep ==
    \/ UNCHANGED <<mTasks, syncIntegrityFree>>
    \/ syncIntegrityFree' = TRUE
    \/ \E t \in TaskIds : mTasks'[t].pc # "none"

WorkerLockStep ==
    \/ UNCHANGED <<wTasks, checkIntegrityFree>>
    \/ checkIntegrityFree' = TRUE
    \/ \E t \in TaskIds : wTasks'[t].pc # "none"

LEMMA LiveTask ==
    ASSUME TypeOK, NEW t \in TaskIds, NEW r, r.pc # "none"
    PROVE  /\ mTasks' = [mTasks EXCEPT ![t] = r] => MasterLockStep
           /\ wTasks' = [wTasks EXCEPT ![t] = r] => WorkerLockStep
  BY DEF TypeOK, MasterLockStep, WorkerLockStep

LEMMA LiveTaskAt ==
    ASSUME TypeOK, NEW t \in TaskIds, NEW pc, pc # "none"
    PROVE  /\ mTasks' = [mTasks EXCEPT ![t] = TaskAt(pc)] => MasterLockStep
           /\ wTasks' = [wTasks EXCEPT ![t] = TaskAt(pc)] => WorkerLockStep
<1>1. TaskAt(pc).pc # "none"
  BY DEF TaskAt
<1> QED
  BY <1>1, LiveTask

LEMMA MasterHandlersLocks ==
    ASSUME TypeOK, MasterHandlers
    PROVE  MasterLockStep /\ WorkerLockStep
<1>1. WorkerLockStep
  BY DEF MasterHandlers, GetPermission, SetupSyncIntegrity,
         EndReceivingIntegrityChecksums, ProcessSyncErrorFromWorker,
         CancelTaskOnMaster, workerVars, WorkerLockStep
<1> SUFFICES MasterLockStep
  BY <1>1
<1>2. CASE GetPermission
  BY <1>2 DEF GetPermission, MasterLockStep
<1>3. CASE SetupSyncIntegrity
  <2>1. NewTask \in TaskIds /\ mTasks' = [mTasks EXCEPT ![NewTask] = TaskAt("wait")]
    BY <1>3, NewTaskType DEF SetupSyncIntegrity
  <2> QED
    BY <2>1, LiveTaskAt
<1>4. CASE EndReceivingIntegrityChecksums
  <2> PICK i \in DOMAIN toMaster : EndReceivingIntegrityChecksums!(i)
    BY <1>4 DEF EndReceivingIntegrityChecksums
  <2> DEFINE m == toMaster[i]
             r == [pc |-> "ready", load |-> m.load, at |-> 0]
  <2>1. CASE UNCHANGED mTasks
    BY <2>1 DEF MasterLockStep
  <2>2. CASE m.task # None /\ mTasks' = [mTasks EXCEPT ![m.task] = r]
    <3>1. m.task \in TaskIds /\ r.pc # "none"
      BY <2>2, ReceivedType DEF TypeOK
    <3> QED
      BY <2>2, <3>1, LiveTask
  <2> QED
    BY <2>1, <2>2
<1>5. CASE ProcessSyncErrorFromWorker
  BY <1>5 DEF ProcessSyncErrorFromWorker, MasterLockStep
<1>6. CASE CancelTaskOnMaster
  BY <1>6 DEF CancelTaskOnMaster, masterVars, MasterLockStep
<1> QED
  BY <1>2, <1>3, <1>4, <1>5, <1>6 DEF MasterHandlers

LEMMA MasterTasksLocks ==
    ASSUME TypeOK, NEW t \in TaskIds,
           MasterTask(t) \/ MasterFileTimeout(t) \/ MasterRequestTimeout(t)
    PROVE  MasterLockStep /\ WorkerLockStep
<1>1. WorkerLockStep
  BY DEF MasterTask, Compare, Compress, MasterTaskAnswered, MasterTaskFails,
         MasterFileTimeout, MasterRequestTimeout, workerVars, WorkerLockStep
<1> SUFFICES MasterLockStep
  BY <1>1
<1>2. CASE Compare(t)
  <2> DEFINE r(ko) == [pc |-> "compress", load |-> ko, at |-> integrityControl.at]
  <2>1. \/ mTasks' = [mTasks EXCEPT ![t] = TaskAt("ok")]
        \/ \E ko : mTasks' = [mTasks EXCEPT ![t] = r(ko)]
    BY <1>2 DEF Compare
  <2>2. \A ko : r(ko).pc # "none"
    OBVIOUS
  <2> QED
    BY <2>1, <2>2, LiveTask, LiveTaskAt
<1>3. CASE Compress(t)
  <2> DEFINE r(load) == [pc |-> "cmd", load |-> load, at |-> mTasks[t].at]
  <2>1. \E load : mTasks' = [mTasks EXCEPT ![t] = r(load)]
    BY <1>3 DEF Compress
  <2>2. \A load : r(load).pc # "none"
    OBVIOUS
  <2> QED
    BY <2>1, <2>2, LiveTask
<1>4. CASE MasterTaskAnswered(t)
  BY <1>4, LiveTaskAt DEF MasterTaskAnswered, MasterTaskDone, MasterLockStep
<1>5. CASE MasterTaskFails(t)
  BY <1>5 DEF MasterTaskFails, MasterTaskDone, MasterLockStep
<1>6. CASE MasterFileTimeout(t)
  BY <1>6, LiveTaskAt DEF MasterFileTimeout
<1>7. CASE MasterRequestTimeout(t)
  <2>1. ASSUME NEW q, NEW wt, MasterGivesUp(t, q, wt)
        PROVE  MasterLockStep
    BY <2>1, LiveTaskAt DEF MasterGivesUp, MasterTaskDone, MasterLockStep
  <2> QED
    BY <1>7, <2>1 DEF MasterRequestTimeout
<1> QED
  BY <1>2, <1>3, <1>4, <1>5, <1>6, <1>7 DEF MasterTask

LEMMA WorkerHandlersLocks ==
    ASSUME TypeOK, WorkerHandlers
    PROVE  MasterLockStep /\ WorkerLockStep
<1>1. MasterLockStep
  BY DEF WorkerHandlers, AnswerOnWorker, SetupReceiveFilesFromMaster,
         EndReceivingIntegrity, ErrorReceivingIntegrity, masterVars, MasterLockStep
<1> SUFFICES WorkerLockStep
  BY <1>1
<1>2. CASE AnswerOnWorker
  BY <1>2 DEF AnswerOnWorker, workerVars, WorkerLockStep
<1>3. CASE SetupReceiveFilesFromMaster
  <2>1. NewTask \in TaskIds /\ wTasks' = [wTasks EXCEPT ![NewTask] = TaskAt("wait")]
    BY <1>3, NewTaskType DEF SetupReceiveFilesFromMaster
  <2> QED
    BY <2>1, LiveTaskAt
<1>4. CASE EndReceivingIntegrity \/ ErrorReceivingIntegrity
  <2>1. PICK m \in Message : \/ UNCHANGED <<wTasks, checkIntegrityFree>>
                             \/ /\ m.task # None
                                /\ \/ wTasks' = [wTasks EXCEPT ![m.task] =
                                        [pc |-> "ready", load |-> m.load, at |-> m.at]]
                                   \/ wTasks' = [wTasks EXCEPT ![m.task] =
                                        TaskAt("failed")]
    BY <1>4, ReceivedType DEF EndReceivingIntegrity, ErrorReceivingIntegrity, TypeOK
  <2> DEFINE r == [pc |-> "ready", load |-> m.load, at |-> m.at]
  <2>2. CASE m.task # None
    <3>1. m.task \in TaskIds /\ r.pc # "none"
      BY <2>2 DEF Message
    <3> QED
      BY <2>1, <3>1, LiveTask, LiveTaskAt DEF WorkerLockStep
  <2> QED
    BY <2>1, <2>2 DEF WorkerLockStep
<1> QED
  BY <1>2, <1>3, <1>4 DEF WorkerHandlers

LEMMA WorkerTasksLocks ==
    ASSUME TypeOK, NEW t \in TaskIds,
           WorkerTask(t) \/ WorkerFileTimeout(t) \/ WorkerRequestTimeout(t)
    PROVE  MasterLockStep /\ WorkerLockStep
<1>1. MasterLockStep
  BY DEF WorkerTask, ProcessFiles, ReportFailure, WorkerTaskAnswered,
         WorkerFileTimeout, WorkerRequestTimeout, masterVars, MasterLockStep
<1> SUFFICES WorkerLockStep
  BY <1>1
<1>2. CASE \/ ReportFailure(t) \/ WorkerFileTimeout(t)
  BY <1>2, LiveTaskAt DEF ReportFailure, WorkerFileTimeout
<1>3. CASE ProcessFiles(t)
  BY <1>3, LiveTaskAt DEF ProcessFiles, WorkerTaskDone, WorkerLockStep
<1>4. CASE WorkerTaskAnswered(t) \/ WorkerRequestTimeout(t)
  BY <1>4 DEF WorkerTaskAnswered, WorkerRequestTimeout, WorkerTaskDone,
                    WorkerLockStep
<1> QED
  BY <1>2, <1>3, <1>4 DEF WorkerTask

LEMMA OtherStepsLocks ==
    ASSUME \/ EditFile \/ FileStatusUpdate \/ WorkerLoop \/ LoopFails
           \/ LoopRequestTimeout \/ ApplyFiles \/ DiscardScan \/ ReadTogether
           \/ ConnectionLost \/ MasterRestart \/ WorkerRestart \/ Reconnect
    PROVE  MasterLockStep /\ WorkerLockStep
<1>1. CASE EditFile \/ FileStatusUpdate
  <2>1. UNCHANGED <<mTasks, syncIntegrityFree, wTasks, checkIntegrityFree>>
    BY <1>1 DEF EditFile, FileStatusUpdate, workerVars
  <2> QED
    BY <2>1 DEF MasterLockStep, WorkerLockStep
<1>2. CASE WorkerLoop \/ LoopFails \/ LoopRequestTimeout
  <2>1. UNCHANGED <<mTasks, syncIntegrityFree, wTasks, checkIntegrityFree>>
    BY <1>2 DEF WorkerLoop, RequestPermission, CollectStatus, SendStatus,
                LoopAnswered, LoopFails, LoopRequestTimeout, masterVars
  <2> QED
    BY <2>1 DEF MasterLockStep, WorkerLockStep
<1>3. CASE ApplyFiles \/ DiscardScan
  <2>1. MasterLockStep
    BY <1>3 DEF ApplyFiles, DiscardScan, masterVars, MasterLockStep
  <2>2. WorkerLockStep
    BY <1>3 DEF ApplyFiles, DiscardScan, WorkerTaskDone, WorkerLockStep
  <2> QED
    BY <2>1, <2>2
<1>4. CASE ConnectionLost \/ MasterRestart \/ WorkerRestart
  <2>1. syncIntegrityFree' = TRUE /\ checkIntegrityFree' = TRUE
    BY <1>4 DEF ConnectionLost, MasterRestart, WorkerRestart, Disconnect
  <2> QED
    BY <2>1 DEF MasterLockStep, WorkerLockStep
<1>5. CASE Reconnect \/ ReadTogether
  BY <1>5 DEF Reconnect, ReadTogether, masterVars, workerVars, MasterLockStep,
              WorkerLockStep
<1> QED
  BY <1>1, <1>2, <1>3, <1>4, <1>5

LEMMA NextLocks == TypeOK /\ [Next]_vars => MasterLockStep /\ WorkerLockStep
<1> SUFFICES ASSUME TypeOK, [Next]_vars PROVE MasterLockStep /\ WorkerLockStep
  OBVIOUS
<1>1. CASE UNCHANGED vars
  BY <1>1 DEF vars, masterVars, workerVars, MasterLockStep, WorkerLockStep
<1>2. CASE Next
  BY <1>2, MasterHandlersLocks, MasterTasksLocks, WorkerHandlersLocks,
     WorkerTasksLocks, OtherStepsLocks DEF Next, Timeouts
<1> QED
  BY <1>1, <1>2

(* Neither flag of the protocol can be lost: whatever the order of         *)
(* requests, errors, timeouts, lost connections and restarts, and however  *)
(* many of them, sync_integrity_free and check_integrity_free are only     *)
(* ever taken while a task exists whose done callback releases them.       *)
THEOREM FlagsAreOwned == Spec => []LocksAreOwned
<1>1. Init => LocksAreOwned
  BY DEF Init, LocksAreOwned
<1>2. TypeOK /\ LocksAreOwned /\ [Next]_vars => LocksAreOwned'
  <2> SUFFICES ASSUME TypeOK, LocksAreOwned, [Next]_vars PROVE LocksAreOwned'
    OBVIOUS
  <2>1. MasterLockStep /\ WorkerLockStep
    BY NextLocks
  <2>2. ~syncIntegrityFree' => Syncing' # {}
    BY <2>1 DEF MasterLockStep, LocksAreOwned, Syncing
  <2>3. ~checkIntegrityFree' => Receiving' # {}
    BY <2>1 DEF WorkerLockStep, LocksAreOwned, Receiving
  <2> QED
    BY <2>2, <2>3 DEF LocksAreOwned
<1> QED
  BY <1>1, <1>2, TypeCorrect, PTL DEF Spec

-----------------------------------------------------------------------------
(***************************************************************************)
(* Rounds.  What follows holds as long as only the worker's reports of a   *)
(* failure may time out, and no flag that is taken is taken for abandoned. *)
(***************************************************************************)
Before(q, S, T) ==
    \A i, j \in DOMAIN q : q[i] \in S /\ q[j] \in T => i < j

Distinct(q) ==
    \A i, j \in DOMAIN q : q[i].proc = q[j].proc /\ q[i].proc # None => i = j

Replies(t)  == {m \in Message : m.cmd \in Responses /\ m.proc = t}
Fresh(t)    == {m \in Replies(t) : ~m.late}
Orders(cmd) == {m \in Message : m.cmd = cmd}
Failures    == {m \in Message : m.cmd = "syn_i_w_m_r" /\ m.proc # Loop}

Incoming == ToSet(toMaster)
Outgoing == ToSet(toWorker)

Pending(cmd) == \E m \in Incoming : m.cmd = cmd
Replied(t)   == \E m \in Incoming : m \in Replies(t)

(* Who waits for a message, and what for.                                  *)
AskedByLoop(m) ==
    \/ m.cmd = "syn_i_w_m_p" /\ loop = "permission"
    \/ m.cmd = "syn_i_w_m" /\ loop = "cmd"
    \/ m.cmd = "syn_i_w_m_e" /\ loop = "end"
    \/ m.cmd = "syn_i_w_m_r" /\ loop = "err"

AskedByMaster(m) ==
    \/ m.cmd = "syn_m_c_ok" /\ mTasks[m.proc].pc = "ok"
    \/ m.cmd = "syn_m_c" /\ mTasks[m.proc].pc = "cmd"
    \/ m.cmd = "syn_m_c_e" /\ mTasks[m.proc].pc = "end"
    \/ m.cmd = "cancel_task" /\ mTasks[m.proc].pc = "cancel"

Report(m)    == m.cmd \in {"syn_i_w_m_r", "cancel_task"}
Reporting(t) == t \in TaskIds /\ wTasks[t].pc \in {"err", "cancel"}
Asking(t)    == t \in TaskIds /\ mTasks[t].pc \in {"ok", "cmd", "end", "cancel"}

FromWorker(m) ==
    \/ m.proc = Loop /\ AskedByLoop(m)
    \/ Report(m) /\ (m.proc = None \/ Reporting(m.proc))
    \/ m.cmd \in Responses /\ Asking(m.proc)

FromMaster(m) ==
    \/ m.cmd \in Responses /\ m.proc = Loop
       /\ loop \in {"permission", "cmd", "end", "err"}
    \/ m.cmd \in Responses /\ Reporting(m.proc)
    \/ AskedByMaster(m) /\ Asking(m.proc)

Sent ==
    /\ \A m \in Incoming : FromWorker(m) /\ (m.cmd = "syn_i_w_m_r" => m.task = None)
    /\ \A m \in Outgoing : FromMaster(m)

(* Nobody waits for two messages.                                          *)
Single ==
    /\ Distinct(toMaster)
    /\ Distinct(toWorker)
    /\ \A m \in Incoming, n \in Outgoing : m.proc # n.proc

Tasks ==
    /\ \A t \in TaskIds : mTasks[t].pc = "none" \/ wTasks[t].pc = "none"
    /\ \A t \in TaskIds : mTasks[t].pc \notin {"failed", "err"} /\ wTasks[t].pc # "failed"
    /\ checkIntegrityFree => Receiving = {}
    /\ ~connected => loop = "off"

(* The response of t is read, and was before the worker opened a task.     *)
Leaving(t) ==
    /\ mTasks[t].pc # "cmd"
    /\ \E m \in Incoming : m \in Replies(t) /\ m.late
    /\ Before(toMaster, Replies(t), Orders("syn_i_w_m"))

(* The worker has the permission and its request has not used it up.       *)
Granted ==
    \/ loop = "permission" /\ \E m \in Outgoing : m.proc = Loop /\ m.cmd = "True"
    \/ loop \in {"scan", "send", "err"}
    \/ loop = "cmd" /\ Pending("syn_i_w_m")

Flag == syncIntegrityFree \/ Granted => \A t \in Syncing : Leaving(t)

Reported ==
    (\E m \in Incoming : m \in Failures) =>
        /\ ~Granted
        /\ loop # "cmd"
        /\ Before(toMaster, Failures, Orders("syn_i_w_m_p"))
        /\ \A t \in Syncing : /\ mTasks[t].pc # "cmd"
                              /\ Replied(t)
                              /\ Before(toMaster, Fresh(t), Failures)

Asked ==
    Pending("syn_i_w_m_p") /\ Receiving # {} =>
        \E t \in Syncing : /\ mTasks[t].pc = "cmd"
                           /\ Replied(t)
                           /\ Before(toMaster, Orders("syn_i_w_m_p"), Replies(t))

Served ==
    (\E w \in TaskIds : wTasks[w].pc = "ready") =>
        \A t \in Syncing : mTasks[t].pc # "cmd" /\ Replied(t)

(* Until the status of the worker's files is in the master's task.         *)
Opening ==
    (loop = "cmd" /\ ~Pending("syn_i_w_m")) \/ Pending("syn_i_w_m_e") =>
        \A t \in Syncing : mTasks[t].pc \in {"wait", "cancel"}

Comparing ==
    \/ Granted
    \/ loop = "cmd"
    \/ Pending("syn_i_w_m_e")
    \/ \E t \in TaskIds : mTasks[t].pc \in {"wait", "ready", "compress", "ok", "cancel"}
    \/ \E m \in Outgoing : m.cmd = "syn_m_c"

Quiet == Comparing => Receiving = {}

(* The only jobs are of the live tasks, one each, and of sync_integrity.   *)
Jobs ==
    /\ \A i \in DOMAIN pool : pool[i].kind = "apply" /\ pool[i].task # None =>
           /\ pool[i].task \in TaskIds
           /\ wTasks[pool[i].task].pc = "apply"
           /\ \A k \in DOMAIN pool : pool[k].task = pool[i].task => k = i
    /\ \A i \in DOMAIN pool : pool[i].kind = "scan" /\ pool[i].task # None =>
           i = Len(pool) /\ loop = "scan"

NoUpdates == \A i \in DOMAIN pool : pool[i].kind # "apply"

Current ==
    /\ loop \in {"send", "cmd"} => NoUpdates /\ status = workerFiles
    /\ \A m \in Incoming : m.cmd = "syn_i_w_m_e" => NoUpdates /\ m.load = workerFiles
    /\ \A t \in TaskIds : mTasks[t].pc = "ready" => NoUpdates /\ mTasks[t].load = workerFiles

Rounds ==
    /\ Sent
    /\ Single
    /\ Tasks
    /\ SyncsDoNotOverlap
    /\ Flag
    /\ Reported
    /\ Asked
    /\ Served
    /\ Opening
    /\ Quiet
    /\ Jobs
    /\ Current

-----------------------------------------------------------------------------
LEMMA JoinedAt ==
    ASSUME NEW S, NEW a \in Seq(S), NEW b \in Seq(S), NEW k \in Nat,
           Len(a) < k, k <= Len(a) + Len(b)
    PROVE  (a \o b)[k] = b[k - Len(a)]
  OBVIOUS

(* The queues.  One message is taken out, the others keep their order.     *)
LEMMA Taken ==
    ASSUME NEW q \in Seq(Message), NEW i \in DOMAIN q, NEW r, r = RemoveAt(q, i)
    PROVE  /\ r \in Seq(Message)
           /\ ToSet(r) \subseteq ToSet(q)
           /\ \A m \in ToSet(q) : m \in ToSet(r) \/ m = q[i]
           /\ \A S, T : Before(q, S, T) => Before(r, S, T)
           /\ Distinct(q) => Distinct(r)
           /\ Distinct(q) /\ q[i].proc # None => \A m \in ToSet(r) : m.proc # q[i].proc
<1> DEFINE old(k) == IF k < i THEN k ELSE k + 1
<1>1. Len(q) \in Nat /\ i \in 1..Len(q)
  OBVIOUS
<1>2. /\ r \in Seq(Message)
      /\ Len(r) = Len(q) - 1
      /\ \A k \in 1..Len(r) : r[k] = q[old(k)]
  <2> DEFINE a == SubSeq(q, 1, i - 1)
             b == SubSeq(q, i + 1, Len(q))
  <2>2. r = a \o b
    BY DEF RemoveAt
  <2>1. /\ a \in Seq(Message) /\ Len(a) = i - 1
        /\ \A k \in 1..(i - 1) : a[k] = q[k]
    <3>1. a \in Seq(Message)
      BY <1>1
    <3>2. Len(a) = i - 1 /\ \A k \in 1..(i - 1) : a[k] = q[k]
      BY <1>1
    <3> QED
      BY <3>1, <3>2
  <2>3. /\ b \in Seq(Message) /\ Len(b) = Len(q) - i
        /\ \A k \in 1..(Len(q) - i) : b[k] = q[k + i]
    <3>1. b \in Seq(Message)
      BY <1>1
    <3>2. Len(b) = Len(q) - i
      BY <1>1
    <3>3. \A k \in 1..(Len(q) - i) : b[k] = q[k + i]
      BY <1>1, SMTT(30)
    <3> QED
      BY <3>1, <3>2, <3>3
  <2> HIDE DEF a, b
  <2>4. r \in Seq(Message) /\ Len(r) = Len(a) + Len(b)
    BY <2>2, <2>1, <2>3
  <2>5. Len(r) = Len(q) - 1
    BY <1>1, <2>1, <2>3, <2>4
  <2>6. ASSUME NEW k \in 1..Len(r) PROVE r[k] = q[old(k)]
    <3>1. CASE k < i
      <4>1. k \in 1..Len(a) /\ r[k] = a[k]
        BY <1>1, <2>2, <2>1, <2>3, <2>5, <3>1
      <4> QED
        BY <1>1, <2>1, <2>3, <3>1, <4>1
    <3>2. CASE ~(k < i)
      <4>1. Len(a) = i - 1 /\ Len(b) = Len(q) - i
        BY <2>1, <2>3
      <4>2. k \in Nat /\ Len(a) < k /\ k <= Len(a) + Len(b)
        BY <1>1, <2>5, <3>2, <4>1
      <4>3. r[k] = b[k - Len(a)]
        <5>1. a \in Seq(Message) /\ b \in Seq(Message)
          BY <2>1, <2>3
        <5>2. (a \o b)[k] = b[k - Len(a)]
          BY <4>2, <5>1, JoinedAt
        <5> QED
          BY <2>2, <5>2
      <4>4. k - (i - 1) \in 1..(Len(q) - i) /\ k - (i - 1) + i = k + 1
        BY <1>1, <2>5, <3>2, <4>2
      <4>5. b[k - (i - 1)] = q[k + 1]
        BY <2>1, <2>3, <4>4
      <4> QED
        BY <3>2, <4>1, <4>3, <4>5
    <3> QED
      BY <3>1, <3>2
  <2> QED
    BY <2>4, <2>5, <2>6
<1>3. DOMAIN r = 1..(Len(q) - 1) /\ DOMAIN q = 1..Len(q)
  BY <1>2
<1>4. \A k \in DOMAIN r : old(k) \in DOMAIN q /\ old(k) # i /\ r[k] = q[old(k)]
  BY <1>1, <1>2, <1>3
<1>5. \A k \in DOMAIN q : k # i => \E n \in DOMAIN r : old(n) = k
  <2> SUFFICES ASSUME NEW k \in DOMAIN q, k # i PROVE \E n \in DOMAIN r : old(n) = k
    OBVIOUS
  <2>1. CASE k < i
    BY <1>1, <1>3, <2>1
  <2>2. CASE k > i
    <3>1. k - 1 \in DOMAIN r /\ old(k - 1) = k
      BY <1>1, <1>3, <2>2
    <3> QED
      BY <3>1
  <2> QED
    BY <1>1, <1>3, <2>1, <2>2
<1>6. \A k, n \in DOMAIN r : (old(k) < old(n) => k < n) /\ (old(k) = old(n) => k = n)
  BY <1>1, <1>3
<1> HIDE DEF old
<1>7. ToSet(r) \subseteq ToSet(q)
  BY <1>4 DEF ToSet
<1>8. \A m \in ToSet(q) : m \in ToSet(r) \/ m = q[i]
  BY <1>4, <1>5 DEF ToSet
<1>9. \A S, T : Before(q, S, T) => Before(r, S, T)
  BY <1>4, <1>6 DEF Before
<1>10. Distinct(q) => Distinct(r)
  BY <1>4, <1>6 DEF Distinct
<1>11. Distinct(q) /\ q[i].proc # None => \A m \in ToSet(r) : m.proc # q[i].proc
  BY <1>4 DEF Distinct, ToSet
<1> QED
  BY <1>2, <1>7, <1>8, <1>9, <1>10, <1>11

(* The message at the head comes before all others.                        *)
LEMMA AtHead ==
    ASSUME NEW q \in Seq(Message), NEW i \in DOMAIN q, Arrived(q, i),
           NEW S, NEW T, Before(q, S, T), q[i] \in T
    PROVE  \A m \in ToSet(q) : m \notin S
<1>1. \A k \in DOMAIN q : ~(k < i)
  BY DEF Arrived
<1> QED
  BY <1>1 DEF Before, ToSet

(* A message put in comes after all others.                                *)
LEMMA Put ==
    ASSUME NEW q \in Seq(Message), NEW e \in Message, NEW r, r = Append(q, e)
    PROVE  /\ r \in Seq(Message)
           /\ ToSet(r) = ToSet(q) \cup {e}
           /\ \A S, T : Before(q, S, T) /\ e \notin S => Before(r, S, T)
           /\ \A S, T : (\A m \in ToSet(q) : m \notin T) /\ e \notin T => Before(r, S, T)
           /\ Distinct(q) /\ (\A m \in ToSet(q) : m.proc # e.proc) => Distinct(r)
<1>1. /\ r \in Seq(Message)
      /\ Len(q) \in Nat
      /\ Len(r) = Len(q) + 1
      /\ DOMAIN q = 1..Len(q)
      /\ DOMAIN r = 1..(Len(q) + 1)
      /\ \A k \in DOMAIN q : r[k] = q[k]
      /\ r[Len(q) + 1] = e
  OBVIOUS
<1> DEFINE n == Len(q) + 1
<1>2. /\ n \in DOMAIN r /\ r[n] = e
      /\ \A k \in DOMAIN r : k \in DOMAIN q \/ k = n
      /\ \A k \in DOMAIN q : k \in DOMAIN r /\ k < n /\ r[k] = q[k]
  BY <1>1
<1> HIDE DEF n
<1>3. ToSet(r) = ToSet(q) \cup {e}
  BY <1>2 DEF ToSet
<1>4. \A S, T : Before(q, S, T) /\ e \notin S => Before(r, S, T)
  BY <1>2 DEF Before
<1>5. \A S, T : (\A m \in ToSet(q) : m \notin T) /\ e \notin T => Before(r, S, T)
  BY <1>2 DEF Before, ToSet
<1>6. Distinct(q) /\ (\A m \in ToSet(q) : m.proc # e.proc) => Distinct(r)
  BY <1>2 DEF Distinct, ToSet
<1> QED
  BY <1>1, <1>3, <1>4, <1>5, <1>6

(* One message changes where it is.                                        *)
LEMMA Changed ==
    ASSUME NEW q \in Seq(Message), NEW i \in DOMAIN q, NEW r, r = Forgotten(q, i)
    PROVE  \E e \in Message :
              /\ e = [q[i] EXCEPT !.proc = None]
              /\ e \in ToSet(r)
              /\ r \in Seq(Message)
              /\ \A m \in ToSet(r) : m \in ToSet(q) \/ m = e
              /\ \A m \in ToSet(q) : m \in ToSet(r) \/ m = q[i]
              /\ \A S, T : /\ Before(q, S, T)
                           /\ e \in S => q[i] \in S
                           /\ e \in T => q[i] \in T
                           => Before(r, S, T)
              /\ Distinct(q) => Distinct(r)
              /\ Distinct(q) /\ q[i].proc # None =>
                    \A m \in ToSet(r) : m.proc # q[i].proc
<1> DEFINE e == [q[i] EXCEPT !.proc = None]
<1>1. q[i] \in Message
  OBVIOUS
<1>2. e \in Message /\ e.proc = None
  BY <1>1 DEF Message
<1>3. r \in Seq(Message)
  BY ForgottenType
<1>4. /\ DOMAIN r = DOMAIN q
      /\ r[i] = e
      /\ \A k \in DOMAIN q : k # i => r[k] = q[k]
  BY DEF Forgotten
<1> HIDE DEF e
<1>5. /\ e \in ToSet(r)
      /\ \A m \in ToSet(r) : m \in ToSet(q) \/ m = e
      /\ \A m \in ToSet(q) : m \in ToSet(r) \/ m = q[i]
  BY <1>4 DEF ToSet
<1>6. \A S, T : /\ Before(q, S, T)
                /\ e \in S => q[i] \in S
                /\ e \in T => q[i] \in T
                => Before(r, S, T)
  BY <1>4 DEF Before
<1>7. Distinct(q) => Distinct(r)
  BY <1>2, <1>4 DEF Distinct
<1>8. Distinct(q) /\ q[i].proc # None => \A m \in ToSet(r) : m.proc # q[i].proc
  BY <1>2, <1>4 DEF Distinct, ToSet
<1>9. e = [q[i] EXCEPT !.proc = None]
  BY DEF e
<1> QED
  BY <1>2, <1>3, <1>5, <1>6, <1>7, <1>8, <1>9

(* A response that is overtaken is late and behind a request; the other    *)
(* messages keep their order.                                              *)
LEMMA Moved ==
    ASSUME NEW q \in Seq(Message), NEW i \in DOMAIN q, NEW j \in DOMAIN q,
           Overtakes(q, i, j), NEW r, r = Overtaken(q, i, j)
    PROVE  \E e \in Message :
              /\ e = [q[i] EXCEPT !.late = TRUE]
              /\ e \in ToSet(r)
              /\ r \in Seq(Message)
              /\ \A m \in ToSet(r) : m \in ToSet(q) \/ m = e
              /\ \A m \in ToSet(q) : m \in ToSet(r) \/ m = q[i]
              /\ \A S, T : /\ Before(q, S, T)
                           /\ e \notin S
                           /\ e \in T => q[i] \in T
                           => Before(r, S, T)
              /\ Distinct(q) => Distinct(r)
<1> DEFINE e == [q[i] EXCEPT !.late = TRUE]
           old(k) == IF k < i \/ k > j THEN k ELSE IF k < j THEN k + 1 ELSE i
<1>1. q[i] \in Message
  OBVIOUS
<1>2. e \in Message /\ e.proc = q[i].proc
  BY <1>1 DEF Message
<1>3. Len(q) \in Nat /\ DOMAIN q = 1..Len(q) /\ i \in 1..Len(q) /\ j \in 1..Len(q) /\ i < j
  BY DEF Overtakes
<1>4. r \in Seq(Message) /\ DOMAIN r = DOMAIN q
  BY <1>3, OvertakenType DEF Overtaken
<1>5. /\ r[j] = e
      /\ \A k \in DOMAIN q : k # j => r[k] = q[old(k)]
  BY <1>3 DEF Overtaken
<1>6. /\ \A k \in DOMAIN q : old(k) \in DOMAIN q /\ (k # j => old(k) # i)
      /\ old(j) = i
  BY <1>3
<1>7. \A k, n \in DOMAIN q : old(k) = old(n) => k = n
  BY <1>3
<1>8. \A k, n \in DOMAIN q : k # j /\ old(k) < old(n) => k < n
  BY <1>3
<1>9. \A k \in DOMAIN q : \E n \in DOMAIN q : old(n) = k
  <2> SUFFICES ASSUME NEW k \in DOMAIN q PROVE \E n \in DOMAIN q : old(n) = k
    OBVIOUS
  <2>1. CASE k < i \/ k > j
    BY <2>1, <1>3
  <2>2. CASE k = i
    BY <2>2, <1>6
  <2>3. CASE i < k /\ k <= j
    <3>1. k - 1 \in DOMAIN q /\ old(k - 1) = k
      BY <1>3, <2>3
    <3> QED
      BY <3>1
  <2> QED
    BY <1>3, <2>1, <2>2, <2>3
<1> HIDE DEF old, e
<1>10. /\ e \in ToSet(r)
       /\ \A m \in ToSet(r) : m \in ToSet(q) \/ m = e
  BY <1>4, <1>5, <1>6 DEF ToSet
<1>11. \A m \in ToSet(q) : m \in ToSet(r) \/ m = q[i]
  <2> SUFFICES ASSUME NEW k \in DOMAIN q, k # i PROVE q[k] \in ToSet(r)
    BY DEF ToSet
  <2>1. PICK n \in DOMAIN q : old(n) = k
    BY <1>9
  <2>2. n # j /\ r[n] = q[k]
    BY <2>1, <1>5, <1>6
  <2> QED
    BY <2>2, <1>4 DEF ToSet
<1>12. \A S, T : /\ Before(q, S, T)
                 /\ e \notin S
                 /\ e \in T => q[i] \in T
                 => Before(r, S, T)
  <2> SUFFICES ASSUME NEW S, NEW T, Before(q, S, T), e \notin S, e \in T => q[i] \in T,
                      NEW k \in DOMAIN q, NEW n \in DOMAIN q, r[k] \in S, r[n] \in T
               PROVE  k < n
    BY <1>4 DEF Before
  <2>1. k # j /\ q[old(k)] \in S
    BY <1>5
  <2>2. q[old(n)] \in T
    BY <1>5, <1>6
  <2> QED
    BY <2>1, <2>2, <1>6, <1>8 DEF Before
<1>13. \A k \in DOMAIN q : r[k].proc = q[old(k)].proc
  BY <1>2, <1>5, <1>6
<1>14. Distinct(q) => Distinct(r)
  BY <1>4, <1>6, <1>7, <1>13 DEF Distinct
<1>15. e = [q[i] EXCEPT !.late = TRUE]
  BY DEF e
<1> QED
  BY <1>2, <1>4, <1>10, <1>11, <1>12, <1>14, <1>15

-----------------------------------------------------------------------------
(***************************************************************************)
(* What a step does to the connection and to the tasks.                    *)
(***************************************************************************)
LEMMA MessagesType ==
    TypeOK => /\ toMaster \in Seq(Message) /\ toWorker \in Seq(Message)
              /\ Incoming \subseteq Message /\ Outgoing \subseteq Message
  BY DEF TypeOK, Incoming, Outgoing, ToSet

MasterTakes(m) ==
    /\ m \in Incoming
    /\ Incoming' \subseteq Incoming
    /\ \A x \in Incoming : x \in Incoming' \/ x = m
    /\ \A S, T : Before(toMaster, S, T) => Before(toMaster', S, T)
    /\ Distinct(toMaster')
    /\ m.proc # None => \A x \in Incoming' : x.proc # m.proc

(* Nothing that comes before a message like m is left.                     *)
AtHeadToMaster(m) ==
    \A S, T : Before(toMaster, S, T) /\ m \in T => \A x \in Incoming : x \notin S

WorkerTakes(m) ==
    /\ m \in Outgoing
    /\ Outgoing' \subseteq Outgoing
    /\ \A x \in Outgoing : x \in Outgoing' \/ x = m
    /\ Distinct(toWorker')
    /\ m.proc # None => \A x \in Outgoing' : x.proc # m.proc

ToMaster(e) ==
    /\ e \in Message
    /\ Incoming' = Incoming \cup {e}
    /\ \A S, T : Before(toMaster, S, T) /\ e \notin S => Before(toMaster', S, T)
    /\ \A S, T : (\A m \in Incoming : m \notin T) /\ e \notin T =>
                    Before(toMaster', S, T)
    /\ (\A m \in Incoming : m.proc # e.proc) => Distinct(toMaster')

ToWorker(e) ==
    /\ e \in Message
    /\ Outgoing' = Outgoing \cup {e}
    /\ (\A m \in Outgoing : m.proc # e.proc) => Distinct(toWorker')

LEMMA TakenFromMaster ==
    ASSUME TypeOK, Single, NEW i \in DOMAIN toMaster, toMaster' = RemoveAt(toMaster, i)
    PROVE  MasterTakes(toMaster[i])
<1>1. toMaster \in Seq(Message)
  BY MessagesType
<1>2. Distinct(toMaster) /\ toMaster[i] \in Incoming
  BY DEF Single, Incoming, ToSet
<1> QED
  BY <1>1, <1>2, Taken DEF MasterTakes, Incoming

LEMMA ReadByMaster ==
    ASSUME TypeOK, NEW i \in DOMAIN toMaster, Arrived(toMaster, i)
    PROVE  AtHeadToMaster(toMaster[i])
  BY MessagesType, AtHead DEF AtHeadToMaster, Incoming

LEMMA TakenFromWorker ==
    ASSUME TypeOK, Single, NEW i \in DOMAIN toWorker, toWorker' = RemoveAt(toWorker, i)
    PROVE  WorkerTakes(toWorker[i])
<1>1. toWorker \in Seq(Message)
  BY MessagesType
<1>2. Distinct(toWorker) /\ toWorker[i] \in Outgoing
  BY DEF Single, Outgoing, ToSet
<1> QED
  BY <1>1, <1>2, Taken DEF WorkerTakes, Outgoing

LEMMA PutToMaster ==
    ASSUME TypeOK, Single, NEW e \in Message, toMaster' = Append(toMaster, e)
    PROVE  ToMaster(e)
<1>1. toMaster \in Seq(Message) /\ Distinct(toMaster)
  BY MessagesType DEF Single
<1> QED
  BY <1>1, Put DEF ToMaster, Incoming

LEMMA PutToWorker ==
    ASSUME TypeOK, Single, NEW e \in Message, toWorker' = Append(toWorker, e)
    PROVE  ToWorker(e)
<1>1. toWorker \in Seq(Message) /\ Distinct(toWorker)
  BY MessagesType DEF Single
<1> QED
  BY <1>1, Put DEF ToWorker, Outgoing

(* A request of the worker is answered by the handler that reads it.       *)
AnsweredByMaster(m, cmd) ==
    IF m.proc = None THEN UNCHANGED toWorker
    ELSE \E e : ToWorker(e) /\ e.cmd = cmd /\ e.proc = m.proc

LEMMA HandledByMaster ==
    ASSUME TypeOK, Single, NEW i \in DOMAIN toMaster, Arrived(toMaster, i),
           NEW cmd \in Responses, NEW task \in TaskIds \cup {None},
           toMaster' = RemoveAt(toMaster, i),
           toWorker' = Answer(toWorker, toMaster[i], cmd, task)
    PROVE  \E m \in Message :
              /\ m = toMaster[i]
              /\ MasterTakes(m) /\ AtHeadToMaster(m) /\ AnsweredByMaster(m, cmd)
<1> DEFINE m == toMaster[i]
           e == Msg(cmd, m.proc, task, Nothing, 0)
<1>1. m \in Message /\ m.proc \in TaskIds \cup {Loop, None}
  BY MessagesType, ReceivedType
<1>2. MasterTakes(m) /\ AtHeadToMaster(m)
  BY TakenFromMaster, ReadByMaster
<1>3. AnsweredByMaster(m, cmd)
  <2>1. CASE m.proc = None
    BY <2>1 DEF Answer, AnsweredByMaster
  <2>2. CASE m.proc # None
    <3>1. e \in Message /\ toWorker' = Append(toWorker, e)
      BY <1>1, <2>2, MsgType, NothingType DEF Answer
    <3>2. ToWorker(e)
      BY <3>1, PutToWorker
    <3>3. e.cmd = cmd /\ e.proc = m.proc
      BY DEF Msg
    <3> QED
      BY <2>2, <3>2, <3>3 DEF AnsweredByMaster
  <2> QED
    BY <2>1, <2>2
<1> QED
  BY <1>1, <1>2, <1>3

(* A request of the master is answered by the handler that reads it.       *)
LEMMA HandledByWorker ==
    ASSUME TypeOK, Single, NEW i \in DOMAIN toWorker, toWorker[i].proc # None,
           NEW cmd \in Responses, NEW task \in TaskIds \cup {None},
           toWorker' = RemoveAt(toWorker, i),
           toMaster' = Answer(toMaster, toWorker[i], cmd, task)
    PROVE  \E m, e \in Message :
              /\ m = toWorker[i]
              /\ WorkerTakes(m) /\ ToMaster(e)
              /\ e.cmd = cmd /\ e.proc = m.proc
<1> DEFINE m == toWorker[i]
           e == Msg(cmd, m.proc, task, Nothing, 0)
<1>1. m \in Message /\ m.proc \in TaskIds \cup {Loop, None}
  BY MessagesType, ReceivedType
<1>2. WorkerTakes(m)
  BY TakenFromWorker
<1>3. e \in Message /\ toMaster' = Append(toMaster, e)
  BY <1>1, MsgType, NothingType DEF Answer
<1>4. ToMaster(e)
  BY <1>3, PutToMaster
<1>5. e.cmd = cmd /\ e.proc = m.proc
  BY DEF Msg
<1> QED
  BY <1>1, <1>2, <1>3, <1>4, <1>5

(* One task of a side changes.                                             *)
MasterTaskIs(t, pc) ==
    /\ t \in TaskIds
    /\ mTasks'[t].pc = pc
    /\ \A s \in TaskIds : s # t => mTasks'[s] = mTasks[s]

WorkerTaskIs(t, pc) ==
    /\ t \in TaskIds
    /\ wTasks'[t].pc = pc
    /\ \A s \in TaskIds : s # t => wTasks'[s] = wTasks[s]

LEMMA OneTask ==
    ASSUME TypeOK, NEW t \in TaskIds, NEW r
    PROVE  /\ mTasks' = [mTasks EXCEPT ![t] = r] =>
                 MasterTaskIs(t, r.pc) /\ mTasks'[t] = r
           /\ wTasks' = [wTasks EXCEPT ![t] = r] =>
                 WorkerTaskIs(t, r.pc) /\ wTasks'[t] = r
  BY DEF TypeOK, MasterTaskIs, WorkerTaskIs

LEMMA OneTaskAt ==
    ASSUME TypeOK, NEW t \in TaskIds, NEW pc
    PROVE  /\ mTasks' = [mTasks EXCEPT ![t] = TaskAt(pc)] => MasterTaskIs(t, pc)
           /\ wTasks' = [wTasks EXCEPT ![t] = TaskAt(pc)] => WorkerTaskIs(t, pc)
           /\ mTasks' = [mTasks EXCEPT ![t] = NoTask] => MasterTaskIs(t, "none")
           /\ wTasks' = [wTasks EXCEPT ![t] = NoTask] => WorkerTaskIs(t, "none")
<1>1. TaskAt(pc).pc = pc /\ NoTask.pc = "none"
  BY DEF TaskAt, NoTask
<1> QED
  BY <1>1, OneTask

(* A name that nothing refers to.                                          *)
LEMMA FreshName ==
    ASSUME TypeOK, NEW t \in TaskIds, Unused(t)
    PROVE  /\ mTasks[t].pc = "none" /\ wTasks[t].pc = "none"
           /\ \A m \in Incoming : m.proc # t
           /\ \A m \in Outgoing : m.proc # t
           /\ \A i \in DOMAIN pool : pool[i].task # t
  BY DEF Unused, Incoming, Outgoing, ToSet

(* A task that waits for no response, and reports nothing.                 *)
LEMMA Silent ==
    ASSUME TypeOK, Sent, NEW t \in TaskIds, ~Asking(t), ~Reporting(t)
    PROVE  /\ \A m \in Incoming : m.proc # t
           /\ \A m \in Outgoing : m.proc # t
<1>1. t # None /\ t # Loop
  BY ContentsAssumption
<1> QED
  BY <1>1 DEF Sent, FromWorker, FromMaster

-----------------------------------------------------------------------------
(***************************************************************************)
(* The handlers of the master.                                             *)
(***************************************************************************)
Unreliable == {"loop timeout", "request timeout", "lock timeout"}
Trusted == Faults \cap Unreliable = {}

LEMMA GrantsTruly ==
    ASSUME Trusted, GetPermission
    PROVE  \E i \in DOMAIN toMaster, cmd \in {"True", "False"} :
              /\ Arrived(toMaster, i)
              /\ toMaster[i].cmd = "syn_i_w_m_p"
              /\ cmd = "True" => syncIntegrityFree
              /\ toMaster' = RemoveAt(toMaster, i)
              /\ toWorker' = Answer(toWorker, toMaster[i], cmd, None)
              /\ UNCHANGED <<mTasks, syncIntegrityFree, workerVars, connected>>
<1>1. ~Fault("lock timeout")
  BY Zenon DEF Trusted, Unreliable, Fault
<1> PICK i \in DOMAIN toMaster : GetPermission!(i)
  BY Zenon DEF GetPermission
<1>2. \E cmd \in {"True", "False"} :
         /\ cmd = "True" => syncIntegrityFree
         /\ toWorker' = Answer(toWorker, toMaster[i], cmd, None)
         /\ UNCHANGED syncIntegrityFree
  BY <1>1, Zenon DEF Permission
<1> QED
  BY <1>2, Zenon

LEMMA GetPermissionRounds ==
    ASSUME TypeOK, Trusted, Rounds, GetPermission
    PROVE  Rounds'
<1> PICK i \in DOMAIN toMaster, cmd \in {"True", "False"} :
         /\ Arrived(toMaster, i)
         /\ toMaster[i].cmd = "syn_i_w_m_p"
         /\ cmd = "True" => syncIntegrityFree
         /\ toMaster' = RemoveAt(toMaster, i)
         /\ toWorker' = Answer(toWorker, toMaster[i], cmd, None)
         /\ UNCHANGED <<mTasks, syncIntegrityFree, workerVars, connected>>
  BY GrantsTruly
<1>0. UNCHANGED <<workerFiles, checkIntegrityFree, loop, status, wTasks, pool>>
  BY DEF workerVars
<1> USE DEF Rounds
<1>1. cmd \in Responses
  BY DEF Responses
<1>2. PICK m \in Message : /\ m.cmd = "syn_i_w_m_p"
                           /\ MasterTakes(m) /\ AtHeadToMaster(m)
                           /\ AnsweredByMaster(m, cmd)
  BY <1>1, HandledByMaster
<1>3. m.proc = Loop /\ loop = "permission" /\ Loop # None
  BY <1>2, ContentsAssumption DEF Sent, FromWorker, AskedByLoop, Report, Responses, MasterTakes, Loop, None
<1>4. PICK e \in Message : ToWorker(e) /\ e.cmd = cmd /\ e.proc = Loop
  BY <1>2, <1>3 DEF AnsweredByMaster, ToWorker
<1>5. \A x \in Outgoing : x.proc # Loop
  BY <1>2, <1>3 DEF Single, MasterTakes
<1>6. ~Pending("syn_i_w_m_p")' /\ ~Pending("syn_i_w_m_e")' /\ ~Pending("syn_i_w_m_e")
  BY <1>2, <1>3 DEF Pending, MasterTakes, Sent, FromWorker, AskedByLoop, Report, Responses, Loop
<1>7. \A x \in Incoming : x \notin Failures
  BY <1>2, <1>3 DEF Reported, Orders, AtHeadToMaster
<1>8. \A t \in TaskIds : (Replied(t) => Replied(t)') /\ (Leaving(t) => Leaving(t)')
  BY <1>2 DEF Replied, Leaving, Replies, MasterTakes, Responses
<1>9. Sent'
  BY <1>0, <1>1, <1>2, <1>3, <1>4
  DEF Sent, FromWorker, FromMaster, AskedByLoop, AskedByMaster, Asking, Reporting, MasterTakes, ToWorker
<1>10. Single'
  BY <1>2, <1>3, <1>4, <1>5 DEF Single, MasterTakes, ToWorker
<1>11. Tasks' /\ SyncsDoNotOverlap' /\ Jobs'
  BY <1>0 DEF Tasks, Syncing, Receiving, Jobs, SyncsDoNotOverlap
<1>12. Granted' => syncIntegrityFree
  BY <1>0, <1>3, <1>4, <1>5 DEF Granted, ToWorker
<1>13. Flag'
  BY <1>0, <1>8, <1>12 DEF Flag, Syncing
<1>14. Reported' /\ Asked'
  BY <1>2, <1>6, <1>7 DEF Reported, Asked, MasterTakes
<1>15. Served'
  BY <1>0, <1>8 DEF Served, Syncing
<1>16. Opening'
  BY <1>0, <1>3, <1>6 DEF Opening
<1>17. Quiet'
  <2>1. CASE Granted'
    <3>1. \A t \in Syncing : mTasks[t].pc # "cmd"
      BY <1>12, <2>1 DEF Flag, Leaving
    <3>2. Receiving = {}
      BY <1>2, <3>1 DEF Asked, Pending, MasterTakes
    <3> QED
      BY <1>0, <3>2 DEF Quiet, Receiving
  <2>2. CASE ~Granted'
    BY <1>0, <1>3, <1>4, <1>6, <2>2 DEF Quiet, Comparing, Receiving, ToWorker
  <2> QED
    BY <2>1, <2>2
<1>18. Current'
  BY <1>0, <1>2, <1>3 DEF Current, NoUpdates, MasterTakes
<1> QED
  BY <1>9, <1>10, <1>11, <1>13, <1>14, <1>15, <1>16, <1>17, <1>18


LEMMA SetupSyncIntegrityRounds ==
    ASSUME TypeOK, Rounds, SetupSyncIntegrity
    PROVE  Rounds'
<1> USE DEF Rounds
<1> PICK i \in DOMAIN toMaster : SetupSyncIntegrity!(i)
  BY DEF SetupSyncIntegrity
<1>0. UNCHANGED <<workerFiles, checkIntegrityFree, loop, status, wTasks, pool, connected>>
  BY DEF workerVars
<1> PICK t \in TaskIds : t = NewTask /\ Unused(t)
  BY NewTaskType
<1>1. PICK m \in Message : /\ m.cmd = "syn_i_w_m"
                           /\ MasterTakes(m) /\ AtHeadToMaster(m)
                           /\ AnsweredByMaster(m, "ok")
  BY HandledByMaster DEF Responses
<1>2. m.proc = Loop /\ loop = "cmd" /\ Loop # None /\ Granted
  BY <1>1, ContentsAssumption
  DEF Sent, FromWorker, AskedByLoop, Report, Responses, MasterTakes, Loop, None,
      Granted, Pending
<1>3. PICK e \in Message : ToWorker(e) /\ e.cmd = "ok" /\ e.proc = Loop
  BY <1>1, <1>2 DEF AnsweredByMaster, ToWorker
<1>4. Syncing = {} /\ Receiving = {}
  <2>1. \A s \in Syncing : ~Leaving(s)
    BY <1>1 DEF Leaving, Orders, AtHeadToMaster
  <2> QED
    BY <1>2, <2>1 DEF Flag, Quiet, Comparing
<1>5. MasterTaskIs(t, "wait") /\ wTasks[t].pc = "none"
  BY OneTaskAt, FreshName
<1>6. Syncing' = {t} /\ Receiving' = {}
  BY <1>0, <1>4, <1>5 DEF Syncing, Receiving, MasterTaskIs
<1>7. /\ \A x \in Incoming : x.proc # t
      /\ \A x \in Outgoing : x.proc # t /\ x.proc # Loop
  BY <1>1, <1>2, FreshName DEF Single, MasterTakes
<1>8. /\ ~Pending("syn_i_w_m")' /\ ~Pending("syn_i_w_m_p")' /\ ~Pending("syn_i_w_m_e")'
      /\ ~Pending("syn_i_w_m_e")
  BY <1>1, <1>2 DEF Pending, MasterTakes, Sent, FromWorker, AskedByLoop, Report, Responses, Loop
<1>9. \A x \in Incoming : x \notin Failures
  BY <1>2 DEF Reported
<1>10. t # Loop /\ t # None
  BY ContentsAssumption
<1>11. Sent'
  BY <1>0, <1>1, <1>2, <1>3, <1>5, <1>7
  DEF Sent, FromWorker, FromMaster, AskedByLoop, AskedByMaster, Asking, Reporting,
      MasterTakes, ToWorker, MasterTaskIs, Responses
<1>12. Single'
  BY <1>1, <1>2, <1>3, <1>7 DEF Single, MasterTakes, ToWorker
<1>13. Tasks' /\ SyncsDoNotOverlap'
  BY <1>0, <1>5, <1>6 DEF Tasks, Receiving, SyncsDoNotOverlap, MasterTaskIs
<1>14. ~Granted' /\ ~syncIntegrityFree'
  BY <1>0, <1>2, <1>8 DEF Granted
<1>15. Flag' /\ Reported' /\ Asked'
  BY <1>1, <1>8, <1>9, <1>14 DEF Flag, Reported, Asked, MasterTakes
<1>16. Served'
  BY <1>0, <1>4 DEF Served, Receiving
<1>17. Opening'
  BY <1>5, <1>6 DEF Opening, MasterTaskIs
<1>18. Quiet' /\ Jobs'
  BY <1>0, <1>6 DEF Quiet, Jobs
<1>19. Current'
  BY <1>0, <1>1, <1>5 DEF Current, NoUpdates, MasterTakes, MasterTaskIs
<1> QED
  BY <1>11, <1>12, <1>13, <1>15, <1>16, <1>17, <1>18, <1>19

LEMMA EndReceivingIntegrityChecksumsRounds ==
    ASSUME TypeOK, Rounds, EndReceivingIntegrityChecksums
    PROVE  Rounds'
<1> USE DEF Rounds
<1> PICK i \in DOMAIN toMaster : EndReceivingIntegrityChecksums!(i)
  BY DEF EndReceivingIntegrityChecksums
<1>0. /\ UNCHANGED <<workerFiles, checkIntegrityFree, loop, status, wTasks, pool, connected>>
      /\ UNCHANGED syncIntegrityFree
  BY DEF workerVars
<1>1. PICK cmd \in {"ok", "err"}, task \in TaskIds \cup {None} :
         toWorker' = Answer(toWorker, toMaster[i], cmd, task)
  BY MessagesType, ReceivedType
<1>2. cmd \in Responses
  BY DEF Responses
<1>3. PICK m \in Message : /\ m = toMaster[i] /\ m.cmd = "syn_i_w_m_e"
                           /\ MasterTakes(m) /\ AnsweredByMaster(m, cmd)
  BY <1>1, <1>2, HandledByMaster
<1>4. m.proc = Loop /\ loop = "end" /\ Loop # None /\ Pending("syn_i_w_m_e")
  BY <1>3, ContentsAssumption
  DEF Sent, FromWorker, AskedByLoop, Report, Responses, MasterTakes, Loop, None, Pending
<1>5. PICK e \in Message : ToWorker(e) /\ e.cmd = cmd /\ e.proc = Loop
  BY <1>3, <1>4 DEF AnsweredByMaster, ToWorker
<1>6. \/ UNCHANGED mTasks
      \/ \E t \in TaskIds : /\ mTasks[t].pc = "wait"
                            /\ MasterTaskIs(t, "ready")
                            /\ mTasks'[t].load = m.load
  <2>1. CASE UNCHANGED mTasks
    BY <2>1
  <2>2. CASE ~UNCHANGED mTasks
    <3> DEFINE t == m.task
               r == [pc |-> "ready", load |-> m.load, at |-> 0]
    <3>1. t \in TaskIds /\ mTasks[t].pc = "wait" /\ mTasks' = [mTasks EXCEPT ![t] = r]
      BY <1>3, <2>2 DEF Message
    <3>2. MasterTaskIs(t, r.pc) /\ mTasks'[t] = r
      BY <3>1, OneTask
    <3> QED
      BY <3>1, <3>2
  <2> QED
    BY <2>1, <2>2
<1>7. \A s \in TaskIds : /\ mTasks'[s].pc # mTasks[s].pc =>
                               mTasks[s].pc = "wait" /\ mTasks'[s].pc = "ready"
                         /\ mTasks'[s] # mTasks[s] => mTasks'[s].load = m.load
  BY <1>6 DEF MasterTaskIs
<1>8. Syncing' = Syncing /\ Receiving' = Receiving
  BY <1>0, <1>7 DEF Syncing, Receiving
<1>9. /\ ~Pending("syn_i_w_m")' /\ ~Pending("syn_i_w_m_p")' /\ ~Pending("syn_i_w_m_e")'
      /\ ~Granted' /\ Receiving = {}
  BY <1>0, <1>3, <1>4
  DEF Pending, MasterTakes, Sent, FromWorker, AskedByLoop, Report, Responses, Loop,
      Granted, Quiet, Comparing
<1>10. \A x \in Outgoing : x.proc # Loop
  BY <1>3, <1>4 DEF Single, MasterTakes
<1>11. \A t \in TaskIds : (Replied(t) => Replied(t)') /\ (Leaving(t) => Leaving(t)')
  BY <1>3, <1>7 DEF Replied, Leaving, Replies, MasterTakes, Responses
<1>12. Sent'
  <2>1. \A t \in TaskIds : Asking(t) => mTasks'[t].pc = mTasks[t].pc
    BY <1>7 DEF Asking
  <2> QED
    BY <1>0, <1>2, <1>3, <1>4, <1>5, <2>1
    DEF Sent, FromWorker, FromMaster, AskedByLoop, AskedByMaster, Asking, Reporting,
        MasterTakes, ToWorker
<1>13. Single'
  BY <1>3, <1>4, <1>5, <1>10 DEF Single, MasterTakes, ToWorker
<1>14. Tasks' /\ SyncsDoNotOverlap' /\ Jobs'
  BY <1>0, <1>7, <1>8 DEF Tasks, SyncsDoNotOverlap, Jobs
<1>15. Flag'
  BY <1>0, <1>8, <1>9, <1>11 DEF Flag, Syncing
<1>16. Reported'
  <2>1. \A t \in TaskIds : mTasks[t].pc # "cmd" => mTasks'[t].pc # "cmd"
    BY <1>7
  <2> QED
    BY <1>0, <1>3, <1>4, <1>8, <1>9, <1>11, <2>1 DEF Reported, MasterTakes, Syncing
<1>17. Asked' /\ Quiet' /\ Opening' /\ Served'
  BY <1>0, <1>4, <1>8, <1>9 DEF Asked, Quiet, Opening, Served, Receiving
<1>18. Current'
  BY <1>0, <1>3, <1>4, <1>7 DEF Current, NoUpdates, MasterTakes
<1> QED
  BY <1>12, <1>13, <1>14, <1>15, <1>16, <1>17, <1>18

LEMMA ProcessSyncErrorFromWorkerRounds ==
    ASSUME TypeOK, Rounds, ProcessSyncErrorFromWorker
    PROVE  Rounds'
<1> USE DEF Rounds
<1> PICK i \in DOMAIN toMaster : ProcessSyncErrorFromWorker!(i)
  BY DEF ProcessSyncErrorFromWorker
<1>1. PICK m \in Message : /\ m = toMaster[i] /\ m.cmd = "syn_i_w_m_r"
                           /\ MasterTakes(m) /\ AtHeadToMaster(m)
                           /\ AnsweredByMaster(m, "ok")
  BY MessagesType, ReceivedType, HandledByMaster DEF Responses
<1>2. m.task = None
  BY <1>1 DEF Sent, MasterTakes
<1>0. UNCHANGED <<workerFiles, checkIntegrityFree, loop, status, wTasks, pool, connected, mTasks>>
  BY <1>1, <1>2 DEF workerVars
<1>3. /\ m.proc = Loop => loop = "err"
      /\ m.proc # Loop /\ m.proc # None => Reporting(m.proc)
  BY <1>1, ContentsAssumption
  DEF Sent, FromWorker, AskedByLoop, Report, Reporting, Responses, MasterTakes, Loop, None
<1>4. /\ \A x \in Outgoing' : x \in Outgoing \/ (x.cmd = "ok" /\ x.proc = m.proc /\ m.proc # None)
      /\ Outgoing \subseteq Outgoing'
  BY <1>1 DEF AnsweredByMaster, ToWorker, Outgoing
<1>5. Granted' => Granted
  BY <1>0, <1>1, <1>4 DEF Granted, Pending, MasterTakes
<1>6. \A t \in TaskIds : /\ Replied(t) => Replied(t)'
                         /\ Leaving(t) => Leaving(t)'
                         /\ (\A S, T : Before(toMaster, S, T) => Before(toMaster', S, T))
  BY <1>0, <1>1 DEF Replied, Leaving, Replies, MasterTakes, Responses
<1>7. \A t \in Syncing : Leaving(t)
  <2>1. CASE m.proc = Loop
    BY <1>3, <2>1 DEF Flag, Granted
  <2>2. CASE m.proc # Loop
    <3>1. m \in Failures /\ m \in Incoming
      BY <1>1, <2>2 DEF Failures, MasterTakes
    <3>2. loop # "cmd" /\ ~Pending("syn_i_w_m")
      BY <3>1 DEF Reported, Pending, Sent, FromWorker, AskedByLoop, Report, Responses
    <3>3. \A S : Before(toMaster, S, Orders("syn_i_w_m"))
      BY <3>2 DEF Before, Orders, Pending, Incoming, ToSet
    <3>4. \A t \in Syncing : \A x \in Incoming : x \notin Fresh(t)
      BY <1>1, <3>1 DEF Reported, AtHeadToMaster
    <3> QED
      BY <3>1, <3>3, <3>4 DEF Reported, Replied, Leaving, Fresh
  <2> QED
    BY <2>1, <2>2
<1>8. Sent'
  BY <1>0, <1>1, <1>3, <1>4
  DEF Sent, FromWorker, FromMaster, AskedByLoop, AskedByMaster, Asking, Reporting,
      MasterTakes, Responses
<1>9. Single'
  <2>1. CASE m.proc = None
    BY <1>1, <2>1 DEF Single, MasterTakes, AnsweredByMaster, Outgoing
  <2>2. CASE m.proc # None
    <3>1. PICK e \in Message : ToWorker(e) /\ e.proc = m.proc
      BY <1>1, <2>2 DEF AnsweredByMaster, ToWorker
    <3> QED
      BY <1>1, <2>2, <3>1 DEF Single, MasterTakes, ToWorker
  <2> QED
    BY <2>1, <2>2
<1>10. Tasks' /\ SyncsDoNotOverlap' /\ Jobs'
  BY <1>0 DEF Tasks, Syncing, Receiving, Jobs, SyncsDoNotOverlap
<1>11. Flag'
  BY <1>0, <1>6, <1>7 DEF Flag, Syncing
<1>12. Reported'
  BY <1>0, <1>1, <1>5, <1>6 DEF Reported, MasterTakes, Syncing
<1>13. Asked'
  BY <1>0, <1>1, <1>6 DEF Asked, MasterTakes, Syncing, Receiving, Pending
<1>14. Served'
  BY <1>0, <1>6 DEF Served, Syncing
<1>15. Opening'
  BY <1>0, <1>1 DEF Opening, Syncing, Pending, MasterTakes
<1>16. Quiet'
  BY <1>0, <1>1, <1>4, <1>5 DEF Quiet, Comparing, Receiving, Pending, MasterTakes
<1>17. Current'
  BY <1>0, <1>1 DEF Current, NoUpdates, MasterTakes
<1> QED
  BY <1>8, <1>9, <1>10, <1>11, <1>12, <1>13, <1>14, <1>15, <1>16, <1>17


LEMMA CancelTaskOnMasterRounds ==
    ASSUME TypeOK, Rounds, CancelTaskOnMaster
    PROVE  Rounds'
<1> USE DEF Rounds
<1> PICK i \in DOMAIN toMaster : CancelTaskOnMaster!(i)
  BY DEF CancelTaskOnMaster
<1>0. UNCHANGED <<workerFiles, checkIntegrityFree, loop, status, wTasks, pool, connected,
                  mTasks, syncIntegrityFree>>
  BY DEF workerVars, masterVars
<1>1. PICK m \in Message : /\ m.cmd = "cancel_task"
                           /\ MasterTakes(m) /\ AnsweredByMaster(m, "ok")
  BY MessagesType, ReceivedType, HandledByMaster DEF Responses
<1>2. m.proc # None => Reporting(m.proc) /\ m.proc # Loop
  BY <1>1, ContentsAssumption
  DEF Sent, FromWorker, AskedByLoop, Report, Reporting, Responses, MasterTakes, Loop, None
<1>3. /\ \A x \in Outgoing' : x \in Outgoing \/ (x.cmd = "ok" /\ x.proc = m.proc /\ m.proc # None)
      /\ Outgoing \subseteq Outgoing'
  BY <1>1 DEF AnsweredByMaster, ToWorker, Outgoing
<1>4. Granted' => Granted
  BY <1>0, <1>1, <1>3 DEF Granted, Pending, MasterTakes
<1>5. \A t \in TaskIds : /\ Replied(t) => Replied(t)'
                         /\ Leaving(t) => Leaving(t)'
  BY <1>0, <1>1 DEF Replied, Leaving, Replies, MasterTakes, Responses
<1>6. Sent'
  BY <1>0, <1>1, <1>2, <1>3
  DEF Sent, FromWorker, FromMaster, AskedByLoop, AskedByMaster, Asking, Reporting,
      MasterTakes, Responses
<1>7. Single'
  <2>1. CASE m.proc = None
    BY <1>1, <2>1 DEF Single, MasterTakes, AnsweredByMaster, Outgoing
  <2>2. CASE m.proc # None
    <3>1. PICK e \in Message : ToWorker(e) /\ e.proc = m.proc
      BY <1>1, <2>2 DEF AnsweredByMaster, ToWorker
    <3> QED
      BY <1>1, <2>2, <3>1 DEF Single, MasterTakes, ToWorker
  <2> QED
    BY <2>1, <2>2
<1>8. Tasks' /\ SyncsDoNotOverlap' /\ Jobs'
  BY <1>0 DEF Tasks, Syncing, Receiving, Jobs, SyncsDoNotOverlap
<1>9. Flag'
  BY <1>0, <1>4, <1>5 DEF Flag, Syncing
<1>10. Reported'
  BY <1>0, <1>1, <1>4, <1>5 DEF Reported, MasterTakes, Syncing
<1>11. Asked'
  BY <1>0, <1>1, <1>5 DEF Asked, MasterTakes, Syncing, Receiving, Pending
<1>12. Served'
  BY <1>0, <1>5 DEF Served, Syncing
<1>13. Opening'
  BY <1>0, <1>1 DEF Opening, Syncing, Pending, MasterTakes
<1>14. Quiet'
  BY <1>0, <1>1, <1>3, <1>4 DEF Quiet, Comparing, Receiving, Pending, MasterTakes
<1>15. Current'
  BY <1>0, <1>1 DEF Current, NoUpdates, MasterTakes
<1> QED
  BY <1>6, <1>7, <1>8, <1>9, <1>10, <1>11, <1>12, <1>13, <1>14, <1>15

-----------------------------------------------------------------------------
(***************************************************************************)
(* The master's tasks.                                                     *)
(***************************************************************************)
Command(pc) == CASE pc = "ok" -> "syn_m_c_ok"
                 [] pc = "cmd" -> "syn_m_c"
                 [] pc = "cancel" -> "cancel_task"
                 [] OTHER -> "none"

(* A task that waited for no response goes on, and may send a request.     *)
LEMMA MasterGoesOn ==
    ASSUME TypeOK, Rounds, NEW t \in TaskIds, NEW pc,
           \/ mTasks[t].pc = "wait" /\ pc = "cancel"
           \/ mTasks[t].pc = "ready" /\ pc \in {"ok", "compress"}
           \/ mTasks[t].pc = "compress" /\ pc = "cmd",
           MasterTaskIs(t, pc),
           UNCHANGED <<workerFiles, checkIntegrityFree, loop, status, wTasks, pool, connected,
                       syncIntegrityFree, toMaster>>,
           \/ pc = "compress" /\ UNCHANGED toWorker
           \/ \E e : pc # "compress" /\ ToWorker(e) /\ e.proc = t /\ e.cmd = Command(pc)
    PROVE  Rounds'
<1> USE DEF Rounds
<1>0. /\ mTasks[t].pc \in {"wait", "ready", "compress"}
      /\ pc \in {"ok", "cmd", "cancel", "compress"}
  OBVIOUS
<1>1. t # None /\ t # Loop
  BY ContentsAssumption
<1>2. Incoming' = Incoming /\ UNCHANGED toMaster
  BY DEF Incoming
<1>3. /\ \A x \in Incoming : x.proc # t
      /\ \A x \in Outgoing : x.proc # t
      /\ wTasks[t].pc = "none"
  <2>1. ~Asking(t) /\ ~Reporting(t) /\ wTasks[t].pc = "none"
    BY <1>0 DEF Asking, Reporting, Tasks
  <2> QED
    BY <2>1, Silent
<1>4. /\ \A x \in Outgoing' : \/ x \in Outgoing
                              \/ /\ x.proc = t /\ x \in Message
                                 /\ x.cmd = Command(pc) /\ pc \in {"ok", "cmd", "cancel"}
      /\ Outgoing \subseteq Outgoing'
  BY <1>0 DEF ToWorker, Outgoing
<1>5. \A s \in TaskIds : s # t => mTasks'[s] = mTasks[s]
  BY DEF MasterTaskIs
<1>6. mTasks'[t].pc = pc
  BY DEF MasterTaskIs
<1>7. t \in Syncing /\ Syncing' = Syncing /\ Receiving' = Receiving /\ Receiving = {}
  BY <1>0, <1>5, <1>6 DEF Syncing, Receiving, Quiet, Comparing
<1>8. Sent'
  <2>1. \A x \in Incoming : FromWorker(x) => FromWorker(x)'
    BY <1>3, <1>5 DEF FromWorker, AskedByLoop, Asking, Reporting
  <2>2. \A x \in Outgoing : FromMaster(x) => FromMaster(x)'
    BY <1>3, <1>5 DEF FromMaster, AskedByMaster, Asking, Reporting
  <2>3. \A x \in Message : /\ x.proc = t /\ x.cmd = Command(pc)
                           /\ pc \in {"ok", "cmd", "cancel"}
                           => FromMaster(x)'
    BY <1>6 DEF FromMaster, AskedByMaster, Asking, Command
  <2> QED
    BY <1>2, <1>4, <2>1, <2>2, <2>3 DEF Sent
<1>9. Single'
  <2>1. Distinct(toWorker')
    BY <1>3 DEF Single, ToWorker
  <2> QED
    BY <1>2, <1>3, <1>4, <2>1 DEF Single
<1>10. Tasks'
  BY <1>0, <1>3, <1>5, <1>6, <1>7 DEF Tasks
<1>11. Jobs' /\ SyncsDoNotOverlap'
  BY <1>7 DEF Jobs, SyncsDoNotOverlap
<1>12. Granted' = Granted /\ \A cmd : Pending(cmd)' = Pending(cmd)
  BY <1>1, <1>2, <1>4 DEF Granted, Pending
<1>13. ~Replied(t)
  BY <1>3 DEF Replied, Replies
<1>14. ~(syncIntegrityFree \/ Granted)
  BY <1>3, <1>7 DEF Flag, Leaving, Replies
<1>15. Flag' /\ Reported' /\ Asked' /\ Served'
  <2>1. ~(\E x \in Incoming : x \in Failures)
    BY <1>7, <1>13 DEF Reported
  <2>2. ~(\E w \in TaskIds : wTasks[w].pc = "ready")
    BY <1>7, <1>13 DEF Served
  <2> QED
    BY <1>2, <1>7, <1>12, <1>14, <2>1, <2>2 DEF Flag, Reported, Asked, Served
<1>16. Opening'
  BY <1>0, <1>5, <1>6, <1>7, <1>12 DEF Opening, Syncing
<1>17. Quiet'
  BY <1>7 DEF Quiet
<1>18. Current'
  BY <1>0, <1>2, <1>5, <1>6 DEF Current, NoUpdates
<1> QED
  BY <1>8, <1>9, <1>10, <1>11, <1>15, <1>16, <1>17, <1>18

LEMMA MasterGoesOnRounds ==
    ASSUME TypeOK, Rounds, NEW t \in TaskIds,
           Compare(t) \/ Compress(t) \/ MasterFileTimeout(t)
    PROVE  Rounds'
<1>0. UNCHANGED <<workerFiles, checkIntegrityFree, loop, status, wTasks, pool, connected,
                  syncIntegrityFree, toMaster>>
  BY Zenon DEF Compare, Compress, MasterFileTimeout, workerVars
<1>1. t \in TaskIds \cup {Loop, None} /\ t \in TaskIds \cup {None} /\ Single
  BY DEF Rounds
<1>2. CASE Compare(t)
  <2>1. mTasks[t].pc = "ready"
    BY <1>2 DEF Compare
  <2>2. CASE mTasks' = [mTasks EXCEPT ![t] = TaskAt("ok")]
             /\ toWorker' = Append(toWorker, Request("syn_m_c_ok", t))
    <3>1. PICK e \in Message : /\ toWorker' = Append(toWorker, e)
                               /\ e.proc = t /\ e.cmd = Command("ok")
      BY <1>1, <2>2, RequestType DEF Request, Msg, Command, Requests
    <3>2. ToWorker(e) /\ MasterTaskIs(t, "ok")
      BY <1>1, <2>2, <3>1, PutToWorker, OneTaskAt
    <3> QED
      BY <1>0, <2>1, <3>1, <3>2, MasterGoesOn
  <2>3. CASE UNCHANGED toWorker /\ \E ko : mTasks' = [mTasks EXCEPT ![t] =
                  [pc |-> "compress", load |-> ko, at |-> integrityControl.at]]
    <3>1. PICK ko : mTasks' = [mTasks EXCEPT ![t] =
                  [pc |-> "compress", load |-> ko, at |-> integrityControl.at]]
      BY <2>3
    <3> DEFINE r == [pc |-> "compress", load |-> ko, at |-> integrityControl.at]
    <3>2. MasterTaskIs(t, r.pc)
      BY <3>1, OneTask
    <3> QED
      BY <1>0, <2>1, <2>3, <3>2, MasterGoesOn
  <2> QED
    BY <1>2, <2>2, <2>3 DEF Compare
<1>3. CASE Compress(t)
  <2>1. /\ mTasks[t].pc = "compress"
        /\ toWorker' = Append(toWorker, Request("syn_m_c", t))
        /\ \E load : mTasks' = [mTasks EXCEPT ![t] =
                        [pc |-> "cmd", load |-> load, at |-> mTasks[t].at]]
    BY <1>3, Zenon DEF Compress
  <2>2. PICK load : mTasks' = [mTasks EXCEPT ![t] =
                        [pc |-> "cmd", load |-> load, at |-> mTasks[t].at]]
    BY <2>1
  <2> DEFINE r == [pc |-> "cmd", load |-> load, at |-> mTasks[t].at]
  <2>3. MasterTaskIs(t, r.pc)
    BY <2>2, OneTask
  <2>4. PICK e \in Message : /\ toWorker' = Append(toWorker, e)
                             /\ e.proc = t /\ e.cmd = Command("cmd")
    BY <1>1, <2>1, RequestType DEF Request, Msg, Command, Requests
  <2>5. ToWorker(e)
    BY <1>1, <2>4, PutToWorker
  <2> QED
    BY <1>0, <2>1, <2>3, <2>4, <2>5, MasterGoesOn
<1>4. CASE MasterFileTimeout(t)
  <2>1. /\ mTasks[t].pc = "wait"
        /\ mTasks' = [mTasks EXCEPT ![t] = TaskAt("cancel")]
        /\ toWorker' = Append(toWorker, TaskRequest("cancel_task", t, t))
    BY <1>4, Zenon DEF MasterFileTimeout
  <2>2. PICK e \in Message : /\ toWorker' = Append(toWorker, e)
                             /\ e.proc = t /\ e.cmd = Command("cancel")
    BY <1>1, <2>1, TaskRequestType DEF TaskRequest, Msg, Command, Requests
  <2>3. ToWorker(e) /\ MasterTaskIs(t, "cancel")
    BY <1>1, <2>1, <2>2, PutToWorker, OneTaskAt
  <2> QED
    BY <1>0, <2>1, <2>2, <2>3, MasterGoesOn
<1> QED
  BY <1>2, <1>3, <1>4


(* The one task of the master ends.                                        *)
LEMMA MasterIsDone ==
    ASSUME TypeOK, Rounds, NEW t \in TaskIds, mTasks[t].pc # "none",
           ~(Pending("syn_i_w_m_p") /\ Receiving # {}),
           MasterTaskIs(t, "none"), syncIntegrityFree' = TRUE,
           UNCHANGED <<workerFiles, checkIntegrityFree, loop, status, wTasks, pool, connected,
                       toWorker>>,
           Incoming' \subseteq Incoming, Distinct(toMaster'),
           \A x \in Incoming' : x.proc # t,
           \A x \in Incoming : x \in Incoming' \/ x.cmd \in Responses,
           \A x \in Outgoing : x.proc # t,
           \A S, T : Before(toMaster, S, T) => Before(toMaster', S, T)
    PROVE  Rounds'
<1> USE DEF Rounds
<1>1. /\ Syncing' = {} /\ Receiving' = Receiving /\ Syncing = {t}
      /\ \A s \in TaskIds : s # t => mTasks'[s] = mTasks[s]
  BY DEF MasterTaskIs, Syncing, Receiving, SyncsDoNotOverlap
<1>2. Outgoing' = Outgoing
  BY DEF Outgoing
<1>3. /\ Pending("syn_i_w_m")' = Pending("syn_i_w_m")
      /\ Pending("syn_i_w_m_p")' = Pending("syn_i_w_m_p")
      /\ Pending("syn_i_w_m_e")' = Pending("syn_i_w_m_e")
      /\ Granted' = Granted
  BY <1>2 DEF Pending, Granted, Responses
<1>4. t # Loop /\ t # None
  BY ContentsAssumption
<1>5. Sent'
  BY <1>1, <1>2, <1>4
  DEF Sent, FromWorker, FromMaster, AskedByLoop, AskedByMaster, Asking, Reporting
<1>6. Single'
  BY <1>2 DEF Single
<1>7. Tasks' /\ SyncsDoNotOverlap' /\ Jobs'
  BY <1>1 DEF Tasks, SyncsDoNotOverlap, Jobs, MasterTaskIs
<1>8. Flag' /\ Served' /\ Opening'
  BY <1>1 DEF Flag, Served, Opening
<1>9. Reported'
  BY <1>1, <1>3 DEF Reported
<1>10. Asked'
  BY <1>1, <1>3 DEF Asked
<1>11. Quiet'
  BY <1>1, <1>2, <1>3 DEF Quiet, Comparing, MasterTaskIs
<1>12. Current'
  BY <1>1 DEF Current, NoUpdates, MasterTaskIs
<1> QED
  BY <1>5, <1>6, <1>7, <1>8, <1>9, <1>10, <1>11, <1>12

LEMMA MasterTaskFailsRounds ==
    ASSUME TypeOK, Rounds, NEW t \in TaskIds, MasterTaskFails(t)
    PROVE  Rounds'
<1> USE DEF Rounds
<1>1. mTasks[t].pc \in {"ready", "compress"}
  BY DEF MasterTaskFails, Tasks
<1>2. MasterTaskIs(t, "none") /\ syncIntegrityFree' = TRUE
  BY OneTaskAt DEF MasterTaskFails, MasterTaskDone
<1>3. UNCHANGED <<workerFiles, checkIntegrityFree, loop, status, wTasks, pool, connected,
                  toWorker, toMaster>>
  BY DEF MasterTaskFails, workerVars, channels
<1>4. /\ \A x \in Incoming : x.proc # t
      /\ \A x \in Outgoing : x.proc # t
  <2>1. ~Asking(t) /\ ~Reporting(t)
    BY <1>1 DEF Asking, Reporting, Tasks
  <2> QED
    BY <2>1, Silent
<1>5. ~(Pending("syn_i_w_m_p") /\ Receiving # {})
  BY <1>1 DEF Asked, Syncing, SyncsDoNotOverlap
<1>6. Incoming' = Incoming /\ Distinct(toMaster') /\ toMaster' = toMaster
  BY <1>3 DEF Incoming, Single
<1>7. mTasks[t].pc # "none"
  BY <1>1
<1> QED
  BY <1>2, <1>3, <1>4, <1>5, <1>6, <1>7, MasterIsDone

LEMMA MasterTaskAnsweredRounds ==
    ASSUME TypeOK, Rounds, NEW t \in TaskIds, MasterTaskAnswered(t)
    PROVE  Rounds'
<1> USE DEF Rounds
<1> PICK i \in DOMAIN toMaster : MasterTaskAnswered(t)!(i)
  BY DEF MasterTaskAnswered
<1>0. UNCHANGED <<workerFiles, checkIntegrityFree, loop, status, wTasks, pool, connected>>
  BY DEF workerVars
<1>1. PICK m \in Message : /\ m = toMaster[i]
                           /\ m.cmd \in Responses /\ m.proc = t
                           /\ MasterTakes(m) /\ AtHeadToMaster(m)
  BY MessagesType, ReceivedType, TakenFromMaster, ReadByMaster
<1>2. t # Loop /\ t # None
  BY ContentsAssumption
<1>3. Asking(t)
  BY <1>1, <1>2
  DEF Sent, FromWorker, AskedByLoop, Report, Responses, MasterTakes
<1>4. /\ \A x \in Incoming' : x.proc # t
      /\ \A x \in Outgoing : x.proc # t
  BY <1>1, <1>2 DEF MasterTakes, Single
<1>5. Syncing = {t} /\ mTasks[t].pc # "none"
  BY <1>3 DEF Syncing, Asking, SyncsDoNotOverlap
<1>6. ~(Pending("syn_i_w_m_p") /\ Receiving # {})
  <2>1. m \in Replies(t)
    BY <1>1 DEF Replies
  <2>2. Before(toMaster, Orders("syn_i_w_m_p"), Replies(t)) => ~Pending("syn_i_w_m_p")
    BY <1>1, <2>1, MessagesType DEF AtHeadToMaster, Orders, Pending
  <2> QED
    BY <1>5, <2>2 DEF Asked
<1>7. CASE mTasks[t].pc # "cmd"
  <2>1. MasterTaskIs(t, "none") /\ syncIntegrityFree' = TRUE /\ UNCHANGED toWorker
    BY <1>7, OneTaskAt DEF MasterTaskDone
  <2> QED
    BY <1>0, <1>1, <1>4, <1>5, <1>6, <2>1, MasterIsDone DEF MasterTakes
<1>8. CASE mTasks[t].pc = "cmd"
  <2>1. MasterTaskIs(t, "end") /\ UNCHANGED syncIntegrityFree
    BY <1>8, OneTaskAt
  <2>2. PICK e : ToWorker(e) /\ e.proc = t /\ e.cmd = "syn_m_c_e"
    <3> DEFINE e == Msg("syn_m_c_e", t, toMaster[i].task, mTasks[t].load, mTasks[t].at)
    <3>1. toWorker' = Append(toWorker, e)
      BY <1>8
    <3>2. /\ mTasks[t].load \in Load /\ mTasks[t].at \in Nat
          /\ toMaster[i].task \in TaskIds \cup {None}
      BY <1>8, ReceivedType, MessagesType DEF TypeOK
    <3>3. e \in Message
      BY <3>2, MsgType DEF Requests
    <3>4. e.proc = t /\ e.cmd = "syn_m_c_e"
      BY DEF Msg
    <3> QED
      BY <3>1, <3>3, <3>4, PutToWorker
  <2>3. \A s \in TaskIds : s # t => mTasks'[s] = mTasks[s]
    BY <2>1 DEF MasterTaskIs
  <2>4. mTasks'[t].pc = "end"
    BY <2>1 DEF MasterTaskIs
  <2>5. /\ Syncing' = {t} /\ Receiving' = Receiving
    BY <1>0, <1>5, <2>3, <2>4 DEF Syncing, Receiving
  <2>6. ~(syncIntegrityFree \/ Granted)
    BY <1>5, <1>8 DEF Flag, Leaving
  <2>7. /\ \A x \in Outgoing' : x \in Outgoing \/ x = e
        /\ Outgoing \subseteq Outgoing'
        /\ \A x \in Incoming : x \in Incoming' \/ x.cmd \in Responses
        /\ Incoming' \subseteq Incoming
    BY <1>1, <2>2 DEF ToWorker, MasterTakes
  <2>8. /\ Pending("syn_i_w_m")' = Pending("syn_i_w_m")
        /\ Pending("syn_i_w_m_p")' = Pending("syn_i_w_m_p")
        /\ Pending("syn_i_w_m_e")' = Pending("syn_i_w_m_e")
        /\ Granted' = Granted
    BY <1>0, <1>2, <2>2, <2>7 DEF Pending, Granted, Responses
  <2>9. Sent'
    <3>1. \A x \in Incoming' : FromWorker(x)'
      BY <1>0, <1>4, <2>3, <2>7 DEF Sent, FromWorker, AskedByLoop, Asking, Reporting
    <3>2. \A x \in Outgoing : FromMaster(x)'
      BY <1>0, <1>4, <2>3 DEF Sent, FromMaster, AskedByMaster, Asking, Reporting
    <3>3. FromMaster(e)'
      BY <2>2, <2>4 DEF FromMaster, AskedByMaster, Asking
    <3> QED
      BY <2>7, <3>1, <3>2, <3>3 DEF Sent
  <2>10. Single'
    BY <1>1, <1>4, <2>2, <2>7 DEF Single, ToWorker, MasterTakes
  <2>11. Tasks' /\ SyncsDoNotOverlap' /\ Jobs'
    BY <1>0, <1>5, <2>3, <2>4, <2>5 DEF Tasks, SyncsDoNotOverlap, Jobs, Syncing
  <2>12. Flag'
    BY <2>1, <2>6, <2>8 DEF Flag
  <2>13. Reported' /\ Asked'
    BY <1>5, <1>6, <1>8, <2>5, <2>7, <2>8 DEF Reported, Asked
  <2>14. Served'
    BY <1>0, <1>5, <1>8 DEF Served
  <2>15. Opening'
    BY <1>0, <1>5, <1>8, <2>8 DEF Opening
  <2>16. Quiet'
    BY <1>0, <1>8, <2>2, <2>3, <2>4, <2>5, <2>7, <2>8 DEF Quiet, Comparing
  <2>17. Current'
    BY <1>0, <2>3, <2>4, <2>7 DEF Current, NoUpdates
  <2> QED
    BY <2>9, <2>10, <2>11, <2>12, <2>13, <2>14, <2>15, <2>16, <2>17
<1> QED
  BY <1>7, <1>8

-----------------------------------------------------------------------------
(***************************************************************************)
(* The coroutine sync_integrity of the worker.                             *)
(***************************************************************************)

(* It waits for no response when it goes on.                               *)
LEMMA LoopSilent ==
    ASSUME TypeOK, Sent, loop \notin {"permission", "cmd", "end", "err"}
    PROVE  /\ \A m \in Incoming : m.proc # Loop
           /\ \A m \in Outgoing : m.proc # Loop
<1>1. Loop \notin TaskIds /\ Loop # None
  BY ContentsAssumption DEF Loop, None
<1> QED
  BY <1>1 DEF Sent, FromWorker, FromMaster, AskedByLoop, Asking, Reporting

LoopOnly ==
    UNCHANGED <<syncIntegrityFree, mTasks, workerFiles, checkIntegrityFree, wTasks, connected>>

LEMMA RequestPermissionRounds ==
    ASSUME TypeOK, Rounds, RequestPermission
    PROVE  Rounds'
<1> USE DEF Rounds
<1>0. /\ LoopOnly /\ UNCHANGED <<toWorker, pool, status>>
      /\ loop = "idle" /\ loop' = "permission" /\ Receiving = {}
  BY DEF RequestPermission, LoopOnly, masterVars, Tasks
<1>1. PICK e : ToMaster(e) /\ e.proc = Loop /\ e.cmd = "syn_i_w_m_p"
  <2> DEFINE e == Request("syn_i_w_m_p", Loop)
  <2>1. e \in Message /\ toMaster' = Append(toMaster, e)
    BY RequestType DEF RequestPermission, Requests
  <2>2. e.proc = Loop /\ e.cmd = "syn_i_w_m_p"
    BY DEF Request, Msg
  <2> QED
    BY <2>1, <2>2, PutToMaster
<1>2. /\ \A m \in Incoming : m.proc # Loop
      /\ \A m \in Outgoing : m.proc # Loop
  BY <1>0, LoopSilent
<1>3. /\ Incoming' = Incoming \cup {e} /\ Outgoing' = Outgoing /\ e \in Message
      /\ Receiving' = {} /\ Syncing' = Syncing /\ loop' = "permission" /\ loop = "idle"
  BY <1>0, <1>1 DEF ToMaster, Outgoing, LoopOnly, Receiving, Syncing
<1>4. /\ ~Granted' /\ ~Granted
      /\ Pending("syn_i_w_m_e")' = Pending("syn_i_w_m_e")
  BY <1>1, <1>2, <1>3 DEF Granted, Pending
<1>5. e \notin Failures /\ (\A t : e \notin Replies(t))
  BY <1>1 DEF Failures, Replies, Responses
<1>6. \A t \in TaskIds : Replied(t)' = Replied(t) /\ Leaving(t)' = Leaving(t)
  <2>1. \A t \in TaskIds : Replied(t)' = Replied(t)
    BY <1>3, <1>5 DEF Replied
  <2>2. \A t \in TaskIds : Leaving(t) => Leaving(t)'
    BY <1>0, <1>1, <1>3, <1>5 DEF Leaving, ToMaster, LoopOnly
  <2>3. \A t \in TaskIds : Leaving(t)' => Leaving(t)
    <3>1. ~Pending("syn_i_w_m")
      BY <1>0 DEF Pending, Sent, FromWorker, AskedByLoop, Report, Responses
    <3>2. \A t : Before(toMaster, Replies(t), Orders("syn_i_w_m"))
      BY <3>1 DEF Before, Orders, Pending, Incoming, ToSet
    <3> QED
      BY <1>0, <1>3, <1>5, <3>2 DEF Leaving, LoopOnly
  <2> QED
    BY <2>1, <2>2, <2>3 DEF Leaving
<1>7. Sent'
  BY <1>0, <1>1, <1>2, <1>3
  DEF Sent, FromWorker, FromMaster, AskedByLoop, AskedByMaster, Asking, Reporting, LoopOnly,
      Responses, Report
<1>8. Single'
  BY <1>0, <1>1, <1>2, <1>3 DEF Single, ToMaster
<1>9. Tasks' /\ SyncsDoNotOverlap'
  BY <1>0, <1>3 DEF Tasks, SyncsDoNotOverlap, LoopOnly
<1>10. Flag'
  BY <1>0, <1>3, <1>4, <1>6 DEF Flag, LoopOnly, Syncing
<1>11. Reported'
  <2>1. (\E x \in Incoming' : x \in Failures) => \E x \in Incoming : x \in Failures
    BY <1>3, <1>5
  <2>2. Before(toMaster, Failures, Orders("syn_i_w_m_p")) =>
            Before(toMaster', Failures, Orders("syn_i_w_m_p"))
    BY <1>1, <1>5 DEF ToMaster
  <2>3. \A t \in TaskIds : Before(toMaster, Fresh(t), Failures) =>
            Before(toMaster', Fresh(t), Failures)
    BY <1>1, <1>5 DEF ToMaster, Fresh
  <2> QED
    BY <1>0, <1>3, <1>4, <1>6, <2>1, <2>2, <2>3 DEF Reported, LoopOnly, Syncing
<1>12. Asked' /\ Quiet'
  BY <1>3 DEF Asked, Quiet
<1>13. Served'
  BY <1>0, <1>3, <1>6 DEF Served, LoopOnly, Syncing
<1>14. Opening'
  BY <1>0, <1>3, <1>4 DEF Opening, LoopOnly
<1>15. Jobs' /\ Current'
  BY <1>0, <1>1, <1>3 DEF Jobs, Current, NoUpdates, LoopOnly
<1> QED
  BY <1>7, <1>8, <1>9, <1>10, <1>11, <1>12, <1>13, <1>14, <1>15

LEMMA CollectStatusRounds ==
    ASSUME TypeOK, Rounds, CollectStatus
    PROVE  Rounds'
<1> USE DEF Rounds
<1>0. /\ LoopOnly /\ UNCHANGED <<toWorker, toMaster>>
      /\ loop = "scan" /\ loop' = "send" /\ status' = workerFiles
      /\ pool # <<>> /\ Head(pool) = ScanJob /\ pool' = Tail(pool)
  BY DEF CollectStatus, LoopOnly, masterVars, channels
<1>1. pool' = <<>>
  <2>1. pool \in Seq(Job) /\ 1 \in DOMAIN pool /\ pool[1] = ScanJob
    BY <1>0 DEF TypeOK
  <2>2. Loop # None
    BY ContentsAssumption DEF Loop, None
  <2>3. pool[1].kind = "scan" /\ pool[1].task # None
    BY <2>1, <2>2 DEF ScanJob
  <2>4. Len(pool) = 1
    BY <2>1, <2>3 DEF Jobs
  <2> QED
    BY <1>0, <2>1, <2>4
<1>2. /\ Incoming' = Incoming /\ Outgoing' = Outgoing
      /\ Receiving' = Receiving /\ Syncing' = Syncing
  BY <1>0 DEF Incoming, Outgoing, LoopOnly, Receiving, Syncing
<1>3. Granted' /\ Granted /\ \A cmd : Pending(cmd)' = Pending(cmd)
  BY <1>0, <1>2 DEF Granted, Pending
<1>4. Sent'
  BY <1>0, <1>2
  DEF Sent, FromWorker, FromMaster, AskedByLoop, AskedByMaster, Asking, Reporting, LoopOnly
<1>5. Single' /\ Tasks' /\ SyncsDoNotOverlap'
  BY <1>0, <1>2 DEF Single, Tasks, SyncsDoNotOverlap, LoopOnly
<1>6. Flag' /\ Reported'
  BY <1>0, <1>2, <1>3 DEF Flag, Leaving, Reported, Syncing, LoopOnly
<1>7. Asked' /\ Served' /\ Opening'
  BY <1>0, <1>2, <1>3 DEF Asked, Served, Opening, Replied, Syncing, LoopOnly
<1>8. Quiet'
  BY <1>2, <1>3 DEF Quiet, Comparing
<1>9. Jobs' /\ NoUpdates'
  BY <1>1 DEF Jobs, NoUpdates
<1>10. Current'
  BY <1>0, <1>2, <1>9 DEF Current, LoopOnly
<1> QED
  BY <1>4, <1>5, <1>6, <1>7, <1>8, <1>9, <1>10

(* The worker has the permission: it opens a task, or reports that it      *)
(* cannot.                                                                 *)
LEMMA LoopGoesOn ==
    ASSUME TypeOK, Rounds, LoopOnly, UNCHANGED <<toWorker, pool>>, loop = "send",
           NEW e, ToMaster(e), e.proc = Loop, e.task = None,
           \/ e.cmd = "syn_i_w_m" /\ loop' = "cmd" /\ UNCHANGED status
           \/ e.cmd = "syn_i_w_m_r" /\ loop' = "err"
    PROVE  Rounds'
<1> USE DEF Rounds
<1>1. /\ \A m \in Incoming : m.proc # Loop
      /\ \A m \in Outgoing : m.proc # Loop
  BY LoopSilent
<1>2. /\ Incoming' = Incoming \cup {e} /\ Outgoing' = Outgoing /\ e \in Message
      /\ Receiving' = Receiving /\ Syncing' = Syncing
  BY DEF ToMaster, Outgoing, LoopOnly, Receiving, Syncing
<1>3. /\ Granted' /\ Granted /\ Receiving = {}
      /\ Pending("syn_i_w_m_e")' = Pending("syn_i_w_m_e")
  BY <1>2 DEF Granted, Pending, Quiet, Comparing
<1>4. e \notin Failures /\ (\A t : e \notin Replies(t))
  BY DEF Failures, Replies, Responses
<1>5. \A t \in TaskIds : (Replied(t) => Replied(t)') /\ (Leaving(t) => Leaving(t)')
  BY <1>2, <1>4 DEF Replied, Leaving, ToMaster, LoopOnly
<1>6. Sent'
  BY <1>1, <1>2
  DEF Sent, FromWorker, FromMaster, AskedByLoop, AskedByMaster, Asking, Reporting, LoopOnly,
      Responses, Report
<1>7. Single'
  BY <1>1, <1>2 DEF Single, ToMaster
<1>8. Tasks' /\ SyncsDoNotOverlap'
  BY <1>2 DEF Tasks, SyncsDoNotOverlap, LoopOnly
<1>9. Flag'
  BY <1>2, <1>3, <1>5 DEF Flag, Syncing
<1>10. Reported'
  BY <1>2, <1>3, <1>4 DEF Reported
<1>11. Asked' /\ Quiet'
  BY <1>2, <1>3 DEF Asked, Quiet
<1>12. Served'
  BY <1>2, <1>5 DEF Served, LoopOnly, Syncing
<1>13. Opening'
  BY <1>2, <1>3 DEF Opening, LoopOnly, Pending
<1>14. Jobs'
  <2>1. \A i \in DOMAIN pool : ~(pool[i].kind = "scan" /\ pool[i].task # None)
    BY DEF Jobs
  <2> QED
    BY <2>1 DEF Jobs, LoopOnly
<1>15. Current'
  BY <1>2 DEF Current, NoUpdates, LoopOnly
<1> QED
  BY <1>6, <1>7, <1>8, <1>9, <1>10, <1>11, <1>12, <1>13, <1>14, <1>15

LEMMA LoopGoesOnRounds ==
    ASSUME TypeOK, Rounds, SendStatus \/ LoopFails
    PROVE  Rounds'
<1>1. CASE SendStatus
  <2> DEFINE e == Request("syn_i_w_m", Loop)
  <2>1. /\ LoopOnly /\ UNCHANGED <<toWorker, pool, status>>
        /\ loop = "send" /\ loop' = "cmd" /\ toMaster' = Append(toMaster, e)
    BY <1>1 DEF SendStatus, LoopOnly, masterVars
  <2>2. e \in Message /\ e.proc = Loop /\ e.task = None /\ e.cmd = "syn_i_w_m"
    <3>1. e \in Message
      BY RequestType DEF Requests
    <3> QED
      BY <3>1 DEF Request, Msg
  <2>3. ToMaster(e)
    BY <2>1, <2>2, PutToMaster DEF Rounds
  <2> HIDE DEF e
  <2> QED
    BY <2>1, <2>2, <2>3, LoopGoesOn
<1>2. CASE LoopFails
  <2> DEFINE e == Request("syn_i_w_m_r", Loop)
  <2>1. /\ LoopOnly /\ UNCHANGED <<toWorker, pool>>
        /\ loop = "send" /\ loop' = "err" /\ toMaster' = Append(toMaster, e)
    BY <1>2 DEF LoopFails, LoopOnly, masterVars
  <2>2. e \in Message /\ e.proc = Loop /\ e.task = None /\ e.cmd = "syn_i_w_m_r"
    <3>1. e \in Message
      BY RequestType DEF Requests
    <3> QED
      BY <3>1 DEF Request, Msg
  <2>3. ToMaster(e)
    BY <2>1, <2>2, PutToMaster DEF Rounds
  <2> HIDE DEF e
  <2> QED
    BY <2>1, <2>2, <2>3, LoopGoesOn
<1> QED
  BY <1>1, <1>2


LEMMA LoopAnsweredRounds ==
    ASSUME TypeOK, Rounds, LoopAnswered
    PROVE  Rounds'
<1> USE DEF Rounds
<1> PICK i \in DOMAIN toWorker : LoopAnswered!(i)
  BY DEF LoopAnswered
<1>0. LoopOnly
  BY DEF LoopOnly, masterVars
<1>1. PICK m \in Message : /\ m = toWorker[i]
                           /\ m.cmd \in Responses /\ m.proc = Loop /\ WorkerTakes(m)
  BY MessagesType, ReceivedType, TakenFromWorker
<1>2. Loop \notin TaskIds /\ Loop # None
  BY ContentsAssumption DEF Loop, None
<1>3. loop \in {"permission", "cmd", "end", "err"}
  BY <1>1, <1>2
  DEF Sent, FromMaster, AskedByMaster, Asking, Reporting, WorkerTakes
<1>4. /\ \A x \in Incoming : x.proc # Loop
      /\ \A x \in Outgoing' : x.proc # Loop
      /\ Outgoing' \subseteq Outgoing
  BY <1>1, <1>2 DEF WorkerTakes, Single
<1>5. ~Pending("syn_i_w_m") /\ ~Pending("syn_i_w_m_p") /\ ~Pending("syn_i_w_m_e")
  BY <1>4 DEF Pending, Sent, FromWorker, AskedByLoop, Report, Responses
<1>6. Syncing' = Syncing /\ Receiving' = Receiving
  BY <1>0 DEF Syncing, Receiving, LoopOnly
<1>7. Tasks' /\ SyncsDoNotOverlap'
  BY <1>0, <1>3, <1>6 DEF Tasks, SyncsDoNotOverlap, LoopOnly
<1>8. CASE /\ loop = "permission" /\ m.cmd = "True"
           /\ loop' = "scan" /\ pool' = Append(pool, ScanJob)
           /\ UNCHANGED <<toMaster, status>>
  <2>1. Granted /\ Granted' /\ Incoming' = Incoming /\ Receiving = {}
        /\ \A cmd : Pending(cmd)' = Pending(cmd)
    BY <1>1, <1>8 DEF Granted, WorkerTakes, Incoming, Pending, Quiet, Comparing
  <2>2. \A t \in TaskIds : (Replied(t) => Replied(t)') /\ (Leaving(t) => Leaving(t)')
    BY <1>0, <1>8, <2>1 DEF Replied, Leaving, LoopOnly
  <2>3. Sent'
    BY <1>0, <1>4, <1>8, <2>1
    DEF Sent, FromWorker, FromMaster, AskedByLoop, AskedByMaster, Asking, Reporting, LoopOnly
  <2>4. Single'
    BY <1>1, <1>8, <2>1 DEF Single, WorkerTakes
  <2>5. Flag' /\ Reported' /\ Asked' /\ Served' /\ Opening'
    BY <1>0, <1>5, <1>6, <1>8, <2>1, <2>2
    DEF Flag, Reported, Asked, Served, Opening, LoopOnly, Syncing
  <2>6. Quiet'
    BY <1>6, <2>1 DEF Quiet
  <2>7. Jobs'
    <3>1. /\ pool \in Seq(Job) /\ Len(pool) \in Nat
          /\ DOMAIN pool = 1..Len(pool)
          /\ DOMAIN pool' = 1..(Len(pool) + 1) /\ Len(pool') = Len(pool) + 1
          /\ \A k \in DOMAIN pool : pool'[k] = pool[k]
          /\ pool'[Len(pool) + 1] = ScanJob
      BY <1>8, OtherTypes DEF TypeOK
    <3>2. ScanJob.kind = "scan" /\ ScanJob.task = Loop
      BY DEF ScanJob
    <3>3. \A k \in DOMAIN pool : ~(pool[k].kind = "scan" /\ pool[k].task # None)
      BY <1>8 DEF Jobs
    <3> DEFINE n == Len(pool) + 1
    <3>4. /\ \A k \in DOMAIN pool' : k \in DOMAIN pool \/ k = n
          /\ pool'[n].kind = "scan" /\ pool'[n].task = Loop /\ n = Len(pool')
      BY <3>1, <3>2
    <3> HIDE DEF n
    <3>5. \A k \in DOMAIN pool' : pool'[k].kind = "scan" /\ pool'[k].task # None => k = n
      BY <3>1, <3>3, <3>4
    <3>6. ASSUME NEW k \in DOMAIN pool', pool'[k].kind = "apply", pool'[k].task # None
          PROVE  /\ pool'[k].task \in TaskIds /\ wTasks'[pool'[k].task].pc = "apply"
                 /\ \A l \in DOMAIN pool' : pool'[l].task = pool'[k].task => l = k
      <4>1. k \in DOMAIN pool /\ pool'[k] = pool[k]
        BY <3>1, <3>4, <3>6
      <4> QED
        BY <1>0, <1>2, <3>1, <3>4, <3>6, <4>1 DEF Jobs, LoopOnly
    <3> QED
      BY <1>8, <3>4, <3>5, <3>6 DEF Jobs
  <2>8. Current'
    <3>1. /\ DOMAIN pool' = 1..(Len(pool) + 1) /\ DOMAIN pool = 1..Len(pool)
          /\ Len(pool) \in Nat
          /\ \A k \in DOMAIN pool : pool'[k] = pool[k]
          /\ pool'[Len(pool) + 1] = ScanJob
      BY <1>8, OtherTypes DEF TypeOK
    <3>2. NoUpdates => NoUpdates'
      BY <3>1 DEF NoUpdates, ScanJob
    <3> QED
      BY <1>0, <1>8, <2>1, <3>2 DEF Current, LoopOnly
  <2> QED
    BY <1>7, <2>3, <2>4, <2>5, <2>6, <2>7, <2>8
<1>9. CASE /\ loop = "cmd" /\ loop' = "end" /\ status' = Nothing /\ UNCHANGED pool
           /\ toMaster' = Append(toMaster, Msg("syn_i_w_m_e", Loop, m.task, status, 0))
  <2>1. PICK e \in Message : /\ ToMaster(e) /\ e.proc = Loop
                             /\ e.cmd = "syn_i_w_m_e" /\ e.load = status
    <3> DEFINE e == Msg("syn_i_w_m_e", Loop, m.task, status, 0)
    <3>1. m.task \in TaskIds \cup {None} /\ status \in Load
      BY DEF Message, TypeOK
    <3>2. e \in Message
      BY <3>1, MsgType DEF Requests
    <3>3. e.proc = Loop /\ e.cmd = "syn_i_w_m_e" /\ e.load = status
      BY DEF Msg
    <3> QED
      BY <1>9, <3>2, <3>3, PutToMaster
  <2>2. Incoming' = Incoming \cup {e} /\ Receiving = {} /\ ~Granted'
    BY <1>9, <2>1 DEF ToMaster, Quiet, Comparing, Granted
  <2>3. ~(\E x \in Incoming : x \in Failures) /\ e \notin Failures
    BY <1>9, <2>1 DEF Reported, Failures
  <2>4. ~Pending("syn_i_w_m")' /\ ~Pending("syn_i_w_m_p")'
    BY <1>5, <2>1, <2>2 DEF Pending
  <2>5. \A t \in Syncing : mTasks[t].pc \in {"wait", "cancel"}
    BY <1>5, <1>9 DEF Opening
  <2>6. \A t \in TaskIds : (Replied(t) => Replied(t)') /\ (Leaving(t) => Leaving(t)')
    <3>1. \A t : e \notin Replies(t)
      BY <2>1 DEF Replies, Responses
    <3> QED
      BY <1>0, <2>1, <2>2, <3>1 DEF Replied, Leaving, LoopOnly, ToMaster
  <2>7. Sent'
    BY <1>0, <1>4, <1>9, <2>1, <2>2
    DEF Sent, FromWorker, FromMaster, AskedByLoop, AskedByMaster, Asking, Reporting, LoopOnly
  <2>8. Single'
    BY <1>1, <1>4, <2>1, <2>2 DEF Single, WorkerTakes, ToMaster
  <2>9. Flag' /\ Reported' /\ Asked' /\ Served' /\ Opening'
    BY <1>0, <1>6, <2>2, <2>3, <2>4, <2>5, <2>6
    DEF Flag, Reported, Asked, Served, Opening, LoopOnly, Syncing
  <2>10. Quiet'
    BY <1>6, <2>2 DEF Quiet
  <2>11. Jobs'
    BY <1>0, <1>9 DEF Jobs, LoopOnly
  <2>12. Current'
    BY <1>0, <1>9, <2>1, <2>2 DEF Current, NoUpdates, LoopOnly
  <2> QED
    BY <1>7, <2>7, <2>8, <2>9, <2>10, <2>11, <2>12
<1>10. CASE loop' = "idle" /\ UNCHANGED <<toMaster, pool, status>>
  <2>1. Incoming' = Incoming /\ ~Granted' /\ \A cmd : Pending(cmd)' = Pending(cmd)
    BY <1>10 DEF Granted, Incoming, Pending
  <2>2. \A t \in TaskIds : (Replied(t) => Replied(t)') /\ (Leaving(t) => Leaving(t)')
    BY <1>0, <1>10, <2>1 DEF Replied, Leaving, LoopOnly
  <2>3. Sent'
    BY <1>0, <1>4, <1>10, <2>1
    DEF Sent, FromWorker, FromMaster, AskedByLoop, AskedByMaster, Asking, Reporting, LoopOnly
  <2>4. Single'
    BY <1>1, <1>10, <2>1 DEF Single, WorkerTakes
  <2>5. Flag' /\ Asked' /\ Served' /\ Opening'
    BY <1>0, <1>5, <1>6, <1>10, <2>1, <2>2
    DEF Flag, Asked, Served, Opening, LoopOnly, Syncing
  <2>6. Reported'
    BY <1>0, <1>6, <1>10, <2>1, <2>2 DEF Reported, LoopOnly, Syncing
  <2>7. Quiet'
    BY <1>0, <1>4, <1>5, <1>6, <1>10, <2>1 DEF Quiet, Comparing, LoopOnly
  <2>8. Jobs'
    BY <1>0, <1>3, <1>10 DEF Jobs, LoopOnly
  <2>9. Current'
    BY <1>0, <1>10, <2>1 DEF Current, NoUpdates, LoopOnly
  <2> QED
    BY <1>7, <2>3, <2>4, <2>5, <2>6, <2>7, <2>8, <2>9
<1> QED
  BY <1>1, <1>8, <1>9, <1>10

-----------------------------------------------------------------------------
(***************************************************************************)
(* The handlers of the worker.                                             *)
(***************************************************************************)

(* A task of the master that waits for the response to its request: it is  *)
(* the only one, and its request is the one that is read.                  *)
LEMMA RequestOfMaster ==
    ASSUME TypeOK, Rounds, NEW m \in Message, m \in Outgoing, m.cmd \in Requests
    PROVE  /\ m.proc \in TaskIds /\ m.proc # None /\ m.proc # Loop
           /\ AskedByMaster(m) /\ Asking(m.proc)
           /\ Syncing = {m.proc}
           /\ ~Replied(m.proc)
           /\ ~(syncIntegrityFree \/ Granted)
           /\ ~(\E x \in Incoming : x \in Failures)
           /\ mTasks[m.proc].pc # "cmd" => ~(Pending("syn_i_w_m_p") /\ Receiving # {})
           /\ mTasks[m.proc].pc \notin {"wait", "cancel"} =>
                 loop # "cmd" /\ ~Pending("syn_i_w_m_e")
<1> USE DEF Rounds
<1> DEFINE t == m.proc
<1>1. AskedByMaster(m) /\ Asking(t)
  BY DEF Sent, FromMaster, Requests, Responses
<1>2. t \in TaskIds /\ t # None /\ t # Loop
  BY <1>1, ContentsAssumption DEF Asking
<1>3. Syncing = {t}
  BY <1>1 DEF Asking, Syncing, SyncsDoNotOverlap
<1>4. ~Replied(t)
  BY DEF Single, Replied, Replies
<1>5. ~(syncIntegrityFree \/ Granted)
  BY <1>3, <1>4 DEF Flag, Leaving, Replied
<1>6. ~(\E x \in Incoming : x \in Failures)
  BY <1>3, <1>4 DEF Reported
<1>7. mTasks[t].pc # "cmd" => ~(Pending("syn_i_w_m_p") /\ Receiving # {})
  BY <1>3 DEF Asked
<1>8. mTasks[t].pc \notin {"wait", "cancel"} => loop # "cmd" /\ ~Pending("syn_i_w_m_e")
  BY <1>3, <1>5 DEF Opening, Granted
<1> QED
  BY <1>1, <1>2, <1>3, <1>4, <1>5, <1>6, <1>7, <1>8

MasterOnly == UNCHANGED <<syncIntegrityFree, mTasks, workerFiles, loop, status, pool, connected>>

(* The handler that reads it answers.                                      *)
LEMMA AnsweredByWorker ==
    ASSUME TypeOK, Rounds, MasterOnly, NEW m \in Message, NEW e \in Message,
           WorkerTakes(m), m.cmd \in Requests, ToMaster(e),
           e.cmd \in Responses, e.proc = m.proc
    PROVE  /\ Incoming' = Incoming \cup {e} /\ e \in Replies(m.proc)
           /\ Replied(m.proc)'
           /\ Outgoing' \subseteq Outgoing
           /\ Syncing' = {m.proc}
           /\ \A cmd \in Requests : Pending(cmd)' = Pending(cmd)
           /\ ~Granted'
           /\ Single' /\ Flag' /\ Reported' /\ Opening' /\ Current'
<1> USE DEF Rounds
<1> DEFINE t == m.proc
<1>1. m \in Outgoing
  BY DEF WorkerTakes
<1>2. /\ t \in TaskIds /\ t # None /\ t # Loop
      /\ Syncing = {t}
      /\ ~(syncIntegrityFree \/ Granted)
      /\ ~(\E x \in Incoming : x \in Failures)
  BY <1>1, RequestOfMaster
<1>3. Incoming' = Incoming \cup {e} /\ Outgoing' \subseteq Outgoing /\ e \in Replies(t)
  BY DEF ToMaster, WorkerTakes, Replies
<1>4. \A cmd \in Requests : Pending(cmd)' = Pending(cmd)
  BY <1>3 DEF Pending, Requests, Responses
<1>5. Replied(t)' /\ Syncing' = {t}
  BY <1>2, <1>3 DEF Replied, Syncing, MasterOnly
<1>6. ~Granted'
  BY <1>2, <1>3, <1>4 DEF Granted, MasterOnly, Requests
<1>7. Single'
  BY <1>1, <1>2, <1>3 DEF Single, ToMaster, WorkerTakes
<1>8. Flag'
  BY <1>2, <1>6 DEF Flag, MasterOnly
<1>9. Reported'
  BY <1>2, <1>3 DEF Reported, Failures, Responses
<1>10. Opening'
  BY <1>2, <1>4, <1>5 DEF Opening, MasterOnly, Requests
<1>11. Current'
  BY <1>3 DEF Current, NoUpdates, MasterOnly, Responses
<1> QED
  BY <1>3, <1>4, <1>5, <1>6, <1>7, <1>8, <1>9, <1>10, <1>11

LEMMA AnswerOnWorkerRounds ==
    ASSUME TypeOK, Rounds, AnswerOnWorker
    PROVE  Rounds'
<1> USE DEF Rounds
<1> PICK i \in DOMAIN toWorker : AnswerOnWorker!(i)
  BY DEF AnswerOnWorker
<1>0. MasterOnly /\ UNCHANGED <<wTasks, checkIntegrityFree>>
  BY DEF MasterOnly, masterVars, workerVars
<1>1. toWorker[i] \in Message /\ toWorker[i] \in Outgoing /\ toWorker[i].cmd \in Requests
  BY MessagesType, ReceivedType DEF Outgoing, ToSet, Requests
<1>2. toWorker[i].proc # None
  BY <1>1, RequestOfMaster
<1>3. toWorker[i].task \in TaskIds \cup {None}
  BY <1>1 DEF Message
<1>4. PICK m, e \in Message : /\ m = toWorker[i]
                              /\ WorkerTakes(m) /\ ToMaster(e)
                              /\ e.cmd = "ok" /\ e.proc = m.proc
  BY <1>2, <1>3, HandledByWorker DEF Responses
<1> DEFINE t == m.proc
<1>5. /\ t \in TaskIds /\ t # Loop /\ t # None
      /\ AskedByMaster(m) /\ Asking(t) /\ Syncing = {t}
      /\ mTasks[t].pc # "cmd" => ~(Pending("syn_i_w_m_p") /\ Receiving # {})
  BY <1>1, <1>4, RequestOfMaster
<1>6. mTasks[t].pc \in {"ok", "cancel"} /\ Receiving = {}
  BY <1>4, <1>5 DEF AskedByMaster, Quiet, Comparing
<1>7. /\ Incoming' = Incoming \cup {e} /\ Outgoing' \subseteq Outgoing
      /\ Single' /\ Flag' /\ Reported' /\ Opening' /\ Current'
  BY <1>0, <1>1, <1>4, AnsweredByWorker DEF Responses
<1>8. Receiving' = {} /\ Syncing' = Syncing
  BY <1>0, <1>6 DEF Receiving, Syncing, MasterOnly
<1>9. Sent'
  BY <1>0, <1>4, <1>5, <1>7
  DEF Sent, FromWorker, FromMaster, AskedByLoop, AskedByMaster, Asking, Reporting, MasterOnly,
      Responses
<1>10. Tasks' /\ SyncsDoNotOverlap' /\ Jobs'
  BY <1>0, <1>8 DEF Tasks, SyncsDoNotOverlap, Jobs, MasterOnly
<1>11. Asked' /\ Quiet' /\ Served'
  BY <1>8 DEF Asked, Quiet, Served, Receiving
<1> QED
  BY <1>7, <1>9, <1>10, <1>11

LEMMA SetupReceiveFilesFromMasterRounds ==
    ASSUME TypeOK, Rounds, SetupReceiveFilesFromMaster
    PROVE  Rounds'
<1> USE DEF Rounds
<1> PICK i \in DOMAIN toWorker : SetupReceiveFilesFromMaster!(i)
  BY DEF SetupReceiveFilesFromMaster
<1> PICK w \in TaskIds : w = NewTask /\ Unused(w)
  BY NewTaskType
<1>0. MasterOnly /\ checkIntegrityFree' = FALSE
  BY DEF MasterOnly, masterVars
<1>1. toWorker[i] \in Message /\ toWorker[i] \in Outgoing /\ toWorker[i].cmd \in Requests
  BY MessagesType, ReceivedType DEF Outgoing, ToSet, Requests
<1>2. toWorker[i].proc # None
  BY <1>1, RequestOfMaster
<1>3. PICK m, e \in Message : /\ m = toWorker[i] /\ m.cmd = "syn_m_c"
                              /\ WorkerTakes(m) /\ ToMaster(e)
                              /\ e.cmd = "ok" /\ e.proc = m.proc
  BY <1>2, HandledByWorker DEF Responses
<1> DEFINE t == m.proc
<1>4. /\ t \in TaskIds /\ t # Loop /\ t # None
      /\ AskedByMaster(m) /\ Asking(t) /\ Syncing = {t} /\ ~Replied(t)
      /\ mTasks[t].pc \notin {"wait", "cancel"} => loop # "cmd" /\ ~Pending("syn_i_w_m_e")
  BY <1>1, <1>3, RequestOfMaster
<1>5. mTasks[t].pc = "cmd" /\ Receiving = {}
  BY <1>1, <1>3, <1>4 DEF AskedByMaster, Quiet, Comparing
<1>6. /\ Incoming' = Incoming \cup {e} /\ Outgoing' \subseteq Outgoing /\ e \in Replies(t)
      /\ Replied(t)' /\ Syncing' = {t} /\ ~Granted'
      /\ \A cmd \in Requests : Pending(cmd)' = Pending(cmd)
      /\ Single' /\ Flag' /\ Reported' /\ Opening' /\ Current'
  BY <1>0, <1>1, <1>3, AnsweredByWorker DEF Responses
<1>7. /\ WorkerTaskIs(w, "wait")
      /\ mTasks[w].pc = "none" /\ wTasks[w].pc = "none"
      /\ \A x \in Incoming : x.proc # w
      /\ \A x \in Outgoing : x.proc # w
      /\ \A k \in DOMAIN pool : pool[k].task # w
  BY OneTaskAt, FreshName
<1>8. Receiving' = {w} /\ \A s \in TaskIds : s # w => wTasks'[s] = wTasks[s]
  BY <1>5, <1>7 DEF Receiving, WorkerTaskIs
<1>9. e.proc # w
  BY <1>3, <1>5, <1>7
<1>10. Sent'
  <2>1. \A x \in Incoming : FromWorker(x)'
    BY <1>0, <1>7, <1>8 DEF Sent, FromWorker, AskedByLoop, Asking, Reporting, MasterOnly
  <2>2. FromWorker(e)' /\ e.cmd # "syn_i_w_m_r"
    BY <1>0, <1>3, <1>4 DEF FromWorker, Asking, MasterOnly, Responses
  <2>3. \A x \in Outgoing : FromMaster(x)'
    BY <1>0, <1>7, <1>8 DEF Sent, FromMaster, AskedByMaster, Asking, Reporting, MasterOnly
  <2> QED
    BY <1>6, <2>1, <2>2, <2>3 DEF Sent
<1>11. Tasks' /\ SyncsDoNotOverlap'
  BY <1>0, <1>6, <1>7, <1>8 DEF Tasks, SyncsDoNotOverlap, MasterOnly, WorkerTaskIs
<1>12. Asked'
  <2>1. Before(toMaster', Orders("syn_i_w_m_p"), Replies(t))
    <3>1. \A x \in Incoming : x \notin Replies(t)
      BY <1>4 DEF Replied
    <3>2. Before(toMaster, Orders("syn_i_w_m_p"), Replies(t))
      BY <3>1 DEF Before, Incoming, ToSet
    <3>3. e \notin Orders("syn_i_w_m_p")
      BY <1>3 DEF Orders
    <3> QED
      BY <1>3, <3>2, <3>3 DEF ToMaster
  <2> QED
    BY <1>0, <1>5, <1>6, <2>1 DEF Asked, MasterOnly
<1>13. Served'
  BY <1>5, <1>7, <1>8 DEF Served, WorkerTaskIs, Receiving
<1>14. ~Comparing'
  <2>1. ~Pending("syn_i_w_m_e")' /\ loop' # "cmd"
    BY <1>0, <1>4, <1>5, <1>6 DEF Requests, MasterOnly
  <2>2. \A s \in TaskIds : mTasks'[s].pc \notin {"wait", "ready", "compress", "ok", "cancel"}
    BY <1>0, <1>4, <1>5 DEF Syncing, MasterOnly
  <2>3. \A x \in Outgoing' : x.cmd # "syn_m_c"
    <3> SUFFICES ASSUME NEW x \in Outgoing', x.cmd = "syn_m_c" PROVE FALSE
      OBVIOUS
    <3>1. x \in Outgoing /\ x \in Message /\ x.cmd \in Requests
      BY <1>6, MessagesType DEF Requests
    <3>2. x.proc = t
      BY <1>4, <3>1, RequestOfMaster
    <3> QED
      BY <1>3, <1>4, <3>2 DEF WorkerTakes
  <2> QED
    BY <1>6, <2>1, <2>2, <2>3 DEF Comparing
<1>15. Quiet'
  BY <1>14 DEF Quiet
<1>16. Jobs'
  BY <1>0, <1>7, <1>8 DEF Jobs, MasterOnly
<1> QED
  BY <1>6, <1>10, <1>11, <1>12, <1>13, <1>15, <1>16


LEMMA EndReceivingIntegrityRounds ==
    ASSUME TypeOK, Rounds, EndReceivingIntegrity
    PROVE  Rounds'
<1> USE DEF Rounds
<1> PICK i \in DOMAIN toWorker : EndReceivingIntegrity!(i)
  BY DEF EndReceivingIntegrity
<1>0. MasterOnly /\ UNCHANGED checkIntegrityFree
  BY DEF MasterOnly, masterVars
<1>1. toWorker[i] \in Message /\ toWorker[i] \in Outgoing /\ toWorker[i].cmd \in Requests
  BY MessagesType, ReceivedType DEF Outgoing, ToSet, Requests
<1>2. toWorker[i].proc # None
  BY <1>1, RequestOfMaster
<1>3. PICK cmd \in {"ok", "err"}, task \in TaskIds \cup {None} :
         toMaster' = Answer(toMaster, toWorker[i], cmd, task)
  BY <1>1 DEF Message
<1>4. cmd \in Responses
  BY DEF Responses
<1>5. PICK m, e \in Message : /\ m = toWorker[i] /\ m.cmd = "syn_m_c_e"
                              /\ WorkerTakes(m) /\ ToMaster(e)
                              /\ e.cmd = cmd /\ e.proc = m.proc
  BY <1>2, <1>3, <1>4, HandledByWorker
<1> DEFINE t == m.proc
<1>6. /\ t \in TaskIds /\ t # Loop /\ t # None
      /\ AskedByMaster(m) /\ Asking(t) /\ Syncing = {t} /\ ~Replied(t)
      /\ mTasks[t].pc # "cmd" => ~(Pending("syn_i_w_m_p") /\ Receiving # {})
  BY <1>1, <1>5, RequestOfMaster
<1>7. mTasks[t].pc = "end"
  BY <1>5, <1>6 DEF AskedByMaster
<1>8. /\ Incoming' = Incoming \cup {e} /\ Outgoing' \subseteq Outgoing
      /\ Replied(t)' /\ Syncing' = {t} /\ ~Granted'
      /\ \A c \in Requests : Pending(c)' = Pending(c)
      /\ Single' /\ Flag' /\ Reported' /\ Opening' /\ Current'
  BY <1>0, <1>1, <1>4, <1>5, AnsweredByWorker
<1>9. \A s \in TaskIds : wTasks'[s].pc # wTasks[s].pc =>
                            wTasks[s].pc = "wait" /\ wTasks'[s].pc = "ready"
  <2>1. CASE UNCHANGED wTasks
    BY <2>1
  <2>2. CASE ~UNCHANGED wTasks
    <3> DEFINE w == m.task
               r == [pc |-> "ready", load |-> m.load, at |-> m.at]
    <3>1. w \in TaskIds /\ wTasks[w].pc = "wait" /\ wTasks' = [wTasks EXCEPT ![w] = r]
      BY <1>5, <2>2 DEF Message
    <3>2. WorkerTaskIs(w, r.pc)
      BY <3>1, OneTask
    <3> QED
      BY <3>1, <3>2 DEF WorkerTaskIs
  <2> QED
    BY <2>1, <2>2
<1>10. Receiving' = Receiving
  BY <1>9 DEF Receiving
<1>11. Sent'
  <2>1. \A x \in Incoming : FromWorker(x)'
    BY <1>0, <1>9 DEF Sent, FromWorker, AskedByLoop, Asking, Reporting, MasterOnly
  <2>2. FromWorker(e)' /\ e.cmd # "syn_i_w_m_r"
    BY <1>0, <1>4, <1>5, <1>6 DEF FromWorker, Asking, MasterOnly, Responses
  <2>3. \A x \in Outgoing : FromMaster(x)'
    BY <1>0, <1>9 DEF Sent, FromMaster, AskedByMaster, Asking, Reporting, MasterOnly
  <2> QED
    BY <1>8, <2>1, <2>2, <2>3 DEF Sent
<1>12. Tasks' /\ SyncsDoNotOverlap'
  BY <1>0, <1>6, <1>8, <1>9, <1>10 DEF Tasks, SyncsDoNotOverlap, MasterOnly
<1>13. Asked'
  BY <1>6, <1>7, <1>8, <1>10 DEF Asked, Requests
<1>14. Served'
  BY <1>0, <1>7, <1>8 DEF Served, MasterOnly
<1>15. Quiet'
  <2>1. Comparing' => Comparing
    BY <1>0, <1>8 DEF Comparing, MasterOnly, Requests
  <2> QED
    BY <1>10, <2>1 DEF Quiet
<1>16. Jobs'
  BY <1>0, <1>9 DEF Jobs, MasterOnly
<1> QED
  BY <1>8, <1>11, <1>12, <1>13, <1>14, <1>15, <1>16

(* The master reports no error: its requests do not time out.              *)
LEMMA NoErrorFromMaster ==
    ASSUME TypeOK, Rounds
    PROVE  ~ErrorReceivingIntegrity
<1> SUFFICES ASSUME NEW i \in DOMAIN toWorker, toWorker[i].cmd = "syn_m_c_r"
             PROVE  FALSE
  BY DEF ErrorReceivingIntegrity
<1>1. toWorker[i] \in Message /\ toWorker[i] \in Outgoing /\ toWorker[i].cmd \in Requests
  BY MessagesType, ReceivedType DEF Outgoing, ToSet, Requests
<1>2. AskedByMaster(toWorker[i])
  BY <1>1, RequestOfMaster
<1> QED
  BY <1>2 DEF AskedByMaster

-----------------------------------------------------------------------------
(***************************************************************************)
(* The worker's tasks.                                                     *)
(***************************************************************************)
WorkerOnly ==
    UNCHANGED <<syncIntegrityFree, mTasks, loop, status, connected>>

(* The task no longer waits for the response to its report m, which is now *)
(* e.                                                                      *)
NobodyWaits(w, m, e) ==
    /\ Report(m) /\ m.proc = w
    /\ e.proc = None /\ e.cmd = m.cmd /\ e.task = m.task
    /\ m \in Incoming /\ e \in Incoming'
    /\ \A x \in Incoming' : x = e \/ (x \in Incoming /\ x.proc # w)
    /\ \A x \in Incoming : x = m \/ x \in Incoming'
    /\ \A S, T : Before(toMaster, S, T) /\ (e \in S => m \in S) /\ (e \in T => m \in T)
                 => Before(toMaster', S, T)

(* The one task of the worker ends.                                        *)
LEMMA WorkerIsDone ==
    ASSUME TypeOK, Rounds, WorkerOnly, NEW w \in TaskIds, wTasks[w].pc # "none",
           WorkerTaskIs(w, "none"), checkIntegrityFree' = TRUE,
           Jobs', Current', Single',
           Outgoing' \subseteq Outgoing,
           \A x \in Outgoing : x \in Outgoing' \/ x.proc = w,
           \A x \in Outgoing' : x.proc # w,
           \/ UNCHANGED toMaster /\ \A x \in Incoming : x.proc # w
           \/ \E m, e \in Message : NobodyWaits(w, m, e)
    PROVE  Rounds'
<1> USE DEF Rounds
<1>1. /\ Receiving' = {} /\ Syncing' = Syncing
      /\ \A s \in TaskIds : s # w => wTasks'[s] = wTasks[s]
      /\ wTasks'[w].pc = "none"
  BY DEF WorkerTaskIs, Syncing, Receiving, SyncsDoNotOverlap, WorkerOnly
<1>2. w # Loop /\ w # None
  BY ContentsAssumption
<1>3. /\ \A x \in Incoming' : \/ x \in Incoming /\ x.proc # w
                              \/ Report(x) /\ x.proc = None /\ \E m \in Incoming :
                                    m.proc = w /\ m.cmd = x.cmd /\ m.task = x.task
      /\ \A x \in Incoming : \/ x \in Incoming'
                             \/ x.proc = w /\ Report(x) /\ \E y \in Incoming' : y.cmd = x.cmd
  <2>1. CASE UNCHANGED toMaster /\ \A x \in Incoming : x.proc # w
    BY <2>1 DEF Incoming
  <2>2. ASSUME NEW m \in Message, NEW e \in Message, NobodyWaits(w, m, e)
        PROVE  /\ \A x \in Incoming' : \/ x \in Incoming /\ x.proc # w
                                       \/ /\ Report(x) /\ x.proc = None
                                          /\ \E n \in Incoming :
                                                n.proc = w /\ n.cmd = x.cmd /\ n.task = x.task
               /\ \A x \in Incoming : \/ x \in Incoming'
                                      \/ /\ x.proc = w /\ Report(x)
                                         /\ \E y \in Incoming' : y.cmd = x.cmd
    BY <2>2 DEF NobodyWaits, Report
  <2> QED
    BY <2>1, <2>2
<1>4. \A S, T : /\ Before(toMaster, S, T)
                /\ \A x \in Message : Report(x) /\ x \in S =>
                      \A y \in Message : y.cmd = x.cmd /\ y.proc = w => y \in S
                /\ \A x \in Message : Report(x) /\ x \in T =>
                      \A y \in Message : y.cmd = x.cmd /\ y.proc = w => y \in T
                => Before(toMaster', S, T)
  BY DEF Report, NobodyWaits
<1>5. /\ \A t : Before(toMaster, Replies(t), Orders("syn_i_w_m")) =>
                   Before(toMaster', Replies(t), Orders("syn_i_w_m"))
      /\ \A t : Before(toMaster, Fresh(t), Failures) => Before(toMaster', Fresh(t), Failures)
      /\ Before(toMaster, Failures, Orders("syn_i_w_m_p")) =>
                   Before(toMaster', Failures, Orders("syn_i_w_m_p"))
  <2>1. \A x \in Message : Report(x) =>
           /\ \A t : x \notin Replies(t) /\ x \notin Fresh(t)
           /\ x \notin Orders("syn_i_w_m") /\ x \notin Orders("syn_i_w_m_p")
    BY DEF Report, Replies, Fresh, Orders, Responses
  <2>2. \A x \in Message : x \in Failures =>
           \A y \in Message : y.cmd = x.cmd /\ y.proc = w => y \in Failures
    BY <1>2 DEF Failures
  <2> QED
    BY <1>4, <2>1, <2>2
<1>6. \A cmd : Pending(cmd)' = Pending(cmd)
  BY <1>3 DEF Pending
<1>7. Granted' = Granted
  BY <1>2, <1>6 DEF Granted, WorkerOnly
<1>8. \A t \in TaskIds : (Replied(t) => Replied(t)') /\ (Leaving(t) => Leaving(t)')
  <2>1. \A x \in Incoming : \A t : x \in Replies(t) => x \in Incoming'
    BY <1>3 DEF Replies, Report, Responses
  <2> QED
    BY <1>5, <2>1 DEF Replied, Leaving, WorkerOnly
<1>9. Sent'
  <2>1. \A x \in Incoming' : FromWorker(x)' /\ (x.cmd = "syn_i_w_m_r" => x.task = None)
    BY <1>1, <1>2, <1>3 DEF Sent, FromWorker, AskedByLoop, Asking, Reporting, WorkerOnly
  <2>2. \A x \in Outgoing' : FromMaster(x)'
    BY <1>1, <1>2 DEF Sent, FromMaster, AskedByMaster, Asking, Reporting, WorkerOnly
  <2> QED
    BY <2>1, <2>2 DEF Sent
<1>10. Tasks' /\ SyncsDoNotOverlap'
  BY <1>1 DEF Tasks, SyncsDoNotOverlap, WorkerOnly
<1>11. Flag'
  BY <1>1, <1>7, <1>8 DEF Flag, Syncing, WorkerOnly
<1>12. Reported'
  <2>1. (\E x \in Incoming' : x \in Failures) => \E x \in Incoming : x \in Failures
    BY <1>2, <1>3, MessagesType DEF Failures
  <2> QED
    BY <1>1, <1>5, <1>7, <1>8, <2>1 DEF Reported, Syncing, WorkerOnly
<1>13. Asked' /\ Quiet' /\ Served'
  BY <1>1 DEF Asked, Quiet, Served, Receiving
<1>14. Opening'
  BY <1>1, <1>6 DEF Opening, WorkerOnly
<1> QED
  BY <1>9, <1>10, <1>11, <1>12, <1>13, <1>14


(* A task that failed, or whose file did not come, reports it.             *)
LEMMA WorkerReports ==
    ASSUME TypeOK, Rounds, WorkerOnly, NEW w \in TaskIds, NEW pc, NEW e,
           UNCHANGED <<workerFiles, checkIntegrityFree, pool, toWorker>>,
           WorkerTaskIs(w, pc), ToMaster(e), e.proc = w,
           \/ /\ wTasks[w].pc = "wait" /\ pc = "cancel" /\ e.cmd = "cancel_task"
           \/ /\ wTasks[w].pc = "ready" /\ pc = "err"
              /\ e.cmd = "syn_i_w_m_r" /\ e.task = None
    PROVE  Rounds'
<1> USE DEF Rounds
<1>0. wTasks[w].pc \in {"wait", "ready"} /\ pc \in {"err", "cancel"}
  OBVIOUS
<1>1. w # None /\ w # Loop
  BY ContentsAssumption
<1>2. /\ Incoming' = Incoming \cup {e} /\ Outgoing' = Outgoing
      /\ e \in Message /\ Report(e)
  BY DEF ToMaster, Outgoing, Report
<1>3. /\ \A s \in TaskIds : s # w => wTasks'[s] = wTasks[s]
      /\ wTasks'[w].pc = pc
  BY DEF WorkerTaskIs
<1>4. /\ \A x \in Incoming : x.proc # w
      /\ \A x \in Outgoing : x.proc # w
      /\ mTasks[w].pc = "none"
  <2>1. ~Asking(w) /\ ~Reporting(w) /\ mTasks[w].pc = "none"
    BY <1>0 DEF Asking, Reporting, Tasks
  <2> QED
    BY <2>1, Silent
<1>5. /\ w \in Receiving /\ Receiving' = Receiving /\ Syncing' = Syncing
      /\ ~Comparing
  BY <1>0, <1>3 DEF Receiving, Syncing, Quiet, WorkerOnly
<1>6. /\ Pending("syn_i_w_m")' = Pending("syn_i_w_m")
      /\ Pending("syn_i_w_m_p")' = Pending("syn_i_w_m_p")
      /\ Pending("syn_i_w_m_e")' = Pending("syn_i_w_m_e")
      /\ Granted' = Granted
  BY <1>2 DEF Pending, Report, Granted, WorkerOnly
<1>7. /\ \A t : e \notin Replies(t) /\ e \notin Fresh(t)
      /\ \A cmd : e \in Orders(cmd) => cmd = e.cmd
  BY <1>2 DEF Replies, Fresh, Orders, Report, Responses
<1>8. \A t \in TaskIds : (Replied(t) => Replied(t)') /\ (Leaving(t) => Leaving(t)')
  BY <1>2, <1>7 DEF Replied, Leaving, WorkerOnly, ToMaster
<1>9. Sent'
  <2>1. \A x \in Incoming : FromWorker(x)'
    BY <1>3, <1>4 DEF Sent, FromWorker, AskedByLoop, Asking, Reporting, WorkerOnly
  <2>2. FromWorker(e)' /\ (e.cmd = "syn_i_w_m_r" => e.task = None)
    BY <1>0, <1>2, <1>3 DEF FromWorker, Reporting
  <2>3. \A x \in Outgoing : FromMaster(x)'
    BY <1>3, <1>4 DEF Sent, FromMaster, AskedByMaster, Asking, Reporting, WorkerOnly
  <2> QED
    BY <1>2, <2>1, <2>2, <2>3 DEF Sent
<1>10. Single'
  BY <1>2, <1>4 DEF Single, ToMaster
<1>11. Tasks' /\ SyncsDoNotOverlap'
  BY <1>0, <1>3, <1>4, <1>5 DEF Tasks, SyncsDoNotOverlap, WorkerOnly
<1>12. Flag'
  BY <1>5, <1>6, <1>8 DEF Flag, Syncing, WorkerOnly
<1>13. Reported'
  <2>1. CASE e.cmd = "cancel_task"
    <3>1. e \notin Failures
      BY <2>1 DEF Failures
    <3>2. /\ \A t : Before(toMaster, Fresh(t), Failures) => Before(toMaster', Fresh(t), Failures)
          /\ Before(toMaster, Failures, Orders("syn_i_w_m_p")) =>
                       Before(toMaster', Failures, Orders("syn_i_w_m_p"))
      BY <1>7, <3>1 DEF ToMaster
    <3> QED
      BY <1>2, <1>5, <1>6, <1>8, <3>1, <3>2 DEF Reported, Syncing, WorkerOnly
  <2>2. CASE e.cmd = "syn_i_w_m_r"
    <3>1. wTasks[w].pc = "ready"
      BY <2>2
    <3>2. \A t \in Syncing : mTasks[t].pc # "cmd" /\ Replied(t)
      BY <3>1 DEF Served
    <3>3. ~Pending("syn_i_w_m_p") /\ ~Granted /\ loop # "cmd"
      BY <1>5, <3>2 DEF Asked, Comparing
    <3>4. Before(toMaster', Failures, Orders("syn_i_w_m_p"))
      <4>1. \A x \in Incoming : x \notin Orders("syn_i_w_m_p")
        BY <3>3 DEF Pending, Orders
      <4>2. e \notin Orders("syn_i_w_m_p")
        BY <2>2 DEF Orders
      <4> QED
        BY <4>1, <4>2 DEF ToMaster
    <3>5. \A t \in Syncing : Before(toMaster', Fresh(t), Failures)
      <4>1. CASE \E x \in Incoming : x \in Failures
        BY <1>7, <4>1 DEF Reported, ToMaster
      <4>2. CASE \A x \in Incoming : x \notin Failures
        <5>1. \A t : Before(toMaster, Fresh(t), Failures)
          BY <4>2 DEF Before, Incoming, ToSet
        <5> QED
          BY <1>7, <5>1 DEF ToMaster
      <4> QED
        BY <4>1, <4>2
    <3> QED
      BY <1>5, <1>6, <1>8, <3>2, <3>3, <3>4, <3>5 DEF Reported, Syncing, WorkerOnly
  <2> QED
    BY <2>1, <2>2
<1>14. Asked'
  <2>1. e \notin Orders("syn_i_w_m_p")
    BY <1>2 DEF Orders, Report
  <2>2. \A t : Before(toMaster, Orders("syn_i_w_m_p"), Replies(t)) =>
                  Before(toMaster', Orders("syn_i_w_m_p"), Replies(t))
    BY <2>1 DEF ToMaster
  <2> QED
    BY <1>5, <1>6, <1>8, <2>2 DEF Asked, Syncing, WorkerOnly
<1>15. Served'
  BY <1>0, <1>3, <1>5, <1>8 DEF Served, Syncing, WorkerOnly
<1>16. Opening'
  BY <1>5, <1>6 DEF Opening, WorkerOnly
<1>17. Quiet'
  BY <1>2, <1>5, <1>6 DEF Quiet, Comparing, WorkerOnly
<1>18. Jobs'
  BY <1>0, <1>3 DEF Jobs, WorkerOnly
<1>19. Current'
  BY <1>2 DEF Current, NoUpdates, WorkerOnly, Report
<1> QED
  BY <1>9, <1>10, <1>11, <1>12, <1>13, <1>14, <1>15, <1>16, <1>17, <1>18, <1>19

LEMMA WorkerReportsRounds ==
    ASSUME TypeOK, Rounds, NEW t \in TaskIds, ReportFailure(t) \/ WorkerFileTimeout(t)
    PROVE  Rounds'
<1>0. WorkerOnly /\ UNCHANGED <<workerFiles, checkIntegrityFree, pool, toWorker>>
  BY Zenon DEF ReportFailure, WorkerFileTimeout, WorkerOnly, masterVars
<1>1. t \in TaskIds \cup {Loop, None} /\ t \in TaskIds \cup {None} /\ Single
  BY DEF Rounds
<1>2. CASE ReportFailure(t)
  <2> DEFINE e == Request("syn_i_w_m_r", t)
  <2>1. /\ wTasks[t].pc = "ready"
        /\ wTasks' = [wTasks EXCEPT ![t] = TaskAt("err")]
        /\ toMaster' = Append(toMaster, e)
    BY <1>2 DEF ReportFailure, Rounds, Tasks
  <2>2. e \in Message
    BY <1>1, RequestType DEF Requests
  <2>3. e.proc = t /\ e.cmd = "syn_i_w_m_r" /\ e.task = None
    BY DEF Request, Msg
  <2> HIDE DEF e
  <2>4. ToMaster(e) /\ WorkerTaskIs(t, "err")
    BY <1>1, <2>1, <2>2, PutToMaster, OneTaskAt
  <2> QED
    BY <1>0, <2>1, <2>3, <2>4, WorkerReports
<1>3. CASE WorkerFileTimeout(t)
  <2> DEFINE e == TaskRequest("cancel_task", t, t)
  <2>1. /\ wTasks[t].pc = "wait"
        /\ wTasks' = [wTasks EXCEPT ![t] = TaskAt("cancel")]
        /\ toMaster' = Append(toMaster, e)
    BY <1>3, Zenon DEF WorkerFileTimeout
  <2>2. e \in Message
    BY <1>1, TaskRequestType DEF Requests
  <2>3. e.proc = t /\ e.cmd = "cancel_task"
    BY DEF TaskRequest, Msg
  <2> HIDE DEF e
  <2>4. ToMaster(e) /\ WorkerTaskIs(t, "cancel")
    BY <1>1, <2>1, <2>2, PutToMaster, OneTaskAt
  <2> QED
    BY <1>0, <2>1, <2>3, <2>4, WorkerReports
<1> QED
  BY <1>2, <1>3

(* The jobs of a task that is not updating files are none.                 *)
LEMMA NoJobOf ==
    ASSUME TypeOK, Rounds, WorkerOnly, UNCHANGED <<workerFiles, pool>>,
           NEW t \in TaskIds, wTasks[t].pc # "apply", NEW pc, WorkerTaskIs(t, pc)
    PROVE  Jobs'
<1>1. \A i \in DOMAIN pool : pool[i].kind = "apply" => pool[i].task # t
  BY ContentsAssumption DEF Rounds, Jobs
<1> QED
  BY <1>1 DEF Rounds, Jobs, WorkerOnly, WorkerTaskIs

LEMMA WorkerTaskAnsweredRounds ==
    ASSUME TypeOK, Rounds, NEW t \in TaskIds, WorkerTaskAnswered(t)
    PROVE  Rounds'
<1> USE DEF Rounds
<1> PICK i \in DOMAIN toWorker : WorkerTaskAnswered(t)!(i)
  BY DEF WorkerTaskAnswered
<1>0. WorkerOnly /\ UNCHANGED <<workerFiles, pool, toMaster>>
  BY DEF WorkerOnly, masterVars
<1>1. WorkerTaskIs(t, "none") /\ checkIntegrityFree' = TRUE
  BY OneTaskAt DEF WorkerTaskDone
<1>2. PICK m \in Message : /\ m = toWorker[i]
                           /\ m.cmd \in Responses /\ m.proc = t /\ WorkerTakes(m)
  BY MessagesType, ReceivedType, TakenFromWorker
<1>3. t # Loop /\ t # None
  BY ContentsAssumption
<1>4. Reporting(t)
  BY <1>2, <1>3 DEF Sent, FromMaster, AskedByMaster, Responses, WorkerTakes
<1>5. /\ wTasks[t].pc # "none" /\ wTasks[t].pc # "apply"
      /\ \A x \in Incoming : x.proc # t
  BY <1>2, <1>4 DEF Reporting, WorkerTakes, Single
<1>6. Jobs'
  BY <1>0, <1>1, <1>5, NoJobOf
<1>7. Current'
  BY <1>0 DEF Current, NoUpdates, WorkerOnly, Incoming
<1>8. Single'
  BY <1>0, <1>2 DEF Single, WorkerTakes, Incoming
<1>9. /\ Outgoing' \subseteq Outgoing
      /\ \A x \in Outgoing : x \in Outgoing' \/ x.proc = t
      /\ \A x \in Outgoing' : x.proc # t
  BY <1>2, <1>3 DEF WorkerTakes
<1> QED
  BY <1>0, <1>1, <1>5, <1>6, <1>7, <1>8, <1>9, WorkerIsDone

LEMMA WorkerRequestTimeoutRounds ==
    ASSUME TypeOK, Rounds, NEW t \in TaskIds, WorkerRequestTimeout(t)
    PROVE  Rounds'
<1> USE DEF Rounds
<1>0. WorkerOnly /\ UNCHANGED <<workerFiles, pool>>
  BY Zenon DEF WorkerRequestTimeout, WorkerOnly, masterVars
<1>1. WorkerTaskDone(t)
  BY Zenon DEF WorkerRequestTimeout
<1>2. WorkerTaskIs(t, "none") /\ checkIntegrityFree' = TRUE
  BY <1>1, OneTaskAt DEF WorkerTaskDone
<1>3. t # Loop /\ t # None
  BY ContentsAssumption
<1>4. CASE \E i \in DOMAIN toMaster :
              /\ toMaster[i].cmd \in Requests
              /\ toMaster[i].proc = t
              /\ toMaster' = Forgotten(toMaster, i)
              /\ UNCHANGED toWorker
  <2> PICK i \in DOMAIN toMaster :
              /\ toMaster[i].cmd \in Requests
              /\ toMaster[i].proc = t
              /\ toMaster' = Forgotten(toMaster, i)
              /\ UNCHANGED toWorker
    BY <1>4
  <2>1. PICK m \in Message : m = toMaster[i] /\ m \in Incoming
    BY MessagesType, ReceivedType DEF Incoming, ToSet
  <2>2. Report(m) /\ Reporting(t)
    BY <1>3, <2>1 DEF Sent, FromWorker, AskedByLoop, Requests, Responses
  <2>3. toMaster \in Seq(Message) /\ Distinct(toMaster)
    BY MessagesType DEF Single
  <2>4. PICK e \in Message :
           /\ e = [m EXCEPT !.proc = None]
           /\ e \in Incoming'
           /\ \A x \in Incoming' : x \in Incoming \/ x = e
           /\ \A x \in Incoming : x \in Incoming' \/ x = m
           /\ \A S, T : Before(toMaster, S, T) /\ (e \in S => m \in S) /\ (e \in T => m \in T)
                        => Before(toMaster', S, T)
           /\ Distinct(toMaster')
           /\ \A x \in Incoming' : x.proc # t
    BY <1>3, <2>1, <2>3, Changed DEF Incoming
  <2>5. e.proc = None /\ e.cmd = m.cmd /\ e.task = m.task
    BY <2>4 DEF Message
  <2>6. NobodyWaits(t, m, e)
    BY <2>1, <2>2, <2>4, <2>5 DEF NobodyWaits
  <2>7. /\ wTasks[t].pc # "none" /\ wTasks[t].pc # "apply"
        /\ \A x \in Outgoing : x.proc # t /\ x.proc # None
        /\ Outgoing' = Outgoing
    <3>1. \A x \in Outgoing : x.proc # None
      BY ContentsAssumption
      DEF Sent, FromMaster, AskedByMaster, Asking, Reporting, Loop, None
    <3> QED
      BY <2>1, <2>2, <3>1 DEF Reporting, Single, Outgoing
  <2>8. Jobs'
    BY <1>0, <1>2, <2>7, NoJobOf
  <2>9. Current'
    BY <1>0, <2>2, <2>4, <2>5 DEF Current, NoUpdates, WorkerOnly, Report
  <2>10. Single'
    BY <2>4, <2>5, <2>7 DEF Single
  <2> QED
    BY <1>0, <1>2, <2>6, <2>7, <2>8, <2>9, <2>10, WorkerIsDone
<1>5. CASE \E i \in DOMAIN toWorker :
              /\ toWorker[i].cmd \in Responses
              /\ toWorker[i].proc = t
              /\ toWorker' = RemoveAt(toWorker, i)
              /\ UNCHANGED toMaster
  <2> PICK i \in DOMAIN toWorker :
              /\ toWorker[i].cmd \in Responses
              /\ toWorker[i].proc = t
              /\ toWorker' = RemoveAt(toWorker, i)
              /\ UNCHANGED toMaster
    BY <1>5
  <2>1. PICK m \in Message : /\ m = toWorker[i]
                             /\ m.cmd \in Responses /\ m.proc = t /\ WorkerTakes(m)
    BY MessagesType, ReceivedType, TakenFromWorker
  <2>2. Reporting(t)
    BY <1>3, <2>1 DEF Sent, FromMaster, AskedByMaster, Responses, WorkerTakes
  <2>3. /\ wTasks[t].pc # "none" /\ wTasks[t].pc # "apply"
        /\ \A x \in Incoming : x.proc # t
    BY <2>1, <2>2 DEF Reporting, WorkerTakes, Single
  <2>4. Jobs'
    BY <1>0, <1>2, <2>3, NoJobOf
  <2>5. Current'
    BY <1>0 DEF Current, NoUpdates, WorkerOnly, Incoming
  <2>6. Single'
    BY <2>1 DEF Single, WorkerTakes, Incoming
  <2>7. /\ Outgoing' \subseteq Outgoing
        /\ \A x \in Outgoing : x \in Outgoing' \/ x.proc = t
        /\ \A x \in Outgoing' : x.proc # t
    BY <1>3, <2>1 DEF WorkerTakes
  <2> QED
    BY <1>0, <1>2, <2>3, <2>4, <2>5, <2>6, <2>7, WorkerIsDone
<1> QED
  BY <1>4, <1>5, Zenon DEF WorkerRequestTimeout


LEMMA ProcessFilesRounds ==
    ASSUME TypeOK, Rounds, NEW t \in TaskIds, ProcessFiles(t)
    PROVE  Rounds'
<1> USE DEF Rounds
<1>0. WorkerOnly /\ UNCHANGED <<workerFiles, toMaster, toWorker>> /\ wTasks[t].pc = "ready"
  BY DEF ProcessFiles, WorkerOnly, masterVars, channels
<1>1. /\ \A x \in Incoming : x.proc # t
      /\ \A x \in Outgoing : x.proc # t
      /\ mTasks[t].pc = "none"
  <2>1. ~Asking(t) /\ ~Reporting(t) /\ mTasks[t].pc = "none"
    BY <1>0 DEF Asking, Reporting, Tasks
  <2> QED
    BY <2>1, Silent
<1>2. Incoming' = Incoming /\ Outgoing' = Outgoing
  BY <1>0 DEF Incoming, Outgoing
<1>3. CASE WorkerTaskDone(t) /\ UNCHANGED pool
  <2>1. WorkerTaskIs(t, "none") /\ checkIntegrityFree' = TRUE
    BY <1>3, OneTaskAt DEF WorkerTaskDone
  <2>2. Jobs'
    BY <1>0, <1>3, <2>1, NoJobOf
  <2>3. Current' /\ Single'
    BY <1>0, <1>2, <1>3 DEF Current, NoUpdates, WorkerOnly, Single
  <2>4. wTasks[t].pc # "none" /\ UNCHANGED toMaster
    BY <1>0
  <2> QED
    BY <1>0, <1>1, <1>2, <2>1, <2>2, <2>3, <2>4, WorkerIsDone
<1>4. CASE /\ pool' = Append(pool, [kind |-> "apply", task |-> t,
                    load |-> wTasks[t].load, at |-> wTasks[t].at])
           /\ wTasks' = [wTasks EXCEPT ![t] = TaskAt("apply")]
           /\ UNCHANGED checkIntegrityFree
  <2>1. /\ \A s \in TaskIds : s # t => wTasks'[s] = wTasks[s]
        /\ wTasks'[t].pc = "apply"
    BY <1>4, OneTaskAt DEF WorkerTaskIs
  <2>2. /\ t \in Receiving /\ Receiving' = Receiving /\ Syncing' = Syncing
        /\ ~Comparing
    BY <1>0, <2>1 DEF Receiving, Syncing, Quiet, WorkerOnly
  <2>3. Granted' = Granted /\ \A cmd : Pending(cmd)' = Pending(cmd)
    BY <1>0, <1>2 DEF Granted, Pending, WorkerOnly
  <2>4. Sent'
    BY <1>1, <1>2, <1>0, <2>1
    DEF Sent, FromWorker, FromMaster, AskedByLoop, AskedByMaster, Asking, Reporting, WorkerOnly
  <2>5. Single'
    BY <1>0, <1>2 DEF Single
  <2>6. Tasks' /\ SyncsDoNotOverlap'
    BY <1>0, <1>1, <1>4, <2>1, <2>2 DEF Tasks, SyncsDoNotOverlap, WorkerOnly
  <2>7. Flag' /\ Reported' /\ Asked' /\ Opening'
    BY <1>0, <1>2, <2>2, <2>3
    DEF Flag, Leaving, Reported, Asked, Opening, Replied, WorkerOnly, Syncing
  <2>8. Served'
    BY <1>0, <1>2, <2>1, <2>2 DEF Served, Replied, WorkerOnly, Syncing
  <2>9. Quiet'
    BY <1>0, <1>2, <2>2, <2>3 DEF Quiet, Comparing, WorkerOnly
  <2>10. Jobs'
    <3> DEFINE n == Len(pool) + 1
               job == [kind |-> "apply", task |-> t, load |-> wTasks[t].load,
                       at |-> wTasks[t].at]
    <3>1. /\ pool \in Seq(Job)
          /\ job \in Job
      BY DEF TypeOK, Job
    <3>2. job.kind = "apply" /\ job.task = t
      OBVIOUS
    <3>3. pool' = Append(pool, job)
      BY <1>4
    <3> HIDE DEF job
    <3>4. /\ \A k \in DOMAIN pool : pool'[k] = pool[k] /\ k \in DOMAIN pool' /\ k # n
          /\ \A k \in DOMAIN pool' : k \in DOMAIN pool \/ k = n
          /\ pool'[n] = job
      BY <3>1, <3>3
    <3> HIDE DEF n
    <3>5. \A k \in DOMAIN pool : pool[k].kind = "apply" => pool[k].task # t
      BY <1>0, ContentsAssumption DEF Jobs
    <3>6. \A k \in DOMAIN pool : ~(pool[k].kind = "scan" /\ pool[k].task # None)
      BY <2>2 DEF Jobs, Comparing, Granted
    <3>7. \A k \in DOMAIN pool : pool[k].kind = "apply" \/ pool[k].task = None
      <4>1. \A k \in DOMAIN pool : pool[k] \in Job
        BY <3>1
      <4> QED
        BY <3>6, <4>1 DEF Job
    <3>8. \A k \in DOMAIN pool : pool[k].task # t
      BY <3>5, <3>7, ContentsAssumption
    <3>9. ASSUME NEW k \in DOMAIN pool', pool'[k].kind = "apply", pool'[k].task # None
          PROVE  /\ pool'[k].task \in TaskIds /\ wTasks'[pool'[k].task].pc = "apply"
                 /\ \A l \in DOMAIN pool' : pool'[l].task = pool'[k].task => l = k
      <4>1. CASE k = n
        BY <2>1, <3>2, <3>4, <3>8, <4>1
      <4>2. CASE k \in DOMAIN pool
        BY <2>1, <3>2, <3>4, <3>8, <3>9, <4>2 DEF Jobs
      <4> QED
        BY <3>4, <4>1, <4>2
    <3>10. \A k \in DOMAIN pool' : ~(pool'[k].kind = "scan" /\ pool'[k].task # None)
      BY <3>2, <3>4, <3>6
    <3> QED
      BY <3>9, <3>10 DEF Jobs
  <2>11. Current'
    BY <1>0, <1>2, <2>2 DEF Current, WorkerOnly, Comparing, Granted, Pending
  <2> QED
    BY <2>4, <2>5, <2>6, <2>7, <2>8, <2>9, <2>10, <2>11
<1> QED
  BY <1>3, <1>4 DEF ProcessFiles

-----------------------------------------------------------------------------
(***************************************************************************)
(* The pool, the connection and the rest.                                  *)
(***************************************************************************)
Idle == UNCHANGED <<syncIntegrityFree, mTasks, checkIntegrityFree, loop, status, wTasks,
                    toMaster, toWorker, connected>>

LEMMA IdleRounds ==
    ASSUME Rounds, Idle
    PROVE  /\ Sent' /\ Single' /\ Tasks' /\ SyncsDoNotOverlap' /\ Flag' /\ Reported'
           /\ Asked' /\ Served' /\ Opening' /\ Quiet'
<1> USE DEF Rounds, Idle
<1>1. Incoming' = Incoming /\ Outgoing' = Outgoing
  BY DEF Incoming, Outgoing
<1>2. Syncing' = Syncing /\ Receiving' = Receiving
  BY DEF Syncing, Receiving
<1>3. Granted' = Granted /\ \A cmd : Pending(cmd)' = Pending(cmd)
  BY <1>1 DEF Granted, Pending
<1>4. Sent' /\ Single'
  BY <1>1
  DEF Sent, Single, FromWorker, FromMaster, AskedByLoop, AskedByMaster, Asking, Reporting
<1>5. Tasks' /\ SyncsDoNotOverlap'
  BY <1>2 DEF Tasks, SyncsDoNotOverlap
<1>6. Flag' /\ Reported' /\ Asked' /\ Served' /\ Opening'
  BY <1>1, <1>2, <1>3 DEF Flag, Leaving, Reported, Asked, Served, Opening, Replied
<1>7. Quiet'
  BY <1>1, <1>2, <1>3 DEF Quiet, Comparing
<1> QED
  BY <1>4, <1>5, <1>6, <1>7

LEMMA UnchangedRounds ==
    ASSUME Rounds, Idle, UNCHANGED <<workerFiles, pool>>
    PROVE  Rounds'
<1>1. Jobs' /\ Current'
  BY DEF Rounds, Jobs, Current, NoUpdates, Idle, Incoming
<1> QED
  BY <1>1, IdleRounds DEF Rounds

(* The job at the head of the pool is done.                                *)
LEMMA NextJob ==
    ASSUME TypeOK, Rounds, pool # <<>>, pool' = Tail(pool), UNCHANGED loop,
           \/ UNCHANGED wTasks
           \/ \E t \in TaskIds : /\ t = Head(pool).task /\ Head(pool).kind = "apply"
                                 /\ WorkerTaskIs(t, "none")
    PROVE  Jobs' /\ (NoUpdates => NoUpdates')
<1>1. /\ pool \in Seq(Job) /\ Len(pool) \in Nat /\ Len(pool) > 0
      /\ Head(pool) = pool[1]
      /\ DOMAIN pool = 1..Len(pool)
      /\ Len(pool') = Len(pool) - 1
      /\ DOMAIN pool' = 1..(Len(pool) - 1)
      /\ \A k \in DOMAIN pool' : pool'[k] = pool[k + 1]
  BY DEF TypeOK
<1>2. /\ 1 \in DOMAIN pool
      /\ \A k \in DOMAIN pool' : k + 1 \in DOMAIN pool /\ k + 1 # 1
  BY <1>1
<1>3. NoUpdates => NoUpdates'
  BY <1>1, <1>2 DEF NoUpdates
<1>4. ASSUME NEW k \in DOMAIN pool', pool'[k].kind = "apply", pool'[k].task # None
      PROVE  /\ pool'[k].task \in TaskIds /\ wTasks'[pool'[k].task].pc = "apply"
             /\ \A l \in DOMAIN pool' : pool'[l].task = pool'[k].task => l = k
  <2>1. pool'[k] = pool[k + 1] /\ k + 1 \in DOMAIN pool /\ k + 1 # 1 /\ k \in Nat
    BY <1>1, <1>2
  <2>2. /\ pool[k + 1].task \in TaskIds /\ wTasks[pool[k + 1].task].pc = "apply"
        /\ \A l \in DOMAIN pool : pool[l].task = pool[k + 1].task => l = k + 1
    BY <1>4, <2>1 DEF Rounds, Jobs
  <2>3. pool[k + 1].task # Head(pool).task
    BY <1>1, <1>2, <2>1, <2>2
  <2>4. wTasks'[pool[k + 1].task].pc = "apply"
    BY <2>2, <2>3 DEF WorkerTaskIs
  <2>5. \A l \in DOMAIN pool' : pool'[l].task = pool'[k].task => l = k
    BY <1>1, <1>2, <2>1, <2>2
  <2> QED
    BY <2>1, <2>2, <2>4, <2>5
<1>5. ASSUME NEW k \in DOMAIN pool', pool'[k].kind = "scan", pool'[k].task # None
      PROVE  k = Len(pool') /\ loop' = "scan"
  BY <1>1, <1>2, <1>5 DEF Rounds, Jobs
<1> QED
  BY <1>3, <1>4, <1>5 DEF Jobs

LEMMA PoolRounds ==
    ASSUME TypeOK, Rounds, ApplyFiles \/ DiscardScan
    PROVE  Rounds'
<1> USE DEF Rounds
<1>1. CASE DiscardScan
  <2>1. Idle /\ UNCHANGED workerFiles
    BY <1>1 DEF DiscardScan, Idle, masterVars, channels
  <2>2. Jobs' /\ (NoUpdates => NoUpdates')
    BY <1>1, NextJob DEF DiscardScan
  <2>3. Current'
    BY <2>1, <2>2 DEF Current, Idle, Incoming
  <2> QED
    BY <2>1, <2>2, <2>3, IdleRounds
<1>2. CASE ApplyFiles
  <2>1. /\ UNCHANGED <<syncIntegrityFree, mTasks, loop, status, toMaster, toWorker, connected>>
        /\ pool # <<>> /\ pool' = Tail(pool) /\ Head(pool).kind = "apply"
    BY <1>2 DEF ApplyFiles, masterVars, channels
  <2>2. ~NoUpdates
    <3>1. 1 \in DOMAIN pool /\ Head(pool) = pool[1]
      BY <2>1 DEF TypeOK
    <3> QED
      BY <2>1, <3>1 DEF NoUpdates
  <2>3. Incoming' = Incoming /\ Outgoing' = Outgoing
    BY <2>1 DEF Incoming, Outgoing
  <2>4. Current'
    BY <2>1, <2>2, <2>3 DEF Current
  <2>5. CASE UNCHANGED <<wTasks, checkIntegrityFree>>
    <3>1. Idle
      BY <2>1, <2>5 DEF Idle
    <3>2. Jobs'
      BY <2>1, <2>5, NextJob
    <3> QED
      BY <2>4, <3>1, <3>2, IdleRounds
  <2>6. CASE Head(pool).task # None /\ WorkerTaskDone(Head(pool).task)
    <3>1. PICK t : t = Head(pool).task
      OBVIOUS
    <3>2. t \in TaskIds /\ wTasks[t].pc = "apply"
      <4>1. 1 \in DOMAIN pool /\ Head(pool) = pool[1]
        BY <2>1 DEF TypeOK
      <4> QED
        BY <2>1, <2>6, <3>1, <4>1 DEF Jobs
    <3>3. WorkerTaskIs(t, "none") /\ checkIntegrityFree' = TRUE
      BY <2>6, <3>1, <3>2, OneTaskAt DEF WorkerTaskDone
    <3>4. Jobs'
      BY <2>1, <3>1, <3>2, <3>3, NextJob
    <3>5. /\ \A x \in Incoming : x.proc # t
          /\ \A x \in Outgoing : x.proc # t
      <4>1. ~Asking(t) /\ ~Reporting(t)
        BY <3>2 DEF Asking, Reporting, Tasks
      <4> QED
        BY <3>2, <4>1, Silent
    <3>6. WorkerOnly /\ Single' /\ wTasks[t].pc # "none" /\ UNCHANGED toMaster
      BY <2>1, <2>3, <3>2 DEF WorkerOnly, Single
    <3> QED
      BY <2>3, <2>4, <3>2, <3>3, <3>4, <3>5, <3>6, WorkerIsDone
  <2> QED
    BY <1>2, <2>5, <2>6 DEF ApplyFiles
<1> QED
  BY <1>1, <1>2


(* A response that is read together with a request.                        *)
LEMMA LateToMaster ==
    ASSUME TypeOK, Rounds, NEW i \in DOMAIN toMaster, NEW j \in DOMAIN toMaster,
           Overtakes(toMaster, i, j), toMaster' = Overtaken(toMaster, i, j),
           UNCHANGED <<toWorker, masterVars, workerVars, connected>>
    PROVE  Rounds'
<1> USE DEF Rounds
<1>0. UNCHANGED <<syncIntegrityFree, mTasks, checkIntegrityFree, loop, status, wTasks,
                  toWorker, connected, workerFiles, pool>>
  BY DEF masterVars, workerVars
<1>1. PICK m \in Message : /\ m = toMaster[i] /\ m \in Incoming
                           /\ m.cmd \in Responses /\ ~m.late
  BY MessagesType, ReceivedType DEF Overtakes, Incoming, ToSet
<1>2. toMaster \in Seq(Message) /\ Distinct(toMaster)
  BY MessagesType DEF Single
<1>3. PICK e \in Message :
         /\ e = [m EXCEPT !.late = TRUE]
         /\ e \in Incoming'
         /\ \A x \in Incoming' : x \in Incoming \/ x = e
         /\ \A x \in Incoming : x \in Incoming' \/ x = m
         /\ \A S, T : Before(toMaster, S, T) /\ e \notin S /\ (e \in T => m \in T)
                      => Before(toMaster', S, T)
         /\ Distinct(toMaster')
  BY <1>1, <1>2, Moved DEF Incoming
<1>4. e.late /\ e.cmd = m.cmd /\ e.proc = m.proc /\ e.task = m.task
  BY <1>3 DEF Message
<1>5. Asking(m.proc) /\ m.proc # None
  BY <1>1, ContentsAssumption
  DEF Sent, FromWorker, AskedByLoop, Asking, Report, Responses
<1>6. \A x \in Incoming : x.proc = m.proc => x = m
  BY <1>1, <1>2, <1>5 DEF Distinct, Incoming, ToSet
<1>7. /\ \A t : (e \in Replies(t) <=> m \in Replies(t)) /\ e \notin Fresh(t)
      /\ e \notin Failures
      /\ \A cmd \in Requests : e \notin Orders(cmd)
  BY <1>1, <1>4 DEF Replies, Fresh, Failures, Orders, Requests, Responses
<1>8. Outgoing' = Outgoing /\ Syncing' = Syncing /\ Receiving' = Receiving
  BY <1>0 DEF Outgoing, Syncing, Receiving
<1>9. \A cmd \in Requests : Pending(cmd)' = Pending(cmd)
  BY <1>1, <1>3, <1>4 DEF Pending, Requests, Responses
<1>10. Granted' = Granted
  BY <1>0, <1>8, <1>9 DEF Granted, Requests
<1>11. \A t \in TaskIds : Replied(t) => Replied(t)'
  BY <1>3, <1>7 DEF Replied
<1>12. \A t \in TaskIds : Leaving(t) => Leaving(t)'
  <2> SUFFICES ASSUME NEW t \in TaskIds, Leaving(t) PROVE Leaving(t)'
    OBVIOUS
  <2>1. PICK x \in Incoming : x \in Replies(t) /\ x.late
    BY DEF Leaving
  <2>2. x # m /\ m \notin Replies(t)
    BY <1>1, <1>6, <2>1 DEF Replies
  <2>3. x \in Incoming' /\ e \notin Replies(t) /\ e \notin Orders("syn_i_w_m")
    BY <1>3, <1>7, <2>2 DEF Requests
  <2>4. Before(toMaster', Replies(t), Orders("syn_i_w_m"))
    BY <1>3, <2>3 DEF Leaving
  <2> QED
    BY <1>0, <2>1, <2>3, <2>4 DEF Leaving
<1>13. Sent'
  <2>1. \A x \in Incoming : FromWorker(x)'
    BY <1>0 DEF Sent, FromWorker, AskedByLoop, Asking, Reporting
  <2>2. FromWorker(e)' /\ (e.cmd = "syn_i_w_m_r" => e.task = None)
    BY <1>0, <1>1, <1>4, <1>5 DEF FromWorker, Asking, Responses
  <2>3. \A x \in Outgoing' : FromMaster(x)'
    BY <1>0, <1>8 DEF Sent, FromMaster, AskedByMaster, Asking, Reporting
  <2> QED
    BY <1>3, <2>1, <2>2, <2>3 DEF Sent
<1>14. Single'
  <2>1. \A x \in Incoming' : \E y \in Incoming : y.proc = x.proc
    BY <1>1, <1>3, <1>4
  <2> QED
    BY <1>0, <1>3, <1>8, <2>1 DEF Single
<1>15. Tasks' /\ SyncsDoNotOverlap' /\ Jobs'
  BY <1>0, <1>8 DEF Tasks, SyncsDoNotOverlap, Jobs
<1>16. Flag'
  BY <1>0, <1>8, <1>10, <1>12 DEF Flag, Syncing
<1>17. Reported'
  <2>1. (\E x \in Incoming' : x \in Failures) => \E x \in Incoming : x \in Failures
    BY <1>3, <1>7
  <2>2. /\ Before(toMaster, Failures, Orders("syn_i_w_m_p")) =>
              Before(toMaster', Failures, Orders("syn_i_w_m_p"))
        /\ \A t : Before(toMaster, Fresh(t), Failures) => Before(toMaster', Fresh(t), Failures)
    BY <1>3, <1>7 DEF Requests
  <2> QED
    BY <1>0, <1>8, <1>10, <1>11, <2>1, <2>2 DEF Reported, Syncing
<1>18. Asked'
  <2>1. \A t : Before(toMaster, Orders("syn_i_w_m_p"), Replies(t)) =>
                  Before(toMaster', Orders("syn_i_w_m_p"), Replies(t))
    BY <1>3, <1>7 DEF Requests
  <2> QED
    BY <1>0, <1>8, <1>9, <1>11, <2>1 DEF Asked, Syncing, Requests
<1>19. Served'
  BY <1>0, <1>8, <1>11 DEF Served, Syncing
<1>20. Opening' /\ Quiet'
  BY <1>0, <1>8, <1>9, <1>10 DEF Opening, Quiet, Comparing, Requests
<1>21. Current'
  BY <1>0, <1>1, <1>3, <1>4 DEF Current, NoUpdates, Responses
<1> QED
  BY <1>13, <1>14, <1>15, <1>16, <1>17, <1>18, <1>19, <1>20, <1>21

LEMMA LateToWorker ==
    ASSUME TypeOK, Rounds, NEW i \in DOMAIN toWorker, NEW j \in DOMAIN toWorker,
           Overtakes(toWorker, i, j), toWorker' = Overtaken(toWorker, i, j),
           UNCHANGED <<toMaster, masterVars, workerVars, connected>>
    PROVE  Rounds'
<1> USE DEF Rounds
<1>0. UNCHANGED <<syncIntegrityFree, mTasks, checkIntegrityFree, loop, status, wTasks,
                  toMaster, connected, workerFiles, pool>>
  BY DEF masterVars, workerVars
<1>1. PICK m \in Message : m = toWorker[i] /\ m \in Outgoing
  BY MessagesType, ReceivedType DEF Outgoing, ToSet
<1>2. toWorker \in Seq(Message) /\ Distinct(toWorker)
  BY MessagesType DEF Single
<1>3. PICK e \in Message :
         /\ e = [m EXCEPT !.late = TRUE]
         /\ e \in Outgoing'
         /\ \A x \in Outgoing' : x \in Outgoing \/ x = e
         /\ \A x \in Outgoing : x \in Outgoing' \/ x = m
         /\ Distinct(toWorker')
  BY <1>1, <1>2, Moved DEF Outgoing
<1>4. e.cmd = m.cmd /\ e.proc = m.proc
  BY <1>3 DEF Message
<1>5. Incoming' = Incoming /\ Syncing' = Syncing /\ Receiving' = Receiving
  BY <1>0 DEF Incoming, Syncing, Receiving
<1>6. /\ \A x \in Outgoing' : \E y \in Outgoing : y.cmd = x.cmd /\ y.proc = x.proc
      /\ \A x \in Outgoing : \E y \in Outgoing' : y.cmd = x.cmd /\ y.proc = x.proc
  BY <1>1, <1>3, <1>4
<1>7. Granted' = Granted /\ \A cmd : Pending(cmd)' = Pending(cmd)
  BY <1>0, <1>5, <1>6 DEF Granted, Pending
<1>8. Sent'
  <2>1. \A x \in Incoming' : FromWorker(x)'
    BY <1>0, <1>5 DEF Sent, FromWorker, AskedByLoop, Asking, Reporting
  <2>2. \A x \in Outgoing' : FromMaster(x)'
    BY <1>0, <1>6 DEF Sent, FromMaster, AskedByMaster, Asking, Reporting
  <2> QED
    BY <1>5, <2>1, <2>2 DEF Sent
<1>9. Single'
  BY <1>0, <1>3, <1>5, <1>6 DEF Single
<1>10. Tasks' /\ SyncsDoNotOverlap' /\ Jobs'
  BY <1>0, <1>5 DEF Tasks, SyncsDoNotOverlap, Jobs
<1>11. Flag' /\ Reported' /\ Asked' /\ Served' /\ Opening'
  BY <1>0, <1>5, <1>7 DEF Flag, Leaving, Reported, Asked, Served, Opening, Replied
<1>12. Quiet'
  BY <1>0, <1>5, <1>6, <1>7 DEF Quiet, Comparing
<1>13. Current'
  BY <1>0, <1>5 DEF Current, NoUpdates
<1> QED
  BY <1>8, <1>9, <1>10, <1>11, <1>12, <1>13

(* Nothing is left of a round once the connection is lost.                 *)
AllIdle ==
    /\ toMaster = <<>> /\ toWorker = <<>>
    /\ \A t \in TaskIds : mTasks[t].pc = "none" /\ wTasks[t].pc = "none"
    /\ loop \in {"off", "idle"}
    /\ ~connected => loop = "off"
    /\ \A i \in DOMAIN pool : pool[i].task = None

LEMMA IdleIsFine == AllIdle => Rounds
<1> SUFFICES ASSUME AllIdle PROVE Rounds
  OBVIOUS
<1> USE DEF AllIdle
<1>1. Incoming = {} /\ Outgoing = {} /\ Syncing = {} /\ Receiving = {}
  BY DEF Incoming, Outgoing, ToSet, Syncing, Receiving
<1>2. Sent /\ Single
  BY <1>1 DEF Sent, Single, Distinct
<1>3. Tasks /\ SyncsDoNotOverlap
  BY <1>1 DEF Tasks, SyncsDoNotOverlap
<1>4. Flag /\ Reported /\ Asked /\ Served /\ Opening /\ Quiet
  BY <1>1 DEF Flag, Reported, Asked, Served, Opening, Quiet
<1>5. Jobs /\ Current
  BY <1>1 DEF Jobs, Current
<1> QED
  BY <1>2, <1>3, <1>4, <1>5 DEF Rounds

LEMMA DisconnectRounds ==
    ASSUME TypeOK, ConnectionLost \/ MasterRestart \/ WorkerRestart
    PROVE  Rounds'
<1>1. /\ toMaster' = <<>> /\ toWorker' = <<>> /\ loop' = "off"
      /\ mTasks' = [t \in TaskIds |-> NoTask] /\ wTasks' = [t \in TaskIds |-> NoTask]
  BY DEF ConnectionLost, MasterRestart, WorkerRestart, Disconnect
<1>2. \A t \in TaskIds : mTasks'[t].pc = "none" /\ wTasks'[t].pc = "none"
  BY <1>1 DEF NoTask, TaskAt
<1>3. \A i \in DOMAIN pool' : pool'[i].task = None
  <2>1. CASE \E n \in 0..Len(pool) : pool' = Orphans(n)
    <3> PICK n \in 0..Len(pool) : pool' = Orphans(n)
      BY <2>1
    <3>1. \A i \in 1..n : pool[i] \in Job
      BY DEF TypeOK
    <3>2. DOMAIN pool' = 1..n /\ \A i \in 1..n : pool'[i] = [pool[i] EXCEPT !.task = None]
      BY DEF Orphans
    <3> QED
      BY <3>1, <3>2 DEF Job
  <2>2. CASE pool' = <<>>
    BY <2>2
  <2> QED
    BY <2>1, <2>2 DEF ConnectionLost, MasterRestart, WorkerRestart
<1>4. AllIdle'
  BY <1>1, <1>2, <1>3 DEF AllIdle
<1>5. AllIdle' => Rounds'
  BY IdleIsFine, PTL
<1> QED
  BY <1>4, <1>5

LEMMA ReconnectRounds ==
    ASSUME TypeOK, Rounds, Reconnect
    PROVE  Rounds'
<1> USE DEF Rounds
<1>0. /\ UNCHANGED <<syncIntegrityFree, mTasks, checkIntegrityFree, status, wTasks,
                     toMaster, toWorker, workerFiles, pool>>
      /\ loop = "off" /\ loop' = "idle" /\ connected'
  BY DEF Reconnect, masterVars, channels, Tasks
<1>1. /\ Incoming' = Incoming /\ Outgoing' = Outgoing
      /\ Syncing' = Syncing /\ Receiving' = Receiving
  BY <1>0 DEF Incoming, Outgoing, Syncing, Receiving
<1>2. ~Granted' /\ ~Granted /\ \A cmd : Pending(cmd)' = Pending(cmd)
  BY <1>0, <1>1 DEF Granted, Pending
<1>3. Sent' /\ Single'
  BY <1>0, <1>1
  DEF Sent, Single, FromWorker, FromMaster, AskedByLoop, AskedByMaster, Asking, Reporting
<1>4. Tasks' /\ SyncsDoNotOverlap' /\ Jobs'
  BY <1>0, <1>1 DEF Tasks, SyncsDoNotOverlap, Jobs
<1>5. Flag' /\ Reported' /\ Asked' /\ Served' /\ Opening' /\ Quiet'
  BY <1>0, <1>1, <1>2
  DEF Flag, Leaving, Reported, Asked, Served, Opening, Replied, Quiet, Comparing
<1>6. Current'
  BY <1>0, <1>1 DEF Current, NoUpdates
<1> QED
  BY <1>3, <1>4, <1>5, <1>6

LEMMA NoTimeouts ==
    Trusted => ~LoopRequestTimeout /\ \A t : ~MasterRequestTimeout(t)
<1>1. Trusted => ~Fault("loop timeout") /\ ~Fault("request timeout")
  BY Zenon DEF Trusted, Unreliable, Fault
<1> QED
  BY <1>1, Zenon DEF LoopRequestTimeout, MasterRequestTimeout

LEMMA NextRounds == Trusted => (TypeOK /\ Rounds /\ [Next]_vars => Rounds')
<1> SUFFICES ASSUME Trusted, TypeOK, Rounds, [Next]_vars PROVE Rounds'
  OBVIOUS
<1>1. CASE EditFile \/ FileStatusUpdate \/ UNCHANGED vars
  <2>1. Idle /\ UNCHANGED <<workerFiles, pool>>
    BY <1>1 DEF EditFile, FileStatusUpdate, vars, masterVars, workerVars, channels, Idle
  <2> QED
    BY <2>1, UnchangedRounds
<1>2. CASE MasterHandlers
  BY <1>2, GetPermissionRounds, SetupSyncIntegrityRounds, EndReceivingIntegrityChecksumsRounds,
     ProcessSyncErrorFromWorkerRounds, CancelTaskOnMasterRounds DEF MasterHandlers
<1>3. CASE \E t \in TaskIds : MasterTask(t) \/ MasterFileTimeout(t)
  BY <1>3, MasterGoesOnRounds, MasterTaskAnsweredRounds, MasterTaskFailsRounds DEF MasterTask
<1>4. CASE WorkerLoop \/ LoopFails
  BY <1>4, RequestPermissionRounds, CollectStatusRounds, LoopGoesOnRounds, LoopAnsweredRounds
  DEF WorkerLoop
<1>5. CASE WorkerHandlers
  BY <1>5, AnswerOnWorkerRounds, SetupReceiveFilesFromMasterRounds, EndReceivingIntegrityRounds,
     NoErrorFromMaster DEF WorkerHandlers
<1>6. CASE \E t \in TaskIds : WorkerTask(t) \/ WorkerFileTimeout(t) \/ WorkerRequestTimeout(t)
  BY <1>6, ProcessFilesRounds, WorkerReportsRounds, WorkerTaskAnsweredRounds,
     WorkerRequestTimeoutRounds DEF WorkerTask
<1>7. CASE ReadTogether
  BY <1>7, LateToMaster, LateToWorker DEF ReadTogether
<1>8. CASE ApplyFiles \/ DiscardScan
  BY <1>8, PoolRounds
<1>9. CASE ConnectionLost \/ MasterRestart \/ WorkerRestart
  BY <1>9, DisconnectRounds
<1>10. CASE Reconnect
  BY <1>10, ReconnectRounds
<1> QED
  BY <1>1, <1>2, <1>3, <1>4, <1>5, <1>6, <1>7, <1>8, <1>9, <1>10, NoTimeouts
  DEF Next, Timeouts

LEMMA RoundsHold == Trusted => (Spec => []Rounds)
<1>1. Init => Rounds
  <2>1. Init => AllIdle
    BY DEF Init, AllIdle, NoTask, TaskAt
  <2> QED
    BY <2>1, IdleIsFine
<1> SUFFICES ASSUME Trusted PROVE Spec => []Rounds
  OBVIOUS
<1>2. TypeOK /\ Rounds /\ [Next]_vars => Rounds'
  BY NextRounds
<1> QED
  BY <1>1, <1>2, TypeCorrect, PTL DEF Spec

(* As the comment on sync_integrity_free says, two rounds of one worker do *)
(* not overlap, on the master or on the worker.  For any files, contents,  *)
(* task names and numbers of edits and faults, with lost connections,      *)
(* restarts, files that do not arrive, failing disks and reports that time *)
(* out among the faults; but a side that gives up on a request of the      *)
(* round itself (loop timeout, request timeout), or a flag released since  *)
(* it was held too long (lock timeout), does let them overlap.             *)
THEOREM RoundsDoNotOverlap ==
    ASSUME Faults \cap {"loop timeout", "request timeout", "lock timeout"} = {}
    PROVE  Spec => []SyncsDoNotOverlap
<1>1. Trusted
  BY Zenon DEF Trusted, Unreliable
<1>2. Rounds => SyncsDoNotOverlap
  BY DEF Rounds
<1> QED
  BY <1>1, <1>2, RoundsHold, PTL

(* The status that the master compares is what the worker has at that very *)
(* moment, although sync_integrity reads check_integrity_free before it    *)
(* awaits the permission and never again: under the same faults, no update *)
(* is queued or running from then until the comparison.                    *)
THEOREM StatusIsCurrent ==
    ASSUME Faults \cap {"loop timeout", "request timeout", "lock timeout"} = {}
    PROVE  Spec => []ComparedStatusIsCurrent
<1>1. Trusted
  BY Zenon DEF Trusted, Unreliable
<1>2. Rounds => ComparedStatusIsCurrent
  BY DEF Rounds, Current, ComparedStatusIsCurrent
<1> QED
  BY <1>1, <1>2, RoundsHold, PTL

-----------------------------------------------------------------------------
(***************************************************************************)
(* Replication.  If no scan or zip meets a file it cannot read, and        *)
(* neither daemon starts again, the versions installed only grow.          *)
(***************************************************************************)
Steady == Trusted /\ "read" \notin Faults /\ "restart" \notin Faults

(* What version n of the master's files, or a later one, says of f; before *)
(* the first scan (n = 0), that there is no such file.                     *)
Says(f, n) == IF n = 0 THEN {Absent} ELSE {hist[k][f] : k \in n..Len(hist)}

(* No update that is installed, or queued, is of a later version than n.   *)
Newest(n) ==
    /\ applied <= n
    /\ n <= integrityControl.at
    /\ \A i \in DOMAIN pool : pool[i].kind = "apply" => pool[i].at <= n

Sound(u) == \A f \in Files : u.load[f] = Keep \/ u.load[f] \in Says(f, u.at)

(* An update on its way from the master's files to the worker's pool, and  *)
(* before that the list of files it is to be made of.                      *)
Update(u) == Newest(u.at) /\ Sound(u)

List(u) ==
    /\ Newest(u.at)
    /\ \A f \in Files : \/ u.load[f] = Keep \/ u.load[f] \in Says(f, u.at)
                        \/ u.load[f] \in {Missing, Shared} /\ u.at > 0

Scanned ==
    /\ applied <= integrityControl.at
    /\ integrityControl.at <= Len(hist)
    /\ integrityControl.at = 0 => integrityControl.files = Empty
    /\ integrityControl.at > 0 => integrityControl.files = hist[integrityControl.at]

Underway ==
    /\ \A t \in TaskIds : mTasks[t].pc = "compress" => List(mTasks[t])
    /\ \A t \in TaskIds : mTasks[t].pc = "cmd" => Update(mTasks[t])
    /\ \A m \in Outgoing : m.cmd = "syn_m_c_e" => Update(m)
    /\ \A t \in TaskIds : wTasks[t].pc = "ready" => Update(wTasks[t])

Queued ==
    /\ \A i \in DOMAIN pool : pool[i].kind = "apply" =>
          /\ applied <= pool[i].at
          /\ pool[i].at <= integrityControl.at
          /\ Sound(pool[i])
    /\ \A i, j \in DOMAIN pool :
          pool[i].kind = "apply" /\ pool[j].kind = "apply" /\ i < j => pool[i].at <= pool[j].at

Versions == Scanned /\ Underway /\ Queued

(* The master's files are only ever added to.                              *)
Grows == UNCHANGED hist \/ \E m \in FileMap : hist' = Append(hist, m)

LEMMA SaysMore ==
    ASSUME TypeOK, Grows, NEW f, NEW n \in Nat
    PROVE  Says(f, n) \subseteq Says(f, n)'
<1>1. CASE UNCHANGED hist
  BY <1>1 DEF Says
<1>2. ASSUME NEW m \in FileMap, hist' = Append(hist, m)
      PROVE  Says(f, n) \subseteq Says(f, n)'
  <2>1. hist \in Seq(FileMap) /\ Len(hist) \in Nat
    BY DEF TypeOK
  <2>2. Len(hist') = Len(hist) + 1 /\ \A k \in 1..Len(hist) : hist'[k] = hist[k]
    BY <1>2, <2>1
  <2>3. \A k \in n..Len(hist) : n # 0 => k \in 1..Len(hist) /\ k \in n..Len(hist')
    BY <2>1, <2>2
  <2> QED
    BY <2>2, <2>3 DEF Says
<1> QED
  BY <1>1, <1>2 DEF Grows

(* What a step carries over, and what it makes, was sound before it.       *)
Carried ==
    /\ \A t \in TaskIds : \A u : u = mTasks'[t] /\ u.pc = "compress" => u = mTasks[t] \/ List(u)
    /\ \A t \in TaskIds : \A u : u = mTasks'[t] /\ u.pc = "cmd" => u = mTasks[t] \/ Update(u)
    /\ \A m \in Outgoing' : m.cmd = "syn_m_c_e" => m \in Outgoing \/ Update(m)
    /\ \A t \in TaskIds : \A u : u = wTasks'[t] /\ u.pc = "ready" => u = wTasks[t] \/ Update(u)

LEMMA Carries ==
    ASSUME TypeOK, TypeOK', Versions, Grows, Carried, Scanned', Queued',
           \A n \in Nat : Newest(n) => Newest(n)'
    PROVE  Versions'
<1>1. \A u : u.at \in Nat => (Update(u) => Update(u)') /\ (List(u) => List(u)')
  <2> SUFFICES ASSUME NEW u, u.at \in Nat
               PROVE  (Update(u) => Update(u)') /\ (List(u) => List(u)')
    OBVIOUS
  <2>1. \A f : Says(f, u.at) \subseteq Says(f, u.at)'
    BY SaysMore
  <2> QED
    BY <2>1 DEF Update, List, Sound
<1>2. ASSUME NEW t \in TaskIds
      PROVE  /\ (mTasks[t].pc = "compress" => List(mTasks[t]))'
             /\ (mTasks[t].pc = "cmd" => Update(mTasks[t]))'
             /\ (wTasks[t].pc = "ready" => Update(wTasks[t]))'
  <2>1. PICK u : u = mTasks'[t]
    OBVIOUS
  <2>2. PICK v : v = wTasks'[t]
    OBVIOUS
  <2>3. u.at \in Nat /\ v.at \in Nat
    BY <2>1, <2>2 DEF TypeOK
  <2>4. u.pc = "compress" => List(u)
    BY <2>1 DEF Carried, Versions, Underway
  <2>5. u.pc = "cmd" => Update(u)
    BY <2>1 DEF Carried, Versions, Underway
  <2>6. v.pc = "ready" => Update(v)
    BY <2>2 DEF Carried, Versions, Underway
  <2>7. /\ u.pc = "compress" => List(u)'
        /\ u.pc = "cmd" => Update(u)'
        /\ v.pc = "ready" => Update(v)'
    BY <1>1, <2>3, <2>4, <2>5, <2>6
  <2> QED
    BY <2>1, <2>2, <2>7
<1>3. ASSUME NEW m \in Outgoing', m.cmd = "syn_m_c_e"
      PROVE  Update(m)'
  <2>1. m \in Message /\ m.at \in Nat
    <3>1. toWorker' \in Seq(Message)
      BY DEF TypeOK
    <3>2. m \in Message
      BY <3>1 DEF Outgoing, ToSet
    <3> QED
      BY <3>2 DEF Message
  <2>2. Update(m)
    BY <1>3 DEF Carried, Versions, Underway
  <2> QED
    BY <1>1, <2>1, <2>2
<1>4. Underway'
  BY <1>2, <1>3 DEF Underway
<1> QED
  BY <1>4 DEF Versions

(* The queue of jobs when a scan is put in it, a job is taken from it.     *)
SameScan == UNCHANGED <<hist, integrityControl, applied>>

LEMMA QueueKept ==
    ASSUME TypeOK, Versions, SameScan, UNCHANGED pool
    PROVE  Scanned' /\ Queued' /\ \A n \in Nat : Newest(n) => Newest(n)'
<1>1. \A u : Sound(u)' = Sound(u)
  BY DEF Sound, Says, SameScan
<1>2. Scanned' /\ \A n \in Nat : Newest(n) => Newest(n)'
  BY DEF Versions, Scanned, Newest, SameScan
<1>3. Queued'
  BY <1>1 DEF Versions, Queued, SameScan
<1> QED
  BY <1>2, <1>3

LEMMA ScanQueued ==
    ASSUME TypeOK, Versions, SameScan, pool' = Append(pool, ScanJob)
    PROVE  Scanned' /\ Queued' /\ \A n \in Nat : Newest(n) => Newest(n)'
<1>1. pool \in Seq(Job) /\ ScanJob.kind = "scan" /\ ScanJob \in Job
  BY OtherTypes DEF TypeOK, ScanJob
<1>2. /\ \A i \in DOMAIN pool' : pool'[i].kind = "apply" =>
             i \in DOMAIN pool /\ pool'[i] = pool[i]
  BY <1>1
<1>3. Scanned'
  BY DEF Versions, Scanned, SameScan
<1>4. \A n \in Nat : Newest(n) => Newest(n)'
  BY <1>2 DEF Newest, SameScan
<1>5. \A u : Sound(u)' = Sound(u)
  BY DEF Sound, Says, SameScan
<1>6. Queued'
  BY <1>2, <1>5 DEF Versions, Queued, SameScan
<1> QED
  BY <1>3, <1>4, <1>6

LEMMA JobTaken ==
    ASSUME TypeOK, Versions, UNCHANGED <<hist, integrityControl>>, pool # <<>>, pool' = Tail(pool),
           \/ UNCHANGED applied
           \/ applied' = Head(pool).at /\ Head(pool).kind = "apply"
    PROVE  Scanned' /\ Queued' /\ \A n \in Nat : Newest(n) => Newest(n)'
<1>1. pool \in Seq(Job) /\ Len(pool) \in Nat /\ Len(pool) > 0
  BY DEF TypeOK
<1>2. /\ 1 \in DOMAIN pool /\ Head(pool) = pool[1]
      /\ Len(pool') = Len(pool) - 1 /\ DOMAIN pool' = 1..Len(pool')
      /\ \A i \in DOMAIN pool' : i + 1 \in DOMAIN pool /\ 1 < i + 1 /\ pool'[i] = pool[i + 1]
  BY <1>1
<1>3. \A i \in DOMAIN pool' : i \in Nat
  BY <1>2
<1>4. applied' = applied \/ (applied' = pool[1].at /\ pool[1].kind = "apply")
  BY <1>2
<1>5. Scanned'
  BY <1>2, <1>4 DEF Versions, Scanned, Queued
<1>6. \A n \in Nat : Newest(n) => Newest(n)'
  BY <1>2, <1>4 DEF Newest
<1>7. ASSUME NEW i \in DOMAIN pool', pool'[i].kind = "apply"
      PROVE  /\ applied' <= pool'[i].at /\ pool'[i].at <= integrityControl'.at
             /\ Sound(pool'[i])
  BY <1>2, <1>4, <1>7 DEF Versions, Queued
<1>8. \A u : Sound(u)' = Sound(u)
  BY DEF Sound, Says
<1>9. ASSUME NEW i \in DOMAIN pool', NEW j \in DOMAIN pool', i < j,
             pool'[i].kind = "apply", pool'[j].kind = "apply"
      PROVE  pool'[i].at <= pool'[j].at
  <2>1. i + 1 < j + 1
    BY <1>3, <1>9
  <2> QED
    BY <1>2, <1>9, <2>1 DEF Versions, Queued
<1> QED
  BY <1>5, <1>6, <1>7, <1>8, <1>9 DEF Queued

-----------------------------------------------------------------------------
(* The steps that make an update, or move it on.                           *)
LEMMA SameTasks ==
    UNCHANGED <<mTasks, wTasks>> /\ Outgoing' \subseteq Outgoing => Carried
  BY DEF Carried

LEMMA JobsType ==
    TypeOK => /\ pool \in Seq(Job)
              /\ \A i \in DOMAIN pool : pool[i].at \in Nat /\ pool[i].load \in Load
<1>1. TypeOK => pool \in Seq(Job)
  BY DEF TypeOK
<1>2. pool \in Seq(Job) => \A i \in DOMAIN pool : pool[i] \in Job
  OBVIOUS
<1>3. \A j \in Job : j.at \in Nat /\ j.load \in Load
  BY DEF Job
<1> QED
  BY <1>1, <1>2, <1>3

LEMMA EditVersions ==
    ASSUME TypeOK, TypeOK', Versions, EditFile
    PROVE  Versions'
<1>1. /\ Grows
      /\ UNCHANGED <<integrityControl, applied, pool, mTasks, wTasks, toWorker>>
  <2>1. MasterFiles \in FileMap
    BY DEF TypeOK, MasterFiles
  <2>2. PICK f \in Files, c \in FileState :
           hist' = Append(hist, [MasterFiles EXCEPT ![f] = c])
    BY DEF EditFile
  <2>3. [MasterFiles EXCEPT ![f] = c] \in FileMap
    BY <2>1 DEF FileMap
  <2> QED
    BY <2>2, <2>3 DEF EditFile, Grows, workerVars, channels
<1>2. hist \in Seq(FileMap) /\ Len(hist) \in Nat
  BY DEF TypeOK
<1>3. Len(hist') >= Len(hist) /\ \A k \in 1..Len(hist) : hist'[k] = hist[k]
  BY <1>1, <1>2 DEF Grows
<1>4. Scanned'
  <2>1. integrityControl.at \in Nat
    BY DEF TypeOK
  <2>2. integrityControl.at > 0 => integrityControl.at \in 1..Len(hist)
    BY <1>2, <2>1 DEF Versions, Scanned
  <2> QED
    BY <1>1, <1>2, <1>3, <2>1, <2>2 DEF Versions, Scanned
<1>5. \A n \in Nat : Newest(n) => Newest(n)'
  BY <1>1 DEF Newest
<1>6. Queued'
  <2>1. \A i \in DOMAIN pool : pool[i].at \in Nat
    BY JobsType
  <2>2. \A i \in DOMAIN pool : Sound(pool[i]) => Sound(pool[i])'
    BY <1>1, <2>1, SaysMore DEF Sound
  <2> QED
    BY <1>1, <2>2 DEF Versions, Queued
<1>7. Carried
  BY <1>1, SameTasks DEF Outgoing
<1> QED
  BY <1>1, <1>4, <1>5, <1>6, <1>7, Carries

LEMMA FaultsOfSteady ==
    Steady => ~Fault("read") /\ ~Fault("restart") /\ Trusted
  BY DEF Steady, Fault

LEMMA ScanVersions ==
    ASSUME TypeOK, TypeOK', Versions, Steady, FileStatusUpdate
    PROVE  /\ Versions'
           /\ integrityControl'.at = Len(hist)
<1>1. /\ integrityControl' = [at |-> Len(hist), files |-> MasterFiles]
      /\ UNCHANGED <<hist, applied, pool, mTasks, wTasks, toWorker>>
  BY FaultsOfSteady DEF FileStatusUpdate, workerVars, channels
<1>2. Len(hist) \in Nat /\ Len(hist) > 0 /\ integrityControl.at \in Nat /\ applied \in Nat
  BY DEF TypeOK
<1>3. integrityControl'.at = Len(hist) /\ integrityControl'.files = hist[Len(hist)]
  BY <1>1 DEF MasterFiles
<1>4. integrityControl.at <= integrityControl'.at
  BY <1>3 DEF Versions, Scanned
<1>5. Scanned'
  BY <1>1, <1>2, <1>3, <1>4 DEF Versions, Scanned
<1>6. \A n \in Nat : Newest(n) => Newest(n)'
  BY <1>1, <1>2, <1>3, <1>4 DEF Newest, TypeOK
<1>7. Queued'
  <2>1. \A i \in DOMAIN pool : pool[i].at \in Nat
    BY JobsType
  <2>2. \A u : Sound(u)' = Sound(u)
    BY <1>1 DEF Sound, Says
  <2> QED
    BY <1>1, <1>2, <1>3, <1>4, <2>1, <2>2 DEF Versions, Queued
<1>8. Carried
  BY <1>1, SameTasks DEF Outgoing
<1> QED
  BY <1>1, <1>3, <1>5, <1>6, <1>7, <1>8, Carries DEF Grows

(* A step that leaves the scan and the pool alone.                         *)
LEMMA QuietVersions ==
    ASSUME TypeOK, TypeOK', Versions, SameScan, UNCHANGED pool, Carried
    PROVE  Versions'
<1>1. Scanned' /\ Queued' /\ \A n \in Nat : Newest(n) => Newest(n)'
  BY QueueKept
<1> QED
  BY <1>1, Carries DEF Grows, SameScan

LEMMA CompareLists ==
    ASSUME TypeOK, Versions, NEW check \in KoFiles, NEW u, u.at = integrityControl.at,
           u.load = CompareFiles(integrityControl.files, check)
    PROVE  List(u)
<1> DEFINE good == integrityControl.files
<1>1. integrityControl.at \in Nat /\ Len(hist) \in Nat
  BY DEF TypeOK
<1>2. Newest(u.at)
  BY <1>1 DEF Versions, Scanned, Queued, Newest
<1>3. ASSUME NEW f \in Files
      PROVE  \/ u.load[f] = Keep
             \/ u.load[f] = Absent /\ good[f] = Absent
             \/ u.load[f] \in {Missing, Shared} /\ good[f] # Absent
  <2>1. u.load[f] = CASE good[f] = check[f] -> Keep
                      [] good[f] = Absent /\ check[f] # Absent -> Absent
                      [] good[f] # Absent /\ check[f] = Absent -> Missing
                      [] OTHER -> Shared
    BY DEF CompareFiles
  <2> QED
    BY <2>1
<1>4. ASSUME NEW f \in Files, good[f] = Absent
      PROVE  Absent \in Says(f, u.at)
  <2>1. CASE u.at = 0
    BY <2>1 DEF Says
  <2>2. CASE u.at # 0
    <3>1. u.at \in u.at..Len(hist) /\ good = hist[u.at]
      BY <1>1, <2>2 DEF Versions, Scanned
    <3> QED
      BY <1>4, <2>2, <3>1 DEF Says
  <2> QED
    BY <2>1, <2>2
<1>5. ASSUME NEW f \in Files, good[f] # Absent
      PROVE  u.at > 0
  BY <1>1, <1>5 DEF Versions, Scanned, Empty
<1> QED
  BY <1>2, <1>3, <1>4, <1>5 DEF List

(* A file that was listed is sent as it is now, or is gone by now.         *)
LEMMA CompressSends ==
    ASSUME TypeOK, Versions, NEW ko, NEW u, List(ko), u.at = ko.at, ko.at \in Nat,
           NEW packed, NEW gone, gone = {f \in Files : ko.load[f] \in {Missing, Shared}
                                                       /\ MasterFiles[f] = Absent},
           u.load = CompressFiles(ko.load, packed, gone)
    PROVE  Update(u)
<1>1. Len(hist) \in Nat /\ integrityControl.at \in Nat
  BY DEF TypeOK
<1>2. Newest(u.at) /\ u.at <= Len(hist)
  BY <1>1 DEF List, Newest, Versions, Scanned
<1>3. ASSUME NEW f \in Files
      PROVE  u.load[f] = Keep \/ u.load[f] \in Says(f, u.at)
  <2>1. CASE ko.load[f] \notin {Missing, Shared}
    BY <2>1 DEF CompressFiles, List
  <2>2. CASE ko.load[f] \in {Missing, Shared}
    <3>1. u.at > 0
      <4>1. ko.load[f] = Keep \/ ko.load[f] \in Says(f, u.at) \/ u.at > 0
        BY DEF List
      <4>2. ASSUME u.at = 0 PROVE FALSE
        BY <2>2, <4>1, <4>2 DEF Says, Absent, Keep, Missing, Shared
      <4> QED
        BY <4>2
    <3>2. Len(hist) \in u.at..Len(hist)
      BY <1>1, <1>2
    <3>3. MasterFiles[f] \in Says(f, u.at)
      BY <3>1, <3>2 DEF Says, MasterFiles
    <3>4. u.load[f] \in {Keep, MasterFiles[f]}
      BY <2>2 DEF CompressFiles
    <3> QED
      BY <3>3, <3>4
  <2> QED
    BY <2>1, <2>2
<1> QED
  BY <1>2, <1>3 DEF Update, Sound

(* What is left in the connection to the worker, and what is put in it.    *)
LEMMA Sends ==
    ASSUME TypeOK, NEW e \in Message, toWorker' = Append(toWorker, e)
    PROVE  Outgoing' = Outgoing \cup {e}
  BY MessagesType, Put DEF Outgoing

LEMMA Removes ==
    ASSUME TypeOK, NEW i \in DOMAIN toWorker, toWorker' = RemoveAt(toWorker, i)
    PROVE  Outgoing' \subseteq Outgoing
  BY MessagesType, Taken DEF Outgoing

LEMMA AnswersOnly ==
    ASSUME TypeOK, NEW m \in Message, NEW cmd \in Responses, NEW task \in TaskIds \cup {None},
           toWorker' = Answer(toWorker, m, cmd, task)
    PROVE  \A x \in Outgoing' : x.cmd = "syn_m_c_e" => x \in Outgoing
<1> DEFINE e == Msg(cmd, m.proc, task, Nothing, 0)
<1>1. CASE m.proc = None
  BY <1>1 DEF Answer, Outgoing
<1>2. CASE m.proc # None
  <2>1. m.proc \in TaskIds \cup {Loop, None}
    BY DEF Message
  <2>2. e \in Message /\ e.cmd \in Responses
    BY <2>1, MsgType, NothingType DEF Msg
  <2>3. toWorker' = Append(toWorker, e)
    BY <1>2 DEF Answer
  <2> HIDE DEF e
  <2> QED
    BY <2>2, <2>3, Sends DEF Responses
<1> QED
  BY <1>1, <1>2

LEMMA CompareVersions ==
    ASSUME TypeOK, TypeOK', Versions, NEW t \in TaskIds, Compare(t)
    PROVE  Versions'
<1>1. SameScan /\ UNCHANGED <<pool, wTasks>>
  BY DEF Compare, SameScan, workerVars
<1>2. PICK ko : ko = CompareFiles(integrityControl.files, mTasks[t].load)
  OBVIOUS
<1>3. CASE mTasks' = [mTasks EXCEPT ![t] = TaskAt("ok")]
           /\ toWorker' = Append(toWorker, Request("syn_m_c_ok", t))
  <2>1. PICK e \in Message : e = Request("syn_m_c_ok", t)
    BY RequestType DEF Requests
  <2>2. e.cmd = "syn_m_c_ok"
    BY <2>1 DEF Request, Msg
  <2>3. Outgoing' = Outgoing \cup {e}
    BY <1>3, <2>1, Sends
  <2>4. MasterTaskIs(t, "ok")
    BY <1>3, OneTaskAt
  <2>5. Carried
    BY <1>1, <2>2, <2>3, <2>4 DEF Carried, MasterTaskIs
  <2> QED
    BY <1>1, <2>5, QuietVersions
<1>4. CASE /\ mTasks' = [mTasks EXCEPT ![t] =
                  [pc |-> "compress", load |-> ko, at |-> integrityControl.at]]
           /\ UNCHANGED toWorker
  <2>1. PICK r : r = [pc |-> "compress", load |-> ko, at |-> integrityControl.at]
    OBVIOUS
  <2>2. mTasks[t].load \in KoFiles
    BY DEF TypeOK
  <2>3. List(r)
    BY <1>2, <2>1, <2>2, CompareLists
  <2>4. MasterTaskIs(t, "compress") /\ mTasks'[t] = r
    BY <1>4, <2>1, OneTask
  <2>5. Carried
    BY <1>1, <1>4, <2>1, <2>3, <2>4 DEF Carried, MasterTaskIs, Outgoing
  <2> QED
    BY <1>1, <2>5, QuietVersions
<1> QED
  BY <1>2, <1>3, <1>4 DEF Compare

LEMMA CompressVersions ==
    ASSUME TypeOK, TypeOK', Versions, Steady, NEW t \in TaskIds, Compress(t)
    PROVE  Versions'
<1>1. SameScan /\ UNCHANGED <<pool, wTasks>> /\ mTasks[t].pc = "compress"
  BY DEF Compress, SameScan, workerVars
<1>2. PICK ko : ko = mTasks[t]
  OBVIOUS
<1>3. PICK gone : gone = {f \in Files : ko.load[f] \in {Missing, Shared} /\ MasterFiles[f] = Absent}
  OBVIOUS
<1>4. PICK packed : mTasks' = [mTasks EXCEPT ![t] =
          [pc |-> "cmd", load |-> CompressFiles(ko.load, packed, gone), at |-> ko.at]]
  <2>1. gone = {f \in {g \in Files : ko.load[g] \in {Missing, Shared}} : MasterFiles[f] = Absent}
    BY <1>3
  <2> QED
    BY <1>2, <2>1, FaultsOfSteady DEF Compress
<1>5. PICK r : r = [pc |-> "cmd", load |-> CompressFiles(ko.load, packed, gone), at |-> ko.at]
  OBVIOUS
<1>6. Update(r)
  <2>1. List(ko)
    BY <1>1, <1>2 DEF Versions, Underway
  <2>2. ko.at \in Nat
    BY <1>2 DEF TypeOK
  <2> QED
    BY <1>3, <1>5, <2>1, <2>2, CompressSends
<1>7. MasterTaskIs(t, "cmd") /\ mTasks'[t] = r
  BY <1>4, <1>5, OneTask
<1>8. PICK e \in Message : e = Request("syn_m_c", t)
  BY RequestType DEF Requests
<1>9. e.cmd = "syn_m_c"
  BY <1>8 DEF Request, Msg
<1>10. Outgoing' = Outgoing \cup {e}
  BY <1>8, Sends DEF Compress
<1>11. Carried
  BY <1>1, <1>5, <1>6, <1>7, <1>9, <1>10 DEF Carried, MasterTaskIs
<1> QED
  BY <1>1, <1>11, QuietVersions

LEMMA MasterAnsweredVersions ==
    ASSUME TypeOK, TypeOK', Versions, NEW t \in TaskIds, MasterTaskAnswered(t)
    PROVE  Versions'
<1>1. SameScan /\ UNCHANGED <<pool, wTasks>>
  BY DEF MasterTaskAnswered, SameScan, workerVars
<1>2. CASE MasterTaskDone(t) /\ UNCHANGED toWorker
  <2>1. MasterTaskIs(t, "none")
    BY <1>2, OneTaskAt DEF MasterTaskDone
  <2>2. Carried
    BY <1>1, <1>2, <2>1 DEF Carried, MasterTaskIs, Outgoing
  <2> QED
    BY <1>1, <2>2, QuietVersions
<1>3. ASSUME NEW task \in TaskIds \cup {None}, mTasks[t].pc = "cmd",
             mTasks' = [mTasks EXCEPT ![t] = TaskAt("end")],
             toWorker' = Append(toWorker,
                            Msg("syn_m_c_e", t, task, mTasks[t].load, mTasks[t].at))
      PROVE  Versions'
  <2>1. mTasks[t].at \in Nat /\ mTasks[t].load \in Load
    BY <1>3 DEF TypeOK
  <2>2. PICK e \in Message : e = Msg("syn_m_c_e", t, task, mTasks[t].load, mTasks[t].at)
    BY <2>1, MsgType DEF Requests
  <2>3. e.at = mTasks[t].at /\ e.load = mTasks[t].load
    BY <2>2 DEF Msg
  <2>4. Update(e)
    BY <1>3, <2>3 DEF Versions, Underway, Update, Sound
  <2>5. Outgoing' = Outgoing \cup {e}
    BY <1>3, <2>2, Sends
  <2>6. MasterTaskIs(t, "end")
    BY <1>3, OneTaskAt
  <2>7. Carried
    BY <1>1, <2>4, <2>5, <2>6 DEF Carried, MasterTaskIs
  <2> QED
    BY <1>1, <2>7, QuietVersions
<1>4. \A i \in DOMAIN toMaster : toMaster[i].task \in TaskIds \cup {None}
  BY MessagesType, ReceivedType
<1> QED
  BY <1>2, <1>3, <1>4 DEF MasterTaskAnswered

LEMMA ReceivesVersions ==
    ASSUME TypeOK, TypeOK', Versions, EndReceivingIntegrity
    PROVE  Versions'
<1>1. SameScan /\ UNCHANGED <<pool, mTasks>>
  BY DEF EndReceivingIntegrity, SameScan, masterVars
<1>2. PICK i \in DOMAIN toWorker :
         /\ toWorker[i].cmd = "syn_m_c_e"
         /\ toWorker' = RemoveAt(toWorker, i)
         /\ \/ UNCHANGED wTasks
            \/ /\ toWorker[i].task # None
               /\ wTasks' = [wTasks EXCEPT ![toWorker[i].task] =
                     [pc |-> "ready", load |-> toWorker[i].load, at |-> toWorker[i].at]]
  BY DEF EndReceivingIntegrity
<1>3. Outgoing' \subseteq Outgoing
  BY <1>2, Removes
<1>4. PICK m \in Message : m = toWorker[i] /\ m \in Outgoing
  BY MessagesType DEF Outgoing, ToSet
<1>5. Update(m)
  BY <1>2, <1>4 DEF Versions, Underway
<1>6. CASE UNCHANGED wTasks
  <2>1. Carried
    BY <1>1, <1>3, <1>6, SameTasks
  <2> QED
    BY <1>1, <2>1, QuietVersions
<1>7. CASE m.task # None /\ wTasks' = [wTasks EXCEPT ![m.task] =
                                 [pc |-> "ready", load |-> m.load, at |-> m.at]]
  <2>1. PICK w \in TaskIds : w = m.task
    BY <1>7 DEF Message
  <2>2. PICK r : r = [pc |-> "ready", load |-> m.load, at |-> m.at]
    OBVIOUS
  <2>3. WorkerTaskIs(w, "ready") /\ wTasks'[w] = r
    BY <1>7, <2>1, <2>2, OneTask
  <2>4. Update(r)
    BY <1>5, <2>2 DEF Update, Sound
  <2>5. Carried
    BY <1>1, <1>3, <2>3, <2>4 DEF Carried, WorkerTaskIs
  <2> QED
    BY <1>1, <2>5, QuietVersions
<1> QED
  BY <1>2, <1>4, <1>6, <1>7

(* When the worker queues an update, no other one is on its way.           *)
LEMMA NothingElse ==
    ASSUME TypeOK, Rounds, NEW w \in TaskIds, wTasks[w].pc = "ready"
    PROVE  /\ \A t \in TaskIds : mTasks[t].pc \notin {"compress", "cmd"}
           /\ \A m \in Outgoing : m.cmd # "syn_m_c_e"
           /\ \A t \in TaskIds : wTasks[t].pc = "ready" => t = w
<1>1. w \in Receiving
  BY DEF Receiving
<1>2. \A t \in TaskIds : mTasks[t].pc # "compress"
  BY <1>1 DEF Rounds, Quiet, Comparing
<1>3. \A t \in Syncing : mTasks[t].pc # "cmd" /\ Replied(t)
  BY DEF Rounds, Served
<1>4. \A t \in TaskIds : mTasks[t].pc # "cmd"
  BY <1>3 DEF Syncing
<1>5. ASSUME NEW m \in Outgoing, m.cmd = "syn_m_c_e" PROVE FALSE
  <2>1. m \in Message /\ m.cmd \in Requests
    BY <1>5, MessagesType DEF Requests
  <2>2. Syncing = {m.proc} /\ ~Replied(m.proc)
    BY <2>1, RequestOfMaster
  <2> QED
    BY <1>3, <2>2
<1>6. \A t \in TaskIds : wTasks[t].pc = "ready" => t = w
  BY <1>1 DEF Rounds, SyncsDoNotOverlap, Receiving
<1> QED
  BY <1>2, <1>4, <1>5, <1>6

LEMMA ProcessVersions ==
    ASSUME TypeOK, TypeOK', Rounds, Versions, NEW w \in TaskIds, ProcessFiles(w)
    PROVE  Versions'
<1>1. SameScan /\ UNCHANGED <<mTasks, toWorker>> /\ wTasks[w].pc = "ready"
  BY DEF ProcessFiles, SameScan, masterVars, channels
<1>2. Outgoing' = Outgoing
  BY <1>1 DEF Outgoing
<1>3. CASE WorkerTaskDone(w) /\ UNCHANGED pool
  <2>1. WorkerTaskIs(w, "none")
    BY <1>3, OneTaskAt DEF WorkerTaskDone
  <2>2. Carried
    BY <1>1, <1>2, <2>1 DEF Carried, WorkerTaskIs
  <2> QED
    BY <1>1, <1>3, <2>2, QuietVersions
<1>4. CASE /\ pool' = Append(pool, [kind |-> "apply", task |-> w,
                    load |-> wTasks[w].load, at |-> wTasks[w].at])
           /\ wTasks' = [wTasks EXCEPT ![w] = TaskAt("apply")]
  <2>1. PICK job : job = [kind |-> "apply", task |-> w,
                          load |-> wTasks[w].load, at |-> wTasks[w].at]
    OBVIOUS
  <2>2. Update(job) /\ job.at \in Nat
    BY <1>1, <2>1 DEF Versions, Underway, Update, Sound, TypeOK
  <2>3. WorkerTaskIs(w, "apply")
    BY <1>4, OneTaskAt
  <2>4. /\ pool \in Seq(Job) /\ Len(pool) \in Nat
        /\ Len(pool') = Len(pool) + 1 /\ pool'[Len(pool')] = job
        /\ \A i \in 1..Len(pool) : pool'[i] = pool[i]
    BY <1>4, <2>1 DEF TypeOK
  <2>5. /\ DOMAIN pool' = DOMAIN pool \cup {Len(pool')} /\ Len(pool') \notin DOMAIN pool
        /\ \A i \in DOMAIN pool : i \in Nat /\ pool'[i] = pool[i] /\ i < Len(pool')
    <3>1. pool' \in Seq(Job)
      BY DEF TypeOK
    <3>2. DOMAIN pool = 1..Len(pool) /\ DOMAIN pool' = 1..Len(pool')
      BY <2>4, <3>1
    <3> QED
      BY <2>4, <3>2
  <2>6. \A u : Sound(u)' = Sound(u)
    BY <1>1 DEF Sound, Says, SameScan
  <2>7. Scanned'
    BY <1>1 DEF Versions, Scanned, SameScan
  <2>8. \A i \in DOMAIN pool : pool[i].kind = "apply" => pool[i].at <= job.at
    BY <2>2 DEF Update, Newest
  <2>9. Queued'
    <3>1. ASSUME NEW i \in DOMAIN pool', pool'[i].kind = "apply"
          PROVE  /\ applied' <= pool'[i].at /\ pool'[i].at <= integrityControl'.at
                 /\ Sound(pool'[i])
      <4>1. CASE i \in DOMAIN pool
        BY <1>1, <2>5, <3>1, <4>1 DEF Versions, Queued, SameScan
      <4>2. CASE i = Len(pool')
        BY <1>1, <2>2, <2>4, <4>2 DEF Update, Newest, SameScan
      <4> QED
        BY <2>5, <4>1, <4>2
    <3>2. ASSUME NEW i \in DOMAIN pool', NEW j \in DOMAIN pool', i < j,
                 pool'[i].kind = "apply", pool'[j].kind = "apply"
          PROVE  pool'[i].at <= pool'[j].at
      <4>0. i \in DOMAIN pool
        <5>1. PICK top : top = Len(pool') /\ top \in Nat
          BY <2>4
        <5>2. \A k \in DOMAIN pool' : k = top \/ (k \in DOMAIN pool /\ k \in Nat /\ k < top)
          BY <2>5, <5>1
        <5>3. i # top
          BY <3>2, <5>1, <5>2
        <5> QED
          BY <5>2, <5>3
      <4>1. CASE j \in DOMAIN pool
        BY <2>5, <3>2, <4>0, <4>1 DEF Versions, Queued
      <4>2. CASE j = Len(pool')
        BY <2>4, <2>5, <2>8, <3>2, <4>0, <4>2
      <4> QED
        BY <2>5, <4>1, <4>2
    <3> QED
      BY <2>6, <3>1, <3>2 DEF Queued
  <2>10. Underway'
    BY <1>1, <1>2, <2>3, NothingElse DEF Underway, WorkerTaskIs
  <2> QED
    BY <2>7, <2>9, <2>10 DEF Versions
<1> QED
  BY <1>3, <1>4 DEF ProcessFiles

LEMMA PoolVersions ==
    ASSUME TypeOK, TypeOK', Versions, ApplyFiles \/ DiscardScan
    PROVE  Versions'
<1>1. /\ UNCHANGED <<hist, integrityControl, mTasks, toWorker>>
      /\ pool # <<>> /\ pool' = Tail(pool)
      /\ UNCHANGED applied \/ (applied' = Head(pool).at /\ Head(pool).kind = "apply")
  BY DEF ApplyFiles, DiscardScan, masterVars, channels
<1>2. UNCHANGED wTasks \/ \E w : wTasks' = [wTasks EXCEPT ![w] = NoTask]
  BY DEF ApplyFiles, DiscardScan, WorkerTaskDone
<1>3. \A t \in TaskIds : wTasks'[t].pc = "ready" => wTasks'[t] = wTasks[t]
  BY <1>2 DEF NoTask, TaskAt, TypeOK
<1>4. Carried
  BY <1>1, <1>3 DEF Carried, Outgoing
<1>5. Scanned' /\ Queued' /\ \A n \in Nat : Newest(n) => Newest(n)'
  BY <1>1, JobTaken
<1> QED
  BY <1>1, <1>4, <1>5, Carries DEF Grows

-----------------------------------------------------------------------------
(* The steps that make no update and move none on.                         *)
LEMMA MasterHandlersVersions ==
    ASSUME TypeOK, TypeOK', Versions, MasterHandlers
    PROVE  Versions'
<1>1. SameScan /\ UNCHANGED <<pool, wTasks>>
  <2>1. CASE GetPermission
    BY <2>1, Zenon DEF GetPermission, SameScan, workerVars
  <2>2. CASE SetupSyncIntegrity \/ EndReceivingIntegrityChecksums
    BY <2>2 DEF SetupSyncIntegrity, EndReceivingIntegrityChecksums, SameScan, workerVars
  <2>3. CASE ProcessSyncErrorFromWorker \/ CancelTaskOnMaster
    BY <2>3 DEF ProcessSyncErrorFromWorker, CancelTaskOnMaster, SameScan, workerVars, masterVars
  <2> QED
    BY <2>1, <2>2, <2>3 DEF MasterHandlers
<1>2. \E i \in DOMAIN toMaster, cmd \in Responses, task \in TaskIds \cup {None} :
         toWorker' = Answer(toWorker, toMaster[i], cmd, task)
  <2>0. \A i \in DOMAIN toMaster : toMaster[i].task \in TaskIds \cup {None}
    BY MessagesType, ReceivedType
  <2>1. CASE GetPermission
    <3>1. \E i \in DOMAIN toMaster : \/ toWorker' = Answer(toWorker, toMaster[i], "False", None)
                                     \/ toWorker' = Answer(toWorker, toMaster[i], Permission, None)
                                     \/ toWorker' = Answer(toWorker, toMaster[i], "True", None)
      BY <2>1, Zenon DEF GetPermission
    <3>2. Permission \in Responses /\ "False" \in Responses /\ "True" \in Responses
      BY DEF Permission, Responses
    <3> QED
      BY <3>1, <3>2
  <2>2. CASE SetupSyncIntegrity
    BY <2>2, NewTaskType DEF SetupSyncIntegrity, Responses
  <2>3. CASE EndReceivingIntegrityChecksums
    BY <2>0, <2>3 DEF EndReceivingIntegrityChecksums, Responses
  <2>4. CASE ProcessSyncErrorFromWorker
    BY <2>0, <2>4 DEF ProcessSyncErrorFromWorker, Responses
  <2>5. CASE CancelTaskOnMaster
    BY <2>0, <2>5 DEF CancelTaskOnMaster, Responses
  <2> QED
    BY <2>1, <2>2, <2>3, <2>4, <2>5 DEF MasterHandlers
<1>3. \A x \in Outgoing' : x.cmd = "syn_m_c_e" => x \in Outgoing
  <2>1. \A i \in DOMAIN toMaster : toMaster[i] \in Message
    BY MessagesType
  <2> QED
    BY <1>2, <2>1, AnswersOnly
<1>4. \A t \in TaskIds : mTasks'[t].pc \in {"compress", "cmd"} => mTasks'[t] = mTasks[t]
  <2>0. \A i \in DOMAIN toMaster : toMaster[i].task \in TaskIds \cup {None}
    BY MessagesType, ReceivedType
  <2>1. ASSUME NEW t \in TaskIds, NEW r, mTasks' = [mTasks EXCEPT ![t] = r],
               r.pc \in {"wait", "ready", "failed"}
        PROVE  \A s \in TaskIds : mTasks'[s].pc \in {"compress", "cmd"} => mTasks'[s] = mTasks[s]
    BY <2>1 DEF TypeOK
  <2>2. CASE UNCHANGED mTasks
    BY <2>2
  <2>3. CASE GetPermission
    <3>1. UNCHANGED mTasks
      BY <2>3, Zenon DEF GetPermission
    <3> QED
      BY <2>2, <3>1
  <2>4. CASE CancelTaskOnMaster
    BY <2>2, <2>4 DEF CancelTaskOnMaster, masterVars
  <2>5. CASE SetupSyncIntegrity
    <3>1. PICK r : r = TaskAt("wait")
      OBVIOUS
    <3>2. NewTask \in TaskIds /\ mTasks' = [mTasks EXCEPT ![NewTask] = r]
      BY <2>5, <3>1, NewTaskType DEF SetupSyncIntegrity
    <3> QED
      BY <2>1, <3>1, <3>2 DEF TaskAt
  <2>6. CASE EndReceivingIntegrityChecksums
    <3>1. PICK i \in DOMAIN toMaster :
             \/ UNCHANGED mTasks
             \/ /\ toMaster[i].task # None
                /\ mTasks' = [mTasks EXCEPT ![toMaster[i].task] =
                      [pc |-> "ready", load |-> toMaster[i].load, at |-> 0]]
      BY <2>6 DEF EndReceivingIntegrityChecksums
    <3>2. PICK r : r = [pc |-> "ready", load |-> toMaster[i].load, at |-> 0]
      OBVIOUS
    <3>3. r.pc = "ready"
      BY <3>2
    <3>4. UNCHANGED mTasks \/ \E t \in TaskIds : mTasks' = [mTasks EXCEPT ![t] = r]
      BY <2>0, <3>1, <3>2
    <3> QED
      BY <2>1, <2>2, <3>3, <3>4
  <2>7. CASE ProcessSyncErrorFromWorker
    <3>1. PICK r : r = TaskAt("failed")
      OBVIOUS
    <3>2. UNCHANGED mTasks \/ \E t \in TaskIds : mTasks' = [mTasks EXCEPT ![t] = r]
      BY <2>0, <2>7, <3>1 DEF ProcessSyncErrorFromWorker
    <3> QED
      BY <2>1, <2>2, <3>1, <3>2 DEF TaskAt
  <2> QED
    BY <2>3, <2>4, <2>5, <2>6, <2>7 DEF MasterHandlers
<1>5. Carried
  BY <1>1, <1>3, <1>4 DEF Carried
<1> QED
  BY <1>1, <1>5, QuietVersions

LEMMA MasterEndsVersions ==
    ASSUME TypeOK, TypeOK', Versions, NEW t \in TaskIds, MasterTaskFails(t) \/ MasterFileTimeout(t)
    PROVE  Versions'
<1>1. CASE MasterTaskFails(t)
  <2>1. SameScan /\ UNCHANGED <<pool, wTasks, toWorker>>
        /\ mTasks' = [mTasks EXCEPT ![t] = NoTask]
    BY <1>1 DEF MasterTaskFails, MasterTaskDone, SameScan, workerVars, channels
  <2>2. MasterTaskIs(t, "none")
    BY <2>1, OneTaskAt
  <2>3. Carried
    BY <2>1, <2>2 DEF Carried, MasterTaskIs, Outgoing
  <2> QED
    BY <2>1, <2>3, QuietVersions
<1>2. CASE MasterFileTimeout(t)
  <2>1. PICK e \in Message : e = TaskRequest("cancel_task", t, t)
    BY TaskRequestType DEF Requests
  <2>2. SameScan /\ UNCHANGED <<pool, wTasks>>
        /\ mTasks' = [mTasks EXCEPT ![t] = TaskAt("cancel")]
        /\ toWorker' = Append(toWorker, e)
    BY <1>2, <2>1, Zenon DEF MasterFileTimeout, SameScan, workerVars
  <2>3. e.cmd = "cancel_task" /\ Outgoing' = Outgoing \cup {e}
    BY <2>1, <2>2, Sends DEF TaskRequest, Msg
  <2>4. MasterTaskIs(t, "cancel")
    BY <2>2, OneTaskAt
  <2>5. Carried
    BY <2>2, <2>3, <2>4 DEF Carried, MasterTaskIs
  <2> QED
    BY <2>2, <2>5, QuietVersions
<1> QED
  BY <1>1, <1>2

LEMMA LoopVersions ==
    ASSUME TypeOK, TypeOK', Versions, WorkerLoop \/ LoopFails
    PROVE  Versions'
<1>1. UNCHANGED <<hist, integrityControl, applied, mTasks, wTasks>>
  BY DEF WorkerLoop, LoopFails, RequestPermission, CollectStatus, SendStatus, LoopAnswered, masterVars
<1>2. Carried
  <2>1. UNCHANGED toWorker \/ \E i \in DOMAIN toWorker : toWorker' = RemoveAt(toWorker, i)
    BY DEF WorkerLoop, LoopFails, RequestPermission, CollectStatus, SendStatus, LoopAnswered, channels
  <2>2. Outgoing' \subseteq Outgoing
    BY <2>1, Removes DEF Outgoing
  <2> QED
    BY <1>1, <2>2, SameTasks
<1>3. \/ UNCHANGED pool
      \/ pool' = Append(pool, ScanJob)
      \/ pool # <<>> /\ pool' = Tail(pool)
  BY DEF WorkerLoop, LoopFails, RequestPermission, CollectStatus, SendStatus, LoopAnswered
<1>4. Scanned' /\ Queued' /\ \A n \in Nat : Newest(n) => Newest(n)'
  BY <1>1, <1>3, QueueKept, ScanQueued, JobTaken DEF SameScan
<1> QED
  BY <1>1, <1>2, <1>4, Carries DEF Grows

LEMMA WorkerOpensVersions ==
    ASSUME TypeOK, TypeOK', Versions, AnswerOnWorker \/ SetupReceiveFilesFromMaster
    PROVE  Versions'
<1>1. SameScan /\ UNCHANGED <<pool, mTasks>>
  BY DEF AnswerOnWorker, SetupReceiveFilesFromMaster, SameScan, masterVars, workerVars
<1>2. \E i \in DOMAIN toWorker : toWorker' = RemoveAt(toWorker, i)
  BY DEF AnswerOnWorker, SetupReceiveFilesFromMaster
<1>3. \A t \in TaskIds : wTasks'[t].pc = "ready" => wTasks'[t] = wTasks[t]
  <2>1. UNCHANGED wTasks \/ wTasks' = [wTasks EXCEPT ![NewTask] = TaskAt("wait")]
    BY DEF AnswerOnWorker, SetupReceiveFilesFromMaster, workerVars
  <2> QED
    BY <2>1 DEF TypeOK, TaskAt
<1>4. Carried
  BY <1>1, <1>2, <1>3, Removes DEF Carried
<1> QED
  BY <1>1, <1>4, QuietVersions

LEMMA WorkerEndsVersions ==
    ASSUME TypeOK, TypeOK', Versions, NEW t \in TaskIds,
           \/ ReportFailure(t) \/ WorkerTaskAnswered(t)
           \/ WorkerFileTimeout(t) \/ WorkerRequestTimeout(t)
    PROVE  Versions'
<1>1. /\ SameScan /\ UNCHANGED <<pool, mTasks>>
      /\ UNCHANGED toWorker \/ \E i \in DOMAIN toWorker : toWorker' = RemoveAt(toWorker, i)
      /\ \E pc \in {"none", "err", "cancel"} : wTasks' = [wTasks EXCEPT ![t] = TaskAt(pc)]
  <2>1. CASE ReportFailure(t)
    BY <2>1 DEF ReportFailure, SameScan, masterVars
  <2>2. CASE WorkerTaskAnswered(t)
    BY <2>2 DEF WorkerTaskAnswered, WorkerTaskDone, NoTask, SameScan, masterVars
  <2>3. CASE WorkerFileTimeout(t)
    <3>1. /\ wTasks' = [wTasks EXCEPT ![t] = TaskAt("cancel")]
          /\ UNCHANGED <<masterVars, pool, applied, toWorker>>
      BY <2>3, Zenon DEF WorkerFileTimeout
    <3> QED
      BY <3>1 DEF SameScan, masterVars
  <2>4. CASE WorkerRequestTimeout(t)
    <3>1. /\ WorkerTaskDone(t)
          /\ UNCHANGED <<masterVars, pool, applied>>
          /\ UNCHANGED toWorker \/ \E i \in DOMAIN toWorker : toWorker' = RemoveAt(toWorker, i)
      BY <2>4, Zenon DEF WorkerRequestTimeout
    <3> QED
      BY <3>1 DEF SameScan, masterVars, WorkerTaskDone, NoTask
  <2> QED
    BY <2>1, <2>2, <2>3, <2>4
<1>2. Outgoing' \subseteq Outgoing
  BY <1>1, Removes DEF Outgoing
<1>3. \A s \in TaskIds : wTasks'[s].pc = "ready" => wTasks'[s] = wTasks[s]
  BY <1>1 DEF TypeOK, TaskAt
<1>4. Carried
  BY <1>1, <1>2, <1>3 DEF Carried
<1> QED
  BY <1>1, <1>4, QuietVersions

LEMMA ReadTogetherVersions ==
    ASSUME TypeOK, TypeOK', Versions, ReadTogether
    PROVE  Versions'
<1>1. SameScan /\ UNCHANGED <<pool, mTasks, wTasks>>
  BY DEF ReadTogether, SameScan, masterVars, workerVars
<1>2. \A m \in Outgoing' : m.cmd = "syn_m_c_e" => m \in Outgoing
  <2>1. CASE UNCHANGED toWorker
    BY <2>1 DEF Outgoing
  <2>2. ASSUME NEW i \in DOMAIN toWorker, NEW j \in DOMAIN toWorker,
               Overtakes(toWorker, i, j), toWorker' = Overtaken(toWorker, i, j)
        PROVE  \A m \in Outgoing' : m.cmd = "syn_m_c_e" => m \in Outgoing
    <3>1. PICK e \in Message : /\ e = [toWorker[i] EXCEPT !.late = TRUE]
                               /\ \A m \in Outgoing' : m \in Outgoing \/ m = e
      <4>1. toWorker[i] \in Message
        BY MessagesType
      <4>2. [toWorker[i] EXCEPT !.late = TRUE] \in Message
        BY <4>1 DEF Message
      <4> QED
        BY <2>2, <4>2, MessagesType, Moved DEF Outgoing
    <3>2. e.cmd \in Responses
      BY <2>2, <3>1, MessagesType DEF Overtakes, Message
    <3> QED
      BY <3>1, <3>2 DEF Responses
  <2> QED
    BY <2>1, <2>2 DEF ReadTogether
<1>3. Carried
  BY <1>1, <1>2 DEF Carried
<1> QED
  BY <1>1, <1>3, QuietVersions

LEMMA ReconnectVersions ==
    ASSUME TypeOK, TypeOK', Versions, Reconnect \/ UNCHANGED vars
    PROVE  Versions'
<1>1. SameScan /\ UNCHANGED <<pool, mTasks, wTasks, toWorker>>
  BY DEF Reconnect, vars, masterVars, workerVars, channels, SameScan
<1>2. Carried
  BY <1>1, SameTasks DEF Outgoing
<1> QED
  BY <1>1, <1>2, QuietVersions

LEMMA ConnectionLostVersions ==
    ASSUME TypeOK, TypeOK', Versions, ConnectionLost
    PROVE  Versions'
<1>1. /\ UNCHANGED <<hist, integrityControl, applied>>
      /\ toWorker' = <<>>
      /\ mTasks' = [t \in TaskIds |-> NoTask] /\ wTasks' = [t \in TaskIds |-> NoTask]
  BY DEF ConnectionLost, Disconnect
<1>2. PICK n \in 0..Len(pool) : pool' = Orphans(n)
  BY DEF ConnectionLost
<1>3. /\ DOMAIN pool' \subseteq DOMAIN pool
      /\ \A i \in DOMAIN pool' : /\ pool'[i].kind = pool[i].kind
                                 /\ pool'[i].at = pool[i].at
                                 /\ pool'[i].load = pool[i].load
  <2>1. pool \in Seq(Job) /\ Len(pool) \in Nat /\ DOMAIN pool = 1..Len(pool)
    BY JobsType
  <2>2. DOMAIN pool' = 1..n /\ \A i \in 1..n : pool'[i] = [pool[i] EXCEPT !.task = None]
    BY <1>2 DEF Orphans
  <2>3. \A i \in DOMAIN pool : pool[i] \in Job
    BY <2>1
  <2>4. 1..n \subseteq DOMAIN pool
    BY <2>1
  <2> QED
    BY <2>2, <2>3, <2>4 DEF Job
<1>4. Scanned'
  BY <1>1 DEF Versions, Scanned
<1>5. \A f, k : Says(f, k)' = Says(f, k)
  BY <1>1 DEF Says
<1>6. Queued'
  <2>1. ASSUME NEW i \in DOMAIN pool', Sound(pool[i])
        PROVE  Sound(pool[i])'
    <3>1. PICK u : u = pool[i]
      OBVIOUS
    <3>2. PICK v : v = pool'[i]
      OBVIOUS
    <3>3. v.load = u.load /\ v.at = u.at
      BY <1>3, <3>1, <3>2
    <3>4. Sound(v)'
      BY <1>5, <2>1, <3>1, <3>3 DEF Sound
    <3> QED
      BY <3>2, <3>4
  <2> QED
    BY <1>1, <1>3, <2>1 DEF Versions, Queued
<1>7. Underway'
  BY <1>1 DEF Underway, Outgoing, ToSet, NoTask, TaskAt
<1> QED
  BY <1>4, <1>6, <1>7 DEF Versions

-----------------------------------------------------------------------------
(***************************************************************************)
(* The worker's files are a replica.                                       *)
(***************************************************************************)
LEMMA NextVersions ==
    ASSUME Steady, TypeOK, TypeOK', Rounds, Versions, [Next]_vars
    PROVE  Versions'
<1>0. Trusted /\ ~MasterRestart /\ ~WorkerRestart
  BY FaultsOfSteady DEF MasterRestart, WorkerRestart
<1>1. CASE EditFile \/ FileStatusUpdate
  BY <1>1, EditVersions, ScanVersions
<1>2. CASE MasterHandlers
  BY <1>2, MasterHandlersVersions
<1>3. CASE \E t \in TaskIds : MasterTask(t) \/ MasterFileTimeout(t)
  BY <1>3, CompareVersions, CompressVersions, MasterAnsweredVersions, MasterEndsVersions
  DEF MasterTask
<1>4. CASE WorkerLoop \/ LoopFails
  BY <1>4, LoopVersions
<1>5. CASE WorkerHandlers
  BY <1>5, WorkerOpensVersions, ReceivesVersions, NoErrorFromMaster DEF WorkerHandlers
<1>6. CASE \E t \in TaskIds : WorkerTask(t) \/ WorkerFileTimeout(t) \/ WorkerRequestTimeout(t)
  BY <1>6, ProcessVersions, WorkerEndsVersions DEF WorkerTask
<1>7. CASE ReadTogether
  BY <1>7, ReadTogetherVersions
<1>8. CASE ApplyFiles \/ DiscardScan
  BY <1>8, PoolVersions
<1>9. CASE ConnectionLost
  BY <1>9, ConnectionLostVersions
<1>10. CASE Reconnect \/ UNCHANGED vars
  BY <1>10, ReconnectVersions
<1> QED
  BY <1>0, <1>1, <1>2, <1>3, <1>4, <1>5, <1>6, <1>7, <1>8, <1>9, <1>10, NoTimeouts
  DEF Next, Timeouts

(* Installing an update: every file stays, or becomes what the update says. *)
LEMMA ApplyInstalls ==
    ASSUME TypeOK, Versions, ApplyFiles
    PROVE  Replica!Next
<1>1. UNCHANGED <<hist, integrityControl>>
  BY DEF ApplyFiles, masterVars
<1>2. PICK job : /\ job = Head(pool) /\ job \in Job /\ job.kind = "apply"
                 /\ applied' = job.at
                 /\ \E skipped : workerFiles' = Updated(job.load, skipped)
                 /\ applied <= job.at /\ job.at <= integrityControl.at /\ Sound(job)
  <2>1. pool # <<>> /\ pool \in Seq(Job)
    BY JobsType DEF ApplyFiles
  <2>2. 1 \in DOMAIN pool /\ Head(pool) = pool[1] /\ pool[1] \in Job
    BY <2>1
  <2>3. \E skipped : workerFiles' = Updated(Head(pool).load, skipped)
    BY DEF ApplyFiles
  <2> QED
    BY <2>2, <2>3 DEF ApplyFiles, Versions, Queued
<1>3. /\ DOMAIN workerFiles' = Files
      /\ \A f \in Files : workerFiles'[f] \in {workerFiles[f]} \cup Says(f, job.at)
  <2>1. PICK skipped : workerFiles' = Updated(job.load, skipped)
    BY <1>2
  <2> QED
    BY <1>2, <2>1 DEF Updated, Sound
<1>4. job.at \in Nat /\ applied \in Nat /\ integrityControl.at \in Nat
  BY <1>2 DEF Job, TypeOK
<1>5. CASE job.at > 0
  <2>1. \A f \in Files : workerFiles'[f] \in Replica!Installable(f, job.at)
    BY <1>3, <1>4, <1>5 DEF Says, Replica!Installable
  <2>2. job.at \in applied..integrityControl.at
    BY <1>2, <1>4
  <2>3. Replica!Install
    BY <1>1, <1>2, <1>3, <1>5, <2>1, <2>2 DEF Replica!Install
  <2> QED
    BY <2>3 DEF Replica!Next
<1>6. CASE job.at = 0
  <2>1. applied = 0 /\ applied' = 0
    BY <1>2, <1>4, <1>6
  <2>2. \A f \in Files : workerFiles'[f] \in Replica!Installable(f, 1) \cup {Absent}
    BY <1>3, <1>6 DEF Says, Replica!Installable
  <2>3. Replica!Lose
    BY <1>1, <1>3, <2>1, <2>2 DEF Replica!Lose
  <2> QED
    BY <2>3 DEF Replica!Next
<1> QED
  BY <1>4, <1>5, <1>6

LEMMA NextReplica ==
    ASSUME Steady, TypeOK, TypeOK', Rounds, Versions, [Next]_vars
    PROVE  [Replica!Next]_(Replica!vars)
<1>0. Trusted /\ ~MasterRestart /\ ~WorkerRestart
  BY FaultsOfSteady DEF MasterRestart, WorkerRestart
<1>1. CASE EditFile
  <2>1. PICK f \in Files, c \in FileState :
           hist' = Append(hist, [MasterFiles EXCEPT ![f] = c])
    BY <1>1 DEF EditFile
  <2>2. MasterFiles \in Replica!FileMap
    BY DEF TypeOK, MasterFiles, FileMap, Replica!FileMap
  <2>3. [MasterFiles EXCEPT ![f] = c] \in Replica!FileMap
    BY <2>2 DEF Replica!FileMap
  <2>4. Replica!Edit
    BY <1>1, <2>1, <2>3 DEF EditFile, Replica!Edit, workerVars
  <2> QED
    BY <2>4 DEF Replica!Next
<1>2. CASE FileStatusUpdate
  <2>1. integrityControl'.at = Len(hist) /\ UNCHANGED <<hist, workerFiles, applied>>
    BY <1>2, ScanVersions DEF FileStatusUpdate, workerVars
  <2>2. Replica!Publish
    BY <2>1 DEF Replica!Publish
  <2> QED
    BY <2>2 DEF Replica!Next
<1>3. CASE ApplyFiles
  BY <1>3, ApplyInstalls
<1>4. CASE UNCHANGED <<hist, integrityControl, workerFiles, applied>>
  BY <1>4 DEF Replica!vars
<1>5. \/ EditFile \/ FileStatusUpdate \/ ApplyFiles
      \/ UNCHANGED <<hist, integrityControl, workerFiles, applied>>
  <2>1. MasterHandlers => UNCHANGED <<hist, integrityControl, workerFiles, applied>>
    <3>1. GetPermission => UNCHANGED <<hist, integrityControl, workerFiles, applied>>
      BY Zenon DEF GetPermission, workerVars
    <3> QED
      BY <3>1 DEF MasterHandlers, SetupSyncIntegrity, EndReceivingIntegrityChecksums,
         ProcessSyncErrorFromWorker, CancelTaskOnMaster, workerVars, masterVars
  <2>2. ASSUME NEW t \in TaskIds
        PROVE  /\ MasterTask(t) \/ WorkerTask(t) =>
                     UNCHANGED <<hist, integrityControl, workerFiles, applied>>
               /\ MasterFileTimeout(t) \/ WorkerFileTimeout(t) \/ WorkerRequestTimeout(t) =>
                     UNCHANGED <<hist, integrityControl, workerFiles, applied>>
    <3>1. MasterTask(t) => UNCHANGED <<hist, integrityControl, workerFiles, applied>>
      BY DEF MasterTask, Compare, Compress, MasterTaskAnswered, MasterTaskFails, workerVars
    <3>2. WorkerTask(t) => UNCHANGED <<hist, integrityControl, workerFiles, applied>>
      BY DEF WorkerTask, ProcessFiles, ReportFailure, WorkerTaskAnswered, masterVars
    <3>3. MasterFileTimeout(t) => UNCHANGED <<hist, integrityControl, workerFiles, applied>>
      BY Zenon DEF MasterFileTimeout, workerVars
    <3>4. WorkerFileTimeout(t) => UNCHANGED <<hist, integrityControl, workerFiles, applied>>
      BY Zenon DEF WorkerFileTimeout, masterVars
    <3>5. WorkerRequestTimeout(t) => UNCHANGED <<hist, integrityControl, workerFiles, applied>>
      BY Zenon DEF WorkerRequestTimeout, masterVars
    <3> QED
      BY <3>1, <3>2, <3>3, <3>4, <3>5
  <2>3. WorkerLoop \/ LoopFails => UNCHANGED <<hist, integrityControl, workerFiles, applied>>
    BY DEF WorkerLoop, LoopFails, RequestPermission, CollectStatus, SendStatus, LoopAnswered, masterVars
  <2>4. WorkerHandlers => UNCHANGED <<hist, integrityControl, workerFiles, applied>>
    BY DEF WorkerHandlers, AnswerOnWorker, SetupReceiveFilesFromMaster, EndReceivingIntegrity,
       ErrorReceivingIntegrity, masterVars, workerVars
  <2>5. DiscardScan \/ ReadTogether \/ ConnectionLost \/ Reconnect \/ UNCHANGED vars
           => UNCHANGED <<hist, integrityControl, workerFiles, applied>>
    BY DEF DiscardScan, ReadTogether, ConnectionLost, Disconnect, Reconnect, vars, masterVars, workerVars
  <2> QED
    BY <1>0, <2>1, <2>2, <2>3, <2>4, <2>5, NoTimeouts DEF Next, Timeouts
<1> QED
  BY <1>1, <1>2, <1>3, <1>4, <1>5

LEMMA InitVersions == Init => Versions /\ Replica!Init
<1>1. Init => Scanned
  BY DEF Init, Scanned
<1>2. Init => Underway
  BY DEF Init, Underway, Outgoing, ToSet, NoTask, TaskAt
<1>3. Init => Queued
  BY DEF Init, Queued
<1>4. Init => Replica!Init
  BY DEF Init, Replica!Init, FileMap, Replica!FileMap
<1> QED
  BY <1>1, <1>2, <1>3, <1>4 DEF Versions

(* The worker's files are a replica of the master's: whatever is lost with *)
(* connections, fails to be written or arrives too late, an update never   *)
(* takes a file back behind the version that an earlier update was made    *)
(* from, and deletes only what some later version of the master does not   *)
(* have.  The kinds of fault that are left out do break it: a file that    *)
(* cannot be read looks deleted (read), a master that starts again has no  *)
(* scan and a worker may die half-way (restart), and rounds that overlap   *)
(* (the other three) install an older version after a newer one.           *)
THEOREM WorkerIsReplica ==
    ASSUME Faults \cap {"loop timeout", "request timeout", "lock timeout",
                        "read", "restart"} = {}
    PROVE  Spec => ImplementsReplica
<1>1. Steady
  BY Zenon DEF Steady, Trusted, Unreliable
<1>2. Trusted
  BY <1>1 DEF Steady
<1>3. Init => Versions /\ Replica!Init
  BY InitVersions
<1>4. TypeOK /\ TypeOK' /\ Rounds /\ Versions /\ [Next]_vars => Versions'
  BY <1>1, NextVersions
<1>5. TypeOK /\ TypeOK' /\ Rounds /\ Versions /\ [Next]_vars => [Replica!Next]_(Replica!vars)
  BY <1>1, NextReplica
<1> QED
  BY <1>2, <1>3, <1>4, <1>5, TypeCorrect, RoundsHold, PTL
  DEF Spec, ImplementsReplica, Replica!Spec
=============================================================================
