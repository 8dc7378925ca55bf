-------------------------- MODULE ClusterIntegrity --------------------------
(***************************************************************************)
(* File integrity synchronisation between the master node and one worker   *)
(* node of the cluster (framework/bongosec/core/cluster: MasterHandler and *)
(* Master in master.py, WorkerHandler in worker.py, SyncFiles and          *)
(* BongosecCommon in common.py, compare_files / compress_files in          *)
(* cluster.py).                                                            *)
(*                                                                         *)
(* A round: the worker asks for permission (syn_i_w_m_p), collects the     *)
(* state of its files, opens a task on the master (syn_i_w_m) and sends    *)
(* the state (syn_i_w_m_e).  The master compares it with its own last scan *)
(* and answers syn_m_c_ok, or opens a task on the worker (syn_m_c) and     *)
(* sends it the files to write and to delete (syn_m_c_e).  Either side     *)
(* reports an error with the suffix _r.                                    *)
(*                                                                         *)
(* Each side is one asyncio event loop: a handler of a request runs to the *)
(* end in data_received; coroutines interleave at their awaits.  The TCP   *)
(* connection is FIFO in each direction.  Every handler belongs to one     *)
(* connection, so the other workers appear nowhere: they share with this   *)
(* one only the master's scan, which they do not change.                   *)
(***************************************************************************)
EXTENDS Naturals, Sequences, SequencesExt

CONSTANTS
    Files,      \* the paths listed in cluster.json
    Contents,   \* what a file can hold (its BLAKE2b hash stands for it)
    TaskIds,    \* the uuid4 names of the tasks of both sides
    MaxEdits,   \* bound on the changes made to the master's files
    MaxFaults,  \* bound on the faults
    Faults      \* the kinds of fault that may happen

Absent  == "absent"    \* the file is not there; in an update: delete it
Keep    == "keep"      \* in an update: nothing to do for this file
Missing == "missing"   \* classes of compare_files for files to be sent
Shared  == "shared"
None    == "none"      \* no task, nobody waiting
Loop    == "loop"      \* the coroutine WorkerHandler.sync_integrity

FaultKinds == {"loop timeout", "request timeout", "report timeout",
               "file timeout", "lock timeout", "connection", "restart",
               "read", "disk"}

FileState == Contents \cup {Absent}
FileMap   == [Files -> FileState]
Load      == [Files -> FileState \cup {Keep}]
KoFiles   == [Files -> FileState \cup {Keep, Missing, Shared}]
Nothing   == [f \in Files |-> Keep]
Empty     == [f \in Files |-> Absent]

ASSUME ContentsAssumption ==
    /\ Contents \cap {Absent, Keep, Missing, Shared} = {}
    /\ TaskIds \cap {None, Loop} = {}
ASSUME BoundsAssumption ==
    /\ MaxEdits \in Nat
    /\ MaxFaults \in Nat
    /\ Faults \subseteq FaultKinds

Requests  == {"syn_i_w_m_p", "syn_i_w_m", "syn_i_w_m_e", "syn_i_w_m_r",
              "syn_m_c_ok", "syn_m_c", "syn_m_c_e", "syn_m_c_r", "cancel_task"}
Responses == {"ok", "err", "True", "False"}

(* proc is the coroutine that sent the request and waits for the response  *)
(* (the counter in Handler.box); None once it stopped waiting.             *)
Message == [cmd : Requests \cup Responses, proc : TaskIds \cup {Loop, None},
            task : TaskIds \cup {None}, load : Load, at : Nat, late : BOOLEAN]

VARIABLES
    hist,                     \* every state the master's files have had
    integrityControl,         \* Master.integrity_control: last scan, and when
    integrityAlreadyExecuted, \* the worker's name is in that list
    syncIntegrityFree,        \* MasterHandler.sync_integrity_free[0]
    mTasks,                   \* MasterHandler.sync_tasks (integrity checks)
    workerFiles,              \* the worker's files on disk
    checkIntegrityFree,       \* WorkerHandler.check_integrity_free
    loop,                     \* where WorkerHandler.sync_integrity is
    status,                   \* the status of its files that it will send
    wTasks,                   \* WorkerHandler.sync_tasks (integrity syncs)
    pool,                     \* jobs of the worker's one-process task_pool
    toMaster, toWorker,       \* the connection, one FIFO per direction
    connected,
    faults,                   \* number of faults so far
    applied                   \* history: scan behind the last finished update

masterVars == <<hist, integrityControl, integrityAlreadyExecuted,
                syncIntegrityFree, mTasks>>
workerVars == <<workerFiles, checkIntegrityFree, loop, status, wTasks, pool,
                applied>>
channels   == <<toMaster, toWorker>>
vars == <<masterVars, workerVars, channels, connected, faults>>

MasterPC == {"none", "wait", "ready", "failed", "compress", "ok", "cmd", "end",
             "err", "cancel"}
WorkerPC == {"none", "wait", "ready", "failed", "apply", "err", "cancel"}
LoopPC   == {"off", "idle", "permission", "scan", "send", "cmd", "end", "err"}

TaskAt(pc) == [pc |-> pc, load |-> Nothing, at |-> 0]
NoTask == TaskAt("none")
Job    == [kind : {"scan", "apply"}, task : TaskIds \cup {Loop, None},
           load : Load, at : Nat]

ScanJob == [kind |-> "scan", task |-> Loop, load |-> Nothing, at |-> 0]

TypeOK ==
    /\ hist \in Seq(FileMap)
    /\ hist # <<>>
    /\ integrityControl \in [at : Nat, files : FileMap]
    /\ integrityAlreadyExecuted \in BOOLEAN
    /\ syncIntegrityFree \in BOOLEAN
    /\ mTasks \in [TaskIds -> [pc : MasterPC, load : KoFiles, at : Nat]]
    /\ \A t \in TaskIds : mTasks[t].pc # "compress" => mTasks[t].load \in Load
    /\ workerFiles \in FileMap
    /\ checkIntegrityFree \in BOOLEAN
    /\ loop \in LoopPC
    /\ status \in Load
    /\ wTasks \in [TaskIds -> [pc : WorkerPC, load : Load, at : Nat]]
    /\ pool \in Seq(Job)
    /\ toMaster \in Seq(Message)
    /\ toWorker \in Seq(Message)
    /\ connected \in BOOLEAN
    /\ faults \in Nat
    /\ applied \in Nat

-----------------------------------------------------------------------------
(***************************************************************************)
(* The connection.  A request is handled as soon as it is read; a response *)
(* only wakes the coroutine that waits for it, which runs at a later turn  *)
(* of the event loop.  So the requests that are read together with a       *)
(* response overtake it, and it is late; what is sent afterwards does not. *)
(***************************************************************************)
ArrivedInAnyOrder(q, i) == i \in DOMAIN q

Arrived(q, i) == i \in DOMAIN q /\ i = 1

(* The response at i after the request at j.                               *)
Overtaken(q, i, j) ==
    [k \in DOMAIN q |->
        IF k < i \/ k > j THEN q[k]
        ELSE IF k < j THEN q[k + 1] ELSE [q[i] EXCEPT !.late = TRUE]]

Overtakes(q, i, j) ==
    /\ i < j
    /\ q[i].cmd \in Responses
    /\ ~q[i].late
    /\ q[j].cmd \in Requests

ReadTogether ==
    /\ \/ /\ \E i, j \in DOMAIN toMaster :
                /\ Overtakes(toMaster, i, j)
                /\ toMaster' = Overtaken(toMaster, i, j)
          /\ UNCHANGED toWorker
       \/ /\ \E i, j \in DOMAIN toWorker :
                /\ Overtakes(toWorker, i, j)
                /\ toWorker' = Overtaken(toWorker, i, j)
          /\ UNCHANGED toMaster
    /\ UNCHANGED <<masterVars, workerVars, connected, faults>>

Msg(cmd, proc, task, load, at) ==
    [cmd |-> cmd, proc |-> proc, task |-> task, load |-> load, at |-> at,
     late |-> FALSE]
Request(cmd, proc)         == Msg(cmd, proc, None, Nothing, 0)
TaskRequest(cmd, proc, t)  == Msg(cmd, proc, t, Nothing, 0)

(* The response to m, unless nobody waits for it any more: then the late   *)
(* response finds None in Handler.box and is dropped.                      *)
Answer(q, m, cmd, task) ==
    IF m.proc = None THEN q
    ELSE Append(q, Msg(cmd, m.proc, task, Nothing, 0))

(* send_request gives up on the response (error 3020): the request is in   *)
(* the connection all the same and will be handled.                        *)
Fault(kind) ==
    /\ kind \in Faults
    /\ faults < MaxFaults
    /\ faults' = faults + 1

Forgotten(q, i) == [q EXCEPT ![i].proc = None]

(* No request or response in the connection names task t: its peer will    *)
(* not send it a file.                                                     *)
Abandoned(t) ==
    /\ \A i \in DOMAIN toMaster : toMaster[i].task # t
    /\ \A i \in DOMAIN toWorker : toWorker[i].task # t

(* A uuid4 that nothing refers to.                                         *)
Unused(t) ==
    /\ mTasks[t].pc = "none"
    /\ wTasks[t].pc = "none"
    /\ Abandoned(t)
    /\ \A i \in DOMAIN toMaster : toMaster[i].proc # t
    /\ \A i \in DOMAIN toWorker : toWorker[i].proc # t
    /\ \A i \in DOMAIN pool : pool[i].task # t

(* Which one does not matter: a name is only ever compared with names.     *)
NewTask == CHOOSE t \in TaskIds : Unused(t)

-----------------------------------------------------------------------------
(***************************************************************************)
(* The master: its files, its scan of them, and the handlers of requests.  *)
(***************************************************************************)
MasterFiles == hist[Len(hist)]

EditFile ==
    /\ Len(hist) <= MaxEdits
    /\ \E f \in Files, c \in FileState :
          /\ c # MasterFiles[f]
          /\ hist' = Append(hist, [MasterFiles EXCEPT ![f] = c])
    /\ UNCHANGED <<integrityControl, integrityAlreadyExecuted,
                   syncIntegrityFree, mTasks, workerVars, channels, connected,
                   faults>>

(* Master.file_status_update, one iteration.  The scan runs in the process *)
(* pool; what happens between its end and the assignment commutes with it. *)
(* A file that cannot be read is left out of the result by walk_dir.       *)
FileStatusUpdate ==
    /\ \/ /\ integrityControl' = [at |-> Len(hist), files |-> MasterFiles]
          /\ UNCHANGED faults
       \/ /\ Fault("read")
          /\ \E f \in Files : integrityControl' =
                [at |-> Len(hist), files |-> [MasterFiles EXCEPT ![f] = Absent]]
    /\ integrityAlreadyExecuted' = FALSE
    /\ UNCHANGED <<hist, syncIntegrityFree, mTasks, workerVars, channels,
                   connected>>

PermissionUnlocked == "True"

Permission == IF syncIntegrityFree THEN "True" ELSE "False"

(* MasterHandler.get_permission for syn_i_w_m_p: at most one permission is *)
(* considered per iteration of file_status_update.  A flag that has been   *)
(* taken for more than max_locked_integrity_time is released here.         *)
GetPermission ==
    \E i \in DOMAIN toMaster :
       LET m == toMaster[i] IN
       /\ Arrived(toMaster, i)
       /\ m.cmd = "syn_i_w_m_p"
       /\ \/ /\ integrityAlreadyExecuted
             /\ toWorker' = Answer(toWorker, m, "False", None)
             /\ UNCHANGED <<integrityAlreadyExecuted, syncIntegrityFree, faults>>
          \/ /\ ~integrityAlreadyExecuted
             /\ integrityAlreadyExecuted' = TRUE
             /\ toWorker' = Answer(toWorker, m, Permission, None)
             /\ UNCHANGED <<syncIntegrityFree, faults>>
          \/ /\ ~integrityAlreadyExecuted
             /\ ~syncIntegrityFree
             /\ Fault("lock timeout")
             /\ integrityAlreadyExecuted' = TRUE
             /\ syncIntegrityFree' = TRUE
             /\ toWorker' = Answer(toWorker, m, "True", None)
       /\ toMaster' = RemoveAt(toMaster, i)
       /\ UNCHANGED <<hist, integrityControl, mTasks, workerVars, connected>>

(* MasterHandler.setup_sync_integrity for syn_i_w_m: takes the flag and    *)
(* creates a ReceiveIntegrityTask, whose coroutine is integrity_check.     *)
SetupSyncIntegrity ==
    \E i \in DOMAIN toMaster :
       LET m == toMaster[i]
           t == NewTask IN
       /\ Arrived(toMaster, i)
       /\ m.cmd = "syn_i_w_m"
       /\ \E u \in TaskIds : Unused(u)
       /\ syncIntegrityFree' = FALSE
       /\ mTasks' = [mTasks EXCEPT ![t] = TaskAt("wait")]
       /\ toMaster' = RemoveAt(toMaster, i)
       /\ toWorker' = Answer(toWorker, m, "ok", t)
       /\ UNCHANGED <<hist, integrityControl, integrityAlreadyExecuted,
                      workerVars, connected, faults>>

(* MasterHandler.end_receiving_integrity_checksums: hands the file to the  *)
(* task that waits for it; an unknown task is answered with error 3027.    *)
EndReceivingIntegrityChecksums ==
    \E i \in DOMAIN toMaster :
       LET m == toMaster[i] IN
       /\ Arrived(toMaster, i)
       /\ m.cmd = "syn_i_w_m_e"
       /\ \/ /\ m.task = None \/ mTasks[m.task].pc = "none"
             /\ toWorker' = Answer(toWorker, m, "err", None)
             /\ UNCHANGED mTasks
          \/ /\ m.task # None /\ mTasks[m.task].pc # "none"
             /\ toWorker' = Answer(toWorker, m, "ok", m.task)
             /\ IF mTasks[m.task].pc = "wait"
                THEN mTasks' = [mTasks EXCEPT ![m.task] =
                        [pc |-> "ready", load |-> m.load, at |-> 0]]
                ELSE UNCHANGED mTasks
       /\ toMaster' = RemoveAt(toMaster, i)
       /\ UNCHANGED <<hist, integrityControl, integrityAlreadyExecuted,
                      syncIntegrityFree, workerVars, connected, faults>>

(* MasterHandler.process_sync_error_from_worker (syn_i_w_m_r): releases    *)
(* the flag whatever the task, then error_receiving_file wakes the task    *)
(* with the error if it is still waiting for its file.                     *)
ProcessSyncErrorFromWorker ==
    \E i \in DOMAIN toMaster :
       LET m == toMaster[i] IN
       /\ Arrived(toMaster, i)
       /\ m.cmd = "syn_i_w_m_r"
       /\ syncIntegrityFree' = TRUE
       /\ IF m.task # None /\ mTasks[m.task].pc \in {"wait", "ready"}
          THEN mTasks' = [mTasks EXCEPT ![m.task] = TaskAt("failed")]
          ELSE UNCHANGED mTasks
       /\ toMaster' = RemoveAt(toMaster, i)
       /\ toWorker' = Answer(toWorker, m, "ok", m.task)
       /\ UNCHANGED <<hist, integrityControl, integrityAlreadyExecuted,
                      workerVars, connected, faults>>

(* Handler.cancel_task: the sender of the file stops sending it.  The task *)
(* that waited for it is gone by then, so only the answer matters here.    *)
CancelTaskOnMaster ==
    \E i \in DOMAIN toMaster :
       /\ Arrived(toMaster, i)
       /\ toMaster[i].cmd = "cancel_task"
       /\ toMaster' = RemoveAt(toMaster, i)
       /\ toWorker' = Answer(toWorker, toMaster[i], "ok", toMaster[i].task)
       /\ UNCHANGED <<masterVars, workerVars, connected, faults>>

MasterHandlers ==
    \/ GetPermission
    \/ SetupSyncIntegrity
    \/ EndReceivingIntegrityChecksums
    \/ ProcessSyncErrorFromWorker
    \/ CancelTaskOnMaster

-----------------------------------------------------------------------------
(***************************************************************************)
(* The master's tasks: MasterHandler.integrity_check, integrity_sync and   *)
(* SyncFiles.sync with the command syn_m_c.                                *)
(***************************************************************************)

CompareFilesNoExtra(good, check) ==
    [f \in Files |-> CASE good[f] \in {check[f], Absent} -> Keep
                       [] check[f] = Absent -> Missing
                       [] OTHER -> Shared]

(* cluster.compare_files(good_files, check_files).                         *)
CompareFiles(good, check) ==
    [f \in Files |-> CASE good[f] = check[f] -> Keep
                       [] good[f] = Absent /\ check[f] # Absent -> Absent
                       [] good[f] # Absent /\ check[f] = Absent -> Missing
                       [] OTHER -> Shared]

CompressFilesOverLimit(ko, packed, failed) ==
    [f \in Files |->
        IF ko[f] \notin {Missing, Shared} THEN ko[f]
        ELSE IF f \in packed \ failed THEN MasterFiles[f]
        ELSE IF ko[f] = Missing THEN Keep ELSE Absent]

(* cluster.compress_files with update_cluster_control: ko is the result of *)
(* compare_files, packed the files reached before the size limit, failed   *)
(* those of them whose open or read raised.                                *)
CompressFiles(ko, packed, failed) ==
    [f \in Files |->
        IF ko[f] \notin {Missing, Shared} THEN ko[f]
        ELSE IF f \notin packed THEN Keep
        ELSE IF f \notin failed THEN MasterFiles[f]
        ELSE IF ko[f] = Missing THEN Keep ELSE Absent]

Compare(t) ==
    LET ko == CompareFiles(integrityControl.files, mTasks[t].load) IN
    /\ mTasks[t].pc = "ready"
    /\ IF ko = Nothing
       THEN /\ mTasks' = [mTasks EXCEPT ![t] = TaskAt("ok")]
            /\ toWorker' = Append(toWorker, Request("syn_m_c_ok", t))
       ELSE /\ mTasks' = [mTasks EXCEPT ![t] =
                  [pc |-> "compress", load |-> ko, at |-> integrityControl.at]]
            /\ UNCHANGED toWorker
    /\ UNCHANGED <<hist, integrityControl, integrityAlreadyExecuted,
                   syncIntegrityFree, workerVars, toMaster, connected, faults>>

(* Every file fits in the zip on its own; a file left out for its size is  *)
(* preceded by one that was put in.                                        *)
Compress(t) ==
    LET ko     == mTasks[t].load
        listed == {f \in Files : ko[f] \in {Missing, Shared}}
        gone   == {f \in listed : MasterFiles[f] = Absent}
    IN
    /\ mTasks[t].pc = "compress"
    /\ \E packed \in SUBSET listed :
          /\ packed = listed \/ packed \ gone # {}
          /\ \E failed \in {gone} \cup {gone \cup {f} : f \in packed \ gone} :
                /\ IF failed = gone THEN UNCHANGED faults ELSE Fault("read")
                /\ mTasks' = [mTasks EXCEPT ![t] =
                      [pc |-> "cmd", load |-> CompressFiles(ko, packed, failed),
                       at |-> mTasks[t].at]]
    /\ toWorker' = Append(toWorker, Request("syn_m_c", t))
    /\ UNCHANGED <<hist, integrityControl, integrityAlreadyExecuted,
                   syncIntegrityFree, workerVars, toMaster, connected>>

MasterTaskDoneKeepsFlag(t) ==
    /\ mTasks' = [mTasks EXCEPT ![t] = NoTask]
    /\ UNCHANGED syncIntegrityFree

(* The done_callback of ReceiveIntegrityTask: whatever the outcome, the    *)
(* task leaves sync_tasks and the flag is released.                        *)
MasterTaskDone(t) ==
    /\ mTasks' = [mTasks EXCEPT ![t] = NoTask]
    /\ syncIntegrityFree' = TRUE

(* A response wakes task t.  The file goes before syn_m_c_e in the same    *)
(* connection, so syn_m_c_e carries it.                                    *)
MasterTaskAnswered(t) ==
    \E i \in DOMAIN toMaster :
       /\ Arrived(toMaster, i)
       /\ toMaster[i].cmd \in Responses
       /\ toMaster[i].proc = t
       /\ IF mTasks[t].pc = "cmd"
          THEN /\ mTasks' = [mTasks EXCEPT ![t] = TaskAt("end")]
               /\ toWorker' = Append(toWorker,
                      Msg("syn_m_c_e", t, toMaster[i].task, mTasks[t].load,
                          mTasks[t].at))
               /\ UNCHANGED syncIntegrityFree
          ELSE /\ MasterTaskDone(t)
               /\ UNCHANGED toWorker
       /\ toMaster' = RemoveAt(toMaster, i)
       /\ UNCHANGED <<hist, integrityControl, integrityAlreadyExecuted,
                      workerVars, connected, faults>>

MasterTaskFails(t) ==
    /\ \/ /\ mTasks[t].pc = "failed"
          /\ UNCHANGED faults
       \/ /\ mTasks[t].pc \in {"ready", "compress"}
          /\ Fault("disk")
    /\ MasterTaskDone(t)
    /\ UNCHANGED <<hist, integrityControl, integrityAlreadyExecuted,
                   workerVars, channels, connected>>

(* wait_for_file gives up (error 3039) and tells the sender: the timer may *)
(* fire before the file arrives, and it does fire if nobody sends one.     *)
MasterFileTimeout(t) ==
    /\ mTasks[t].pc = "wait"
    /\ \/ Abandoned(t) /\ UNCHANGED faults
       \/ Fault("file timeout")
    /\ mTasks' = [mTasks EXCEPT ![t] = TaskAt("cancel")]
    /\ toWorker' = Append(toWorker, TaskRequest("cancel_task", t, t))
    /\ UNCHANGED <<hist, integrityControl, integrityAlreadyExecuted,
                   syncIntegrityFree, workerVars, toMaster, connected>>

(* What SyncFiles.sync does when its request, for the worker's task wt, is *)
(* not answered in time: report the error with syn_m_c_r, then end.        *)
MasterGivesUp(t, q, wt) ==
    IF mTasks[t].pc \in {"cmd", "end"}
    THEN /\ mTasks' = [mTasks EXCEPT ![t] = TaskAt("err")]
         /\ toWorker' = Append(q, TaskRequest("syn_m_c_r", t, wt))
         /\ UNCHANGED syncIntegrityFree
    ELSE /\ MasterTaskDone(t)
         /\ toWorker' = q

MasterRequestTimeout(t) ==
    /\ Fault("request timeout")
    /\ \/ \E i \in DOMAIN toWorker :
             /\ toWorker[i].cmd \in Requests
             /\ toWorker[i].proc = t
             /\ MasterGivesUp(t, Forgotten(toWorker, i), toWorker[i].task)
             /\ UNCHANGED toMaster
       \/ \E i \in DOMAIN toMaster :
             /\ toMaster[i].cmd \in Responses
             /\ toMaster[i].proc = t
             /\ MasterGivesUp(t, toWorker,
                   IF mTasks[t].pc = "cmd" THEN None ELSE toMaster[i].task)
             /\ toMaster' = RemoveAt(toMaster, i)
    /\ UNCHANGED <<hist, integrityControl, integrityAlreadyExecuted,
                   workerVars, connected>>

MasterTask(t) ==
    \/ Compare(t)
    \/ Compress(t)
    \/ MasterTaskAnswered(t)
    \/ MasterTaskFails(t)

-----------------------------------------------------------------------------
(***************************************************************************)
(* The worker: the coroutine sync_integrity.                               *)
(***************************************************************************)
RequestPermission ==
    /\ loop = "idle"
    /\ checkIntegrityFree
    /\ loop' = "permission"
    /\ toMaster' = Append(toMaster, Request("syn_i_w_m_p", Loop))
    /\ UNCHANGED <<masterVars, workerFiles, checkIntegrityFree, status, wTasks,
                   pool, applied, toWorker, connected, faults>>

(* run_in_pool(get_files_status): queued behind the jobs of other tasks.   *)
CollectStatus ==
    /\ loop = "scan"
    /\ pool # <<>>
    /\ Head(pool) = ScanJob
    /\ pool' = Tail(pool)
    /\ status' = workerFiles
    /\ loop' = "send"
    /\ UNCHANGED <<masterVars, workerFiles, checkIntegrityFree, wTasks, applied,
                   channels, connected, faults>>

(* SyncFiles.sync with the command syn_i_w_m, once the status is in a zip. *)
SendStatus ==
    /\ loop = "send"
    /\ loop' = "cmd"
    /\ toMaster' = Append(toMaster, Request("syn_i_w_m", Loop))
    /\ UNCHANGED <<masterVars, workerFiles, checkIntegrityFree, status, wTasks,
                   pool, applied, toWorker, connected, faults>>

LoopAnswered ==
    \E i \in DOMAIN toWorker :
       LET m == toWorker[i] IN
       /\ Arrived(toWorker, i)
       /\ m.cmd \in Responses
       /\ m.proc = Loop
       /\ CASE loop = "permission" /\ m.cmd = "True" ->
                  /\ loop' = "scan"
                  /\ pool' = Append(pool, ScanJob)
                  /\ UNCHANGED <<toMaster, status>>
            [] loop = "cmd" ->
                  /\ loop' = "end"
                  /\ status' = Nothing
                  /\ toMaster' = Append(toMaster,
                        Msg("syn_i_w_m_e", Loop, m.task, status, 0))
                  /\ UNCHANGED pool
            [] OTHER ->
                  /\ loop' = "idle"
                  /\ UNCHANGED <<toMaster, pool, status>>
       /\ toWorker' = RemoveAt(toWorker, i)
       /\ UNCHANGED <<masterVars, workerFiles, checkIntegrityFree, wTasks,
                      applied, connected, faults>>

(* The request of the coroutine is not answered in time, or the status     *)
(* cannot be put in a zip: syn_i_w_m_r reports it.                         *)
LoopGivesUp(q, t) ==
    IF loop \in {"cmd", "end"}
    THEN /\ loop' = "err"
         /\ toMaster' = Append(q, TaskRequest("syn_i_w_m_r", Loop, t))
    ELSE /\ loop' = "idle"
         /\ toMaster' = q

LoopRequestTimeout ==
    /\ Fault("loop timeout")
    /\ \/ \E i \in DOMAIN toMaster :
             /\ toMaster[i].cmd \in Requests
             /\ toMaster[i].proc = Loop
             /\ LoopGivesUp(Forgotten(toMaster, i), toMaster[i].task)
             /\ UNCHANGED toWorker
       \/ \E i \in DOMAIN toWorker :
             /\ toWorker[i].cmd \in Responses
             /\ toWorker[i].proc = Loop
             /\ LoopGivesUp(toMaster,
                   IF loop = "cmd" THEN None ELSE toWorker[i].task)
             /\ toWorker' = RemoveAt(toWorker, i)
    /\ status' = Nothing
    /\ UNCHANGED <<masterVars, workerFiles, checkIntegrityFree, wTasks, pool,
                   applied, connected>>

LoopFails ==
    /\ loop = "send"
    /\ Fault("disk")
    /\ loop' = "err"
    /\ status' = Nothing
    /\ toMaster' = Append(toMaster, Request("syn_i_w_m_r", Loop))
    /\ UNCHANGED <<masterVars, workerFiles, checkIntegrityFree, wTasks, pool,
                   applied, toWorker, connected>>

WorkerLoop ==
    \/ RequestPermission
    \/ CollectStatus
    \/ SendStatus
    \/ LoopAnswered

-----------------------------------------------------------------------------
(***************************************************************************)
(* The worker: the handlers of the master's requests.                      *)
(***************************************************************************)

(* WorkerHandler.sync_integrity_ok_from_master and Handler.cancel_task     *)
(* only answer.                                                            *)
AnswerOnWorker ==
    \E i \in DOMAIN toWorker :
       /\ Arrived(toWorker, i)
       /\ toWorker[i].cmd \in {"syn_m_c_ok", "cancel_task"}
       /\ toWorker' = RemoveAt(toWorker, i)
       /\ toMaster' = Answer(toMaster, toWorker[i], "ok", toWorker[i].task)
       /\ UNCHANGED <<masterVars, workerVars, connected, faults>>

(* WorkerHandler.setup_receive_files_from_master: takes the worker's flag  *)
(* and creates a ReceiveIntegrityTask (process_files_from_master).         *)
SetupReceiveFilesFromMaster ==
    \E i \in DOMAIN toWorker :
       LET m == toWorker[i]
           t == NewTask IN
       /\ Arrived(toWorker, i)
       /\ m.cmd = "syn_m_c"
       /\ \E u \in TaskIds : Unused(u)
       /\ checkIntegrityFree' = FALSE
       /\ wTasks' = [wTasks EXCEPT ![t] = TaskAt("wait")]
       /\ toWorker' = RemoveAt(toWorker, i)
       /\ toMaster' = Answer(toMaster, m, "ok", t)
       /\ UNCHANGED <<masterVars, workerFiles, loop, status, pool, applied,
                      connected, faults>>

(* WorkerHandler.end_receiving_integrity (syn_m_c_e).                      *)
EndReceivingIntegrity ==
    \E i \in DOMAIN toWorker :
       LET m == toWorker[i] IN
       /\ Arrived(toWorker, i)
       /\ m.cmd = "syn_m_c_e"
       /\ \/ /\ m.task = None \/ wTasks[m.task].pc = "none"
             /\ toMaster' = Answer(toMaster, m, "err", None)
             /\ UNCHANGED wTasks
          \/ /\ m.task # None /\ wTasks[m.task].pc # "none"
             /\ toMaster' = Answer(toMaster, m, "ok", m.task)
             /\ IF wTasks[m.task].pc = "wait"
                THEN wTasks' = [wTasks EXCEPT ![m.task] =
                        [pc |-> "ready", load |-> m.load, at |-> m.at]]
                ELSE UNCHANGED wTasks
       /\ toWorker' = RemoveAt(toWorker, i)
       /\ UNCHANGED <<masterVars, workerFiles, checkIntegrityFree, loop, status,
                      pool, applied, connected, faults>>

(* WorkerHandler.error_receiving_integrity (syn_m_c_r).                    *)
ErrorReceivingIntegrity ==
    \E i \in DOMAIN toWorker :
       LET m == toWorker[i] IN
       /\ Arrived(toWorker, i)
       /\ m.cmd = "syn_m_c_r"
       /\ IF m.task # None /\ wTasks[m.task].pc \in {"wait", "ready"}
          THEN wTasks' = [wTasks EXCEPT ![m.task] = TaskAt("failed")]
          ELSE UNCHANGED wTasks
       /\ toWorker' = RemoveAt(toWorker, i)
       /\ toMaster' = Answer(toMaster, m, "ok", m.task)
       /\ UNCHANGED <<masterVars, workerFiles, checkIntegrityFree, loop, status,
                      pool, applied, connected, faults>>

WorkerHandlers ==
    \/ AnswerOnWorker
    \/ SetupReceiveFilesFromMaster
    \/ EndReceivingIntegrity
    \/ ErrorReceivingIntegrity

-----------------------------------------------------------------------------
(***************************************************************************)
(* The worker's tasks: WorkerHandler.process_files_from_master.            *)
(***************************************************************************)

(* The done_callback of the worker's ReceiveIntegrityTask.                 *)
WorkerTaskDone(t) ==
    /\ wTasks' = [wTasks EXCEPT ![t] = NoTask]
    /\ checkIntegrityFree' = TRUE

(* The zip is open: queue the update of the files, if there is any.        *)
ProcessFiles(t) ==
    /\ wTasks[t].pc = "ready"
    /\ IF wTasks[t].load = Nothing
       THEN /\ WorkerTaskDone(t)
            /\ UNCHANGED pool
       ELSE /\ pool' = Append(pool, [kind |-> "apply", task |-> t,
                    load |-> wTasks[t].load, at |-> wTasks[t].at])
            /\ wTasks' = [wTasks EXCEPT ![t] = TaskAt("apply")]
            /\ UNCHANGED checkIntegrityFree
    /\ UNCHANGED <<masterVars, workerFiles, loop, status, applied, channels,
                   connected, faults>>

(* The error is reported to the master with syn_i_w_m_r, without a task.   *)
ReportFailure(t) ==
    /\ \/ /\ wTasks[t].pc = "failed"
          /\ UNCHANGED faults
       \/ /\ wTasks[t].pc = "ready"
          /\ Fault("disk")
    /\ wTasks' = [wTasks EXCEPT ![t] = TaskAt("err")]
    /\ toMaster' = Append(toMaster, Request("syn_i_w_m_r", t))
    /\ UNCHANGED <<masterVars, workerFiles, checkIntegrityFree, loop, status,
                   pool, applied, toWorker, connected>>

WorkerTaskAnswered(t) ==
    \E i \in DOMAIN toWorker :
       /\ Arrived(toWorker, i)
       /\ toWorker[i].cmd \in Responses
       /\ toWorker[i].proc = t
       /\ WorkerTaskDone(t)
       /\ toWorker' = RemoveAt(toWorker, i)
       /\ UNCHANGED <<masterVars, workerFiles, loop, status, pool, applied,
                      toMaster, connected, faults>>

WorkerFileTimeout(t) ==
    /\ wTasks[t].pc = "wait"
    /\ \/ Abandoned(t) /\ UNCHANGED faults
       \/ Fault("file timeout")
    /\ wTasks' = [wTasks EXCEPT ![t] = TaskAt("cancel")]
    /\ toMaster' = Append(toMaster, TaskRequest("cancel_task", t, t))
    /\ UNCHANGED <<masterVars, workerFiles, checkIntegrityFree, loop, status,
                   pool, applied, toWorker, connected>>

(* The requests of the worker's task report a failure: syn_i_w_m_r and     *)
(* cancel_task.                                                            *)
WorkerRequestTimeout(t) ==
    /\ Fault("report timeout")
    /\ \/ \E i \in DOMAIN toMaster :
             /\ toMaster[i].cmd \in Requests
             /\ toMaster[i].proc = t
             /\ toMaster' = Forgotten(toMaster, i)
             /\ UNCHANGED toWorker
       \/ \E i \in DOMAIN toWorker :
             /\ toWorker[i].cmd \in Responses
             /\ toWorker[i].proc = t
             /\ toWorker' = RemoveAt(toWorker, i)
             /\ UNCHANGED toMaster
    /\ WorkerTaskDone(t)
    /\ UNCHANGED <<masterVars, workerFiles, loop, status, pool, applied,
                   connected>>

(* WorkerHandler.update_master_files_in_worker, for all files but skipped. *)
Updated(load, skipped) ==
    [f \in Files |-> IF f \in skipped \/ load[f] = Keep THEN workerFiles[f]
                     ELSE load[f]]

(* The job at the head of the process pool ends.  An error in one file     *)
(* does not stop the others.  A job that outlived its connection finds its *)
(* directory deleted by clean_up: it may fail to write, never to delete.   *)
ApplyFiles ==
    LET job    == Head(pool)
        writes == {f \in Files : job.load[f] \in Contents}
    IN
    /\ pool # <<>>
    /\ job.kind = "apply"
    /\ pool' = Tail(pool)
    /\ applied' = job.at
    /\ \/ /\ job.task # None
          /\ WorkerTaskDone(job.task)
          /\ \/ /\ workerFiles' = Updated(job.load, {})
                /\ UNCHANGED faults
             \/ /\ Fault("disk")
                /\ \E f \in Files : workerFiles' = Updated(job.load, {f})
       \/ /\ job.task = None
          /\ \E skipped \in SUBSET writes :
                workerFiles' = Updated(job.load, skipped)
          /\ UNCHANGED <<wTasks, checkIntegrityFree, faults>>
    /\ UNCHANGED <<masterVars, loop, status, channels, connected>>

DiscardScan ==
    /\ pool # <<>>
    /\ Head(pool) = [ScanJob EXCEPT !.task = None]
    /\ pool' = Tail(pool)
    /\ UNCHANGED <<masterVars, workerFiles, checkIntegrityFree, loop, status,
                   wTasks, applied, channels, connected, faults>>

WorkerTask(t) ==
    \/ ProcessFiles(t)
    \/ ReportFailure(t)
    \/ WorkerTaskAnswered(t)

-----------------------------------------------------------------------------
(***************************************************************************)
(* The connection is lost: both sides cancel their tasks and drop their    *)
(* handlers.  (They learn of it at different times, but the worker only    *)
(* reconnects after both, and what one does alone in between meets nothing *)
(* of the other.)  Jobs that the pool has taken run to their end.          *)
(***************************************************************************)
Disconnect ==
    /\ connected
    /\ connected' = FALSE
    /\ toMaster' = <<>>
    /\ toWorker' = <<>>
    /\ mTasks' = [t \in TaskIds |-> NoTask]
    /\ wTasks' = [t \in TaskIds |-> NoTask]
    /\ syncIntegrityFree' = TRUE
    /\ checkIntegrityFree' = TRUE
    /\ loop' = "off"
    /\ status' = Nothing
    /\ UNCHANGED hist

Orphans(n) == [i \in 1..n |-> [pool[i] EXCEPT !.task = None]]

ConnectionLost ==
    /\ Fault("connection")
    /\ Disconnect
    /\ \E n \in 0..Len(pool) : pool' = Orphans(n)
    /\ UNCHANGED <<integrityControl, integrityAlreadyExecuted, workerFiles,
                   applied>>

(* bongosec-clusterd of the master starts again: Master.__init__.          *)
MasterRestart ==
    /\ Fault("restart")
    /\ Disconnect
    /\ integrityControl' = [at |-> 0, files |-> Empty]
    /\ integrityAlreadyExecuted' = FALSE
    /\ \E n \in 0..Len(pool) : pool' = Orphans(n)
    /\ UNCHANGED <<workerFiles, applied>>

(* bongosec-clusterd of the worker dies, perhaps half-way in an update.    *)
WorkerRestart ==
    /\ Fault("restart")
    /\ Disconnect
    /\ pool' = <<>>
    /\ \/ /\ pool # <<>>
          /\ Head(pool).kind = "apply"
          /\ \E skipped \in SUBSET Files :
                workerFiles' = Updated(Head(pool).load, skipped)
       \/ UNCHANGED workerFiles
    /\ UNCHANGED <<integrityControl, integrityAlreadyExecuted, applied>>

Reconnect ==
    /\ ~connected
    /\ connected' = TRUE
    /\ loop' = "idle"
    /\ UNCHANGED <<masterVars, workerFiles, checkIntegrityFree, status, wTasks,
                   pool, applied, channels, faults>>

-----------------------------------------------------------------------------
(* The worker may have any files when it first connects; the master has    *)
(* not finished its first scan.                                            *)
Init ==
    /\ \E m \in FileMap : hist = <<m>>
    /\ integrityControl = [at |-> 0, files |-> Empty]
    /\ integrityAlreadyExecuted = FALSE
    /\ syncIntegrityFree = TRUE
    /\ mTasks = [t \in TaskIds |-> NoTask]
    /\ workerFiles \in FileMap
    /\ checkIntegrityFree = TRUE
    /\ loop = "idle"
    /\ status = Nothing
    /\ wTasks = [t \in TaskIds |-> NoTask]
    /\ pool = <<>>
    /\ toMaster = <<>>
    /\ toWorker = <<>>
    /\ connected = TRUE
    /\ faults = 0
    /\ applied = 0

Timeouts ==
    \/ LoopRequestTimeout
    \/ \E t \in TaskIds : \/ MasterFileTimeout(t)
                          \/ MasterRequestTimeout(t)
                          \/ WorkerFileTimeout(t)
                          \/ WorkerRequestTimeout(t)

Next ==
    \/ EditFile
    \/ FileStatusUpdate
    \/ MasterHandlers
    \/ \E t \in TaskIds : MasterTask(t)
    \/ WorkerLoop
    \/ LoopFails
    \/ WorkerHandlers
    \/ \E t \in TaskIds : WorkerTask(t)
    \/ ApplyFiles
    \/ DiscardScan
    \/ ReadTogether
    \/ Timeouts
    \/ ConnectionLost
    \/ MasterRestart
    \/ WorkerRestart
    \/ Reconnect

Spec == Init /\ [][Next]_vars

(* The event loops run what is ready, the pool runs its jobs, the loops of *)
(* file_status_update and sync_integrity never end, and a worker without   *)
(* connection tries again.  Nothing is assumed of edits and faults.        *)
Fairness ==
    /\ WF_vars(FileStatusUpdate)
    /\ WF_vars(MasterHandlers)
    /\ WF_vars(WorkerHandlers)
    /\ WF_vars(WorkerLoop)
    /\ WF_vars(ApplyFiles \/ DiscardScan)
    /\ WF_vars(Reconnect)
    /\ \A t \in TaskIds : /\ WF_vars(MasterTask(t))
                          /\ WF_vars(WorkerTask(t))
                          /\ WF_vars(MasterFileTimeout(t))
                          /\ WF_vars(WorkerFileTimeout(t))

FairSpec == Spec /\ Fairness

-----------------------------------------------------------------------------
(***************************************************************************)
(* Properties.                                                             *)
(***************************************************************************)
Syncing   == {t \in TaskIds : mTasks[t].pc # "none"}
Receiving == {t \in TaskIds : wTasks[t].pc # "none"}

(* A flag that is taken belongs to a task that is alive, whose done        *)
(* callback will release it: no order of errors, timeouts and lost         *)
(* connections leaves sync_integrity_free or check_integrity_free taken    *)
(* with nobody to release it.                                              *)
LocksAreOwned ==
    /\ ~syncIntegrityFree => Syncing # {}
    /\ ~checkIntegrityFree => Receiving # {}

(* As the comment on sync_integrity_free says, the flags prevent two syncs *)
(* with the same worker from overlapping, on either side.  Needs that no   *)
(* request times out.                                                      *)
SyncsDoNotOverlap ==
    /\ \A s, t \in Syncing : s = t
    /\ \A s, t \in Receiving : s = t

(* The status that the master compares is what the worker has at that very *)
(* moment: no update was queued or running when it was collected, or came  *)
(* between, although sync_integrity reads check_integrity_free before it   *)
(* awaits the permission and never again.                                  *)
ComparedStatusIsCurrent ==
    \A t \in TaskIds : mTasks[t].pc = "ready" => mTasks[t].load = workerFiles

(* The worker's files are a replica of the master's.                       *)
Replica == INSTANCE FileReplica WITH
    published <- integrityControl.at, replica <- workerFiles, seen <- applied
ImplementsReplica == Replica!Spec

(* Once the master's files stay the same and faults are over, the worker's *)
(* files become and stay equal to them.                                    *)
Converges == Replica!Converges

(* compare_files and file_status_update: a file is deleted on the worker   *)
(* only if the master does not have it.                                    *)
OnlyRemovedFilesAreDeleted ==
    [][\A f \in Files : workerFiles[f] # Absent /\ workerFiles'[f] = Absent
          => \E i \in 1..Len(hist) : i >= applied' /\ hist[i][f] = Absent]_vars

(* update_cluster_control: a shared file that exists but could not be put  *)
(* in the zip is left out of the update, not deleted by it.                *)
FilesNotCompressedAreLeftOut ==
    [][\A t \in TaskIds, f \in Files :
          /\ mTasks[t].pc = "compress"
          /\ mTasks'[t].pc = "cmd"
          /\ mTasks[t].load[f] = Shared
          /\ MasterFiles[f] # Absent
          => mTasks'[t].load[f] # Absent]_vars
=============================================================================
