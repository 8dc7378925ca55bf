----------------------------- MODULE AgentGroups -----------------------------
(***************************************************************************)
(* The groups of the agents, from the database of the master to that of a  *)
(* worker.                                                                 *)
(*                                                                         *)
(* agent_groups_update of the master reads the rows that were changed,     *)
(* marks them as synced and broadcasts them, with the checksum of the whole*)
(* table, to the workers that are connected.  Nothing is sent again: what  *)
(* gets lost is found by the worker, which compares the checksum with its  *)
(* own and after MismatchLimit failures in a row asks for the whole table. *)
(*                                                                         *)
(* One worker; the other workers only matter because the master's loop     *)
(* goes on while this one is away.  The groups of an agent are a version   *)
(* number, and a checksum is the table itself.                             *)
(***************************************************************************)
EXTENDS Integers, Sequences, FiniteSets

CONSTANTS
    NumAgents,      \* agents are 1..NumAgents, as their ids in the database
    MismatchLimit,  \* agent_groups_mismatch_limit (5 in cluster.json)
    TaskIds,        \* names of the worker's tasks
    MaxPending,     \* bound on the broadcasts under way
    MaxEdits,       \* bound on the changes of groups
    MaxFaults,      \* bound on the faults
    Faults          \* "database", "string", "rows", "request",
                    \* "connection", "restart"

Agents   == 1..NumAgents
Versions == 0..MaxEdits
Table    == [Agents -> Versions]
Rows     == UNION {[S -> Versions] : S \in SUBSET Agents}
NoRows   == [a \in {} |-> 0]
None     == "none"

ASSUME GroupsAssumption ==
    /\ NumAgents \in Nat \ {0}
    /\ MismatchLimit \in Nat \ {0}
    /\ MaxPending \in Nat /\ MaxEdits \in Nat /\ MaxFaults \in Nat
    /\ None \notin TaskIds
    /\ Cardinality(TaskIds) >= 2 * MaxPending

VARIABLES
    groups,     \* the table of the master's bongosec-db
    syncreq,    \* the agents with group_sync_status 'syncreq'
    scan,       \* chunks that retrieve_information has got so far
    queue,      \* broadcast_queue of the worker's handler
    full,       \* the SendEntireAgentGroupsTasks of the master
    toWorker,   \* requests and responses on their way to the worker
    toMaster,   \* the tasks whose syn_w_g_c is on its way to the master
    tasks,      \* ReceiveAgentGroupsTask, ReceiveEntireAgentGroupsTask
    pool,       \* jobs of the worker's process pool
    table,      \* the table of the worker's bongosec-db
    mismatches, \* agent_groups_mismatch_counter
    connected,
    edits, faults,
    seen,       \* history: newest version that broadcasts have brought
    entire      \* history: the whole table has been asked for

master == <<groups, syncreq, scan, queue, full>>
history == <<seen, entire>>
worker == <<tasks, pool, table, mismatches, history>>
vars == <<master, toWorker, toMaster, worker, connected, edits, faults>>

NoTask == [pc |-> "none", kind |-> "", hash |-> <<>>]
Update == [kind : {"syn_g_m_w", "syn_g_m_w_c"}, rows : Rows, hash : Table \cup {<<>>}]

TypeOK ==
    /\ groups \in Table /\ table \in Table /\ seen \in Table
    /\ syncreq \subseteq Agents
    /\ scan \in Rows
    /\ queue \in Seq(Update)
    /\ full \in Seq([next : 1..(NumAgents + 1), rows : Rows])
    /\ toWorker \in Seq(Update \cup [kind : {"ok"}, task : TaskIds])
    /\ toMaster \in Seq(TaskIds)
    /\ tasks \in [TaskIds -> [pc : {"none", "pool", "applied", "equal",
                                    "differs", "asked", "answered"},
                              kind : {"", "syn_g_m_w", "syn_g_m_w_c"},
                              hash : Table \cup {<<>>}]]
    /\ pool \in Seq([task : TaskIds \cup {None}, kind : {"syn_g_m_w", "syn_g_m_w_c"},
                     rows : Rows])
    /\ mismatches \in Nat
    /\ connected \in BOOLEAN /\ entire \in BOOLEAN
    /\ edits \in 0..MaxEdits /\ faults \in 0..MaxFaults

Init ==
    /\ groups = [a \in Agents |-> 0] /\ table = groups /\ seen = groups
    /\ syncreq = {} /\ scan = NoRows
    /\ queue = <<>> /\ full = <<>>
    /\ toWorker = <<>> /\ toMaster = <<>>
    /\ tasks = [t \in TaskIds |-> NoTask] /\ pool = <<>>
    /\ mismatches = 0
    /\ connected = TRUE /\ entire = FALSE
    /\ edits = 0 /\ faults = 0

Fault(kind) == kind \in Faults /\ faults < MaxFaults /\ faults' = faults + 1

(* Rows of an update are written in order: later ones replace earlier ones.*)
Over(new, old) ==
    [a \in DOMAIN new \cup DOMAIN old |-> IF a \in DOMAIN new THEN new[a] ELSE old[a]]
RowsOf(S) == [a \in S |-> groups[a]]
Without(s, i) == SubSeq(s, 1, i - 1) \o SubSeq(s, i + 1, Len(s))

-----------------------------------------------------------------------------
(***************************************************************************)
(* The master.                                                             *)
(***************************************************************************)

(* The API changes the groups of an agent: set-agent-groups, 'syncreq'.    *)
SetAgentGroups(a) ==
    /\ edits < MaxEdits
    /\ edits' = edits + 1
    /\ groups' = [groups EXCEPT ![a] = edits + 1]
    /\ syncreq' = syncreq \cup {a}
    /\ UNCHANGED <<scan, queue, full, toWorker, toMaster, worker, connected, faults>>

SetSyncedAll(S) == syncreq' = {}

(* set_synced of sync-agent-groups-get: what is in the response.           *)
SetSynced(S) == syncreq' = syncreq \ S

(* A query of retrieve_information that does not get all rows ("due").     *)
RetrieveChunk ==
    /\ \E S \in SUBSET syncreq :
          /\ S # {} /\ S # syncreq
          /\ scan' = Over(RowsOf(S), scan)
          /\ SetSynced(S)
    /\ UNCHANGED <<groups, queue, full, toWorker, toMaster, worker, connected,
                   edits, faults>>

(* A task id that no task and no message has.                              *)
Idle(t) ==
    /\ tasks[t].pc = "none"
    /\ \A i \in 1..Len(toMaster) : toMaster[i] # t
    /\ \A i \in 1..Len(toWorker) : toWorker[i].kind = "ok" => toWorker[i].task # t

UnderWay ==
    Len(queue) + Len(toWorker) + Len(toMaster) + Len(full)
        + Cardinality({t \in TaskIds : tasks[t].pc # "none"})

(* The last query, which also gets the checksum, and the broadcast to the  *)
(* clients.  When this worker is away another one keeps the loop going.    *)
AgentGroupsUpdate ==
    /\ UnderWay < MaxPending
    /\ SetSynced(syncreq)
    /\ scan' = NoRows
    /\ IF connected
       THEN queue' = Append(queue, [kind |-> "syn_g_m_w", hash |-> groups,
                                    rows |-> Over(RowsOf(syncreq), scan)])
       ELSE UNCHANGED queue
    /\ UNCHANGED <<groups, full, toWorker, toMaster, worker, connected, edits, faults>>

(* bongosec-db answers "err", or the socket fails: retrieve_information    *)
(* returns nothing, but what has been marked stays marked.                 *)
RetrieveFails ==
    /\ Fault("database")
    /\ \E S \in SUBSET syncreq : SetSynced(S)
    /\ scan' = NoRows
    /\ UNCHANGED <<groups, queue, full, toWorker, toMaster, worker, connected, edits>>

LastAnswered ==
    \/ \A i \in 1..Len(toWorker) : toWorker[i].kind # "syn_g_m_w"
    \/ "request" \in Faults

BroadcastUnordered ==
    /\ queue # <<>> /\ LastAnswered
    /\ \E i \in 1..Len(queue) :
          /\ toWorker' = Append(toWorker, queue[i])
          /\ queue' = Without(queue, i)
    /\ UNCHANGED <<groups, syncreq, scan, full, toMaster, worker, connected, edits, faults>>

(* broadcast_reader runs send_agent_groups_information: the string, then   *)
(* syn_g_m_w; the next one when this one is answered, or has timed out.    *)
BroadcastReader ==
    /\ queue # <<>> /\ LastAnswered
    /\ toWorker' = Append(toWorker, Head(queue))
    /\ queue' = Tail(queue)
    /\ UNCHANGED <<groups, syncreq, scan, full, toMaster, worker, connected, edits, faults>>

(* send_string gives up (error 3016): logged, and the next one is sent.    *)
BroadcastFails ==
    /\ Fault("string")
    /\ queue # <<>>
    /\ queue' = Tail(queue)
    /\ UNCHANGED <<groups, syncreq, scan, full, toWorker, toMaster, worker, connected, edits>>

(* The pivot of the first query.                                           *)
FromZero == 0

FirstAgent == 1

(* syn_w_g_c: every request starts a task of its own.                      *)
SetupSendInfo ==
    /\ toMaster # <<>>
    /\ toMaster' = Tail(toMaster)
    /\ toWorker' = Append(toWorker, [kind |-> "ok", task |-> Head(toMaster)])
    /\ full' = Append(full, [next |-> FirstAgent, rows |-> NoRows])
    /\ UNCHANGED <<groups, syncreq, scan, queue, worker, connected, edits, faults>>

(* send_entire_agent_groups_information reads the table with a pivot, some *)
(* agents by query, while it goes on changing.                             *)
RetrieveAll(i) ==
    /\ full[i].next <= NumAgents
    /\ \E last \in full[i].next..NumAgents :
          full' = [full EXCEPT ![i] =
              [next |-> last + 1, rows |-> Over(RowsOf(full[i].next..last), @.rows)]]
    /\ UNCHANGED <<groups, syncreq, scan, queue, toWorker, toMaster, worker,
                   connected, edits, faults>>

SendEntire(i) ==
    /\ full[i].next > NumAgents
    /\ toWorker' = Append(toWorker, [kind |-> "syn_g_m_w_c", hash |-> <<>>,
                                     rows |-> full[i].rows])
    /\ full' = Without(full, i)
    /\ UNCHANGED <<groups, syncreq, scan, queue, toMaster, worker, connected, edits, faults>>

(* A query or the string fails: nothing is sent, nobody is told.           *)
SendEntireFails(i) ==
    /\ Fault("database") \/ Fault("string")
    /\ full' = Without(full, i)
    /\ UNCHANGED <<groups, syncreq, scan, queue, toWorker, toMaster, worker,
                   connected, edits>>

-----------------------------------------------------------------------------
(***************************************************************************)
(* The worker.                                                             *)
(***************************************************************************)
Ended(t) == tasks' = [tasks EXCEPT ![t] = NoTask]
At(t, pc) == tasks' = [tasks EXCEPT ![t].pc = pc]

(* data_received: a request starts a task, whose first step gives its job  *)
(* to the process pool (get_chunks_in_task_id, update_chunks_wdb); a       *)
(* response wakes the task that waits for it.                              *)
DataReceived ==
    /\ toWorker # <<>>
    /\ toWorker' = Tail(toWorker)
    /\ LET m == Head(toWorker) IN
       \/ /\ m.kind = "ok"
          /\ IF tasks[m.task].pc = "asked" THEN At(m.task, "answered")
                                           ELSE UNCHANGED tasks
          /\ UNCHANGED pool
       \/ /\ m.kind # "ok"
          /\ \E u \in TaskIds : Idle(u)
          /\ LET t == CHOOSE u \in TaskIds : Idle(u) IN
                /\ tasks' = [tasks EXCEPT ![t] =
                                [pc |-> "pool", kind |-> m.kind, hash |-> m.hash]]
                /\ pool' = Append(pool, [task |-> t, kind |-> m.kind, rows |-> m.rows])
    /\ UNCHANGED <<master, toMaster, table, mismatches, history,
                   connected, edits, faults>>

Written(rows) == Over(rows, table)
Newest(job) ==
    IF job.kind = "syn_g_m_w"
    THEN [a \in Agents |-> IF a \in DOMAIN job.rows /\ job.rows[a] > seen[a]
                           THEN job.rows[a] ELSE seen[a]]
    ELSE seen

(* The pool has one process: send_data_to_wdb, mode "override".            *)
SendDataToWdb ==
    /\ pool # <<>>
    /\ LET job == Head(pool) IN
       /\ table' = Written(job.rows)
       /\ seen' = Newest(job)
       /\ IF job.task = None THEN UNCHANGED tasks ELSE At(job.task, "applied")
    /\ pool' = Tail(pool)
    /\ UNCHANGED <<master, toWorker, toMaster, mismatches, entire, connected,
                   edits, faults>>

(* Rows are refused, or time runs out; the job itself may fail (3037).     *)
SendDataFails ==
    /\ Fault("rows")
    /\ pool # <<>>
    /\ LET job == Head(pool) IN
       /\ \E S \in SUBSET DOMAIN job.rows :
             table' = Written([a \in S |-> job.rows[a]])
       /\ IF job.task = None THEN UNCHANGED tasks
          ELSE At(job.task, "applied") \/ Ended(job.task)
    /\ pool' = Tail(pool)
    /\ UNCHANGED <<master, toWorker, toMaster, mismatches, history, connected, edits>>

(* Once syn_w_g_e is answered, compare_agent_groups_checksums asks the own *)
(* database.  An update of the whole table has no checksum.                *)
CompareAgentGroupsChecksums(t) ==
    /\ tasks[t].pc = "applied"
    /\ IF tasks[t].kind = "syn_g_m_w_c" THEN Ended(t)
       ELSE At(t, IF tasks[t].hash = table THEN "equal" ELSE "differs")
    /\ UNCHANGED <<master, toWorker, toMaster, pool, table, mismatches, history,
                   connected, edits, faults>>

(* The counter of comparisons that failed in a row.                        *)
MismatchesForgotten(equal) == IF equal THEN 0 ELSE 1

NextMismatches(equal) == IF equal THEN 0 ELSE mismatches + 1

(* check_agent_groups_checksums, up to the request for the whole table.    *)
CheckAgentGroupsChecksums(t) ==
    /\ tasks[t].pc \in {"equal", "differs"}
    /\ mismatches' = NextMismatches(tasks[t].pc = "equal")
    /\ IF tasks[t].pc = "differs" /\ mismatches' >= MismatchLimit
       THEN /\ toMaster' = Append(toMaster, t)
            /\ At(t, "asked")
            /\ entire' = TRUE
       ELSE /\ Ended(t)
            /\ UNCHANGED <<toMaster, entire>>
    /\ UNCHANGED <<master, toWorker, pool, table, seen, connected, edits, faults>>

Answered(t) ==
    /\ tasks[t].pc = "answered"
    /\ mismatches' = 0
    /\ Ended(t)
    /\ UNCHANGED <<master, toWorker, toMaster, pool, table, history, connected, edits, faults>>

(* A request of the task times out: it ends where it is, the counter stays.*)
TaskTimeout(t) ==
    /\ Fault("request")
    /\ tasks[t].pc \in {"applied", "asked"}
    /\ Ended(t)
    /\ UNCHANGED <<master, toWorker, toMaster, pool, table, mismatches, history,
                   connected, edits>>

-----------------------------------------------------------------------------
(* connection_lost at both ends: the master's handler goes with its queue, *)
(* the worker's with its tasks and its counter.  Jobs that the pool has    *)
(* taken are done all the same.                                            *)
Disconnect ==
    /\ connected /\ connected' = FALSE
    /\ queue' = <<>> /\ full' = <<>> /\ toWorker' = <<>> /\ toMaster' = <<>>
    /\ tasks' = [t \in TaskIds |-> NoTask]
    /\ mismatches' = 0
    /\ UNCHANGED <<groups, syncreq, history, edits>>

Orphans(n) == [i \in 1..n |-> [pool[i] EXCEPT !.task = None]]

ConnectionLost ==
    /\ Fault("connection")
    /\ Disconnect
    /\ \E n \in 0..Len(pool) : pool' = Orphans(n)
    /\ UNCHANGED <<scan, table>>

(* bongosec-clusterd of the master starts again; the database has marked   *)
(* what it had given it.                                                   *)
MasterRestart ==
    /\ Fault("restart")
    /\ Disconnect
    /\ \E n \in 0..Len(pool) : pool' = Orphans(n)
    /\ scan' = NoRows
    /\ UNCHANGED table

(* bongosec-clusterd of the worker dies, perhaps in the middle of a job.   *)
WorkerRestart ==
    /\ Fault("restart")
    /\ Disconnect
    /\ pool' = <<>>
    /\ \/ /\ pool # <<>>
          /\ \E S \in SUBSET DOMAIN Head(pool).rows :
                table' = Written([a \in S |-> Head(pool).rows[a]])
       \/ UNCHANGED table
    /\ UNCHANGED scan

(* client.start: a new handler, with a counter of its own.                 *)
Reconnect ==
    /\ ~connected /\ connected' = TRUE
    /\ UNCHANGED <<master, toWorker, toMaster, worker, edits, faults>>

CheckTask(t) ==
    \/ CompareAgentGroupsChecksums(t)
    \/ CheckAgentGroupsChecksums(t)
    \/ Answered(t)

Next ==
    \/ \E a \in Agents : SetAgentGroups(a)
    \/ RetrieveChunk \/ AgentGroupsUpdate \/ RetrieveFails
    \/ BroadcastReader \/ BroadcastFails
    \/ SetupSendInfo
    \/ \E i \in 1..Len(full) : RetrieveAll(i) \/ SendEntire(i) \/ SendEntireFails(i)
    \/ DataReceived
    \/ SendDataToWdb \/ SendDataFails
    \/ \E t \in TaskIds : CheckTask(t) \/ TaskTimeout(t)
    \/ ConnectionLost \/ MasterRestart \/ WorkerRestart \/ Reconnect

Spec == Init /\ [][Next]_vars

(* The loop of agent_groups_update never ends, the event loops and the pool*)
(* run what is ready, and a worker without connection tries again.  Nothing*)
(* is assumed of changes and faults.                                       *)
Fairness ==
    /\ WF_vars(AgentGroupsUpdate)
    /\ WF_vars(BroadcastReader)
    /\ WF_vars(SetupSendInfo)
    /\ WF_vars(\E i \in 1..Len(full) : RetrieveAll(i) \/ SendEntire(i))
    /\ WF_vars(DataReceived)
    /\ WF_vars(SendDataToWdb)
    /\ \A t \in TaskIds : WF_vars(CheckTask(t))
    /\ WF_vars(Reconnect)

FairSpec == Spec /\ Fairness

-----------------------------------------------------------------------------
(***************************************************************************)
(* Properties.                                                             *)
(***************************************************************************)

(* Broadcasts are applied in the order in which the table was read: one    *)
(* never brings an older version than an earlier broadcast did.            *)
BroadcastsInOrder ==
    [][\A i \in 1..Len(pool) :
          pool[i].kind = "syn_g_m_w" /\ pool' = Tail(pool) /\ i = 1 =>
              \A a \in DOMAIN pool[i].rows : pool[i].rows[a] >= seen[a]]_vars

(* While nothing fails and the whole table was never asked for, no change  *)
(* is lost between the mark 'synced' and the worker: a row that the worker *)
(* lacks is still marked, or on its way in its newest version.             *)
Brings(rows, a) == a \in DOMAIN rows /\ rows[a] = groups[a]

ChangesAreNotLost ==
    faults = 0 /\ ~entire =>
        \A a \in Agents :
            \/ table[a] = groups[a]
            \/ a \in syncreq
            \/ Brings(scan, a)
            \/ \E i \in 1..Len(queue) : Brings(queue[i].rows, a)
            \/ \E i \in 1..Len(toWorker) :
                  toWorker[i].kind # "ok" /\ Brings(toWorker[i].rows, a)
            \/ \E i \in 1..Len(pool) : Brings(pool[i].rows, a)

(* Whatever was lost, the worker's groups become the master's once the     *)
(* changes and the faults stop.                                            *)
Converges == <>[](table = groups)
=============================================================================
