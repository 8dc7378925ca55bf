-------------------------- MODULE AgentGroups_proofs --------------------------
(***************************************************************************)
(* Proofs about AgentGroups, for any agents, tasks, bounds and faults.     *)
(*                                                                         *)
(* The order of the broadcasts is a fact about four places at once: what   *)
(* the pool holds is older than what is on its way to the worker, that is  *)
(* older than what is queued, and that than what is scanned.  That no      *)
(* change is lost rests on it: a job of the pool may overwrite a row of the*)
(* worker only with a row that is as new.                                  *)
(***************************************************************************)
EXTENDS AgentGroups, TLAPS

Job == [task : TaskIds \cup {None}, kind : {"syn_g_m_w", "syn_g_m_w_c"}, rows : Rows]
Message == Update \cup [kind : {"ok"}, task : TaskIds]
Task == [pc : {"none", "pool", "applied", "equal", "differs", "asked", "answered"},
         kind : {"", "syn_g_m_w", "syn_g_m_w_c"},
         hash : Table \cup {<<>>}]
Whole == [next : 1..(NumAgents + 1), rows : Rows]

-----------------------------------------------------------------------------
(* Sequences.                                                              *)
LEMMA AppendFacts ==
  ASSUME NEW S, NEW s \in Seq(S), NEW m \in S
  PROVE  /\ Append(s, m) \in Seq(S)
         /\ Len(Append(s, m)) = Len(s) + 1
         /\ \A i \in 1..(Len(s) + 1) : Append(s, m)[i] = IF i = Len(s) + 1 THEN m ELSE s[i]
OBVIOUS

LEMMA TailFacts ==
  ASSUME NEW S, NEW s \in Seq(S), s # <<>>
  PROVE  /\ Head(s) \in S /\ Head(s) = s[1] /\ Len(s) \in Nat \ {0}
         /\ Tail(s) \in Seq(S)
         /\ Len(Tail(s)) = Len(s) - 1
         /\ \A i \in 1..(Len(s) - 1) : Tail(s)[i] = s[i + 1]
OBVIOUS

LEMMA WithoutTyped ==
  ASSUME NEW S, NEW s \in Seq(S), NEW i \in 1..Len(s)
  PROVE  Without(s, i) \in Seq(S)
<1>1. SubSeq(s, 1, i - 1) \in Seq(S) /\ SubSeq(s, i + 1, Len(s)) \in Seq(S)
  OBVIOUS
<1>. QED  BY <1>1 DEF Without

(* Rows.                                                                   *)
LEMMA RowsAre ==
  ASSUME NEW r
  PROVE  r \in Rows <=> DOMAIN r \subseteq Agents /\ r \in [DOMAIN r -> Versions]
BY DEF Rows

LEMMA OverRows ==
  ASSUME NEW new \in Rows, NEW old \in Rows
  PROVE  /\ Over(new, old) \in Rows
         /\ DOMAIN Over(new, old) = DOMAIN new \cup DOMAIN old
         /\ \A a \in DOMAIN new \cup DOMAIN old :
               Over(new, old)[a] = IF a \in DOMAIN new THEN new[a] ELSE old[a]
<1>1. /\ DOMAIN new \subseteq Agents /\ new \in [DOMAIN new -> Versions]
      /\ DOMAIN old \subseteq Agents /\ old \in [DOMAIN old -> Versions]
  BY RowsAre
<1>2. /\ DOMAIN Over(new, old) = DOMAIN new \cup DOMAIN old
      /\ \A a \in DOMAIN new \cup DOMAIN old :
            Over(new, old)[a] = IF a \in DOMAIN new THEN new[a] ELSE old[a]
  BY DEF Over
<1>3. Over(new, old) \in [DOMAIN new \cup DOMAIN old -> Versions]
  BY <1>1 DEF Over
<1>. QED  BY <1>1, <1>2, <1>3, RowsAre

LEMMA TableRows == Table \subseteq Rows
BY DEF Table, Rows

LEMMA OverTable ==
  ASSUME NEW new \in Rows, NEW old \in Table
  PROVE  /\ Over(new, old) \in Table
         /\ \A a \in Agents : Over(new, old)[a] = IF a \in DOMAIN new THEN new[a] ELSE old[a]
<1>1. DOMAIN new \subseteq Agents /\ new \in [DOMAIN new -> Versions] /\ DOMAIN old = Agents
  BY RowsAre DEF Table
<1>. QED  BY <1>1 DEF Over, Table

LEMMA RowsOfTyped ==
  ASSUME groups \in Table, NEW S \in SUBSET Agents
  PROVE  /\ RowsOf(S) \in Rows
         /\ DOMAIN RowsOf(S) = S /\ \A a \in S : RowsOf(S)[a] = groups[a]
<1>1. DOMAIN RowsOf(S) = S /\ RowsOf(S) \in [S -> Versions] /\ \A a \in S : RowsOf(S)[a] = groups[a]
  BY DEF RowsOf, Table
<1>. QED  BY <1>1, RowsAre

LEMMA SomeRows ==
  ASSUME NEW r \in Rows, NEW S \in SUBSET DOMAIN r
  PROVE  /\ [a \in S |-> r[a]] \in Rows
         /\ DOMAIN [a \in S |-> r[a]] = S
<1>1. DOMAIN r \subseteq Agents /\ r \in [DOMAIN r -> Versions]
  BY RowsAre
<1>2. DOMAIN [a \in S |-> r[a]] = S /\ [a \in S |-> r[a]] \in [S -> Versions]
  BY <1>1
<1>. QED  BY <1>1, <1>2, RowsAre

LEMMA NoRowsTyped == NoRows \in Rows /\ DOMAIN NoRows = {}
<1>1. DOMAIN NoRows = {} /\ NoRows \in [{} -> Versions]
  BY DEF NoRows
<1>. QED  BY <1>1, RowsAre

(* Jobs without their tasks are jobs with the same rows.                   *)
LEMMA OrphansTyped ==
  ASSUME pool \in Seq(Job), NEW n \in 0..Len(pool)
  PROVE  /\ Orphans(n) \in Seq(Job) /\ Len(Orphans(n)) = n
         /\ \A i \in 1..n : Orphans(n)[i].kind = pool[i].kind /\ Orphans(n)[i].rows = pool[i].rows
<1>1. \A i \in 1..n : /\ [pool[i] EXCEPT !.task = None] \in Job
                      /\ [pool[i] EXCEPT !.task = None].kind = pool[i].kind
                      /\ [pool[i] EXCEPT !.task = None].rows = pool[i].rows
  <2> TAKE i \in 1..n
  <2>1. pool[i] \in Job
    OBVIOUS
  <2>. QED  BY <2>1 DEF Job
<1>2. Orphans(n) \in [1..n -> Job] /\ n \in Nat
  BY <1>1 DEF Orphans
<1>3. Orphans(n) \in Seq(Job) /\ Len(Orphans(n)) = n
  BY <1>2
<1>. QED  BY <1>1, <1>3 DEF Orphans

-----------------------------------------------------------------------------
(* Types.                                                                  *)
MasterTypes ==
    /\ groups \in Table /\ syncreq \subseteq Agents /\ scan \in Rows
    /\ queue \in Seq(Update) /\ full \in Seq(Whole)
    /\ edits \in 0..MaxEdits /\ faults \in 0..MaxFaults

WorkerTypes ==
    /\ table \in Table /\ seen \in Table
    /\ tasks \in [TaskIds -> Task] /\ pool \in Seq(Job)
    /\ mismatches \in Nat /\ entire \in BOOLEAN

NetTypes ==
    /\ toWorker \in Seq(Message) /\ toMaster \in Seq(TaskIds) /\ connected \in BOOLEAN

Types == MasterTypes /\ WorkerTypes /\ NetTypes

LEMMA TypesAre == Types <=> TypeOK
BY DEF Types, TypeOK, MasterTypes, WorkerTypes, NetTypes, Job, Message, Task, Whole

LEMMA TypesInit == Init => Types
<1> SUFFICES ASSUME Init  PROVE MasterTypes /\ WorkerTypes /\ NetTypes
  BY DEF Types
<1>1. [a \in Agents |-> 0] \in Table
  BY GroupsAssumption DEF Table, Versions
<1>2. NoTask \in Task
  BY DEF NoTask, Task
<1>3. MasterTypes
  BY <1>1, NoRowsTyped, GroupsAssumption DEF Init, MasterTypes
<1>4. WorkerTypes
  <2>1. table \in Table /\ seen \in Table
    BY <1>1 DEF Init
  <2>2. tasks \in [TaskIds -> Task]
    BY <1>2 DEF Init
  <2>3. pool \in Seq(Job) /\ mismatches \in Nat
    BY DEF Init
  <2>4. entire \in BOOLEAN
    BY DEF Init
  <2>. QED  BY <2>1, <2>2, <2>3, <2>4 DEF WorkerTypes
<1>5. NetTypes
  BY DEF Init, NetTypes
<1>. QED  BY <1>3, <1>4, <1>5

LEMMA FaultCounted ==
  ASSUME MasterTypes, NEW kind, Fault(kind)
  PROVE  faults' \in 0..MaxFaults /\ faults' # 0
BY GroupsAssumption DEF MasterTypes, Fault

LEMMA MasterTyped ==
  ASSUME Types,
         \/ \E a \in Agents : SetAgentGroups(a)
         \/ RetrieveChunk \/ AgentGroupsUpdate \/ RetrieveFails
         \/ BroadcastReader \/ BroadcastFails \/ SetupSendInfo
         \/ \E i \in 1..Len(full) : RetrieveAll(i) \/ SendEntire(i) \/ SendEntireFails(i)
  PROVE  Types'
<1> USE DEF Types
<1>0. MasterTypes /\ WorkerTypes /\ NetTypes
  OBVIOUS
<1>1. ASSUME NEW a \in Agents, SetAgentGroups(a)  PROVE Types'
  <2>1. edits' \in 0..MaxEdits /\ edits + 1 \in Versions
    BY <1>0, <1>1, GroupsAssumption DEF SetAgentGroups, MasterTypes, Versions
  <2>2. groups' \in Table /\ syncreq' \subseteq Agents
    BY <1>0, <1>1, <2>1 DEF SetAgentGroups, MasterTypes, Table
  <2>. QED  BY <1>0, <1>1, <2>1, <2>2 DEF SetAgentGroups, MasterTypes, WorkerTypes, NetTypes, worker, history
<1>2. CASE RetrieveChunk
  <2>1. PICK S \in SUBSET syncreq : scan' = Over(RowsOf(S), scan) /\ syncreq' = syncreq \ S
    BY <1>2 DEF RetrieveChunk, SetSynced
  <2>2. RowsOf(S) \in Rows
    BY <1>0, RowsOfTyped DEF MasterTypes
  <2>3. scan' \in Rows /\ syncreq' \subseteq Agents
    BY <1>0, <2>1, <2>2, OverRows DEF MasterTypes
  <2>. QED  BY <1>0, <1>2, <2>3 DEF RetrieveChunk, MasterTypes, WorkerTypes, NetTypes, worker, history
<1>3. CASE AgentGroupsUpdate
  <2>1. [kind |-> "syn_g_m_w", hash |-> groups, rows |-> Over(RowsOf(syncreq), scan)] \in Update
    BY <1>0, RowsOfTyped, OverRows DEF MasterTypes, Update
  <2>2. queue' \in Seq(Update) /\ scan' \in Rows /\ syncreq' \subseteq Agents
    <3>1. queue' \in Seq(Update)
      BY <1>0, <1>3, <2>1, AppendFacts DEF AgentGroupsUpdate, MasterTypes
    <3>2. scan' \in Rows /\ syncreq' \subseteq Agents
      BY <1>0, <1>3, NoRowsTyped DEF AgentGroupsUpdate, MasterTypes, SetSynced
    <3>. QED  BY <3>1, <3>2
  <2>. QED  BY <1>0, <1>3, <2>2 DEF AgentGroupsUpdate, MasterTypes, WorkerTypes, NetTypes, worker, history
<1>4. CASE RetrieveFails
  <2>1. faults' \in 0..MaxFaults /\ scan' \in Rows /\ syncreq' \subseteq Agents
    BY <1>0, <1>4, FaultCounted, NoRowsTyped DEF RetrieveFails, MasterTypes, SetSynced
  <2>. QED  BY <1>0, <1>4, <2>1 DEF RetrieveFails, MasterTypes, WorkerTypes, NetTypes, worker, history
<1>5. CASE BroadcastReader
  <2>1. queue' \in Seq(Update) /\ toWorker' \in Seq(Message)
    <3>1. Head(queue) \in Message
      BY <1>0, <1>5, TailFacts DEF BroadcastReader, MasterTypes, Message
    <3>. QED  BY <1>0, <1>5, <3>1, TailFacts, AppendFacts DEF BroadcastReader, MasterTypes, NetTypes
  <2>. QED  BY <1>0, <1>5, <2>1 DEF BroadcastReader, MasterTypes, WorkerTypes, NetTypes, worker, history
<1>6. CASE BroadcastFails
  <2>1. faults' \in 0..MaxFaults /\ queue' \in Seq(Update)
    BY <1>0, <1>6, FaultCounted, TailFacts DEF BroadcastFails, MasterTypes
  <2>. QED  BY <1>0, <1>6, <2>1 DEF BroadcastFails, MasterTypes, WorkerTypes, NetTypes, worker, history
<1>7. CASE SetupSendInfo
  <2>1. Head(toMaster) \in TaskIds /\ toMaster' \in Seq(TaskIds)
    BY <1>0, <1>7, TailFacts DEF SetupSendInfo, NetTypes
  <2>2. [kind |-> "ok", task |-> Head(toMaster)] \in Message
    BY <2>1 DEF Message
  <2>3. [next |-> FirstAgent, rows |-> NoRows] \in Whole
    BY NoRowsTyped, GroupsAssumption DEF Whole, FirstAgent
  <2>4. full' \in Seq(Whole) /\ toWorker' \in Seq(Message)
    BY <1>0, <1>7, <2>2, <2>3, AppendFacts DEF SetupSendInfo, MasterTypes, NetTypes
  <2>. QED  BY <1>0, <1>7, <2>1, <2>4 DEF SetupSendInfo, MasterTypes, WorkerTypes, NetTypes, worker, history
<1>8. ASSUME NEW i \in 1..Len(full), RetrieveAll(i)  PROVE Types'
  <2>0. full[i] \in Whole
    BY <1>0 DEF MasterTypes
  <2>1. PICK last \in full[i].next..NumAgents :
           full' = [full EXCEPT ![i] =
                       [next |-> last + 1, rows |-> Over(RowsOf(full[i].next..last), @.rows)]]
    BY <1>8 DEF RetrieveAll
  <2>2. full[i].next..last \in SUBSET Agents /\ last + 1 \in 1..(NumAgents + 1)
    BY <2>0, GroupsAssumption DEF Whole, Agents
  <2>3. [next |-> last + 1, rows |-> Over(RowsOf(full[i].next..last), full[i].rows)] \in Whole
    BY <1>0, <2>0, <2>2, RowsOfTyped, OverRows DEF Whole, MasterTypes
  <2>4. full' \in Seq(Whole)
    BY <1>0, <2>1, <2>3 DEF MasterTypes
  <2>. QED  BY <1>0, <1>8, <2>4 DEF RetrieveAll, MasterTypes, WorkerTypes, NetTypes, worker, history
<1>9. ASSUME NEW i \in 1..Len(full), SendEntire(i)  PROVE Types'
  <2>1. full[i] \in Whole
    BY <1>0 DEF MasterTypes
  <2>2. [kind |-> "syn_g_m_w_c", hash |-> <<>>, rows |-> full[i].rows] \in Message
    BY <2>1 DEF Whole, Message, Update
  <2>3. full' \in Seq(Whole) /\ toWorker' \in Seq(Message)
    BY <1>0, <1>9, <2>2, WithoutTyped, AppendFacts DEF SendEntire, MasterTypes, NetTypes
  <2>. QED  BY <1>0, <1>9, <2>3 DEF SendEntire, MasterTypes, WorkerTypes, NetTypes, worker, history
<1>10. ASSUME NEW i \in 1..Len(full), SendEntireFails(i)  PROVE Types'
  <2>1. faults' \in 0..MaxFaults /\ full' \in Seq(Whole)
    BY <1>0, <1>10, FaultCounted, WithoutTyped DEF SendEntireFails, MasterTypes
  <2>. QED  BY <1>0, <1>10, <2>1 DEF SendEntireFails, MasterTypes, WorkerTypes, NetTypes, worker, history
<1>. QED  BY <1>1, <1>2, <1>3, <1>4, <1>5, <1>6, <1>7, <1>8, <1>9, <1>10

LEMMA WorkerTyped ==
  ASSUME Types,
         \/ DataReceived \/ SendDataToWdb \/ SendDataFails
         \/ \E t \in TaskIds : CheckTask(t) \/ TaskTimeout(t)
  PROVE  Types'
<1> USE DEF Types
<1>0. MasterTypes /\ WorkerTypes /\ NetTypes
  OBVIOUS
<1>1. UNCHANGED master
  BY DEF DataReceived, SendDataToWdb, SendDataFails, CheckTask, CompareAgentGroupsChecksums,
         CheckAgentGroupsChecksums, Answered, TaskTimeout
<1>2. faults' \in 0..MaxFaults /\ UNCHANGED edits
  BY <1>0, FaultCounted DEF MasterTypes, DataReceived, SendDataToWdb, SendDataFails, CheckTask,
         CompareAgentGroupsChecksums, CheckAgentGroupsChecksums, Answered, TaskTimeout
<1>3. MasterTypes'
  BY <1>0, <1>1, <1>2 DEF master, MasterTypes
<1>4. \A t \in TaskIds, pc \in {"applied", "equal", "differs", "asked", "answered"} :
         At(t, pc) \/ Ended(t) => tasks' \in [TaskIds -> Task]
  <2>1. NoTask \in Task
    BY DEF NoTask, Task
  <2> SUFFICES ASSUME NEW t \in TaskIds,
                      NEW pc \in {"applied", "equal", "differs", "asked", "answered"},
                      At(t, pc) \/ Ended(t)
               PROVE  tasks' \in [TaskIds -> Task]
    OBVIOUS
  <2>2. [tasks[t] EXCEPT !.pc = pc] \in Task
    BY <1>0 DEF WorkerTypes, Task
  <2>3. \E task \in Task : tasks' = [tasks EXCEPT ![t] = task]
    BY <2>1, <2>2 DEF At, Ended
  <2>. QED  BY <1>0, <2>3 DEF WorkerTypes
<1>5. CASE DataReceived
  <2>1. Head(toWorker) \in Message /\ toWorker' \in Seq(Message)
    BY <1>0, <1>5, TailFacts DEF DataReceived, NetTypes
  <2>2. tasks' \in [TaskIds -> Task] /\ pool' \in Seq(Job)
    <3>1. CASE Head(toWorker).kind = "ok"
      <4>1. Head(toWorker).task \in TaskIds
        BY <2>1, <3>1 DEF Message, Update
      <4>. QED  BY <1>0, <1>4, <1>5, <3>1, <4>1 DEF DataReceived, WorkerTypes
    <3>2. CASE Head(toWorker).kind # "ok"
      <4>1. Head(toWorker) \in Update
        BY <2>1, <3>2 DEF Message
      <4>2. PICK t \in TaskIds :
               /\ tasks' = [tasks EXCEPT ![t] = [pc |-> "pool", kind |-> Head(toWorker).kind,
                                                hash |-> Head(toWorker).hash]]
               /\ pool' = Append(pool, [task |-> t, kind |-> Head(toWorker).kind, rows |-> Head(toWorker).rows])
        BY <1>5, <3>2 DEF DataReceived
      <4>3. /\ [pc |-> "pool", kind |-> Head(toWorker).kind, hash |-> Head(toWorker).hash] \in Task
            /\ [task |-> t, kind |-> Head(toWorker).kind, rows |-> Head(toWorker).rows] \in Job
        BY <4>1 DEF Update, Task, Job
      <4>. QED  BY <1>0, <4>2, <4>3, AppendFacts DEF WorkerTypes
    <3>. QED  BY <3>1, <3>2
  <2>. QED  BY <1>0, <1>3, <1>5, <2>1, <2>2 DEF DataReceived, WorkerTypes, NetTypes, history
<1>6. CASE SendDataToWdb \/ SendDataFails
  <2>1. Head(pool) \in Job /\ pool' \in Seq(Job)
    BY <1>0, <1>6, TailFacts DEF SendDataToWdb, SendDataFails, WorkerTypes
  <2>2. Head(pool).rows \in Rows /\ Head(pool).task \in TaskIds \cup {None}
    BY <2>1 DEF Job
  <2>3. table' \in Table
    <3>1. \E rows \in Rows : table' = Over(rows, table)
      BY <1>6, <2>2, SomeRows DEF SendDataToWdb, SendDataFails, Written
    <3>. QED  BY <1>0, <3>1, OverTable DEF WorkerTypes
  <2>4. tasks' \in [TaskIds -> Task]
    BY <1>0, <1>4, <1>6, <2>2 DEF SendDataToWdb, SendDataFails, WorkerTypes
  <2>5. seen' \in Table
    <3>1. CASE seen' = seen
      BY <1>0, <3>1 DEF WorkerTypes
    <3>2. CASE seen' = Newest(Head(pool))
      BY <1>0, <2>2, <3>2, RowsAre DEF Newest, WorkerTypes, Table
    <3>. QED  BY <1>6, <3>1, <3>2 DEF SendDataToWdb, SendDataFails, history
  <2>. QED  BY <1>0, <1>3, <1>6, <2>1, <2>3, <2>4, <2>5
            DEF SendDataToWdb, SendDataFails, WorkerTypes, NetTypes, history
<1>7. ASSUME NEW t \in TaskIds, CheckTask(t) \/ TaskTimeout(t)  PROVE Types'
  <2>1. tasks' \in [TaskIds -> Task]
    BY <1>4, <1>7 DEF CheckTask, CompareAgentGroupsChecksums, CheckAgentGroupsChecksums, Answered, TaskTimeout
  <2>2. mismatches' \in Nat
    BY <1>0, <1>7 DEF CheckTask, CompareAgentGroupsChecksums, CheckAgentGroupsChecksums, Answered, TaskTimeout,
                      NextMismatches, WorkerTypes
  <2>3. toMaster' \in Seq(TaskIds) /\ entire' \in BOOLEAN
    <3>1. \/ toMaster' = toMaster /\ entire' = entire
          \/ toMaster' = Append(toMaster, t) /\ entire' = TRUE
      BY <1>7 DEF CheckTask, CompareAgentGroupsChecksums, CheckAgentGroupsChecksums, Answered,
                  TaskTimeout, history
    <3>2. toMaster' \in Seq(TaskIds)
      BY <1>0, <3>1, AppendFacts DEF NetTypes
    <3>. QED  BY <1>0, <3>1, <3>2, Zenon DEF WorkerTypes
  <2>. QED  BY <1>0, <1>3, <1>7, <2>1, <2>2, <2>3
            DEF CheckTask, CompareAgentGroupsChecksums, CheckAgentGroupsChecksums, Answered, TaskTimeout,
                WorkerTypes, NetTypes, history
<1>. QED  BY <1>5, <1>6, <1>7

LEMMA ConnectionTyped ==
  ASSUME Types, ConnectionLost \/ MasterRestart \/ WorkerRestart \/ Reconnect
  PROVE  Types'
<1> USE DEF Types
<1>0. MasterTypes /\ WorkerTypes /\ NetTypes
  OBVIOUS
<1>1. CASE Reconnect
  BY <1>0, <1>1 DEF Reconnect, master, worker, history, MasterTypes, WorkerTypes, NetTypes
<1>2. CASE ConnectionLost \/ MasterRestart \/ WorkerRestart
  <2>1. Disconnect /\ faults' \in 0..MaxFaults /\ scan' \in Rows
    BY <1>0, <1>2, FaultCounted, NoRowsTyped DEF ConnectionLost, MasterRestart, WorkerRestart, MasterTypes
  <2>2. pool' \in Seq(Job)
    <3>1. pool' = <<>> \/ \E n \in 0..Len(pool) : pool' = Orphans(n)
      BY <1>2 DEF ConnectionLost, MasterRestart, WorkerRestart
    <3>2. pool \in Seq(Job)
      BY <1>0 DEF WorkerTypes
    <3>3. ASSUME NEW n \in 0..Len(pool), pool' = Orphans(n)  PROVE pool' \in Seq(Job)
      BY <3>2, <3>3, OrphansTyped
    <3>4. CASE pool' = <<>>
      BY <3>4
    <3>. QED  BY <3>1, <3>3, <3>4
  <2>3. table' \in Table
    <3>1. CASE table' = table
      BY <1>0, <3>1 DEF WorkerTypes
    <3>2. CASE table' # table
      <4>1. pool # <<>> /\ \E S \in SUBSET DOMAIN Head(pool).rows :
                              table' = Over([a \in S |-> Head(pool).rows[a]], table)
        BY <1>2, <3>2 DEF ConnectionLost, MasterRestart, WorkerRestart, Written
      <4>2. Head(pool).rows \in Rows
        <5>1. Head(pool) \in Job
          BY <1>0, <4>1, TailFacts DEF WorkerTypes
        <5>. QED  BY <5>1 DEF Job
      <4>. QED  BY <1>0, <4>1, <4>2, SomeRows, OverTable DEF WorkerTypes
    <3>. QED  BY <3>1, <3>2
  <2>4. NoTask \in Task
    BY DEF NoTask, Task
  <2>5. MasterTypes'
    BY <1>0, <2>1 DEF Disconnect, MasterTypes
  <2>6. WorkerTypes'
    BY <1>0, <2>1, <2>2, <2>3, <2>4 DEF Disconnect, WorkerTypes, history
  <2>7. NetTypes'
    <3>1. toWorker' = <<>> /\ toMaster' = <<>> /\ connected' = FALSE
      BY <2>1 DEF Disconnect
    <3>2. toWorker' \in Seq(Message) /\ toMaster' \in Seq(TaskIds)
      BY <3>1
    <3>. QED  BY <3>1, <3>2, Zenon DEF NetTypes
  <2>. QED  BY <2>5, <2>6, <2>7
<1>. QED  BY <1>1, <1>2

LEMMA TypesStep == Types /\ [Next]_vars => Types'
<1> SUFFICES ASSUME Types, [Next]_vars  PROVE Types'
  OBVIOUS
<1>1. CASE UNCHANGED vars
  BY <1>1 DEF vars, master, worker, history, Types, MasterTypes, WorkerTypes, NetTypes
<1>2. CASE Next
  BY <1>2, MasterTyped, WorkerTyped, ConnectionTyped, Zenon DEF Next
<1>. QED  BY <1>1, <1>2

(* Types.                                                                  *)
THEOREM TypeCorrect == Spec => []TypeOK
<1>1. Spec => []Types
  BY TypesInit, TypesStep, PTL DEF Spec
<1>. QED  BY <1>1, TypesAre, PTL
-----------------------------------------------------------------------------
(* The order of the broadcasts.                                            *)
Carries(m, a) == m.kind = "syn_g_m_w" /\ a \in DOMAIN m.rows

(* What the messages of s say of the agent a is at least, or at most, v.   *)
From(s, a, v) == \A i \in 1..Len(s) : Carries(s[i], a) => v <= s[i].rows[a]
Upto(s, a, v) == \A i \in 1..Len(s) : Carries(s[i], a) => s[i].rows[a] <= v

Ordered(s, a) ==
    \A i, j \in 1..Len(s) :
        i < j /\ Carries(s[i], a) /\ Carries(s[j], a) => s[i].rows[a] <= s[j].rows[a]

Before(s, t, a) ==
    \A i \in 1..Len(s), j \in 1..Len(t) :
        Carries(s[i], a) /\ Carries(t[j], a) => s[i].rows[a] <= t[j].rows[a]

(* What the next broadcast may say of a, if the table does not change.     *)
Latest(a) == IF a \in DOMAIN scan THEN scan[a] ELSE groups[a]

OrderOf(a) ==
    /\ Ordered(pool, a) /\ Ordered(toWorker, a) /\ Ordered(queue, a)
    /\ Before(pool, toWorker, a) /\ Before(pool, queue, a) /\ Before(toWorker, queue, a)
    /\ From(pool, a, seen[a]) /\ From(toWorker, a, seen[a]) /\ From(queue, a, seen[a])
    /\ Upto(pool, a, Latest(a)) /\ Upto(toWorker, a, Latest(a)) /\ Upto(queue, a, Latest(a))
    /\ seen[a] <= Latest(a) /\ Latest(a) <= groups[a] /\ groups[a] <= edits

Order == \A a \in Agents : OrderOf(a)

(* A message says of an agent a version.                                   *)
Entry == Message \cup Job

LEMMA EntryVersions ==
  ASSUME NEW m \in Entry, NEW a, Carries(m, a)
  PROVE  m.rows[a] \in Nat
<1>1. m \in Update \cup Job
  BY DEF Entry, Message, Carries
<1>2. m.rows \in Rows
  BY <1>1 DEF Update, Job
<1>3. m.rows[a] \in Versions
  BY <1>2, RowsAre DEF Carries
<1>. QED  BY <1>3, GroupsAssumption DEF Versions

(* A message is put at the end, ...                                        *)
LEMMA Appended ==
  ASSUME NEW S \in SUBSET Entry, NEW s \in Seq(S), NEW m \in S, NEW t \in Seq(Entry), NEW a, NEW v \in Nat
  PROVE  /\ Ordered(s, a) /\ (Carries(m, a) => Upto(s, a, m.rows[a])) => Ordered(Append(s, m), a)
         /\ Before(s, t, a) /\ (Carries(m, a) => From(t, a, m.rows[a])) => Before(Append(s, m), t, a)
         /\ Before(t, s, a) /\ (Carries(m, a) => Upto(t, a, m.rows[a])) => Before(t, Append(s, m), a)
         /\ From(s, a, v) /\ (Carries(m, a) => v <= m.rows[a]) => From(Append(s, m), a, v)
         /\ Upto(s, a, v) /\ (Carries(m, a) => m.rows[a] <= v) => Upto(Append(s, m), a, v)
<1>1. /\ Len(Append(s, m)) = Len(s) + 1 /\ Len(s) \in Nat
      /\ \A i \in 1..(Len(s) + 1) : Append(s, m)[i] = IF i = Len(s) + 1 THEN m ELSE s[i]
  BY AppendFacts
<1> DEFINE u == Append(s, m)
<1> HIDE DEF u
<1>2. Ordered(s, a) /\ (Carries(m, a) => Upto(s, a, m.rows[a])) => Ordered(u, a)
  BY <1>1 DEF u, Ordered, Upto
<1>3. Before(s, t, a) /\ (Carries(m, a) => From(t, a, m.rows[a])) => Before(u, t, a)
  BY <1>1 DEF u, Before, From
<1>4. Before(t, s, a) /\ (Carries(m, a) => Upto(t, a, m.rows[a])) => Before(t, u, a)
  BY <1>1 DEF u, Before, Upto
<1>5. From(s, a, v) /\ (Carries(m, a) => v <= m.rows[a]) => From(u, a, v)
  BY <1>1 DEF u, From
<1>6. Upto(s, a, v) /\ (Carries(m, a) => m.rows[a] <= v) => Upto(u, a, v)
  BY <1>1 DEF u, Upto
<1>. QED  BY <1>2, <1>3, <1>4, <1>5, <1>6 DEF u

(* ... or messages are taken away from both ends: t is a part of s.        *)
Part(t, s) ==
    \E d \in Nat :
        /\ Len(t) + d <= Len(s)
        /\ \A i \in 1..Len(t) : t[i].kind = s[i + d].kind /\ t[i].rows = s[i + d].rows

LEMMA PartIsOrdered ==
  ASSUME NEW s \in Seq(Entry), NEW t \in Seq(Entry), Part(t, s), NEW u \in Seq(Entry), NEW a, NEW v
  PROVE  /\ Ordered(s, a) => Ordered(t, a)
         /\ Before(s, u, a) => Before(t, u, a)
         /\ Before(u, s, a) => Before(u, t, a)
         /\ From(s, a, v) => From(t, a, v)
         /\ Upto(s, a, v) => Upto(t, a, v)
<1>1. PICK d \in Nat :
         /\ Len(t) + d <= Len(s)
         /\ \A i \in 1..Len(t) : t[i].kind = s[i + d].kind /\ t[i].rows = s[i + d].rows
  BY DEF Part
<1>2. \A i \in 1..Len(t) :
         i + d \in 1..Len(s) /\ (Carries(t[i], a) <=> Carries(s[i + d], a)) /\ t[i].rows[a] = s[i + d].rows[a]
  BY <1>1 DEF Carries
<1>3. Ordered(s, a) => Ordered(t, a)
  <2> SUFFICES ASSUME Ordered(s, a), NEW i \in 1..Len(t), NEW j \in 1..Len(t),
                      i < j, Carries(t[i], a), Carries(t[j], a)
               PROVE  t[i].rows[a] <= t[j].rows[a]
    BY DEF Ordered
  <2>1. i + d < j + d
    BY <1>1
  <2>. QED  BY <1>2, <2>1 DEF Ordered
<1>4. Before(s, u, a) => Before(t, u, a)
  BY <1>2 DEF Before
<1>5. Before(u, s, a) => Before(u, t, a)
  BY <1>2 DEF Before
<1>6. (From(s, a, v) => From(t, a, v)) /\ (Upto(s, a, v) => Upto(t, a, v))
  BY <1>2 DEF From, Upto
<1>. QED  BY <1>3, <1>4, <1>5, <1>6

LEMMA Parts ==
  ASSUME NEW s \in Seq(Entry)
  PROVE  /\ Part(s, s) /\ Part(<<>>, s)
         /\ s # <<>> => Part(Tail(s), s)
<1>1. Part(s, s) /\ Part(<<>>, s)
  <2>1. \A i \in 1..Len(s) : i + 0 = i
    OBVIOUS
  <2>2. Len(s) + 0 <= Len(s) /\ Len(<<>>) + 0 <= Len(s) /\ 0 \in Nat
    OBVIOUS
  <2>3. \A i \in 1..Len(s) : s[i].kind = s[i + 0].kind /\ s[i].rows = s[i + 0].rows
    BY <2>1
  <2>4. \A i \in 1..Len(<<>>) : FALSE
    OBVIOUS
  <2>. QED  BY <2>2, <2>3, <2>4 DEF Part
<1>2. s # <<>> => Part(Tail(s), s)
  BY TailFacts DEF Part
<1>. QED  BY <1>1, <1>2

(* Later and earlier bounds.                                               *)
LEMMA BoundsMove ==
  ASSUME NEW s \in Seq(Entry), NEW a, NEW v \in Nat, NEW w \in Nat
  PROVE  /\ Upto(s, a, v) /\ v <= w => Upto(s, a, w)
         /\ From(s, a, v) /\ w <= v => From(s, a, w)
<1>1. \A i \in 1..Len(s) : s[i] \in Entry
  OBVIOUS
<1>2. \A i \in 1..Len(s) : Carries(s[i], a) => s[i].rows[a] \in Nat
  BY <1>1, EntryVersions
<1>. QED  BY <1>2 DEF Upto, From

Moves(a) == Latest(a) <= Latest(a)' /\ Latest(a)' <= groups'[a] /\ groups'[a] <= edits'

Numbers ==
    /\ pool \in Seq(Entry) /\ toWorker \in Seq(Entry) /\ queue \in Seq(Entry)
    /\ \A a \in Agents : seen[a] \in Nat /\ groups[a] \in Nat /\ Latest(a) \in Nat

LEMMA OrderTyped == Types => Numbers
<1> SUFFICES ASSUME Types  PROVE Numbers
  OBVIOUS
<1>1. pool \in Seq(Entry) /\ toWorker \in Seq(Entry) /\ queue \in Seq(Entry)
  BY DEF Types, MasterTypes, WorkerTypes, NetTypes, Entry, Message
<1>2. ASSUME NEW a \in Agents
      PROVE  seen[a] \in Nat /\ groups[a] \in Nat /\ Latest(a) \in Nat
  <2>1. Versions \subseteq Nat
    BY GroupsAssumption DEF Versions
  <2>2. seen[a] \in Nat /\ groups[a] \in Nat
    BY <2>1 DEF Types, MasterTypes, WorkerTypes, Table
  <2>3. a \in DOMAIN scan => scan[a] \in Nat
    BY <2>1, RowsAre DEF Types, MasterTypes
  <2>. QED  BY <2>2, <2>3 DEF Latest
<1>. QED  BY <1>1, <1>2 DEF Numbers

(* Whatever is lost, the order is kept.                                    *)
LEMMA OrderKept ==
  ASSUME Types, Types', Order,
         Part(pool', pool), Part(toWorker', toWorker), Part(queue', queue),
         seen' = seen, \A a \in Agents : Moves(a)
  PROVE  Order'
<1> SUFFICES ASSUME NEW a \in Agents  PROVE OrderOf(a)'
  BY DEF Order
<1>1. /\ pool \in Seq(Entry) /\ toWorker \in Seq(Entry) /\ queue \in Seq(Entry)
      /\ pool' \in Seq(Entry) /\ toWorker' \in Seq(Entry) /\ queue' \in Seq(Entry)
      /\ seen[a] \in Nat /\ Latest(a) \in Nat /\ Latest(a)' \in Nat /\ groups'[a] \in Nat
  <2>1. Numbers /\ Numbers'
    BY OrderTyped, PTL
  <2>. QED  BY <2>1 DEF Numbers
<1>2. OrderOf(a) /\ Moves(a)
  BY DEF Order
<1>3. Ordered(pool', a) /\ Ordered(toWorker', a) /\ Ordered(queue', a)
  BY <1>1, <1>2, PartIsOrdered DEF OrderOf
<1>4. Before(pool', toWorker', a)
  <2>1. Before(pool', toWorker, a)
    BY <1>1, <1>2, PartIsOrdered DEF OrderOf
  <2>. QED  BY <1>1, <2>1, PartIsOrdered
<1>5. Before(pool', queue', a)
  <2>1. Before(pool', queue, a)
    BY <1>1, <1>2, PartIsOrdered DEF OrderOf
  <2>. QED  BY <1>1, <2>1, PartIsOrdered
<1>6. Before(toWorker', queue', a)
  <2>1. Before(toWorker', queue, a)
    BY <1>1, <1>2, PartIsOrdered DEF OrderOf
  <2>. QED  BY <1>1, <2>1, PartIsOrdered
<1>7. From(pool', a, seen'[a]) /\ From(toWorker', a, seen'[a]) /\ From(queue', a, seen'[a])
  BY <1>1, <1>2, PartIsOrdered DEF OrderOf
<1>8. Upto(pool', a, Latest(a)') /\ Upto(toWorker', a, Latest(a)') /\ Upto(queue', a, Latest(a)')
  <2>1. Upto(pool', a, Latest(a)) /\ Upto(toWorker', a, Latest(a)) /\ Upto(queue', a, Latest(a))
    BY <1>1, <1>2, PartIsOrdered DEF OrderOf
  <2>. QED  BY <1>1, <1>2, <2>1, BoundsMove DEF Moves
<1>9. seen'[a] <= Latest(a)'
  BY <1>1, <1>2 DEF OrderOf, Moves
<1>. QED  BY <1>2, <1>3, <1>4, <1>5, <1>6, <1>7, <1>8, <1>9 DEF OrderOf, Moves

LEMMA Unmoved ==
  ASSUME Types, Order, NEW a \in Agents, UNCHANGED <<groups, scan, edits>>
  PROVE  Moves(a)
<1>1. Latest(a)' = Latest(a) /\ Latest(a) <= groups[a] /\ groups[a] <= edits /\ Latest(a) \in Nat
  BY OrderTyped DEF Numbers, Order, OrderOf, Latest
<1>. QED  BY <1>1 DEF Moves

(* The master reads its table, and what it reads is not lost yet.          *)
LEMMA ScanMoves ==
  ASSUME Types, Types', Order, NEW a \in Agents,
         \/ \E b \in Agents : SetAgentGroups(b)
         \/ RetrieveChunk \/ RetrieveFails \/ AgentGroupsUpdate
  PROVE  Moves(a)
<1>1. groups[a] \in Nat /\ Latest(a) \in Nat /\ Latest(a) <= groups[a] /\ groups[a] <= edits /\ edits \in Nat
  BY OrderTyped, GroupsAssumption DEF Numbers, Order, OrderOf, Types, MasterTypes
<1>2. CASE \E b \in Agents : SetAgentGroups(b)
  BY <1>1, <1>2 DEF SetAgentGroups, Moves, Latest, Types, MasterTypes, Table
<1>3. CASE RetrieveChunk
  <2>1. PICK S \in SUBSET syncreq : scan' = Over(RowsOf(S), scan)
    BY <1>3 DEF RetrieveChunk
  <2>2. a \in S => RowsOf(S)[a] = groups[a]
    BY RowsOfTyped DEF Types, MasterTypes
  <2>3. Latest(a)' = IF a \in S THEN groups[a] ELSE Latest(a)
    <3>1. /\ RowsOf(S) \in Rows /\ DOMAIN RowsOf(S) = S /\ scan \in Rows
      BY RowsOfTyped DEF Types, MasterTypes
    <3>2. /\ DOMAIN scan' = S \cup DOMAIN scan
          /\ a \in S => scan'[a] = groups[a]
          /\ a \notin S /\ a \in DOMAIN scan => scan'[a] = scan[a]
      BY <2>1, <2>2, <3>1, OverRows
    <3>. QED  BY <1>3, <3>2 DEF RetrieveChunk, Latest
  <2>. QED  BY <1>1, <1>3, <2>3 DEF RetrieveChunk, Moves
<1>4. CASE RetrieveFails \/ AgentGroupsUpdate
  BY <1>1, <1>4, NoRowsTyped DEF RetrieveFails, AgentGroupsUpdate, Moves, Latest
<1>. QED  BY <1>2, <1>3, <1>4

(* The steps that add nothing to a sequence, or take away from it.         *)
LEMMA LossesKeepOrder ==
  ASSUME Types, Types', Order,
         \/ \E a \in Agents : SetAgentGroups(a)
         \/ RetrieveChunk \/ RetrieveFails \/ BroadcastFails
         \/ \E i \in 1..Len(full) : RetrieveAll(i) \/ SendEntireFails(i)
         \/ DataReceived /\ Head(toWorker).kind = "ok"
         \/ SendDataFails
         \/ \E t \in TaskIds : CheckTask(t) \/ TaskTimeout(t)
         \/ ConnectionLost \/ MasterRestart \/ WorkerRestart \/ Reconnect
  PROVE  Order'
<1>1. pool \in Seq(Entry) /\ toWorker \in Seq(Entry) /\ queue \in Seq(Entry)
  BY OrderTyped DEF Numbers
<1>2. /\ Part(pool, pool) /\ Part(toWorker, toWorker) /\ Part(queue, queue)
      /\ Part(<<>>, pool) /\ Part(<<>>, toWorker) /\ Part(<<>>, queue)
  BY <1>1, Parts
<1>3. CASE \/ \E a \in Agents : SetAgentGroups(a)
           \/ RetrieveChunk \/ RetrieveFails
  <2>1. UNCHANGED <<pool, toWorker, queue, seen>>
    BY <1>3 DEF SetAgentGroups, RetrieveChunk, RetrieveFails, worker, history
  <2>. QED  BY <1>2, <1>3, <2>1, ScanMoves, OrderKept
<1>4. CASE BroadcastFails \/ SendDataFails \/ (DataReceived /\ Head(toWorker).kind = "ok")
  <2>1. /\ UNCHANGED <<groups, scan, edits, seen>>
        /\ \/ UNCHANGED <<pool, toWorker>> /\ queue # <<>> /\ queue' = Tail(queue)
           \/ UNCHANGED <<queue, toWorker>> /\ pool # <<>> /\ pool' = Tail(pool)
           \/ UNCHANGED <<pool, queue>> /\ toWorker # <<>> /\ toWorker' = Tail(toWorker)
    BY <1>4 DEF BroadcastFails, SendDataFails, DataReceived, master, worker, history
  <2>2. Part(pool', pool) /\ Part(toWorker', toWorker) /\ Part(queue', queue)
    BY <1>1, <1>2, <2>1, Parts
  <2>. QED  BY <2>1, <2>2, Unmoved, OrderKept
<1>5. CASE \/ \E i \in 1..Len(full) : RetrieveAll(i) \/ SendEntireFails(i)
           \/ \E t \in TaskIds : CheckTask(t) \/ TaskTimeout(t)
           \/ Reconnect
  <2>1. UNCHANGED <<groups, scan, edits, seen, pool, toWorker, queue>>
    BY <1>5 DEF RetrieveAll, SendEntireFails, CheckTask, CompareAgentGroupsChecksums,
                CheckAgentGroupsChecksums, Answered, TaskTimeout, Reconnect, master, worker, history
  <2>. QED  BY <1>2, <2>1, Unmoved, OrderKept
<1>6. CASE ConnectionLost \/ MasterRestart \/ WorkerRestart
  <2>1. /\ queue' = <<>> /\ toWorker' = <<>> /\ UNCHANGED <<groups, edits, seen>>
        /\ scan' = scan \/ scan' = NoRows
        /\ pool' = <<>> \/ \E n \in 0..Len(pool) : pool' = Orphans(n)
    BY <1>6 DEF ConnectionLost, MasterRestart, WorkerRestart, Disconnect, history
  <2>2. Part(pool', pool)
    <3>1. CASE pool' = <<>>
      BY <1>2, <3>1
    <3>2. ASSUME NEW n \in 0..Len(pool), pool' = Orphans(n)  PROVE Part(pool', pool)
      <4>1. pool \in Seq(Job)
        BY DEF Types, WorkerTypes
      <4>2. /\ Len(pool') = n
            /\ \A i \in 1..n : pool'[i].kind = pool[i].kind /\ pool'[i].rows = pool[i].rows
        BY <3>2, <4>1, OrphansTyped
      <4>3. Len(pool') + 0 <= Len(pool) /\ 0 \in Nat /\ \A i \in 1..Len(pool') : i + 0 = i
        BY <4>2
      <4>4. \A i \in 1..Len(pool') : pool'[i].kind = pool[i + 0].kind /\ pool'[i].rows = pool[i + 0].rows
        BY <4>2, <4>3
      <4>. QED  BY <4>3, <4>4 DEF Part
    <3>. QED  BY <2>1, <3>1, <3>2
  <2>3. ASSUME NEW a \in Agents  PROVE Moves(a)
    <3>1. /\ Latest(a) <= groups[a] /\ groups[a] <= edits /\ Latest(a) \in Nat /\ groups[a] \in Nat
      BY OrderTyped DEF Order, OrderOf, Numbers
    <3>. QED  BY <2>1, <3>1, NoRowsTyped DEF Moves, Latest
  <2>4. Part(toWorker', toWorker) /\ Part(queue', queue) /\ seen' = seen
    BY <1>2, <2>1
  <2>. QED  BY <2>2, <2>3, <2>4, OrderKept
<1>. QED  BY <1>3, <1>4, <1>5, <1>6

(* The steps that put something at the end of a sequence.                  *)
LEMMA UpdateKeepsOrder ==
  ASSUME Types, Types', Order, AgentGroupsUpdate
  PROVE  Order'
<1> SUFFICES ASSUME NEW a \in Agents  PROVE OrderOf(a)'
  BY DEF Order
<1>1. /\ pool \in Seq(Entry) /\ toWorker \in Seq(Entry) /\ queue \in Seq(Entry)
      /\ seen[a] \in Nat /\ groups[a] \in Nat /\ Latest(a) \in Nat
  BY OrderTyped DEF Numbers
<1>2. OrderOf(a) /\ Moves(a)
  BY ScanMoves DEF Order
<1>3. UNCHANGED <<groups, pool, toWorker, seen, edits>> /\ scan' = NoRows
  BY DEF AgentGroupsUpdate, worker, history
<1>4. Latest(a)' = groups[a]
  BY <1>3, NoRowsTyped DEF Latest
<1>5. Upto(pool, a, groups[a]) /\ Upto(toWorker, a, groups[a]) /\ Upto(queue, a, groups[a])
  BY <1>1, <1>2, <1>4, BoundsMove DEF OrderOf, Moves
<1>6. seen[a] <= groups[a]
  BY <1>1, <1>2 DEF OrderOf
<1>7. CASE queue' = queue
  BY <1>2, <1>3, <1>4, <1>5, <1>6, <1>7, <1>1 DEF OrderOf
<1>8. CASE queue' # queue
  <2> DEFINE m == [kind |-> "syn_g_m_w", hash |-> groups, rows |-> Over(RowsOf(syncreq), scan)]
  <2>1. queue' = Append(queue, m)
    BY <1>8 DEF AgentGroupsUpdate
  <2>2. /\ RowsOf(syncreq) \in Rows /\ DOMAIN RowsOf(syncreq) = syncreq /\ scan \in Rows
        /\ a \in syncreq => RowsOf(syncreq)[a] = groups[a]
    BY RowsOfTyped DEF Types, MasterTypes
  <2>3. m \in Update
    BY <2>2, OverRows DEF Types, MasterTypes, Update
  <2>4. m \in Entry
    BY <2>3 DEF Entry, Message
  <2>5. Carries(m, a) => m.rows[a] \in {groups[a], Latest(a)}
    <3>1. /\ DOMAIN m.rows = syncreq \cup DOMAIN scan
          /\ \A b \in syncreq \cup DOMAIN scan :
                m.rows[b] = IF b \in syncreq THEN RowsOf(syncreq)[b] ELSE scan[b]
      <4>1. m.rows = Over(RowsOf(syncreq), scan)
        OBVIOUS
      <4>. QED  BY <2>2, <4>1, OverRows
    <3>. QED  BY <2>2, <3>1 DEF Carries, Latest
  <2> HIDE DEF m
  <2>6. Carries(m, a) => /\ Upto(pool, a, m.rows[a]) /\ Upto(toWorker, a, m.rows[a]) /\ Upto(queue, a, m.rows[a])
                         /\ seen[a] <= m.rows[a] /\ m.rows[a] <= groups[a]
    BY <1>1, <1>2, <1>5, <1>6, <2>5 DEF OrderOf
  <2>7. Entry \in SUBSET Entry
    OBVIOUS
  <2>8. Ordered(queue', a) /\ From(queue', a, seen[a]) /\ Upto(queue', a, groups[a])
    BY <1>1, <1>2, <1>5, <2>1, <2>4, <2>6, <2>7, Appended DEF OrderOf
  <2>9. Before(pool, queue', a) /\ Before(toWorker, queue', a)
    BY <1>1, <1>2, <2>1, <2>4, <2>6, <2>7, Appended DEF OrderOf
  <2>. QED  BY <1>1, <1>2, <1>3, <1>4, <1>5, <1>6, <2>8, <2>9 DEF OrderOf
<1>. QED  BY <1>7, <1>8

(* A message that says nothing of versions.                                *)
LEMMA SilentKeepsOrder ==
  ASSUME Types, Types', Order,
         SetupSendInfo \/ \E i \in 1..Len(full) : SendEntire(i)
  PROVE  Order'
<1> SUFFICES ASSUME NEW a \in Agents  PROVE OrderOf(a)'
  BY DEF Order
<1>1. /\ pool \in Seq(Entry) /\ toWorker \in Seq(Entry) /\ queue \in Seq(Entry)
      /\ seen[a] \in Nat /\ groups[a] \in Nat /\ Latest(a) \in Nat
      /\ OrderOf(a)
  BY OrderTyped DEF Numbers, Order
<1>2. UNCHANGED <<groups, scan, pool, queue, seen, edits>>
  BY DEF SetupSendInfo, SendEntire, worker, history
<1>3. \E m \in Entry : toWorker' = Append(toWorker, m) /\ m.kind # "syn_g_m_w"
  <2>1. CASE SetupSendInfo
    <3>1. Head(toMaster) \in TaskIds
      BY <2>1, TailFacts DEF SetupSendInfo, Types, NetTypes
    <3>2. [kind |-> "ok", task |-> Head(toMaster)] \in Entry
      BY <3>1 DEF Entry, Message
    <3>. QED  BY <2>1, <3>2 DEF SetupSendInfo
  <2>2. ASSUME NEW i \in 1..Len(full), SendEntire(i)
        PROVE  \E m \in Entry : toWorker' = Append(toWorker, m) /\ m.kind # "syn_g_m_w"
    <3>1. full[i] \in Whole
      BY DEF Types, MasterTypes
    <3>2. [kind |-> "syn_g_m_w_c", hash |-> <<>>, rows |-> full[i].rows] \in Entry
      BY <3>1 DEF Whole, Entry, Message, Update
    <3>. QED  BY <2>2, <3>2 DEF SendEntire
  <2>. QED  BY <2>1, <2>2
<1>4. PICK m \in Entry : toWorker' = Append(toWorker, m) /\ ~Carries(m, a)
  BY <1>3 DEF Carries
<1>5. Entry \in SUBSET Entry
  OBVIOUS
<1>6. /\ Ordered(toWorker', a) /\ From(toWorker', a, seen[a]) /\ Upto(toWorker', a, Latest(a))
      /\ Before(toWorker', queue, a) /\ Before(pool, toWorker', a)
  BY <1>1, <1>4, <1>5, Appended DEF OrderOf
<1>. QED  BY <1>1, <1>2, <1>6 DEF OrderOf, Latest

(* The head of a sequence is older than the rest of it.                    *)
LEMMA HeadIsFirst ==
  ASSUME NEW s \in Seq(Entry), s # <<>>, NEW t \in Seq(Entry), NEW a, NEW v
  PROVE  /\ Head(s) \in Entry
         /\ Ordered(s, a) /\ Carries(Head(s), a) => From(Tail(s), a, Head(s).rows[a])
         /\ Before(s, t, a) /\ Carries(Head(s), a) => From(t, a, Head(s).rows[a])
         /\ Before(t, s, a) /\ Carries(Head(s), a) => Upto(t, a, Head(s).rows[a])
         /\ From(s, a, v) /\ Carries(Head(s), a) => v <= Head(s).rows[a]
         /\ Upto(s, a, v) /\ Carries(Head(s), a) => Head(s).rows[a] <= v
<1>1. /\ Head(s) \in Entry /\ Head(s) = s[1] /\ 1 \in 1..Len(s) /\ Len(Tail(s)) = Len(s) - 1
      /\ \A i \in 1..(Len(s) - 1) : Tail(s)[i] = s[i + 1] /\ i + 1 \in 1..Len(s) /\ 1 < i + 1
  BY TailFacts
<1>2. Ordered(s, a) /\ Carries(Head(s), a) => From(Tail(s), a, Head(s).rows[a])
  BY <1>1 DEF Ordered, From
<1>3. /\ Before(s, t, a) /\ Carries(Head(s), a) => From(t, a, Head(s).rows[a])
      /\ Before(t, s, a) /\ Carries(Head(s), a) => Upto(t, a, Head(s).rows[a])
      /\ From(s, a, v) /\ Carries(Head(s), a) => v <= Head(s).rows[a]
      /\ Upto(s, a, v) /\ Carries(Head(s), a) => Head(s).rows[a] <= v
  BY <1>1 DEF Before, From, Upto
<1>. QED  BY <1>1, <1>2, <1>3

LEMMA ReaderKeepsOrder ==
  ASSUME Types, Types', Order, BroadcastReader
  PROVE  Order'
<1> SUFFICES ASSUME NEW a \in Agents  PROVE OrderOf(a)'
  BY DEF Order
<1>1. /\ pool \in Seq(Entry) /\ toWorker \in Seq(Entry) /\ queue \in Seq(Entry)
      /\ seen[a] \in Nat /\ groups[a] \in Nat /\ Latest(a) \in Nat
      /\ OrderOf(a)
  BY OrderTyped DEF Numbers, Order
<1>2. /\ UNCHANGED <<groups, scan, pool, seen, edits>>
      /\ queue # <<>> /\ queue' = Tail(queue) /\ toWorker' = Append(toWorker, Head(queue))
  BY DEF BroadcastReader, worker, history
<1> DEFINE m == Head(queue)
<1>3. m \in Entry /\ Entry \in SUBSET Entry /\ Part(queue', queue) /\ queue' \in Seq(Entry)
  BY <1>1, <1>2, HeadIsFirst, Parts, TailFacts
<1>4. /\ Ordered(queue', a) /\ Before(pool, queue', a) /\ Before(toWorker, queue', a)
      /\ From(queue', a, seen[a]) /\ Upto(queue', a, Latest(a))
  BY <1>1, <1>3, PartIsOrdered DEF OrderOf
<1>5. Carries(m, a) => /\ From(queue', a, m.rows[a])
                       /\ Upto(pool, a, m.rows[a]) /\ Upto(toWorker, a, m.rows[a])
                       /\ seen[a] <= m.rows[a] /\ m.rows[a] <= Latest(a)
  BY <1>1, <1>2, HeadIsFirst DEF OrderOf
<1> HIDE DEF m
<1>6. /\ Ordered(toWorker', a) /\ From(toWorker', a, seen[a]) /\ Upto(toWorker', a, Latest(a))
      /\ Before(pool, toWorker', a)
  BY <1>1, <1>2, <1>3, <1>5, Appended DEF OrderOf, m
<1>7. Before(toWorker', queue', a)
  BY <1>1, <1>2, <1>3, <1>4, <1>5, Appended DEF m
<1>. QED  BY <1>1, <1>2, <1>4, <1>6, <1>7 DEF OrderOf, Latest

LEMMA ReceptionKeepsOrder ==
  ASSUME Types, Types', Order, DataReceived, Head(toWorker).kind # "ok"
  PROVE  Order'
<1> SUFFICES ASSUME NEW a \in Agents  PROVE OrderOf(a)'
  BY DEF Order
<1>1. /\ pool \in Seq(Entry) /\ toWorker \in Seq(Entry) /\ queue \in Seq(Entry)
      /\ seen[a] \in Nat /\ groups[a] \in Nat /\ Latest(a) \in Nat
      /\ OrderOf(a)
  BY OrderTyped DEF Numbers, Order
<1>2. /\ UNCHANGED <<groups, scan, queue, seen, edits>>
      /\ toWorker # <<>> /\ toWorker' = Tail(toWorker)
  BY DEF DataReceived, master, history
<1> DEFINE m == Head(toWorker)
<1>3. m \in Entry /\ Entry \in SUBSET Entry /\ Part(toWorker', toWorker) /\ toWorker' \in Seq(Entry)
  BY <1>1, <1>2, HeadIsFirst, Parts, TailFacts
<1>4. PICK j \in Entry : pool' = Append(pool, j) /\ j.kind = m.kind /\ j.rows = m.rows
  <2>1. m \in Update
    <3>1. m \in Message
      BY <1>2, TailFacts DEF Types, NetTypes
    <3>. QED  BY <3>1 DEF Message
  <2>2. PICK t \in TaskIds : pool' = Append(pool, [task |-> t, kind |-> m.kind, rows |-> m.rows])
    BY DEF DataReceived
  <2>3. [task |-> t, kind |-> m.kind, rows |-> m.rows] \in Entry
    BY <2>1 DEF Update, Job, Entry
  <2>. QED  BY <2>2, <2>3
<1>5. /\ Ordered(toWorker', a) /\ Before(pool, toWorker', a) /\ Before(toWorker', queue, a)
      /\ From(toWorker', a, seen[a]) /\ Upto(toWorker', a, Latest(a))
  BY <1>1, <1>3, PartIsOrdered DEF OrderOf
<1>6. Carries(m, a) => /\ From(toWorker', a, m.rows[a]) /\ From(queue, a, m.rows[a])
                       /\ Upto(pool, a, m.rows[a])
                       /\ seen[a] <= m.rows[a] /\ m.rows[a] <= Latest(a)
  BY <1>1, <1>2, HeadIsFirst DEF OrderOf
<1>7. Carries(j, a) => Carries(m, a) /\ j.rows[a] = m.rows[a]
  BY <1>4 DEF Carries
<1> HIDE DEF m
<1>8. /\ Ordered(pool', a) /\ From(pool', a, seen[a]) /\ Upto(pool', a, Latest(a))
      /\ Before(pool', queue, a)
  BY <1>1, <1>3, <1>4, <1>6, <1>7, Appended DEF OrderOf
<1>9. Before(pool', toWorker', a)
  BY <1>1, <1>3, <1>4, <1>5, <1>6, <1>7, Appended
<1>. QED  BY <1>1, <1>2, <1>5, <1>8, <1>9 DEF OrderOf, Latest

LEMMA WriteKeepsOrder ==
  ASSUME Types, Types', Order, SendDataToWdb
  PROVE  Order'
<1> SUFFICES ASSUME NEW a \in Agents  PROVE OrderOf(a)'
  BY DEF Order
<1>1. /\ pool \in Seq(Entry) /\ toWorker \in Seq(Entry) /\ queue \in Seq(Entry)
      /\ seen[a] \in Nat /\ groups[a] \in Nat /\ Latest(a) \in Nat
      /\ OrderOf(a)
  BY OrderTyped DEF Numbers, Order
<1>2. /\ UNCHANGED <<groups, scan, queue, toWorker, edits>>
      /\ pool # <<>> /\ pool' = Tail(pool) /\ seen' = Newest(Head(pool))
  BY DEF SendDataToWdb, master
<1>3. Part(pool', pool) /\ pool' \in Seq(Entry)
  BY <1>1, <1>2, Parts, TailFacts
<1>4. /\ Ordered(pool', a) /\ Before(pool', toWorker, a) /\ Before(pool', queue, a)
      /\ From(pool', a, seen[a]) /\ Upto(pool', a, Latest(a))
  BY <1>1, <1>3, PartIsOrdered DEF OrderOf
<1> DEFINE m == Head(pool)
<1>5. Carries(m, a) => /\ From(pool', a, m.rows[a]) /\ From(toWorker, a, m.rows[a]) /\ From(queue, a, m.rows[a])
                       /\ seen[a] <= m.rows[a] /\ m.rows[a] <= Latest(a)
  BY <1>1, <1>2, HeadIsFirst DEF OrderOf
<1>6. seen'[a] = IF Carries(m, a) /\ m.rows[a] > seen[a] THEN m.rows[a] ELSE seen[a]
  BY <1>2 DEF Newest, Carries
<1> HIDE DEF m
<1>7. /\ From(pool', a, seen'[a]) /\ From(toWorker, a, seen'[a]) /\ From(queue, a, seen'[a])
      /\ seen'[a] <= Latest(a)
  BY <1>1, <1>4, <1>5, <1>6 DEF OrderOf
<1>. QED  BY <1>1, <1>2, <1>4, <1>7 DEF OrderOf, Latest

LEMMA OrderInit == Init => Order
<1> SUFFICES ASSUME Init, NEW a \in Agents  PROVE OrderOf(a)
  BY DEF Order
<1>1. /\ pool = <<>> /\ toWorker = <<>> /\ queue = <<>>
      /\ groups[a] = 0 /\ seen[a] = 0 /\ edits = 0 /\ scan = NoRows
  BY DEF Init
<1>2. Latest(a) = 0
  BY <1>1, NoRowsTyped DEF Latest
<1>. QED  BY <1>1, <1>2 DEF OrderOf, Ordered, Before, From, Upto

LEMMA OrderStep == Types /\ Types' /\ Order /\ [Next]_vars => Order'
<1> SUFFICES ASSUME Types, Types', Order, [Next]_vars  PROVE Order'
  OBVIOUS
<1>1. CASE UNCHANGED vars
  BY <1>1 DEF vars, master, worker, history, Order, OrderOf, Latest
<1>2. CASE Next
  BY <1>2, LossesKeepOrder, UpdateKeepsOrder, SilentKeepsOrder, ReaderKeepsOrder, ReceptionKeepsOrder,
     WriteKeepsOrder, Zenon DEF Next
<1>. QED  BY <1>1, <1>2

LEMMA OrderAlways == Spec => [](Types /\ Order)
BY TypesInit, TypesStep, OrderInit, OrderStep, PTL DEF Spec

(* cluster/master.py, cluster/worker.py: in whatever way broadcasts are    *)
(* lost, connections break and daemons start again, no broadcast is applied*)
(* after one that brought a newer version of the same row.                 *)
THEOREM BroadcastsAreInOrder == Spec => BroadcastsInOrder
<1>1. ASSUME Types, Order, NEW i \in 1..Len(pool), pool[i].kind = "syn_g_m_w", NEW a \in DOMAIN pool[i].rows
      PROVE  pool[i].rows[a] >= seen[a]
  <2>1. pool[i].rows \in Rows
    <3>1. pool[i] \in Job
      BY <1>1 DEF Types, WorkerTypes
    <3>. QED  BY <3>1 DEF Job
  <2>2. a \in Agents
    BY <2>1, RowsAre
  <2>3. From(pool, a, seen[a]) /\ seen[a] \in Nat /\ pool[i].rows[a] \in Nat
    <3>1. pool[i] \in Entry
      BY <1>1, OrderTyped DEF Numbers
    <3>. QED  BY <1>1, <2>2, <3>1, OrderTyped, EntryVersions DEF Order, OrderOf, Numbers, Carries
  <2>. QED  BY <1>1, <2>3 DEF From, Carries
<1>2. Types /\ Order => \A i \in 1..Len(pool) :
          pool[i].kind = "syn_g_m_w" /\ pool' = Tail(pool) /\ i = 1 =>
              \A a \in DOMAIN pool[i].rows : pool[i].rows[a] >= seen[a]
  BY <1>1
<1>. QED  BY <1>2, OrderAlways, PTL DEF BroadcastsInOrder
-----------------------------------------------------------------------------
(* No change is lost.                                                      *)
Plain(s) == \A i \in 1..Len(s) : s[i].kind = "syn_g_m_w"

(* Without faults and without a request for the whole table there are      *)
(* broadcasts only, and the worker's table is what they brought.           *)
Quiet ==
    /\ Plain(queue)
    /\ faults = 0 => connected
    /\ ~entire => full = <<>> /\ toMaster = <<>> /\ Plain(toWorker) /\ Plain(pool)
    /\ faults = 0 /\ ~entire => table = seen

Holds(s, a) == \E i \in 1..Len(s) : s[i].kind # "ok" /\ Brings(s[i].rows, a)

NotLost(a) ==
    \/ table[a] = groups[a] \/ a \in syncreq \/ Brings(scan, a)
    \/ Holds(queue, a) \/ Holds(toWorker, a) \/ Holds(pool, a)

Kept == Quiet /\ (faults = 0 /\ ~entire => \A a \in Agents : NotLost(a))

LEMMA KeptIsNotLost ==
  ASSUME Types, Kept
  PROVE  ChangesAreNotLost
<1> SUFFICES ASSUME faults = 0, ~entire, NEW a \in Agents, ~(table[a] = groups[a] \/ a \in syncreq \/ Brings(scan, a))
             PROVE  \/ \E i \in 1..Len(queue) : Brings(queue[i].rows, a)
                    \/ \E i \in 1..Len(toWorker) : toWorker[i].kind # "ok" /\ Brings(toWorker[i].rows, a)
                    \/ \E i \in 1..Len(pool) : Brings(pool[i].rows, a)
  BY DEF ChangesAreNotLost
<1>. QED  BY DEF Kept, NotLost, Holds

LEMMA PlainSequences ==
  ASSUME NEW S, NEW s \in Seq(S), NEW m \in S
  PROVE  /\ Plain(s) /\ m.kind = "syn_g_m_w" => Plain(Append(s, m))
         /\ s # <<>> /\ Plain(s) => Plain(Tail(s)) /\ Head(s).kind = "syn_g_m_w"
<1>1. Plain(s) /\ m.kind = "syn_g_m_w" => Plain(Append(s, m))
  BY AppendFacts DEF Plain
<1>2. s # <<>> /\ Plain(s) => Plain(Tail(s)) /\ Head(s).kind = "syn_g_m_w"
  <2> SUFFICES ASSUME s # <<>>, Plain(s)  PROVE Plain(Tail(s)) /\ Head(s).kind = "syn_g_m_w"
    OBVIOUS
  <2>1. /\ Head(s) = s[1] /\ 1 \in 1..Len(s) /\ Len(Tail(s)) = Len(s) - 1
        /\ \A i \in 1..(Len(s) - 1) : Tail(s)[i] = s[i + 1] /\ i + 1 \in 1..Len(s)
    BY TailFacts
  <2>. QED  BY <2>1 DEF Plain
<1>. QED  BY <1>1, <1>2

(* Where a change is, when a sequence grows or gives away its head.        *)
LEMMA HoldsMoves ==
  ASSUME NEW S, NEW s \in Seq(S), NEW m \in S, NEW a
  PROVE  /\ Holds(s, a) => Holds(Append(s, m), a)
         /\ m.kind # "ok" /\ Brings(m.rows, a) => Holds(Append(s, m), a)
         /\ s # <<>> /\ Holds(s, a) =>
               Holds(Tail(s), a) \/ (Head(s).kind # "ok" /\ Brings(Head(s).rows, a))
<1>1. Holds(s, a) => Holds(Append(s, m), a)
  BY AppendFacts DEF Holds
<1>2. m.kind # "ok" /\ Brings(m.rows, a) => Holds(Append(s, m), a)
  <2>1. Append(s, m)[Len(s) + 1] = m /\ Len(s) + 1 \in 1..Len(Append(s, m))
    BY AppendFacts
  <2>. QED  BY <2>1 DEF Holds
<1>3. ASSUME s # <<>>, Holds(s, a)
      PROVE  Holds(Tail(s), a) \/ (Head(s).kind # "ok" /\ Brings(Head(s).rows, a))
  <2>1. PICK i \in 1..Len(s) : s[i].kind # "ok" /\ Brings(s[i].rows, a)
    BY <1>3 DEF Holds
  <2>2. CASE i = 1
    BY <1>3, <2>1, <2>2, TailFacts
  <2>3. CASE i # 1
    <3>1. i - 1 \in 1..Len(Tail(s)) /\ Tail(s)[i - 1] = s[i]
      BY <1>3, <2>3, TailFacts
    <3>. QED  BY <2>1, <3>1 DEF Holds
  <2>. QED  BY <2>2, <2>3
<1>. QED  BY <1>1, <1>2, <1>3

LEMMA KeptInit == Init => Kept
<1> SUFFICES ASSUME Init  PROVE Quiet /\ \A a \in Agents : NotLost(a)
  BY DEF Kept
<1>. QED  BY DEF Init, Quiet, Plain, NotLost

LEMMA SequencesTyped == Types => /\ pool \in Seq(Job) /\ toWorker \in Seq(Message) /\ queue \in Seq(Update)
                                /\ full \in Seq(Whole) /\ toMaster \in Seq(TaskIds)
BY DEF Types, MasterTypes, WorkerTypes, NetTypes

(* The job that the pool does brings nothing old.                          *)
LEMMA WriteIsNew ==
  ASSUME Types, Order, Kept, SendDataToWdb, faults = 0, ~entire
  PROVE  /\ table' = seen'
         /\ \A a \in Agents : table[a] = groups[a] \/ Brings(Head(pool).rows, a) => table'[a] = groups[a]
<1> DEFINE job == Head(pool)
<1>1. /\ pool # <<>> /\ pool \in Seq(Job) /\ Plain(pool) /\ table = seen /\ seen \in Table
      /\ table' = Over(job.rows, table) /\ seen' = Newest(job)
  BY DEF Types, WorkerTypes, Kept, Quiet, SendDataToWdb, Written
<1>2. job \in Job /\ job.kind = "syn_g_m_w"
  BY <1>1, TailFacts, PlainSequences
<1>3. job.rows \in Rows
  BY <1>2 DEF Job
<1>4. /\ table' \in Table
      /\ \A a \in Agents : table'[a] = IF a \in DOMAIN job.rows THEN job.rows[a] ELSE seen[a]
  BY <1>1, <1>3, OverTable
<1>5. ASSUME NEW a \in Agents, a \in DOMAIN job.rows
      PROVE  /\ seen[a] <= job.rows[a] /\ job.rows[a] <= groups[a]
             /\ seen[a] \in Nat /\ groups[a] \in Nat /\ job.rows[a] \in Nat
  <2>1. /\ OrderOf(a) /\ pool \in Seq(Entry) /\ seen[a] \in Nat /\ groups[a] \in Nat /\ Latest(a) \in Nat
    BY OrderTyped DEF Order, Numbers
  <2>2. Carries(job, a) /\ job \in Entry
    BY <1>2, <1>5 DEF Carries, Entry
  <2>3. job.rows[a] \in Nat
    BY <2>2, EntryVersions
  <2>4. seen[a] <= job.rows[a] /\ job.rows[a] <= Latest(a)
    BY <1>1, <2>1, <2>2, HeadIsFirst DEF OrderOf
  <2>. QED  BY <2>1, <2>3, <2>4 DEF OrderOf
<1> HIDE DEF job
<1>6. \A a \in Agents : seen'[a] = IF a \in DOMAIN job.rows THEN job.rows[a] ELSE seen[a]
  BY <1>1, <1>2, <1>5 DEF Newest
<1>7. table' = seen'
  <2>1. seen' = [a \in Agents |-> seen'[a]]
    BY <1>1, <1>2 DEF Newest
  <2>2. table' = [a \in Agents |-> table'[a]]
    BY <1>4 DEF Table
  <2>. QED  BY <1>4, <1>6, <2>1, <2>2
<1>8. ASSUME NEW a \in Agents, table[a] = groups[a] \/ Brings(job.rows, a)  PROVE table'[a] = groups[a]
  BY <1>1, <1>4, <1>5, <1>8 DEF Brings
<1>. QED  BY <1>7, <1>8 DEF job

LEMMA QuietStep ==
  ASSUME Types, Order, Kept, Next
  PROVE  Quiet'
<1>1. /\ pool \in Seq(Job) /\ toWorker \in Seq(Message) /\ queue \in Seq(Update) /\ Quiet /\ faults \in Nat
      /\ full \in Seq(Whole)
  BY SequencesTyped, GroupsAssumption DEF Kept, Types, MasterTypes
<1>2. CASE \/ \E a \in Agents : SetAgentGroups(a)
           \/ RetrieveChunk \/ RetrieveFails \/ Reconnect
           \/ \E t \in TaskIds : CheckTask(t) \/ TaskTimeout(t)
  <2>1. /\ UNCHANGED <<queue, full, toWorker, pool, table, seen>>
        /\ faults' # 0 \/ (faults' = faults /\ (connected' = connected \/ connected' = TRUE))
        /\ entire' = TRUE \/ (entire' = entire /\ toMaster' = toMaster)
    BY <1>1, <1>2 DEF SetAgentGroups, RetrieveChunk, RetrieveFails, Reconnect, CheckTask, CompareAgentGroupsChecksums,
           CheckAgentGroupsChecksums, Answered, TaskTimeout, Fault, master, worker, history
  <2>2. Plain(queue') /\ (faults' = 0 => connected')
    BY <1>1, <2>1 DEF Quiet
  <2>3. ~entire' => full' = <<>> /\ toMaster' = <<>> /\ Plain(toWorker') /\ Plain(pool')
    BY <1>1, <2>1 DEF Quiet
  <2>4. faults' = 0 /\ ~entire' => table' = seen'
    BY <1>1, <2>1 DEF Quiet
  <2>. QED  BY <2>2, <2>3, <2>4 DEF Quiet
<1>3. CASE AgentGroupsUpdate
  <2>1. UNCHANGED <<full, toWorker, toMaster, pool, table, seen, entire, connected, faults>>
    BY <1>3 DEF AgentGroupsUpdate, worker, history
  <2> DEFINE m == [kind |-> "syn_g_m_w", hash |-> groups, rows |-> Over(RowsOf(syncreq), scan)]
  <2>2. m \in Update /\ m.kind = "syn_g_m_w"
    BY RowsOfTyped, OverRows DEF Types, MasterTypes, Update
  <2>3. Plain(queue')
    <3>1. queue' = queue \/ queue' = Append(queue, m)
      BY <1>3 DEF AgentGroupsUpdate
    <3> HIDE DEF m
    <3>. QED  BY <1>1, <2>2, <3>1, PlainSequences DEF Quiet
  <2>. QED  BY <1>1, <2>1, <2>3 DEF Quiet
<1>4. CASE BroadcastReader \/ BroadcastFails
  <2>1. /\ queue # <<>> /\ queue' = Tail(queue)
        /\ UNCHANGED <<full, toMaster, pool, table, seen, entire, connected>>
        /\ toWorker' = toWorker \/ toWorker' = Append(toWorker, Head(queue))
        /\ faults' = faults \/ faults' # 0
    BY <1>1, <1>4 DEF BroadcastReader, BroadcastFails, Fault, worker, history
  <2>2. Plain(queue') /\ Head(queue).kind = "syn_g_m_w" /\ Head(queue) \in Message
    <3>1. Head(queue) \in Update
      BY <1>1, <2>1, TailFacts
    <3>. QED  BY <1>1, <2>1, <3>1, PlainSequences DEF Quiet, Message
  <2>3. Plain(toWorker) => Plain(toWorker')
    BY <1>1, <2>1, <2>2, PlainSequences
  <2>. QED  BY <1>1, <2>1, <2>2, <2>3 DEF Quiet
<1>5. CASE SetupSendInfo
  <2>1. toMaster # <<>> /\ UNCHANGED <<queue, entire, connected, faults>>
    BY <1>5 DEF SetupSendInfo, worker, history
  <2>. QED  BY <1>1, <2>1 DEF Quiet
<1>6. CASE \E i \in 1..Len(full) : RetrieveAll(i) \/ SendEntire(i) \/ SendEntireFails(i)
  <2>1. /\ full # <<>> /\ UNCHANGED <<queue, entire, connected>>
        /\ faults' = faults \/ faults' # 0
    BY <1>1, <1>6 DEF RetrieveAll, SendEntire, SendEntireFails, Fault, worker, history
  <2>. QED  BY <1>1, <2>1 DEF Quiet
<1>7. CASE DataReceived
  <2>1. /\ toWorker # <<>> /\ toWorker' = Tail(toWorker)
        /\ UNCHANGED <<queue, full, toMaster, table, seen, entire, connected, faults>>
    BY <1>7 DEF DataReceived, master, history
  <2>2. CASE entire
    BY <1>1, <2>1, <2>2 DEF Quiet
  <2>3. CASE ~entire
    <3>1. Plain(toWorker) /\ Plain(toWorker') /\ Head(toWorker).kind = "syn_g_m_w" /\ Head(toWorker) \in Update
      <4>1. Head(toWorker) \in Message
        BY <1>1, <2>1, TailFacts
      <4>2. Plain(toWorker) /\ Plain(toWorker') /\ Head(toWorker).kind = "syn_g_m_w"
        BY <1>1, <2>1, <2>3, <4>1, PlainSequences DEF Quiet
      <4>. QED  BY <4>1, <4>2 DEF Message
    <3>2. PICK j \in Job : pool' = Append(pool, j) /\ j.kind = "syn_g_m_w"
      <4>1. PICK t \in TaskIds : pool' = Append(pool, [task |-> t, kind |-> "syn_g_m_w", rows |-> Head(toWorker).rows])
        BY <1>7, <3>1 DEF DataReceived
      <4>2. [task |-> t, kind |-> "syn_g_m_w", rows |-> Head(toWorker).rows] \in Job
        BY <3>1 DEF Job, Update
      <4>. QED  BY <4>1, <4>2
    <3>4. Plain(pool')
      <4>1. Plain(Append(pool, j))
        BY <1>1, <2>3, <3>2, PlainSequences DEF Quiet
      <4>. QED  BY <3>2, <4>1
    <3>. QED  BY <1>1, <2>1, <2>3, <3>1, <3>4 DEF Quiet
  <2>. QED  BY <2>2, <2>3
<1>8. CASE SendDataToWdb \/ SendDataFails
  <2>1. /\ pool # <<>> /\ pool' = Tail(pool)
        /\ UNCHANGED <<queue, full, toWorker, toMaster, entire, connected>>
        /\ faults' # 0 \/ (faults' = faults /\ SendDataToWdb)
    BY <1>1, <1>8 DEF SendDataToWdb, SendDataFails, Fault, master, history
  <2>2. Plain(pool) => Plain(pool')
    <3>1. Head(pool) \in Job
      BY <1>1, <2>1, TailFacts
    <3>. QED  BY <1>1, <2>1, <3>1, PlainSequences
  <2>3. faults' = 0 /\ ~entire' => table' = seen'
    BY <2>1, WriteIsNew
  <2>. QED  BY <1>1, <2>1, <2>2, <2>3 DEF Quiet
<1>9. CASE ConnectionLost \/ MasterRestart \/ WorkerRestart
  <2>1. /\ faults' # 0 /\ queue' = <<>> /\ full' = <<>> /\ toWorker' = <<>> /\ toMaster' = <<>>
        /\ entire' = entire
        /\ pool' = <<>> \/ \E n \in 0..Len(pool) : pool' = Orphans(n)
    BY <1>1, <1>9 DEF ConnectionLost, MasterRestart, WorkerRestart, Disconnect, Fault, history
  <2>2. Plain(<<>>)
    BY DEF Plain
  <2>3. Plain(pool) => Plain(pool')
    <3>1. ASSUME NEW n \in 0..Len(pool), pool' = Orphans(n), Plain(pool)  PROVE Plain(pool')
      <4>1. Len(pool') = n /\ \A i \in 1..n : pool'[i].kind = pool[i].kind
        BY <1>1, <3>1, OrphansTyped
      <4>2. \A i \in 1..Len(pool') : i \in 1..n /\ i \in 1..Len(pool)
        BY <1>1, <4>1
      <4>. QED  BY <3>1, <4>1, <4>2 DEF Plain
    <3>. QED  BY <2>1, <2>2, <3>1
  <2>. QED  BY <1>1, <2>1, <2>2, <2>3 DEF Quiet
<1>. QED  BY <1>2, <1>3, <1>4, <1>5, <1>6, <1>7, <1>8, <1>9 DEF Next

LEMMA NotLostStep ==
  ASSUME Types, Order, Kept, Next, faults' = 0, ~entire'
  PROVE  \A a \in Agents : NotLost(a)'
<1> SUFFICES ASSUME NEW a \in Agents  PROVE NotLost(a)'
  OBVIOUS
<1>1. /\ pool \in Seq(Job) /\ toWorker \in Seq(Message) /\ queue \in Seq(Update) /\ faults \in Nat
      /\ full \in Seq(Whole) /\ groups \in Table /\ scan \in Rows
  BY SequencesTyped, GroupsAssumption DEF Types, MasterTypes
<1>2. \A kind : ~Fault(kind)
  BY <1>1 DEF Fault
<1>3. faults = 0 /\ ~entire
  <2>1. CASE \E b \in Agents : SetAgentGroups(b)
    BY <2>1 DEF SetAgentGroups, worker, history
  <2>2. CASE \E i \in 1..Len(full) : RetrieveAll(i) \/ SendEntire(i)
    BY <2>2 DEF RetrieveAll, SendEntire, worker, history
  <2>3. CASE \E t \in TaskIds : CheckTask(t)
    BY <2>3 DEF CheckTask, CompareAgentGroupsChecksums, CheckAgentGroupsChecksums, Answered, history
  <2>4. CASE RetrieveChunk \/ AgentGroupsUpdate \/ BroadcastReader \/ SetupSendInfo
             \/ DataReceived \/ SendDataToWdb \/ Reconnect
    BY <2>4 DEF RetrieveChunk, AgentGroupsUpdate, BroadcastReader, SetupSendInfo, DataReceived, SendDataToWdb,
                Reconnect, worker, history
  <2>. QED  BY <1>2, <2>1, <2>2, <2>3, <2>4, Zenon
            DEF Next, RetrieveFails, BroadcastFails, SendEntireFails, SendDataFails, TaskTimeout,
                ConnectionLost, MasterRestart, WorkerRestart
<1>4. /\ Quiet /\ NotLost(a) /\ connected /\ full = <<>> /\ toMaster = <<>>
      /\ Plain(toWorker) /\ Plain(pool) /\ Plain(queue)
  BY <1>3 DEF Kept, Quiet
<1>5. CASE \E b \in Agents : SetAgentGroups(b)
  <2>1. PICK b \in Agents : SetAgentGroups(b)
    BY <1>5
  <2>2. UNCHANGED <<scan, queue, toWorker, pool, table>> /\ syncreq' = syncreq \cup {b}
    BY <2>1 DEF SetAgentGroups, worker
  <2>3. a # b => groups'[a] = groups[a]
    BY <1>1, <2>1 DEF SetAgentGroups, Table
  <2>. QED  BY <1>4, <2>2, <2>3 DEF NotLost, Holds, Brings
<1>6. CASE RetrieveChunk
  <2>1. PICK S \in SUBSET syncreq : scan' = Over(RowsOf(S), scan) /\ syncreq' = syncreq \ S
    BY <1>6 DEF RetrieveChunk, SetSynced
  <2>2. /\ RowsOf(S) \in Rows /\ DOMAIN RowsOf(S) = S /\ \A b \in S : RowsOf(S)[b] = groups[b]
    BY <1>1, RowsOfTyped DEF Types, MasterTypes
  <2>3. /\ DOMAIN scan' = S \cup DOMAIN scan
        /\ \A b \in S \cup DOMAIN scan : scan'[b] = IF b \in S THEN RowsOf(S)[b] ELSE scan[b]
    BY <1>1, <2>1, <2>2, OverRows
  <2>4. UNCHANGED <<groups, queue, toWorker, pool, table>>
    BY <1>6 DEF RetrieveChunk, worker
  <2>. QED  BY <1>4, <2>1, <2>2, <2>3, <2>4 DEF NotLost, Holds, Brings
<1>7. CASE AgentGroupsUpdate
  <2> DEFINE m == [kind |-> "syn_g_m_w", hash |-> groups, rows |-> Over(RowsOf(syncreq), scan)]
  <2>1. queue' = Append(queue, m) /\ UNCHANGED <<groups, toWorker, pool, table>>
    BY <1>4, <1>7 DEF AgentGroupsUpdate, worker
  <2>2. /\ RowsOf(syncreq) \in Rows /\ DOMAIN RowsOf(syncreq) = syncreq
        /\ \A b \in syncreq : RowsOf(syncreq)[b] = groups[b]
    BY <1>1, RowsOfTyped DEF Types, MasterTypes
  <2>3. /\ m.rows \in Rows
        /\ DOMAIN m.rows = syncreq \cup DOMAIN scan
        /\ \A b \in syncreq \cup DOMAIN scan : m.rows[b] = IF b \in syncreq THEN RowsOf(syncreq)[b] ELSE scan[b]
    <3>1. m.rows = Over(RowsOf(syncreq), scan)
      OBVIOUS
    <3>. QED  BY <1>1, <2>2, <3>1, OverRows
  <2>4. m \in Update /\ m.kind # "ok"
    BY <1>1, <2>3 DEF Update
  <2> HIDE DEF m
  <2>5. a \in syncreq \/ Brings(scan, a) => Brings(m.rows, a)
    BY <2>2, <2>3 DEF Brings
  <2>6. (Holds(queue, a) \/ Brings(m.rows, a)) => Holds(Append(queue, m), a)
    BY <1>1, <2>4, HoldsMoves
  <2>7. Holds(queue, a) \/ Brings(m.rows, a) \/ table[a] = groups[a] \/ Holds(toWorker, a) \/ Holds(pool, a)
    BY <1>4, <2>5 DEF NotLost
  <2>8. /\ Holds(Append(queue, m), a) => Holds(queue, a)'
        /\ Holds(toWorker, a) => Holds(toWorker, a)'
        /\ Holds(pool, a) => Holds(pool, a)'
    BY <2>1 DEF Holds, Brings
  <2>. QED  BY <2>1, <2>6, <2>7, <2>8 DEF NotLost
<1>8. CASE BroadcastReader
  <2>1. /\ queue # <<>> /\ queue' = Tail(queue) /\ toWorker' = Append(toWorker, Head(queue))
        /\ UNCHANGED <<groups, syncreq, scan, pool, table>>
    BY <1>8 DEF BroadcastReader, worker
  <2>2. Head(queue) \in Message
    BY <1>1, <2>1, TailFacts DEF Message
  <2>3. /\ Holds(queue, a) => Holds(Tail(queue), a) \/ Holds(Append(toWorker, Head(queue)), a)
        /\ Holds(toWorker, a) => Holds(Append(toWorker, Head(queue)), a)
    <3>1. Head(queue) \in Update
      BY <1>1, <2>1, TailFacts
    <3>. QED  BY <1>1, <2>1, <2>2, <3>1, HoldsMoves
  <2>4. /\ Holds(Tail(queue), a) => Holds(queue, a)'
        /\ Holds(Append(toWorker, Head(queue)), a) => Holds(toWorker, a)'
        /\ Holds(pool, a) => Holds(pool, a)'
    BY <2>1 DEF Holds, Brings
  <2>. QED  BY <1>4, <2>1, <2>3, <2>4 DEF NotLost, Brings
<1>9. ~SetupSendInfo /\ ~\E i \in 1..Len(full) : RetrieveAll(i) \/ SendEntire(i) \/ SendEntireFails(i)
  BY <1>4 DEF SetupSendInfo
<1>10. CASE DataReceived
  <2>1. /\ toWorker # <<>> /\ toWorker' = Tail(toWorker)
        /\ UNCHANGED <<groups, syncreq, scan, queue, table>>
    BY <1>10 DEF DataReceived, master
  <2>2. Head(toWorker) \in Message /\ Head(toWorker).kind = "syn_g_m_w"
    <3>1. Head(toWorker) \in Message
      BY <1>1, <2>1, TailFacts
    <3>. QED  BY <1>1, <1>4, <2>1, <3>1, PlainSequences
  <2>3. PICK j \in Job : pool' = Append(pool, j) /\ j.kind # "ok" /\ j.rows = Head(toWorker).rows
    <3>1. Head(toWorker) \in Update
      BY <2>2 DEF Message
    <3>2. PICK t \in TaskIds : pool' = Append(pool, [task |-> t, kind |-> "syn_g_m_w", rows |-> Head(toWorker).rows])
      BY <1>10, <2>2 DEF DataReceived
    <3>3. [task |-> t, kind |-> "syn_g_m_w", rows |-> Head(toWorker).rows] \in Job
      BY <3>1 DEF Job, Update
    <3>. QED  BY <3>2, <3>3
  <2>4. /\ Holds(toWorker, a) => Holds(Tail(toWorker), a) \/ Holds(Append(pool, j), a)
        /\ Holds(pool, a) => Holds(Append(pool, j), a)
    BY <1>1, <2>1, <2>2, <2>3, HoldsMoves
  <2>5. /\ Holds(Tail(toWorker), a) => Holds(toWorker, a)'
        /\ Holds(Append(pool, j), a) => Holds(pool, a)'
        /\ Holds(queue, a) => Holds(queue, a)'
    BY <2>1, <2>3 DEF Holds, Brings
  <2>. QED  BY <1>4, <2>1, <2>4, <2>5 DEF NotLost, Brings
<1>11. CASE SendDataToWdb
  <2>1. /\ pool # <<>> /\ pool' = Tail(pool)
        /\ UNCHANGED <<groups, syncreq, scan, queue, toWorker>>
    BY <1>11 DEF SendDataToWdb, master
  <2>2. Head(pool) \in Job
    BY <1>1, <2>1, TailFacts
  <2>3. Holds(pool, a) => Holds(Tail(pool), a) \/ Brings(Head(pool).rows, a)
    BY <1>1, <2>1, <2>2, HoldsMoves
  <2>4. table[a] = groups[a] \/ Brings(Head(pool).rows, a) => table'[a] = groups'[a]
    BY <1>3, <1>11, <2>1, WriteIsNew
  <2>5. /\ Holds(Tail(pool), a) => Holds(pool, a)'
        /\ Holds(queue, a) => Holds(queue, a)'
        /\ Holds(toWorker, a) => Holds(toWorker, a)'
    BY <2>1 DEF Holds, Brings
  <2>. QED  BY <1>4, <2>1, <2>3, <2>4, <2>5 DEF NotLost, Brings
<1>12. CASE Reconnect \/ \E t \in TaskIds : CheckTask(t)
  <2>1. UNCHANGED <<groups, syncreq, scan, queue, toWorker, pool, table>>
    BY <1>12 DEF Reconnect, CheckTask, CompareAgentGroupsChecksums, CheckAgentGroupsChecksums, Answered,
                 master, worker
  <2>. QED  BY <1>4, <2>1 DEF NotLost, Holds, Brings
<1>. QED  BY <1>2, <1>5, <1>6, <1>7, <1>8, <1>9, <1>10, <1>11, <1>12
          DEF Next, RetrieveFails, BroadcastFails, SendDataFails, TaskTimeout, ConnectionLost, MasterRestart, WorkerRestart

LEMMA KeptStep == Types /\ Order /\ Kept /\ [Next]_vars => Kept'
<1> SUFFICES ASSUME Types, Order, Kept, [Next]_vars  PROVE Kept'
  OBVIOUS
<1>1. CASE UNCHANGED vars
  BY <1>1 DEF vars, master, worker, history, Kept, Quiet, Plain, NotLost, Holds, Brings
<1>2. CASE Next
  BY <1>2, QuietStep, NotLostStep DEF Kept
<1>. QED  BY <1>1, <1>2

(* While nothing fails, a change of the groups is marked, scanned, under   *)
(* way or applied at every moment between the API and the worker's         *)
(* database, for any number of agents, chunks and broadcasts.              *)
THEOREM ChangesAreNeverLost == Spec => []ChangesAreNotLost
<1>1. Spec => []Kept
  BY OrderAlways, KeptInit, KeptStep, PTL DEF Spec
<1>2. Types /\ Kept => ChangesAreNotLost
  BY KeptIsNotLost
<1>. QED  BY <1>1, <1>2, OrderAlways, PTL
=============================================================================
