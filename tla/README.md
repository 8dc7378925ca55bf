# BongoSec in TLA+

Models of the parts of BongoSec whose correctness depends on the order of
events: who talks to whom, what is in flight, what is lost. Every module names
the code it translates; `PROJECT.json` maps each definition to its lines.

## The system

BongoSec is a security platform: agents on monitored hosts send events to a
manager, which decodes them, matches rules and stores alerts. Several managers
form a cluster: one master, which owns the configuration, and workers. The cluster
is Python under `framework/bongosec/core/cluster`; the daemons are C under `src`.

| Part | Where | State | Interacts by | Hard behaviour | Module |
|---|---|---|---|---|---|
| Cluster: integrity synchronisation | `cluster/{master,worker,common,cluster}.py` | last scan, permissions, flags, tasks, zip files | requests and responses over one TCP connection, coroutines, a process pool | interleaved coroutines, timeouts, lost connections, restarts, stale scans | `ClusterIntegrity` |
| Cluster: agent groups | the same files | rows marked as synced, mismatch counter | strings over the connection, bongosec-db | lost updates found by checksum | `AgentGroups` |
| Cluster: agent information | the same files | rows that changed | strings over the connection, bongosec-db | as the groups, in the other direction | - |
| Cluster: requests and responses | `common.py` | counters, box of pending responses | the TCP stream | late responses, counters shared by both sides | `ClusterRequest` |
| Cluster: message framing | `common.py` | input buffer, divided messages | the TCP stream | framing at arbitrary cuts | `ClusterFraming` |
| Cluster: distributed API | `dapi/dapi.py`, `local_*.py`, `master.py`, `worker.py` | queues, pending requests, local clients | the cluster protocol, unix sockets | answers racing timeouts, restarts and reconnections | `DistributedApi` |
| Cluster: connections | `client.py`, `server.py` | connected clients, keepalives | callbacks of asyncio | reconnection with the same name, half-made handshakes | (as faults of the others) |
| Cluster: HAProxy helper | `hap_helper/` | weights of back-ends | HTTP | partial failure of a migration | - |
| Framework SDK, RBAC, API server | `framework/bongosec`, `api` | SQL databases, files | HTTP, unix sockets | mostly sequential | - |
| Agent: anti-flooding buffer | `client-agent/buffer.c` | ring of events, level, bits of `buff` | two threads, a condition | wrapping indices, levels with two writers, a word written without the mutex | `AgentBuffer` |
| Remote requests to agents | `remoted/request.c`, `client-agent/request.c` | tables of requests, a pool of dispatchers, a ring | UDP or TCP, threads | lost, repeated and reordered messages, attempts | `RemoteRequests` |
| bongosec-db: database pool | `bongosec_db/wdb_pool.c` and its callers | nodes with counters, connections, transactions | threads, mutexes | destroying and closing what another thread uses, transactions left open | `DatabasePool` |
| remoted, agentd: the rest | `remoted`, `client-agent` | message counters, key store | TCP/UDP | key reload, reconnection | - |
| authd | `os_auth` | key store, insert and remove queues | TLS, threads | writer thread and dispatchers | - |
| bongosec-db: queries | `bongosec_db` | SQLite databases, checksums | unix socket | checksum synchronisation | - |
| shared modules | `shared_modules` | queues, subscriptions | C++ threads | rsync protocol, router | - |
| analysisd, modulesd, syscheckd, logcollector, ... | `src/*` | rules, scans | queues | data transformation and I/O | - |
| dashboard | `dashboard` | (third party) | HTTP | not part of this project | - |

### What makes each part correct

* Integrity synchronisation: the worker's files become the master's; no file of
  the worker is lost that the master has; rounds with one worker do not
  overlap; no flag stays taken without a task that will release it.
* Agent groups: whatever is lost on the way, the worker's groups end up equal to
  the master's.
* Messages: a response reaches the coroutine that asked, a request is dispatched
  once, whatever the cuts of the stream and the counters of the peer.
* Distributed API: a request is executed once at most, no answer is invented, no
  queue is held up by a request whose node or caller is gone.
* Agent buffer: events leave in the order they came, one is dropped only when the
  buffer is full, and the level that it announces is true.
* Remote requests: the peer that asks is released, a result is one of an executed
  request, no place of a pool and no entry of a table is used up.
* Database pool: nothing is closed or destroyed under a thread that uses it,
  what was written gets committed, and the pool goes down to its limit.

## Modules

| Module | Models |
|---|---|
| `ClusterIntegrity` | the integrity protocol between the master and one worker |
| `FileReplica` | what the protocol promises: a replica of a set of files |
| `MCClusterIntegrity` | symmetry for TLC |
| `ClusterIntegrity_proofs` | proofs about `ClusterIntegrity` |
| `ClusterRequest` | requests and responses over one connection, at both ends |
| `RemoteCalls` | what callers may rely on: calls that are answered, or given up; implemented by `ClusterRequest`, `RemoteRequests` and `DistributedApi` |
| `MCClusterRequest` | the first counters to explore |
| `ClusterRequest_proofs` | proofs about `ClusterRequest` |
| `ClusterFraming`, `MCClusterFraming` | messages in the byte stream of a connection; the sizes and keys to explore |
| `ClusterFraming_proofs` | proofs about `ClusterFraming` |
| `AgentGroups` | the groups of the agents, from the master's database to a worker's |
| `AgentGroups_proofs` | proofs about `AgentGroups` |
| `DistributedApi` | API requests between the nodes of a cluster |
| `MCDistributedApi` | the routes to explore |
| `DistributedApi_proofs` | proofs about `DistributedApi` |
| `AgentBuffer` | the ring of events of an agent |
| `LossyQueue` | what the ring promises: a bounded queue that drops what comes when it is full |
| `AgentBuffer_proofs` | proofs about `AgentBuffer` |
| `RemoteRequests` | requests from a manager to its agents, at both ends |
| `RemoteRequests_proofs` | proofs about `RemoteRequests` |
| `DatabasePool` | the databases that bongosec-db keeps open |
| `DatabasePool_proofs` | proofs about `DatabasePool` |

### ClusterIntegrity

A round of the protocol and where it is in the code:

1. `sync_integrity` on the worker (variable `loop`) finds `check_integrity_free`
   and asks for permission (`RequestPermission`); the master answers from
   `sync_integrity_free` and `integrity_already_executed` (`GetPermission`).
2. The worker collects the state of its files in its process pool
   (`CollectStatus`, variable `pool`) and opens a task on the master
   (`SendStatus`, `SetupSyncIntegrity`), then sends the state to it
   (`LoopAnswered`, `EndReceivingIntegrityChecksums`).
3. The master's task (`mTasks`) compares the state with its last scan
   (`Compare`, with `CompareFiles`), puts files into a zip (`Compress`, with
   `CompressFiles`), and sends it to a task that it opens on the worker
   (`MasterTaskAnswered`, `SetupReceiveFilesFromMaster`,
   `EndReceivingIntegrity`).
4. The worker's task (`wTasks`) has its pool apply the update (`ProcessFiles`,
   `ApplyFiles`, with `Updated`).

State of the program that is kept: the flags, the tasks with the place of their
coroutine (`pc`), the pool's queue, both directions of the connection. A
coroutine's step runs from one `await` to the next. `hist` lists the versions of
the master's files; `integrityControl` is the last scan, with the version it saw.
A message carries the counter of its request as the coroutine that waits for it
(`proc`), and the update or the state it delivers (`load`): the file goes before
`..._e` in the same connection, so both arrive together.

What the model keeps of asyncio: a request is handled when it is read, in
`data_received`; a response wakes a coroutine that runs at a later turn. So a
request may overtake responses, and nothing overtakes a request (`Arrived`).

Faults, each a kind in `Faults`, all together at most `MaxFaults`: a request
times out (error 3020: the sender stops waiting, the request is still handled);
`wait_for_file` gives up before the file is there; a flag is released by
`max_locked_integrity_time`; the connection is lost; the master or the worker
restarts, the worker perhaps in the middle of an update; a file cannot be read
by the master's scan or compression; a file cannot be written or unpacked.

Abstractions: a file is a content, an update says for each file what to write,
delete or leave alone. The size limit of the zip is any choice of files that
takes in at least one (each file fits by itself). The modification-time cache of
`walk_dir`, merged files and empty directories are left out. `sync_extra_valid`
is dead code: nothing sends `syn_e_w_m`.

### FileReplica

The abstract service: an authority edits and publishes; the replica installs
versions file by file, never one older than it installed before. Its `Lose` step
is what the code does before the master's first scan. `ClusterIntegrity`
implements it with `published <- integrityControl.at`, `replica <- workerFiles`
and `seen <- applied` (a history variable), as property `ImplementsReplica`. The
mapping holds with lost connections and failing disks; it does not hold when the
master restarts (`integrityControl.at` falls to 0) or cannot read a file, and
these faults are not in that run.

### ClusterRequest

`Handler` in `common.py` is the same class at both ends of a connection, so both
peers send requests and both answer. `counter` and `box` are its attributes; the
entry of a counter is absent (`Free`), a `Response` (the number of the request
that waits for it) or `None` (`Expired`). `channel[p]` are the messages on their
way to `p`: TCP keeps their order. A message has a counter and a command;
`call` stands for the payload. `used`, `reply` and `handled` record who got what.

* `SendRequest` is `send_request` up to its `await`. When `msg_build` raises,
  the `Response` stays in the box for ever; the action keeps that.
* `DataReceived` is one turn of the loop in `data_received`: an expired entry is
  removed, a `Response` is written, anything else is dispatched at once, before
  the next message is read.
* `Return` and `Expire` are the two ways out of `asyncio.wait_for`. The response
  can arrive after the timer has cancelled the wait and before the line that puts
  `None` in the box: `Expire` also starts from `"written"`. The entry then stays
  `None` until a counter meets it.

The counters of both peers are in one space and start anywhere. When they meet, a
request of the peer is taken for a response. `CountersAreUnique` says
that they have not met yet; the promises are about such connections. Without it
one thing still holds: a response is never dispatched as a request
(`OnlyRequestsAreDispatched`), because its entry is in the box until the response
has been read, and a collision can only put another request's entry there.

`RemoteCalls` is the abstract service: a call is open until it is answered or
given up, its request is served at most once, also after it was given up, and it
is answered only after it was served. `ClusterRequest` implements it while counters
do not meet (`ImplementsRemoteCalls`).

### ClusterFraming

`msg_build` of the sender, `InBuffer`, `msg_parse`, `get_messages` and the
joining of divided messages in `data_received` of the receiver. A byte is known by
its place in the stream, so a payload is a sequence of intervals and the model
need not carry contents. `parts` are the headers and payloads pushed; `arrived`
and `parsed` say how far `data_received` was called and how far `in_buffer` was
consumed; `inMsg` and `divMsgBox` are the attributes of the handler. `DataReceived`
takes any number of the bytes that are on the way.

`overhead` is what `my_fernet.encrypt` adds (0 without a key). An encrypted message
is a token that decrypts as a whole or not at all (error 3025, which closes the
connection).

When a read ends right behind a header, `received` stays 0 and the next read takes
the payload for a header (`framing_lone_header`). The bytes of the payload decide
what then happens; the model stops there (`garbled`), and the promises are about
streams where no read ended there (`loneHeader`).

### AgentGroups

1. Somebody changes groups on the master: the row becomes `syncreq`
   (`SetAgentGroups`).
2. `agent_groups_update` reads these rows, in one or several queries that each mark
   what they return as synced (`RetrieveChunk`), and with the last query the
   checksum of the table; the rows and the checksum go into the queue of every
   connected worker's handler (`AgentGroupsUpdate`, `queue`).
3. `broadcast_reader` sends them one after the other (`BroadcastReader`).
4. On the worker each broadcast is a task of its own (`tasks`); its rows are written
   by the process pool (`DataReceived`, `SendDataToWdb`), then it compares the
   checksum with that of the worker's own table
   (`CompareAgentGroupsChecksums`) and counts (`CheckAgentGroupsChecksums`).
5. After `MismatchLimit` failures in a row it asks for the whole table, which the
   master reads query by query and sends past the queue (`SetupSendInfo`,
   `RetrieveAll`, `SendEntire`).

The groups of an agent are a version, a checksum is the table. Faults: a query of the
master fails after it has marked rows; a string does not arrive whole (`send_string`
gives up, or the worker cannot parse it: either way the update is gone); rows are not
written; a request times out; connections are lost; both sides restart. There is one
worker; that there may be others is in `AgentGroupsUpdate`, which goes on, and marks
rows, while this one is away. The last query and the broadcast are one step. Left out:
agents that exist on one side only, rows that are refused after their old groups were
deleted, the caching of the checksum.

### DistributedApi

1. A local client sends a request to the local server of a node (`Request`). The
   master's puts it into the queue of the node that is to execute it; a worker's
   sends it to the master, which acknowledges it (`ReceiveRequest`).
2. The `APIRequestQueue` of each node serves one request at a time (`Take`): it
   executes it (`Execute`) or, on the master, forwards it to a worker under an id of
   its own and awaits the entry of `pending_api_requests` (`Forward`, `Answered`,
   `ForwardTimeout`).
3. The result goes back as a string and a `dapi_res` (`SendResult`), to a local
   client or to the pending request (`ReceiveResult`, `ProcessDapiRes`), an exception
   as a `dapi_err` (`SendError`, `ProcessDapiError`).

The handler that will carry the result is looked up when the request is taken:
`stale` says that the worker it belongs to has left since. A lost connection ends the
worker's queue and local server with it (`LoseConnection`), `Restart` is the master's.
`late` remembers the requests that the master gave up: their worker may still execute
them and answer to nobody.

### AgentBuffer and LossyQueue

`buffer_append` puts an event at `i`, `dispatch_buffer` takes one at `j`; the ring has
`buflength + 1` places, one of them always free. What is done under `mutex_lock` is one
step. The bits of `buff` are not: without the mutex the dispatcher reads the word
(`TestBit`) and writes it back less one bit (`ClearBit`), and what `buffer_append` sets in
between may be lost: a data race, whose outcomes `Written` lists. The level
macros compare a float with a double; where both are the same fraction the rounding
decides, and the operators say for which percentages (`RoundedUp`).

`LossyQueue` takes events in order, drops one only when it holds `Capacity`, and gives
them out in order; the ring implements it with `Queue`, the events between `j` and `i`.

### RemoteRequests

On the manager a request is a thread: `req_sender` registers its node and waits for a
place among `request_pool` dispatchers (`ReqSender`, `PoolAvailable`, `PoolTimeout`); the
dispatcher sends the request, waits for the acknowledgement (over UDP), then for the
answer, each loop with its own `attempts`, and releases its place (`ReqDispatch`). `req_save` puts what
comes from the agent into the node and signals it. On the agent `req_push` queues
a new request in a ring (`Enqueue`, or `TooMany` when it is full), acknowledges a known
one, and takes the manager's acknowledgement (`AckPush`); `req_receiver` executes, answers, and over UDP repeats the answer until
it is acknowledged. `net` is a set: messages are lost when it holds `MaxInFlight`, or at
any time, and come in any order. The agent may restart.

### DatabasePool

`wdb_pool.c` keeps a node for each database, with a counter of the threads that refer to
it and a mutex that they hold while they use it. Workers receive commands
(`Receive`, `ReceiveRemove`) and carry them out (`Query`, `Close`, `Restore`, `Remove`,
`Unlink`); `run_gc` goes through its passes: commit
transactions, vacuum, close what is open beyond `open_db_limit`, clean the pool
(`Visit`, `CommitOld`, `Vacuum`, `CloseOld`, `EndWalk`, `NextPasses`). A walk takes the
names first and gets each node later, when its database may be in use or closed by
somebody else. `Stop`, `Join` and
`CloseAll` are the end of the process. `transaction` is the flag that `run_gc` reads,
`active` the transaction that SQLite has. `WDB_GLOB_NAME` is never closed before the end.

## Runs

| Run | Checks | Instance | Shows |
|---|---|---|---|
| `integrity_safety` | `LocksAreOwned`, `SyncsDoNotOverlap`, `ComparedStatusIsCurrent`, `ImplementsReplica`, `Converges` | 2 files, 2 contents, 4 task names, 1 edit, 2 faults (connection, disk, a worker's report that times out), fair | rounds do not overlap, the compared status is the current one, updates never go back, and the files become equal although the zip may carry one at a time |
| `integrity_recovery` | `Converges` | 1 file, 4 task names, no edit, 1 fault of any kind, fair | the protocol recovers from every kind of fault |
| `integrity_startup` | `OnlyRemovedFilesAreDeleted` violated | 2 files, no fault | a worker that syncs before the first scan deletes its files |
| `integrity_unreadable` | `FilesNotCompressedAreLeftOut` violated | 2 files, one unreadable once | a file the master has is deleted on the worker |
| `requests` | `AnswersAreOwn`, `RequestsAreHandledOnce`, `OnlyRequestsAreDispatched`, `ImplementsRemoteCalls`, `Drains` | 5 counters, any start of both peers, 3 requests each, fair | a call returns its own answer, a request is handled once, a late response is dropped, the peers do not answer each other's answers for ever |
| `framing` | `TypeOK`, `MessagesArriveWhole`, `NothingIsKept` | header 2, chunk 6, data of 0, 6, 7, 8 bytes, with and without a key, 2 messages | messages arrive whole wherever the stream is cut, but right behind a header |
| `framing_lone_header` | `HeadersAreHeaders` violated | the same | a payload is read as a header |
| `groups` | `TypeOK`, `ChangesAreNotLost`, `BroadcastsInOrder`, `Converges` | 2 agents, limit 2, 2 changes, 2 faults of any kind, fair | nothing is lost without a fault, and what is lost is found |
| `agent_buffer` | `ReturnsToNormal`, `NormalMeansRoom`, `ImplementsQueue`, `EventsAreSent`, `NormalIsNoticed` | 5 events, warning 60 %, normal 40 %, 12 events, fair | the ring is a queue that drops only when full, its level is true, accepted events are sent, the race on `buff` does not lose the notice of the normal level |
| `remote_requests` | `PoolIsKept`, `TableIsWork`, `TcpExecutesOnce`, `TcpAnswersAreReturned`, `ImplementsRemoteCalls`, `PeersAreReleased`, `NodesAreFreed` | 2 requests, 1 dispatcher, 1 place in the agent's ring, 2 attempts, 2 messages in flight, UDP and TCP, fair | peers are released, results are real, pool and tables do not leak, whatever the network does |
| `database_pool` | `RefcountIsUsers`, `UsersHaveTheirNode`, `OneConnection`, `TransactionsAreMarked`, `TransactionsEnd`, `PoolShrinks` | the database of an agent and the global one, 2 nodes, 2 workers and `run_gc`, limit 1, 3 commands, fair | no use after destruction, one connection for each database, transactions are committed and end, the pool shrinks |
| `distributed_api` | `OnePlace`, `ImplementsRemoteCalls`, `QueuesMoveOn`, `CallersAreAnswered` | 2 requests, 2 workers, 4 routes, 1 fault (lost connection, restart, error, lost string) and any timeouts, fair | the duty to answer is neither doubled nor lost, a request is executed once at most, no queue is held up |

The type invariants of the eight modules are proved, and `LocksAreOwned` is proved for
faults of every kind, so they are not repeated in all the runs.

### Bounds

*Integrity.* Two files are needed for an update that carries one and leaves out
another; two contents for the class `shared` (both sides have the file, and it
differs); an edit lets a scan, an update and the worker's files be of different
versions. Two faults let an update fail after a lost connection left an orphan in the
pool. After a fault an old task of each side can live on while a new round runs; with
too few task names a round would wait for the name of another, an artefact of the
bound, hence four names. Other requests that time out are not among the faults of
`integrity_safety`: `process_sync_error_from_worker` (`master.py:599`) releases the
flag whatever task it names, so after a timeout a second round is granted beside the
first, and `SyncsDoNotOverlap` is about the other cases. They are in
`integrity_recovery`. Contents and files are symmetric; no symmetry is used where
liveness is checked.

*Messages.* Five counters are fewer than the six requests of both peers, so that
counters wrap around and meet at every distance, and more than one peer's three, so
that some runs have unique counters throughout. For the framing, a part holds 4 bytes:
data of 6 is not divided though it fills a chunk, 7 is two parts, the last of which is
full with a key, and 8 is two full parts without one and three with. Two messages are
needed for bytes of one to be read with those of the next.

*Groups.* Two agents make a query that returns some rows and not others. With a limit
of 2 the counter passes through a value that is neither fresh nor the limit.
`MaxPending` bounds the broadcasts under way to two, so that one overtakes the
comparison of the other; a broadcast has one task and at most one request for the whole
table at a time, hence four task ids.

*Agent buffer.* Twelve events go twice round the ring of six places, so that both
indices wrap while the ring is empty, partly filled and full. The levels leave a place
between each two of them, where the thresholds of both writers differ.

*Remote requests.* Two requests compete for one dispatcher and for one place of the
agent's ring; with two attempts a message is sent again once and then given up. Two
messages in flight let an acknowledgement overtake an answer.

*Database pool.* Two databases and a limit of one make `wdb_close_old` work while
both are used; two workers and `run_gc` refer to one node at once. Three commands let
one open a transaction, another close or remove the database, and a third come back to
it. Two places for nodes are as many as names; a destroyed one is used again.

*Distributed API.* Two requests are one in front of the other in each queue; the four
routes are a request between two workers, one from a worker to the master, one from a
worker to itself (it goes by the master) and one from the master's own API. One fault
keeps the run short (with two, `MaxFaults = 2`, 552 081 states, it passes as well); every timeout may happen as well, and is not counted.

The violation runs and the runs of `ClusterRequest`, `ClusterFraming`, `AgentBuffer`,
`RemoteRequests`, `DatabasePool` and `DistributedApi` do not check deadlock: their systems
are idle when the bounded number of requests, events or commands has been dealt with, and
liveness properties say that they have been.

### Fairness

* `ClusterIntegrity`: the event loops run what is ready, the pool runs its jobs,
  `file_status_update` and `sync_integrity` are endless loops, a worker without
  connection tries again every `connection_retry` seconds, `wait_for_file` has a
  timer that fires. Nothing is assumed of edits and faults, so both may stop.
* `ClusterRequest`: the event loop reads what has arrived, resumes what was answered,
  and `wait_for`'s timer fires; nothing is assumed of new requests.
* `AgentGroups`: the loop of `agent_groups_update`, which is endless, the event loops,
  the pool, and the attempts to reconnect; nothing is assumed of changes and faults.
* `AgentBuffer`: `dispatch_buffer` is an endless thread. Nothing is assumed of events.
* `RemoteRequests`: the threads of both sides run and their timed waits expire. Nothing
  is assumed of the network: it may lose everything.
* `DatabasePool`: the threads are scheduled, each mutex is released. `run_gc` commits a
  transaction when it is old enough, and time passes: for each node, if the walk comes to
  it again and again it is old enough in the end (`SF` of `CommitOld`, the only strong
  fairness). Nothing is assumed of commands or of the end of the process.
* `DistributedApi`: the queues run, what is on a connection arrives unless the
  connection is lost, and `timeout_dapi_request` expires. Nothing is assumed of
  reconnection, nor of the patience of local clients: they are answered without it.

## Proofs

All theorems hold for any values of the constants that satisfy the assumptions of their
module, which TLC evaluates on each run. The assumptions say that markers (`None`, `GC`, ...) are
distinct from what they stand beside and that bounds are numbers; the only ones with
content are `LevelAssumption` (the normal level is below the warning level, as the
code's defaults and its configuration reader have it) and `SpaceAssumption`.

`ClusterIntegrity_proofs` proves, for any files, contents, task names and bounds:

* `TypeCorrect`: `Spec => []TypeOK`. The types of the variables are tight where
  the code relies on it: what travels to the worker and what its pool applies is
  a `Load`, whereas the master's task holds `KoFiles` between comparison and
  compression. `TypeOK` is inductive by itself; the proof has a lemma for each
  group of actions and for each helper (`CompareFilesType`, `CompressFilesType`,
  `UpdatedType`, queues).
* `FlagsAreOwned`: `Spec => []LocksAreOwned`, inductive together with `TypeOK`.
  Every step leaves a side's flag and tasks alone, releases the flag, or leaves a
  task of that side alive (`MasterLockStep`, `WorkerLockStep`), one lemma per
  group of actions. The number and kinds of the faults do not matter.
* `RoundsDoNotOverlap` and `StatusIsCurrent`: `SyncsDoNotOverlap` and
  `ComparedStatusIsCurrent`, if `Faults` has no `loop timeout`, `request timeout` or
  `lock timeout`. The inductive invariant is `Rounds`. It says what each message
  in flight is about and that there is one of each kind (`Sent`, `Single`), that
  every live task knows its peer (`Tasks`), that a permission given, a request, or
  a report in flight belong to the one round (`Flag`, `Reported`, `Asked`, `Served`,
  `Opening`), that the pool is quiet while a round opens (`Quiet`, `Jobs`), and so that
  what was scanned is still what the worker has (`Current`). It has a lemma per action,
  written in terms of what the action takes from a queue and puts into one
  (`MasterTakes`, `ToWorker`, ...). With one of the three timeouts two rounds do overlap:
  `process_sync_error_from_worker` releases the flag whatever task it names.
* `WorkerIsReplica`: `Spec => ImplementsReplica`, if besides no file fails to be read
  (`read`) and no daemon starts again (`restart`). `Versions`, on top of `Rounds`,
  follows the version that the master's scan, the task, the message, the extracted
  update and the jobs of the pool are from (`Scanned`, `Underway`, `Queued`): versions
  only grow along that way, and each file of an update is left alone or is as some
  version since then had it (`Sound`). TLC finds `ImplementsReplica` violated with any one
  of the five kinds of fault, so that the theorem has no hypothesis to spare.

`ClusterRequest_proofs` proves, for any number of counters and requests and any
starts:

* `TypeCorrect`: `Spec => []TypeOK`.
* `AnswersAreOwnAlways` and `RequestsHandledOnceAlways`. The invariant `Inv` has a
  part that always holds (`SentOK`: which requests exist; `BoxOK`: an entry is that
  of a request of its peer with this counter) and a part `Good` that holds while
  counters are unique: a waiting request finds its own entry (`WaitsOK`); a message
  in flight names a request, has its counter, finds the caller's entry still there,
  and its request is handled already if and only if it is a response
  (`MessagesOK`); there is one message about a request (`NoTwins`); what is not in
  flight was handled, and what was written is the own answer (`ServedOK`). Uniqueness
  of the counters in the next state implies it in this one (`UniqueBefore`), so the
  step may use `Good`. One lemma per action: `GoodSend`, `GoodReceive`, `GoodEnd`.
* `ConnectionIsRemoteCalls`: `Spec => ImplementsRemoteCalls`, step by step from `Inv`:
  a send begins a call, the receipt of its request serves it, the return of its own
  answer ends it, everything else is a stutter.
* `ResponsesAreNotDispatched`: `OnlyRequestsAreDispatched`, if a peer sends no more requests than
  there are counters (`MaxRequests <= Space`; 2^32 in the code). It holds also
  where the peers' counters meet, when `Good` does not: `Cross` says what may be in
  flight about a counter that both have drawn, `Fifo` that no response travels behind a
  request with its counter, so that an entry is still there when a response arrives.

`ClusterFraming_proofs` proves `TypeCorrect`, `MessagesAreWhole` and `NothingStaysBehind`, for
any lengths of header and chunk, keys, counters, sizes and cuts. `Contiguous` and `Grouped` say
that the stream is parts one behind the other, each of a message, and all but the last
of them flagged; a push keeps that since the sizes `msg_build` computes by
rounding up fit (`MsgBuildParts`). `Reading` says where the receiver is: some `n` messages
are delivered, some `k` parts complete, those behind message `n` are in
`div_msg_box`, and `in_msg` is a proper beginning of part `k + 1`. So where a header is looked for
there is exactly one (`NextHeader`), and what is decrypted is a whole token (`TokenIsParts`).
`Starved` says that an idle receiver could not go on, for `NothingIsKept`. A cut right behind a
header is excluded by the properties themselves (`loneHeader`): there they are false.

`AgentGroups_proofs` proves `TypeCorrect`, `BroadcastsAreInOrder` and `ChangesAreNeverLost`, for
any agents, tasks, limit and faults. `Order` compares the versions of each row in four
places: what the pool holds is not newer than what is on its way to the worker, that not than
what is queued, and that not than the last scan and the database (`OrderOf`, over
sequences by `From` and `Upto`). `Kept` says of each agent whose row differs on the worker
that some place still brings the difference (`NotLost`), while no fault happened and
the whole table was not asked for (`Quiet`); a job in the pool cannot undo that because of `Order`.

`DistributedApi_proofs` proves `TypeCorrect`, `RequestsAreRemoteCalls` and
`DutiesAreAtOnePlace`, for any requests, workers, routes and faults. What asks for an execution of a request is a
`dapi` message, an entry of a queue, or a node that has taken it: there is one of
these at most and none after the execution (`MessagesAreSingle`, `EntriesAreSingle`,
`ServedAreSingle`), each where the route leads (`Routed`, without which a request could
be both executed by the master and forwarded). Results, on the way, kept and returned,
are of executed requests (`Truthful`). Most steps ask for nothing new (`NothingAsked`)
and share one lemma; a lost handler (`stale`) is the reason why the type of `wire`, messages on
connections that exist, needs `Routed` as well. `DutiesAreAtOnePlace` (`OnePlace`) has an
invariant of its own, `Placed`: of the messages, entries and nodes that carry the duty
to answer a request there is one (`Single`), a result comes down to the worker it is
for (`Addressed`), and while there is no fault a caller that waits has one (`Calm`).

`AgentBuffer_proofs` proves `TypeCorrect`, `ReturnsToNormalAlways`, `NormalMeansRoomAlways`
and `RingIsQueue`, for any length and levels. The refinement rests on arithmetic modulo
the size of the ring: how many events the indices make (`HeldIs`), where the `k`-th of
them is, and what an append and a removal do to the sequence (`QueueIs`). The
first two level theorems differ: `NormalMeansRoom` always holds, `ReturnsToNormal` only if
the normal level admits one event (`OneIsNormal`), which the theorem states.

`RemoteRequests_proofs` proves `TypeCorrect`, `PoolIsKeptAlways`, `TableIsWorkAlways`,
`TcpExecutesOnceAlways`, `TcpAnswersAreReturnedAlways` and `RequestsAreRemoteCalls`, for any
network, pools and attempts. `Move` and `AgentMove` say what any step of the manager's threads and of the
agent may do, and the invariants are proved of these two instead of sixteen actions. `TcpOnce`
places each request over TCP: not yet sent, on its way, in the agent's table, or
executed, and in one of these only. `TcpPatience` keeps the count of attempts away from
its end while an answer may still come. `ResultsAreReal` follows a result from `req_receiver`
to the local peer.

`DatabasePool_proofs` proves `TypeCorrect`, `RefcountIsAlwaysUsers`,
`UsersAlwaysHaveTheirNode`, `OneConnectionAlways` and `TransactionsAreAlwaysMarked`, for any
threads, databases and limit. The invariants need each other: the counter says that a node
without users may be destroyed; that a thread's node is the one the pool has says that what
it opens is in the pool; and a destroyed node is closed, or its memory could be
allocated again with an open connection. `Core` is what this takes, `Rest` the
variables without a part in it.

Every safety invariant, action property and refinement that a passing run checks is
proved. Only model-checked:

* liveness (`Converges`, `Drains`, `EventsAreSent`, `NormalIsNoticed`, `PeersAreReleased`,
  `NodesAreFreed`, `TransactionsEnd`, `PoolShrinks`, `QueuesMoveOn`, `CallersAreAnswered`): TLAPS
  proves nothing under fairness;
* the replica under the kinds of fault that the theorems exclude: there it does not
  hold, and `Converges` says that the files become equal all the same.

## Findings

The violation runs record where the code differs from its own words; see `findings` in
`PROJECT.json`. Reading the code for the models showed more, without a run of their own:

* `buffer.c:168`: with a `normal_level` of 0 (`buffer.c:66` allows it), or one below a
  single event's share of the buffer, the buffer never returns to its normal state: an
  event in it is already above the level, and nobody looks when it is empty
  (`OneIsNormal` says when this cannot happen).
* `remoted/request.c:201`: with `max_attempts = 1` every request over TCP ends as if no
  answer had come; hence the condition in `TcpAnswersAreReturned`.
* `remoted/request.c:296`: `req_pool_wait` may report a timeout and take a place
  all the same; the node of a request that it rejects stays in `req_table`.
* `client-agent/request.c`: with `request_pool = 1` the ring holds nothing and every
  request is refused.
* `bongosec_db/wdb.c:1482`, `wdb_parser.c:596`: the file of a removed database is deleted
  after its node was left, when another thread may have opened it: that one writes into
  a deleted file. `wdb_close(FALSE)` leaves the transaction flag set.
  `wdb_pool.c:76` writes `node->last` after the mutex was released.
* `common.py:932`: the `dapi_err` of a worker never reaches the request that the master
  forwarded; the master's queue stands until the timeout. `master.py:320`: entries of
  `pending_api_requests` are never removed. `common.py:735`: the `dapi_err` of
  `forward_dapi_response` names no client.
* `common.py:697`: `send_string` goes on after a failed chunk and returns the task id as
  if the string had arrived. `common.py:528`: each `MemoryError` halves `request_chunk`
  for good.
* `client.py:215`: a worker that loses its connection loses its tasks, queue and local
  clients with it.

## Not modelled

* Connections by themselves (hello, keepalives, names in use) and the local requests
  that are not API requests (`sendsync`, `get_nodes`, `get_health`, ...); the other modules take a
  connection to be there or lost.
* The modification-time cache of `walk_dir`: it depends on clocks of disks.
* Agent information: the tasks of `AgentGroups`, from the worker to the master.
* Chunks of files and strings: the protocols see them whole or not at all.
* API requests to several nodes at once: each part is a request of the model; joining
  the results is data.
* Commits that fail with an I/O error, and what queries do to rows.
* The other daemons, the framework and the dashboard: transformation of data, I/O with the
  operating system or services, third-party code; authd's key store, the key store of
  remoted and the rsync protocol are next if the project grows.

## Plan

1. Models: connections and their handshake, agent information, authd's key store, the
   rsync protocol.
2. Proofs: the safety of those; a bound for the rounds that overlap after a timeout
   (how far a file may go back), in place of the exclusion of these faults.
