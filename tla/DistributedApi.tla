--------------------------- MODULE DistributedApi ---------------------------
(***************************************************************************)
(* API requests in a cluster: local_client.py and local_server.py take a   *)
(* request at a node, the APIRequestQueue of dapi.py serves the requests   *)
(* of other nodes one at a time, and the master forwards what only a       *)
(* worker can answer (master.py: execute, process_dapi_res).               *)
(*                                                                         *)
(* A request is known to the local server that took it by the name of its  *)
(* local client, to the master that forwards it by an id of its own; both  *)
(* are unique.  A string and the dapi_res that names it are one message.   *)
(***************************************************************************)
EXTENDS Naturals, FiniteSets, Sequences, SequencesExt

CONSTANTS
    Calls,
    Workers,
    Master,
    Routes,          \* the ways of a request: the node that takes it, and the one that executes it
    None,
    MaxFaults        \* bound on what goes wrong, timeouts left aside

ASSUME NodesAssumption ==
    /\ Master \notin Workers
    /\ None \notin Calls \cup Workers \cup {Master}
    /\ \A r \in Routes : r.from # Master \/ r.to # Master
    /\ Routes \subseteq [from : Workers \cup {Master}, to : Workers \cup {Master}]
    /\ MaxFaults \in Nat

VARIABLES
    route,           \* of each request
    caller,          \* what each local client knows
    clients,         \* the requests whose local client is known to its local server
    connected,       \* the workers that have a connection with the master
    wire,            \* the messages on their way
    queue,           \* request_queue of each node's APIRequestQueue
    serving,         \* the request it serves
    phase,           \* how far it is with it
    result,          \* what it returns
    stale,           \* whether the worker that the master serves has left since
    pending,         \* pending_api_requests of the master
    late,            \* history: requests that were given up by the master
    executed,        \* history: how often each request was executed
    faults

local  == <<route, caller, clients>>
server == <<queue, serving, phase, result, stale>>
vars   == <<local, connected, wire, server, pending, late, executed, faults>>

Nodes == Workers \cup {Master}

(* The results that dapi_res brings; the string of the last was not        *)
(* received.                                                               *)
Results == {"result", "error", "no string"}

Msg(kind, w, up, c) == [kind |-> kind, worker |-> w, up |-> up, call |-> c]

Init ==
    /\ route \in [Calls -> Routes]
    /\ caller = [c \in Calls |-> "new"]
    /\ clients = {}
    /\ connected = Workers
    /\ wire = {}
    /\ queue = [n \in Nodes |-> <<>>]
    /\ serving = [n \in Nodes |-> None]
    /\ phase = [n \in Nodes |-> "idle"]
    /\ result = [n \in Nodes |-> "error"]
    /\ stale = FALSE
    /\ pending = [c \in Calls |-> "none"]
    /\ late = {}
    /\ executed = [c \in Calls |-> 0]
    /\ faults = 0

-----------------------------------------------------------------------------
(* Local clients.                                                          *)

(* The local client closes its connection, and its name is forgotten.      *)
Return(c, outcome) ==
    /\ caller' = [caller EXCEPT ![c] = outcome]
    /\ clients' = clients \ {c}

Refuse(c) == Return(c, "refused") /\ UNCHANGED wire

Accept(c, w) ==
    /\ caller' = [caller EXCEPT ![c] = "open"]
    /\ clients' = clients \cup {c}
    /\ wire' = wire \cup {Msg("dapi", w, w = route[c].from, c)}

(* LocalServerHandlerMaster takes dapi_fwd for a worker, the one of a       *)
(* worker dapi for the master.                                             *)
Request(c) ==
    /\ caller[c] = "new"
    /\ LET w == IF route[c].from = Master THEN route[c].to ELSE route[c].from
       IN  IF w \in connected THEN Accept(c, w) ELSE Refuse(c)
    /\ UNCHANGED <<route, connected, server, pending, late, executed, faults>>

(* wait_for_response: timeout_dapi_request, or a keep-alive that fails.    *)
ClientTimeout(c) ==
    /\ caller[c] = "open"
    /\ Return(c, "gave up")
    /\ UNCHANGED <<route, connected, wire, server, pending, late, executed, faults>>

-----------------------------------------------------------------------------
(* What a node receives from its peer.                                     *)

Receive(m) == m \in wire /\ wire' = wire \ {m}

ReceiveRequest(m) ==
    /\ m.kind = "dapi"
    /\ Receive(m)
    /\ LET n == IF m.up THEN Master ELSE m.worker
       IN  queue' = [queue EXCEPT ![n] = Append(@, m.call)]
    /\ UNCHANGED <<local, connected, serving, phase, result, stale, pending, late, executed, faults>>

TellClientResults(m, n) ==
    IF m.call \in clients /\ route[m.call].from = n /\ m.kind = "result"
    THEN Return(m.call, "answered")
    ELSE UNCHANGED <<caller, clients>>

(* forward_dapi_response: the local client is told, if it is there.        *)
TellClient(m, n) ==
    IF m.call \in clients /\ route[m.call].from = n /\ m.kind # "no string"
    THEN Return(m.call, IF m.kind = "result" THEN "answered" ELSE "error")
    ELSE UNCHANGED <<caller, clients>>

(* WorkerHandler.                                                          *)
ReceiveResult(m) ==
    /\ m.kind \in Results /\ ~m.up
    /\ Receive(m)
    /\ TellClient(m, m.worker)
    /\ UNCHANGED <<route, connected, server, pending, late, executed, faults>>

ProcessDapiResOfClients(m) ==
    /\ m.kind \in Results /\ m.up
    /\ Receive(m)
    /\ TellClient(m, Master)
    /\ UNCHANGED <<route, connected, server, pending, late, executed, faults>>

(* process_dapi_res.  An id that was given up is still among the pending   *)
(* ones.                                                                   *)
ProcessDapiRes(m) ==
    /\ m.kind \in Results /\ m.up
    /\ Receive(m)
    /\ IF pending[m.call] # "none"
       THEN /\ pending' = IF m.kind = "no string" THEN pending ELSE [pending EXCEPT ![m.call] = "set"]
            /\ UNCHANGED <<caller, clients>>
       ELSE TellClient(m, Master) /\ UNCHANGED pending
    /\ UNCHANGED <<route, connected, server, late, executed, faults>>

(* process_dapi_error: the id is looked for among the local clients only.  *)
ProcessDapiError(m) ==
    /\ m.kind = "dapi_err"
    /\ Receive(m)
    /\ TellClient(m, IF m.up THEN Master ELSE m.worker)
    /\ UNCHANGED <<route, connected, server, pending, late, executed, faults>>

ReceiveMessage(m) ==
    ReceiveRequest(m) \/ ReceiveResult(m) \/ ProcessDapiRes(m) \/ ProcessDapiError(m)

-----------------------------------------------------------------------------
(* APIRequestQueue.run of the node n.                                      *)

(* The request is taken with the handler that its peer has now; one of a   *)
(* worker that is not connected is dropped.                                *)
Take(n) ==
    /\ serving[n] = None
    /\ queue[n] # <<>>
    /\ queue' = [queue EXCEPT ![n] = Tail(@)]
    /\ LET c == Head(queue[n])
       IN  IF n = Master /\ route[c].from \notin connected
           THEN UNCHANGED <<serving, phase>>
           ELSE /\ serving' = [serving EXCEPT ![n] = c]
                /\ phase' = [phase EXCEPT ![n] = "distribute"]
    /\ UNCHANGED <<local, connected, wire, result, stale, pending, late, executed, faults>>

Returns(n, r) ==
    /\ phase' = [phase EXCEPT ![n] = "send"]
    /\ result' = [result EXCEPT ![n] = r]

(* distribute_function, execute_local_request.                             *)
Execute(n) ==
    /\ phase[n] = "distribute"
    /\ route[serving[n]].to = n
    /\ executed' = [executed EXCEPT ![serving[n]] = @ + 1]
    /\ Returns(n, "result")
    /\ UNCHANGED <<local, connected, wire, queue, serving, stale, pending, late, faults>>

Forwards(c) ==
    /\ wire' = wire \cup {Msg("dapi", route[c].to, FALSE, c)}
    /\ phase' = [phase EXCEPT ![Master] = "await"]
    /\ UNCHANGED result

(* forward_request, execute: the request gets an id, even if its node is   *)
(* not connected.                                                          *)
Forward ==
    LET c == serving[Master] IN
    /\ phase[Master] = "distribute"
    /\ route[c].to # Master
    /\ pending' = [pending EXCEPT ![c] = "waiting"]
    /\ IF route[c].to \in connected THEN Forwards(c) ELSE Returns(Master, "error") /\ UNCHANGED wire
    /\ UNCHANGED <<local, connected, queue, serving, stale, late, executed, faults>>

Answered ==
    LET c == serving[Master] IN
    /\ phase[Master] = "await"
    /\ pending[c] = "set"
    /\ Returns(Master, "result")
    /\ UNCHANGED <<local, connected, wire, queue, serving, stale, pending, late, executed, faults>>

ForwardTimeoutIfUp ==
    LET c == serving[Master] IN
    /\ phase[Master] = "await"
    /\ pending[c] = "waiting"
    /\ route[c].to \in connected
    /\ late' = late \cup {c}
    /\ Returns(Master, "error")
    /\ UNCHANGED <<local, connected, wire, queue, serving, stale, pending, executed, faults>>

ForwardTimeoutResends ==
    LET c == serving[Master] IN
    /\ phase[Master] = "await"
    /\ pending[c] = "waiting"
    /\ late' = late \cup {c}
    /\ IF c \in late THEN Returns(Master, "error") /\ UNCHANGED wire ELSE Forwards(c)
    /\ UNCHANGED <<local, connected, queue, serving, stale, pending, executed, faults>>

(* The worker does not acknowledge in time, or does not answer.            *)
ForwardTimeout ==
    LET c == serving[Master] IN
    /\ phase[Master] = "await"
    /\ pending[c] = "waiting"
    /\ late' = late \cup {c}
    /\ Returns(Master, "error")
    /\ UNCHANGED <<local, connected, wire, queue, serving, stale, pending, executed, faults>>

(* A message to the node that the request came from.  The handler is the   *)
(* one that took it: if the worker has connected again, it gets nothing.   *)
SendBack(n, kind) ==
    LET c == serving[n] IN
    wire' = IF n # Master THEN wire \cup {Msg(kind, n, TRUE, c)}
            ELSE IF stale THEN wire
            ELSE wire \cup {Msg(kind, route[c].from, FALSE, c)}

(* The queue goes on with the next request.                                *)
Done(n) ==
    /\ serving' = [serving EXCEPT ![n] = None]
    /\ phase' = [phase EXCEPT ![n] = "idle"]
    /\ stale' = (stale /\ n # Master)

(* send_string and dapi_res.                                               *)
SendResult(n) ==
    /\ phase[n] = "send"
    /\ SendBack(n, result[n])
    /\ Done(n)
    /\ UNCHANGED <<local, connected, queue, result, pending, late, executed, faults>>

Serve(n) ==
    \/ Take(n) \/ Execute(n) \/ SendResult(n)
    \/ n = Master /\ (Forward \/ Answered \/ ForwardTimeout)

-----------------------------------------------------------------------------
(* What may go wrong.                                                      *)

Fault == faults < MaxFaults /\ faults' = faults + 1

(* new_str is not acknowledged in time: dapi_res names an error.           *)
SendNoString(n) ==
    /\ Fault
    /\ phase[n] = "send"
    /\ SendBack(n, "no string")
    /\ Done(n)
    /\ UNCHANGED <<local, connected, queue, result, pending, late, executed>>

(* An exception while the request is read or its result written.           *)
SendError(n) ==
    /\ Fault
    /\ phase[n] \in {"distribute", "send"}
    /\ SendBack(n, "dapi_err")
    /\ Done(n)
    /\ UNCHANGED <<local, connected, queue, result, pending, late, executed>>

(* Without its connection a worker begins anew, as after a restart: its    *)
(* tasks are cancelled, its queue, its local server and their clients go.  *)
LoseConnection(w) ==
    /\ Fault
    /\ w \in connected
    /\ connected' = connected \ {w}
    /\ wire' = {m \in wire : m.worker # w}
    /\ clients' = {c \in clients : route[c].from # w}
    /\ queue' = [queue EXCEPT ![w] = <<>>]
    /\ serving' = [serving EXCEPT ![w] = None]
    /\ phase' = [phase EXCEPT ![w] = "idle"]
    /\ stale' = (stale \/ (serving[Master] # None /\ route[serving[Master]].from = w))
    /\ UNCHANGED <<route, caller, result, pending, late, executed>>

Connect(w) ==
    /\ w \notin connected
    /\ connected' = connected \cup {w}
    /\ UNCHANGED <<local, wire, server, pending, late, executed, faults>>

(* The master's clusterd starts again: no node keeps anything.             *)
Restart ==
    /\ Fault
    /\ connected' = {}
    /\ wire' = {}
    /\ clients' = {}
    /\ queue' = [n \in Nodes |-> <<>>]
    /\ serving' = [n \in Nodes |-> None]
    /\ phase' = [n \in Nodes |-> "idle"]
    /\ stale' = FALSE
    /\ pending' = [c \in Calls |-> "none"]
    /\ UNCHANGED <<route, caller, result, late, executed>>

-----------------------------------------------------------------------------
Next ==
    \/ \E c \in Calls : Request(c) \/ ClientTimeout(c)
    \/ \E m \in wire : ReceiveMessage(m)
    \/ \E n \in Nodes : Serve(n) \/ SendNoString(n) \/ SendError(n)
    \/ \E w \in Workers : LoseConnection(w) \/ Connect(w)
    \/ Restart

Spec == Init /\ [][Next]_vars

(* The queues run, what is on a connection arrives unless it is lost, and  *)
(* timeout_dapi_request expires; nothing is assumed of connections, and    *)
(* nothing of the patience of local clients.                               *)
FairSpec ==
    /\ Spec
    /\ \A n \in Nodes : WF_vars(Serve(n))
    /\ WF_vars(\E m \in wire : ReceiveMessage(m))

-----------------------------------------------------------------------------
(* Every variable keeps its type, a node's phase is idle exactly while its *)
(* APIRequestQueue serves nothing, only the master awaits, and only local  *)
(* clients that are still there are known.  Messages are on connections    *)
(* that exist, and a worker without one has nothing to do.                 *)
TypeOK ==
    /\ route \in [Calls -> Routes]
    /\ caller \in [Calls -> {"new", "open", "refused", "answered", "error", "gave up"}]
    /\ clients \subseteq {c \in Calls : caller[c] = "open"}
    /\ connected \subseteq Workers
    /\ wire \subseteq [kind : Results \cup {"dapi", "dapi_err"}, worker : connected,
                       up : BOOLEAN, call : Calls]
    /\ queue \in [Nodes -> Seq(Calls)]
    /\ serving \in [Nodes -> Calls \cup {None}]
    /\ phase \in [Nodes -> {"idle", "distribute", "await", "send"}]
    /\ \A n \in Nodes : serving[n] = None <=> phase[n] = "idle"
    /\ \A w \in Workers : phase[w] # "await"
    /\ \A w \in Workers \ connected : queue[w] = <<>> /\ serving[w] = None
    /\ result \in [Nodes -> {"result", "error"}]
    /\ stale \in BOOLEAN
    /\ pending \in [Calls -> {"none", "waiting", "set"}]
    /\ late \subseteq Calls
    /\ executed \in [Calls -> Nat]
    /\ faults \in 0 .. MaxFaults

(* Where the duty to answer a request is.  While the master awaits a       *)
(* worker, it is with the worker or on the way.                            *)
Places(c) ==
    {<<"wire", m>> : m \in {m \in wire : m.call = c}}
    \cup {<<"served", n>> : n \in {n \in Nodes :
              serving[n] = c /\ (phase[n] = "await" => pending[c] = "set")}}
    \cup (UNION {{<<"queue", n, i>> : i \in {i \in DOMAIN queue[n] : queue[n][i] = c}} : n \in Nodes})

(* The duty to answer a request is never doubled on its way through local  *)
(* servers, queues and connections, until the master gives the worker up;  *)
(* and without a fault it is not lost while the caller waits: no request   *)
(* waits for an answer that nobody is going to send.                       *)
OnePlace ==
    \A c \in Calls \ late :
        /\ Cardinality(Places(c)) <= 1
        /\ caller[c] = "open" /\ faults = 0 => Places(c) # {}

(* What the API may rely on: a request is executed once at most, also if   *)
(* connections are lost, nodes restart or the master gives up a worker     *)
(* that answers later; a result comes only from an execution, and a        *)
(* request that was refused is not executed.                               *)
Remote == INSTANCE RemoteCalls WITH
    caller <- [c \in Calls |-> IF caller[c] = "error" THEN "gave up" ELSE caller[c]],
    served <- executed

ImplementsRemoteCalls == Remote!Spec

(* No request holds a queue up for ever: not one whose worker has left,    *)
(* not one whose dapi_err finds no client, not one of a lost handler.      *)
Settled(n) == queue[n] = <<>> /\ serving[n] = None

QueuesMoveOn == \A n \in Nodes : ~Settled(n) ~> Settled(n)

(* Without a fault every caller gets a result or an error, without having  *)
(* to give up: also behind a request that the master waits for in vain.    *)
CallersAreAnswered ==
    \A c \in Calls : caller[c] = "open" ~> caller[c] # "open" \/ faults > 0

=============================================================================
