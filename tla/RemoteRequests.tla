--------------------------- MODULE RemoteRequests ---------------------------
(***************************************************************************)
(* Requests from a manager to one of its agents: remoted/request.c takes a *)
(* request from a local peer, sends it to the agent and returns the agent's*)
(* answer; client-agent/request.c executes it.                             *)
(*                                                                         *)
(* Each request is known by its counter, which os_random makes different   *)
(* from the others.  What a thread does while it holds the mutex of a node *)
(* is one step.  The network loses and reorders messages; over UDP both    *)
(* sides send again what is not acknowledged.                              *)
(***************************************************************************)
EXTENDS Naturals, FiniteSets, Sequences, SequencesExt

CONSTANTS
    Requests,
    None,
    PoolSize,        \* remoted.request_pool
    AgentPool,       \* the agent's request_pool: its ring holds one less
    max_attempts,    \* of both sides
    MaxInFlight      \* bound on the messages on their way: others are lost

ASSUME NoneAssumption == None \notin Requests
ASSUME SizesAssumption ==
    /\ PoolSize \in Nat \ {0}
    /\ AgentPool \in Nat \ {0}
    /\ max_attempts \in Nat \ {0}
    /\ MaxInFlight \in Nat

VARIABLES
    protocol,        \* that the agent uses
    request_pool,    \* how many dispatchers may still be started
    thread,          \* where each request is on the manager
    attempts,        \* of its dispatcher, in the loop it is in
    buffer,          \* node->buffer: what came from the agent last
    signalled,       \* the nodes whose condition was signalled
    reply,           \* what the local peer got
    net,             \* the messages on their way
    agent_table,     \* the agent's req_table
    queue,           \* its req_pool
    payload,         \* node->buffer of its nodes
    receiver,        \* the request that its req_receiver works on
    sends,           \* attempts of req_receiver
    response,        \* what req_receiver sends
    acked,           \* whether the condition of its node was signalled
    executed         \* history: how often each request was executed

manager == <<request_pool, thread, attempts, buffer, signalled, reply>>
agent   == <<agent_table, queue, payload, receiver, sends, response, acked, executed>>
vars    == <<protocol, net, manager, agent>>

Answers == {"result", "error"}

\* Messages: a request and the acknowledgement of its answer go to the agent.
Kinds == {"req", "done", "ack"} \cup Answers

(* The network after m was sent when it carried these messages.            *)
Sent(messages, m) ==
    IF Cardinality(messages) < MaxInFlight THEN messages \cup {m} ELSE messages

Running == {r \in Requests : thread[r] \in {"start", "ack", "response", "cleanup"}}

(* req_table holds the node from req_sender to the end of the dispatcher,  *)
(* and for good if the pool wait fails.                                    *)
InTable(r) == thread[r] \notin {"new", "closed"}

Init ==
    /\ protocol \in {"udp", "tcp"}
    /\ request_pool = PoolSize
    /\ thread = [r \in Requests |-> "new"]
    /\ attempts = [r \in Requests |-> 0]
    /\ buffer = [r \in Requests |-> "none"]
    /\ signalled = {}
    /\ reply = [r \in Requests |-> "none"]
    /\ net = {}
    /\ agent_table = {}
    /\ queue = <<>>
    /\ payload = [r \in Requests |-> "request"]
    /\ receiver = None
    /\ sends = 0
    /\ response = "error"
    /\ acked = FALSE
    /\ executed = [r \in Requests |-> 0]

-----------------------------------------------------------------------------
(* The manager: req_sender, called by the one thread that reads requests   *)
(* of local peers.                                                         *)

ReqSender(r) ==
    /\ thread[r] = "new"
    /\ \A s \in Requests : thread[s] # "waiting"
    /\ IF request_pool > 0
       THEN /\ request_pool' = request_pool - 1
            /\ thread' = [thread EXCEPT ![r] = "start"]
       ELSE /\ thread' = [thread EXCEPT ![r] = "waiting"]
            /\ UNCHANGED request_pool
    /\ UNCHANGED <<protocol, net, attempts, buffer, signalled, reply, agent>>

PoolAvailableOnce(r) ==
    /\ thread[r] = "waiting"
    /\ request_pool' = IF request_pool > 0 THEN request_pool - 1 ELSE 0
    /\ thread' = [thread EXCEPT ![r] = "start"]
    /\ UNCHANGED <<protocol, net, attempts, buffer, signalled, reply, agent>>

(* req_pool_wait returns 1.                                                *)
PoolAvailable(r) ==
    /\ thread[r] = "waiting"
    /\ request_pool > 0
    /\ request_pool' = request_pool - 1
    /\ thread' = [thread EXCEPT ![r] = "start"]
    /\ UNCHANGED <<protocol, net, attempts, buffer, signalled, reply, agent>>

(* req_pool_wait returns 0: a dispatcher that ended when the time was over *)
(* already is taken from the pool all the same, and its place is lost.     *)
PoolTimeout(r) ==
    /\ thread[r] = "waiting"
    /\ request_pool' = IF request_pool > 0 THEN request_pool - 1 ELSE 0
    /\ thread' = [thread EXCEPT ![r] = "rejected"]
    /\ reply' = [reply EXCEPT ![r] = "error"]
    /\ UNCHANGED <<protocol, net, attempts, buffer, signalled, agent>>

-----------------------------------------------------------------------------
(* The manager: req_dispatch, a thread for each request.                   *)

ReplyAndClean(r, answer) ==
    /\ reply' = [reply EXCEPT ![r] = answer]
    /\ thread' = [thread EXCEPT ![r] = "cleanup"]

(* The request has no agent, or an agent that is not known: nothing is     *)
(* returned.                                                               *)
NoAgent(r) ==
    /\ thread[r] = "start"
    /\ ReplyAndClean(r, "error")
    /\ UNCHANGED <<protocol, net, request_pool, attempts, buffer, signalled, agent>>

SendToAgentUntilAcked(r) ==
    \/ /\ net' = Sent(net, <<r, "req">>)
       /\ thread' = [thread EXCEPT ![r] = "ack"]
       /\ UNCHANGED reply
    \/ ReplyAndClean(r, "error") /\ UNCHANGED net

(* send_msg: a request that is sent is acknowledged in UDP mode only.      *)
SendToAgent(r) ==
    \/ /\ net' = Sent(net, <<r, "req">>)
       /\ thread' = [thread EXCEPT ![r] = IF protocol = "udp" THEN "ack" ELSE "response"]
       /\ UNCHANGED reply
    \/ /\ ReplyAndClean(r, "error")
       /\ UNCHANGED net

FirstSend(r) ==
    /\ thread[r] = "start"
    /\ SendToAgent(r)
    /\ UNCHANGED <<protocol, request_pool, attempts, buffer, signalled, agent>>

AckTimeoutUncounted(r) ==
    /\ thread[r] = "ack"
    /\ signalled' = signalled \ {r}
    /\ SendToAgent(r)
    /\ UNCHANGED <<protocol, request_pool, attempts, buffer, agent>>

(* No acknowledgement in time; what has come since the time was over is    *)
(* kept, but its signal is not.                                            *)
AckTimeout(r) ==
    /\ thread[r] = "ack"
    /\ attempts' = [attempts EXCEPT ![r] = @ + 1]
    /\ signalled' = signalled \ {r}
    /\ IF attempts'[r] = max_attempts
       THEN ReplyAndClean(r, "attempts") /\ UNCHANGED net
       ELSE SendToAgent(r)
    /\ UNCHANGED <<protocol, request_pool, buffer, agent>>

(* The answer goes to the local peer; in UDP mode the agent is told.       *)
ReturnAnswer(r) ==
    /\ ReplyAndClean(r, buffer[r])
    /\ net' = IF protocol = "udp" THEN Sent(net, <<r, "done">>) ELSE net

(* The dispatcher is woken by an acknowledgement, and waits for the answer,*)
(* or by the answer.                                                       *)
AckWakes(r) ==
    /\ thread[r] = "ack"
    /\ r \in signalled
    /\ signalled' = signalled \ {r}
    /\ attempts' = [attempts EXCEPT ![r] = 0]
    /\ IF buffer[r] \in Answers
       THEN ReturnAnswer(r)
       ELSE /\ thread' = [thread EXCEPT ![r] = "response"]
            /\ UNCHANGED <<net, reply>>
    /\ UNCHANGED <<protocol, request_pool, buffer, agent>>

ResponseWakesOneShort(r) ==
    /\ thread[r] = "response"
    /\ r \in signalled
    /\ signalled' = signalled \ {r}
    /\ attempts' = [attempts EXCEPT ![r] = @ + 1]
    /\ CASE attempts'[r] + 1 >= max_attempts -> ReplyAndClean(r, "attempts") /\ UNCHANGED net
         [] attempts'[r] + 1 < max_attempts /\ buffer[r] \in Answers -> ReturnAnswer(r)
         [] OTHER -> UNCHANGED <<thread, net, reply>>
    /\ UNCHANGED <<protocol, request_pool, buffer, agent>>

(* Waking up counts as an attempt, whatever has come.                      *)
ResponseWakes(r) ==
    /\ thread[r] = "response"
    /\ r \in signalled
    /\ signalled' = signalled \ {r}
    /\ attempts' = [attempts EXCEPT ![r] = @ + 1]
    /\ CASE attempts'[r] = max_attempts -> ReplyAndClean(r, "attempts") /\ UNCHANGED net
         [] attempts'[r] < max_attempts /\ buffer[r] \in Answers -> ReturnAnswer(r)
         [] OTHER -> UNCHANGED <<thread, net, reply>>
    /\ UNCHANGED <<protocol, request_pool, buffer, agent>>

ResponseTimeout(r) ==
    /\ thread[r] = "response"
    /\ signalled' = signalled \ {r}
    /\ ReplyAndClean(r, "error")
    /\ UNCHANGED <<protocol, net, request_pool, attempts, buffer, agent>>

(* The node is taken from the table and freed; req_pool_post.              *)
Cleanup(r) ==
    /\ thread[r] = "cleanup"
    /\ thread' = [thread EXCEPT ![r] = "closed"]
    /\ request_pool' = request_pool + 1
    /\ attempts' = [attempts EXCEPT ![r] = 0]
    /\ buffer' = [buffer EXCEPT ![r] = "none"]
    /\ UNCHANGED <<protocol, net, signalled, reply, agent>>

ReqDispatch(r) ==
    \/ NoAgent(r) \/ FirstSend(r) \/ AckTimeout(r) \/ AckWakes(r)
    \/ ResponseWakes(r) \/ ResponseTimeout(r) \/ Cleanup(r)

ReqSaveForAnyNode(r, kind) ==
    /\ \E s \in Requests : <<s, kind>> \in net /\ net' = net \ {<<s, kind>>}
    /\ IF InTable(r)
       THEN /\ buffer' = [buffer EXCEPT ![r] = kind]
            /\ signalled' = IF thread[r] \in {"ack", "response"}
                            THEN signalled \cup {r} ELSE signalled
       ELSE UNCHANGED <<buffer, signalled>>
    /\ UNCHANGED <<protocol, request_pool, thread, attempts, reply, agent>>

(* req_save, by a thread that handles messages of agents: the last message *)
(* replaces the one before it, even an answer that was not seen yet.       *)
ReqSave(r, kind) ==
    /\ <<r, kind>> \in net
    /\ net' = net \ {<<r, kind>>}
    /\ IF InTable(r)
       THEN /\ buffer' = [buffer EXCEPT ![r] = kind]
            /\ signalled' = IF thread[r] \in {"ack", "response"}
                            THEN signalled \cup {r} ELSE signalled
       ELSE UNCHANGED <<buffer, signalled>>
    /\ UNCHANGED <<protocol, request_pool, thread, attempts, reply, agent>>

-----------------------------------------------------------------------------
(* The agent: req_push, called by the thread that reads the manager's      *)
(* messages.                                                               *)

(* The socket of the target cannot be connected: that is the answer, also  *)
(* to a request that was sent again.                                       *)
NoTarget(r) ==
    /\ <<r, "req">> \in net
    /\ net' = Sent(net \ {<<r, "req">>}, <<r, "error">>)
    /\ UNCHANGED <<protocol, manager, agent>>

Acknowledged(r) ==
    IF protocol = "udp" THEN Sent(net \ {<<r, "req">>}, <<r, "ack">>)
                        ELSE net \ {<<r, "req">>}

TooManyKeepsNode(r) ==
    /\ agent_table' = agent_table \cup {r}
    /\ net' = Sent(Acknowledged(r), <<r, "error">>)
    /\ UNCHANGED <<queue, payload>>

(* The ring is full: the node leaves the table.                            *)
TooMany(r) ==
    /\ net' = Sent(Acknowledged(r), <<r, "error">>)
    /\ UNCHANGED <<agent_table, queue, payload>>

Enqueue(r) ==
    /\ net' = Acknowledged(r)
    /\ agent_table' = agent_table \cup {r}
    /\ payload' = [payload EXCEPT ![r] = "request"]
    /\ queue' = Append(queue, r)

(* A duplicate is acknowledged and dropped.                                *)
ReqPush(r) ==
    /\ <<r, "req">> \in net
    /\ IF r \in agent_table
       THEN net' = Acknowledged(r) /\ UNCHANGED <<agent_table, queue, payload>>
       ELSE IF Len(queue) = AgentPool - 1 THEN TooMany(r) ELSE Enqueue(r)
    /\ UNCHANGED <<protocol, manager, receiver, sends, response, acked, executed>>

(* An acknowledgement replaces the payload of its node, which may still be *)
(* in the queue; it waits for the mutex while the node is executed.        *)
AckPush(r) ==
    /\ <<r, "done">> \in net
    /\ net' = net \ {<<r, "done">>}
    /\ IF r \in agent_table
       THEN /\ payload' = [payload EXCEPT ![r] = "ack"]
            /\ acked' = (acked \/ receiver = r)
       ELSE UNCHANGED <<payload, acked>>
    /\ UNCHANGED <<protocol, manager, agent_table, queue, receiver, sends, response, executed>>

-----------------------------------------------------------------------------
(* The agent: req_receiver.                                                *)

Executes(r) == executed' = [executed EXCEPT ![r] = @ + 1]

(* The node is deleted from the table and freed.                           *)
Leave(r) ==
    /\ agent_table' = agent_table \ {r}
    /\ payload' = [payload EXCEPT ![r] = "request"]
    /\ receiver' = None
    /\ sends' = 0
    /\ response' = "error"

(* The answer is sent, which may fail; in UDP mode it is acknowledged.     *)
SendAnswer(r, answer, tries) ==
    \/ /\ net' = Sent(net, <<r, answer>>)
       /\ IF protocol = "tcp" THEN Leave(r)
          ELSE /\ receiver' = r
               /\ sends' = tries
               /\ response' = answer
               /\ UNCHANGED <<agent_table, payload>>
    \/ Leave(r) /\ UNCHANGED net

(* The next request is executed, and answered.  The target may fail before *)
(* or after it has done what it was asked; "ack" is no command.            *)
Execute(r) ==
    /\ receiver = None
    /\ queue # <<>>
    /\ r = Head(queue)
    /\ queue' = Tail(queue)
    /\ \/ payload[r] = "request" /\ Executes(r) /\ \E answer \in Answers : SendAnswer(r, answer, 0)
       \/ SendAnswer(r, "error", 0) /\ UNCHANGED executed
    /\ acked' = FALSE
    /\ UNCHANGED <<protocol, manager>>

AnswerTimeoutUncounted(r) ==
    /\ receiver = r
    /\ acked' = FALSE
    /\ SendAnswer(r, response, sends)
    /\ UNCHANGED <<protocol, manager, queue, executed>>

(* No acknowledgement in time.                                             *)
AnswerTimeout(r) ==
    /\ receiver = r
    /\ acked' = FALSE
    /\ IF sends + 1 = max_attempts
       THEN Leave(r) /\ UNCHANGED net
       ELSE SendAnswer(r, response, sends + 1)
    /\ UNCHANGED <<protocol, manager, queue, executed>>

AnswerAcked(r) ==
    /\ receiver = r
    /\ acked
    /\ acked' = FALSE
    /\ Leave(r)
    /\ UNCHANGED <<protocol, net, manager, queue, executed>>

ReqReceiver(r) == Execute(r) \/ AnswerTimeout(r) \/ AnswerAcked(r)

-----------------------------------------------------------------------------
(* A message is lost, with the datagram or with the connection.            *)
Lose ==
    /\ \E m \in net : net' = net \ {m}
    /\ UNCHANGED <<protocol, manager, agent>>

(* The agent ends and starts again.                                        *)
AgentRestart ==
    /\ agent_table # {}
    /\ agent_table' = {}
    /\ queue' = <<>>
    /\ payload' = [r \in Requests |-> "request"]
    /\ receiver' = None
    /\ sends' = 0
    /\ response' = "error"
    /\ acked' = FALSE
    /\ UNCHANGED <<protocol, net, manager, executed>>

Sender(r) == PoolAvailable(r) \/ PoolTimeout(r)

Next ==
    \/ \E r \in Requests :
          \/ ReqSender(r) \/ Sender(r) \/ ReqDispatch(r)
          \/ \E kind \in {"ack"} \cup Answers : ReqSave(r, kind)
          \/ NoTarget(r) \/ ReqPush(r) \/ AckPush(r) \/ ReqReceiver(r)
    \/ Lose
    \/ AgentRestart

Spec == Init /\ [][Next]_vars

(* Threads are scheduled and timeouts expire; nothing is assumed of the    *)
(* network.                                                                *)
FairSpec ==
    /\ Spec
    /\ \A r \in Requests :
          WF_vars(Sender(r)) /\ WF_vars(ReqDispatch(r)) /\ WF_vars(ReqReceiver(r))
-----------------------------------------------------------------------------
Threads == {"new", "waiting", "start", "ack", "response", "cleanup", "closed", "rejected"}

Replies == Answers \cup {"none", "attempts"}

(* Types; the local peer never gets an acknowledgement for an answer.      *)
TypeOK ==
    /\ protocol \in {"udp", "tcp"}
    /\ request_pool \in 0..PoolSize
    /\ thread \in [Requests -> Threads]
    /\ attempts \in [Requests -> 0..max_attempts]
    /\ buffer \in [Requests -> {"none", "ack"} \cup Answers]
    /\ signalled \subseteq Requests
    /\ reply \in [Requests -> Replies]
    /\ net \subseteq Requests \X Kinds
    /\ agent_table \subseteq Requests
    /\ queue \in Seq(Requests)
    /\ payload \in [Requests -> {"request", "ack"}]
    /\ receiver \in Requests \cup {None}
    /\ sends \in 0..max_attempts
    /\ response \in Answers
    /\ acked \in BOOLEAN
    /\ executed \in [Requests -> Nat]

(* There are never more dispatchers than request_pool allows, whatever     *)
(* order they end and are waited for in.                                   *)
PoolIsKept == Cardinality(Running) + request_pool <= PoolSize

(* The agent's table holds the requests that are queued or executed and no *)
(* other: a counter left behind would have its request taken for a         *)
(* duplicate, acknowledged and never answered.                             *)
TableIsWork ==
    /\ agent_table = ToSet(queue) \cup ({receiver} \ {None})
    /\ IsInjective(queue)
    /\ receiver \notin ToSet(queue)

(* Over TCP, where nothing is sent again, a request is executed once at    *)
(* most.                                                                   *)
TcpExecutesOnce == protocol = "tcp" => \A r \in Requests : executed[r] <= 1

(* Over TCP a dispatcher does not count itself out of an answer it holds,  *)
(* unless it has one attempt only.                                         *)
TcpAnswersAreReturned ==
    protocol = "tcp" /\ max_attempts > 1 => \A r \in Requests : reply[r] # "attempts"

(* What a local peer knows of its request, as RemoteCalls tells it.        *)
Caller(r) ==
    CASE thread[r] = "new"    -> "new"
      [] thread[r] # "new" /\ reply[r] = "none" -> "open"
      [] reply[r] = "result"  -> "answered"
      [] OTHER                -> "gave up"

Calls == INSTANCE RemoteCalls
            WITH Calls  <- Requests,
                 caller <- [r \in Requests |-> Caller(r)],
                 served <- [r \in Requests |-> IF executed[r] > 0 THEN 1 ELSE 0]

(* A result is returned only for a request that the agent has executed,    *)
(* whatever was lost, sent again or reordered.                             *)
ImplementsRemoteCalls == Calls!Spec

(* A local peer is not left waiting: it gets an answer, an error or the    *)
(* end of the connection.                                                  *)
PeersAreReleased ==
    \A r \in Requests : thread[r] # "new" ~> thread[r] \in {"closed", "rejected"}

(* The agent forgets every request in the end.                             *)
NodesAreFreed == \A r \in Requests : r \in agent_table ~> r \notin agent_table
=============================================================================
