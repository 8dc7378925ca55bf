----------------------- MODULE RemoteRequests_proofs -----------------------
(***************************************************************************)
(* Proofs about requests to agents, for any number of requests, sizes of   *)
(* the pools and attempts, and any network: the types, the pool of the     *)
(* manager, the table of the agent, what TCP promises, and that a result   *)
(* is only returned for a request that was executed (RemoteCalls).         *)
(*                                                                         *)
(* The manager's threads are summarised by Move, what a step of one of     *)
(* them may do; the invariants are proved of it once.                      *)
(***************************************************************************)
EXTENDS RemoteRequests, FiniteSetTheorems, TLAPS

ManagerTypes ==
    /\ protocol \in {"udp", "tcp"}
    /\ request_pool \in 0..PoolSize
    /\ thread \in [Requests -> Threads]
    /\ attempts \in [Requests -> 0..max_attempts]
    /\ buffer \in [Requests -> {"none", "ack"} \cup Answers]
    /\ signalled \subseteq Requests
    /\ reply \in [Requests -> Replies]
    /\ net \subseteq Requests \X Kinds

AgentTypes ==
    /\ agent_table \subseteq Requests
    /\ queue \in Seq(Requests)
    /\ payload \in [Requests -> {"request", "ack"}]
    /\ receiver \in Requests \cup {None}
    /\ sends \in 0..max_attempts
    /\ response \in Answers
    /\ acked \in BOOLEAN
    /\ executed \in [Requests -> Nat]

(* Attempts are left wherever one more is counted.                         *)
AttemptsLeft ==
    /\ \A r \in Requests : thread[r] \in {"ack", "response"} => attempts[r] < max_attempts
    /\ \A r \in Requests : thread[r] \in {"new", "waiting", "start"} => attempts[r] = 0

SendsLeft == sends < max_attempts

(* Nobody has answered a peer whose request is worked on.                  *)
Unanswered ==
    \A r \in Requests :
        thread[r] \in {"new", "waiting", "start", "ack", "response"} => reply[r] = "none"

(* The network and the agent know of requests that were taken.             *)
Known ==
    \A r \in Requests :
        r \in agent_table \/ (\E kind \in Kinds : <<r, kind>> \in net) => thread[r] # "new"

(* A result, wherever it is, is one of an executed request.                *)
ResultsAreReal ==
    /\ \A r \in Requests :
          <<r, "result">> \in net \/ buffer[r] = "result" \/ reply[r] = "result" => executed[r] > 0
    /\ receiver # None /\ response = "result" => executed[receiver] > 0

(* Over TCP: where a request is, it was not before.                        *)
TcpOnce ==
    protocol = "tcp" =>
        /\ receiver = None
        /\ \A r \in Requests :
              /\ thread[r] # "ack"
              /\ executed[r] <= 1
              /\ <<r, "req">> \in net => r \notin agent_table
              /\ <<r, "req">> \in net \/ r \in agent_table \/ thread[r] \in {"new", "waiting", "start"}
                    => executed[r] = 0
              /\ thread[r] \in {"new", "waiting", "start"} => <<r, "req">> \notin net /\ r \notin agent_table

PoolInv == IsFiniteSet(Running) /\ PoolIsKept

Inv ==
    /\ ManagerTypes /\ AgentTypes
    /\ AttemptsLeft /\ SendsLeft
    /\ PoolInv
    /\ TableIsWork
    /\ Unanswered /\ Known /\ ResultsAreReal /\ TcpOnce

LEMMA TypesSplit == TypeOK <=> ManagerTypes /\ AgentTypes
BY DEF TypeOK, ManagerTypes, AgentTypes

LEMMA SentSubset ==
  ASSUME NEW messages, NEW m
  PROVE  Sent(messages, m) \subseteq messages \cup {m}
BY DEF Sent

Busy == {"start", "ack", "response", "cleanup"}

(* What a step of the manager for the request r may do.                    *)
Move(r, T, A, R) ==
    /\ thread' = [thread EXCEPT ![r] = T]
    /\ attempts' = [attempts EXCEPT ![r] = A]
    /\ reply' = [reply EXCEPT ![r] = R]
    /\ UNCHANGED <<protocol, agent>>
    /\ buffer' \in {buffer, [buffer EXCEPT ![r] = "none"]}
    /\ signalled' \in {signalled, signalled \ {r}}
    /\ net' \subseteq net \cup {<<r, "req">>, <<r, "done">>}
    /\ T # "new"
    /\ T \in {"waiting", "start"} => thread[r] \in {"new", "waiting"} /\ A = attempts[r] /\ net' = net
    /\ T \in {"ack", "response"} => A < max_attempts
    /\ T = "ack" => protocol = "udp"
    /\ T \in {"waiting", "start", "ack", "response"} => R = reply[r] /\ thread[r] \in {"new", "waiting", "start", "ack", "response"}
    /\ R # reply[r] => thread[r] \in {"waiting", "start", "ack", "response"}
    /\ R = "result" => reply[r] = "result" \/ buffer[r] = "result"
    /\ <<r, "req">> \in net' => <<r, "req">> \in net \/ thread[r] \in {"start", "ack"}
    /\ net' # net => thread[r] # "new"
    /\ IF T \in Busy
       THEN IF thread[r] \in Busy THEN request_pool' = request_pool
            ELSE request_pool > 0 /\ request_pool' = request_pool - 1
       ELSE IF thread[r] \in Busy THEN request_pool' = request_pool + 1
            ELSE request_pool' \in {request_pool, request_pool - 1} \cap Nat

-----------------------------------------------------------------------------
LEMMA SenderMoves ==
  ASSUME Inv, NEW r \in Requests, ReqSender(r) \/ Sender(r)
  PROVE  \E T \in Threads, A \in 0..max_attempts, R \in Replies : Move(r, T, A, R)
<1>1. /\ thread \in [Requests -> Threads] /\ attempts \in [Requests -> 0..max_attempts]
      /\ reply \in [Requests -> Replies] /\ request_pool \in Nat
  BY SizesAssumption DEF Inv, ManagerTypes
<1> DEFINE A == attempts[r]
<1>2. A \in 0..max_attempts /\ attempts' = [attempts EXCEPT ![r] = A]
  BY <1>1 DEF ReqSender, Sender, PoolAvailable, PoolTimeout
<1> HIDE DEF A
<1>3. CASE ReqSender(r)
  <2>1. /\ thread[r] = "new"
        /\ UNCHANGED <<protocol, net, buffer, signalled, reply, agent>>
        /\ \/ /\ request_pool > 0 /\ request_pool' = request_pool - 1
              /\ thread' = [thread EXCEPT ![r] = "start"]
           \/ /\ request_pool' = request_pool
              /\ thread' = [thread EXCEPT ![r] = "waiting"]
    BY <1>3, Zenon DEF ReqSender
  <2>2. PICK T \in {"start", "waiting"} : thread' = [thread EXCEPT ![r] = T]
    BY <2>1
  <2>3. reply[r] \in Replies /\ reply' = [reply EXCEPT ![r] = reply[r]]
    BY <1>1, <2>1
  <2>4. Move(r, T, A, reply[r])
    BY <1>1, <1>2, <2>1, <2>2, <2>3 DEF Move, Busy, A
  <2>. QED  BY <1>2, <2>2, <2>3, <2>4 DEF Threads
<1>4. CASE PoolAvailable(r)
  <2>1. Move(r, "start", A, reply[r])
    BY <1>1, <1>2, <1>4 DEF PoolAvailable, Move, Busy, A
  <2>. QED  BY <1>1, <1>2, <2>1 DEF Threads
<1>5. CASE PoolTimeout(r)
  <2>1. Move(r, "rejected", A, "error")
    BY <1>1, <1>2, <1>5 DEF PoolTimeout, Move, Busy, A
  <2>. QED  BY <1>1, <1>2, <2>1 DEF Threads, Replies, Answers
<1>. QED  BY <1>3, <1>4, <1>5 DEF Sender

(* The dispatcher either sends the request (T is not "cleanup") or gives   *)
(* up.                                                                     *)
LEMMA DispatchMoves ==
  ASSUME Inv, NEW r \in Requests, ReqDispatch(r)
  PROVE  \E T \in Threads, A \in 0..max_attempts, R \in Replies : Move(r, T, A, R)
<1>1. /\ thread \in [Requests -> Threads] /\ attempts \in [Requests -> 0..max_attempts]
      /\ buffer \in [Requests -> {"none", "ack"} \cup Answers]
      /\ reply \in [Requests -> Replies] /\ request_pool \in Nat /\ max_attempts \in Nat \ {0}
      /\ protocol \in {"udp", "tcp"}
  BY SizesAssumption DEF Inv, ManagerTypes
<1>2. /\ thread[r] \in Threads /\ attempts[r] \in 0..max_attempts /\ reply[r] \in Replies
      /\ buffer[r] \in {"none", "ack"} \cup Answers
      /\ attempts = [attempts EXCEPT ![r] = attempts[r]]
      /\ reply = [reply EXCEPT ![r] = reply[r]]
      /\ thread = [thread EXCEPT ![r] = thread[r]]
  BY <1>1
<1>3. thread[r] \in {"ack", "response"} => attempts[r] < max_attempts
  BY DEF Inv, AttemptsLeft
<1>4. \A kind : Sent(net, <<r, kind>>) \subseteq net \cup {<<r, kind>>}
  BY SentSubset
<1>5. CASE NoAgent(r)
  <2>1. Move(r, "cleanup", attempts[r], "error")
    BY <1>1, <1>2, <1>5 DEF NoAgent, ReplyAndClean, Move, Busy
  <2>. QED  BY <1>2, <2>1 DEF Threads, Replies, Answers
<1>6. CASE FirstSend(r)
  <2>1. /\ thread[r] = "start" /\ SendToAgent(r)
        /\ UNCHANGED <<protocol, request_pool, attempts, buffer, signalled, agent>>
    BY <1>6 DEF FirstSend
  <2>2. attempts[r] < max_attempts
    BY <1>1, <2>1 DEF Inv, AttemptsLeft
  <2>3. CASE ReplyAndClean(r, "error") /\ UNCHANGED net
    <3>1. Move(r, "cleanup", attempts[r], "error")
      BY <1>1, <1>2, <2>1, <2>3 DEF ReplyAndClean, Move, Busy
    <3>. QED  BY <1>2, <3>1 DEF Threads, Replies, Answers
  <2>4. CASE /\ net' = Sent(net, <<r, "req">>)
             /\ thread' = [thread EXCEPT ![r] = IF protocol = "udp" THEN "ack" ELSE "response"]
             /\ UNCHANGED reply
    <3> DEFINE T == IF protocol = "udp" THEN "ack" ELSE "response"
    <3>1. net' \subseteq net \cup {<<r, "req">>}
      BY <1>4, <2>4
    <3>2. Move(r, T, attempts[r], reply[r])
      BY <1>1, <1>2, <2>1, <2>2, <2>4, <3>1 DEF Move, Busy
    <3>. QED  BY <1>2, <3>2 DEF Threads
  <2>. QED  BY <2>1, <2>3, <2>4, Zenon DEF SendToAgent
<1>7. CASE AckTimeout(r)
  <2>1. /\ thread[r] = "ack" /\ signalled' = signalled \ {r}
        /\ attempts' = [attempts EXCEPT ![r] = attempts[r] + 1]
        /\ UNCHANGED <<protocol, request_pool, buffer, agent>>
        /\ \/ attempts'[r] = max_attempts /\ ReplyAndClean(r, "attempts") /\ UNCHANGED net
           \/ attempts'[r] # max_attempts /\ SendToAgent(r)
    BY <1>7, Zenon DEF AckTimeout
  <2>2. attempts[r] + 1 \in 0..max_attempts /\ attempts'[r] = attempts[r] + 1
    BY <1>1, <1>2, <1>3, <2>1
  <2>3. CASE attempts'[r] = max_attempts /\ ReplyAndClean(r, "attempts") /\ UNCHANGED net
    <3>1. Move(r, "cleanup", attempts[r] + 1, "attempts")
      BY <1>1, <1>2, <2>1, <2>3 DEF ReplyAndClean, Move, Busy
    <3>. QED  BY <2>2, <3>1 DEF Threads, Replies
  <2>4. CASE ReplyAndClean(r, "error") /\ UNCHANGED net
    <3>1. Move(r, "cleanup", attempts[r] + 1, "error")
      BY <1>1, <1>2, <2>1, <2>4 DEF ReplyAndClean, Move, Busy
    <3>. QED  BY <2>2, <3>1 DEF Threads, Replies, Answers
  <2>5. CASE /\ attempts'[r] # max_attempts
             /\ net' = Sent(net, <<r, "req">>)
             /\ thread' = [thread EXCEPT ![r] = IF protocol = "udp" THEN "ack" ELSE "response"]
             /\ UNCHANGED reply
    <3> DEFINE T == IF protocol = "udp" THEN "ack" ELSE "response"
    <3>1. net' \subseteq net \cup {<<r, "req">>}
      BY <1>4, <2>5
    <3>2. attempts[r] + 1 < max_attempts
      BY <1>1, <2>2, <2>5
    <3>3. Move(r, T, attempts[r] + 1, reply[r])
      BY <1>1, <1>2, <2>1, <2>5, <3>1, <3>2 DEF Move, Busy
    <3>. QED  BY <1>2, <2>2, <3>3 DEF Threads
  <2>. QED  BY <2>1, <2>3, <2>4, <2>5, Zenon DEF SendToAgent
<1>8. ASSUME ReturnAnswer(r), thread[r] \in {"ack", "response"}, buffer[r] \in Answers,
             signalled' = signalled \ {r},
             NEW A \in 0..max_attempts, attempts' = [attempts EXCEPT ![r] = A],
             UNCHANGED <<protocol, request_pool, buffer, agent>>
      PROVE  \E T \in Threads, R \in Replies : Move(r, T, A, R)
  <2>1. net' \subseteq net \cup {<<r, "done">>}
    BY <1>4, <1>8 DEF ReturnAnswer
  <2>2. /\ reply' = [reply EXCEPT ![r] = buffer[r]]
        /\ thread' = [thread EXCEPT ![r] = "cleanup"]
    BY <1>8 DEF ReturnAnswer, ReplyAndClean
  <2>3. Move(r, "cleanup", A, buffer[r])
    BY <1>1, <1>2, <1>8, <2>1, <2>2 DEF Move, Busy, Answers
  <2>. QED  BY <1>8, <2>3 DEF Threads, Replies
<1>9. CASE AckWakes(r)
  <2>1. /\ thread[r] = "ack" /\ signalled' = signalled \ {r}
        /\ attempts' = [attempts EXCEPT ![r] = 0]
        /\ UNCHANGED <<protocol, request_pool, buffer, agent>>
        /\ \/ buffer[r] \in Answers /\ ReturnAnswer(r)
           \/ thread' = [thread EXCEPT ![r] = "response"] /\ UNCHANGED <<net, reply>>
    BY <1>9, Zenon DEF AckWakes
  <2>2. 0 \in 0..max_attempts
    BY <1>1
  <2>3. CASE buffer[r] \in Answers /\ ReturnAnswer(r)
    BY <1>8, <2>1, <2>2, <2>3
  <2>4. CASE thread' = [thread EXCEPT ![r] = "response"] /\ UNCHANGED <<net, reply>>
    <3>1. Move(r, "response", 0, reply[r])
      BY <1>1, <1>2, <2>1, <2>4 DEF Move, Busy
    <3>. QED  BY <1>2, <2>2, <3>1 DEF Threads
  <2>. QED  BY <2>1, <2>3, <2>4
<1>10. CASE ResponseWakes(r)
  <2>1. /\ thread[r] = "response" /\ signalled' = signalled \ {r}
        /\ attempts' = [attempts EXCEPT ![r] = attempts[r] + 1]
        /\ UNCHANGED <<protocol, request_pool, buffer, agent>>
    BY <1>10, Zenon DEF ResponseWakes
  <2>2. attempts[r] + 1 \in 0..max_attempts /\ attempts'[r] = attempts[r] + 1
    BY <1>1, <1>2, <1>3, <2>1
  <2>3. CASE attempts'[r] = max_attempts
    <3>1. ReplyAndClean(r, "attempts") /\ UNCHANGED net
      BY <1>1, <1>10, <2>2, <2>3 DEF ResponseWakes
    <3>2. Move(r, "cleanup", attempts[r] + 1, "attempts")
      BY <1>1, <1>2, <2>1, <3>1 DEF ReplyAndClean, Move, Busy
    <3>. QED  BY <2>2, <3>2 DEF Threads, Replies
  <2>4. CASE attempts'[r] < max_attempts /\ buffer[r] \in Answers
    <3>1. ReturnAnswer(r)
      BY <1>1, <1>10, <2>2, <2>4 DEF ResponseWakes
    <3>. QED  BY <1>8, <2>1, <2>2, <2>4, <3>1
  <2>5. CASE attempts'[r] < max_attempts /\ buffer[r] \notin Answers
    <3>1. UNCHANGED <<thread, net, reply>>
      BY <1>1, <1>10, <2>2, <2>5 DEF ResponseWakes
    <3>2. Move(r, thread[r], attempts[r] + 1, reply[r])
      BY <1>1, <1>2, <2>1, <2>2, <2>5, <3>1 DEF Move, Busy
    <3>. QED  BY <1>2, <2>2, <3>2
  <2>. QED  BY <1>1, <2>2, <2>3, <2>4, <2>5
<1>11. CASE ResponseTimeout(r)
  <2>1. Move(r, "cleanup", attempts[r], "error")
    BY <1>1, <1>2, <1>11 DEF ResponseTimeout, ReplyAndClean, Move, Busy
  <2>. QED  BY <1>2, <2>1 DEF Threads, Replies, Answers
<1>12. CASE Cleanup(r)
  <2>1. Move(r, "closed", 0, reply[r])
    BY <1>1, <1>2, <1>12 DEF Cleanup, Move, Busy
  <2>. QED  BY <1>1, <1>2, <2>1 DEF Threads
<1>. QED  BY <1>5, <1>6, <1>7, <1>9, <1>10, <1>11, <1>12 DEF ReqDispatch

-----------------------------------------------------------------------------
(* A step of the manager keeps each part of the invariant.                 *)

LEMMA MovePool ==
  ASSUME Inv, NEW r \in Requests, NEW T \in Threads, NEW A, NEW R, Move(r, T, A, R)
  PROVE  PoolInv' /\ request_pool' \in 0..PoolSize
<1>1. /\ thread \in [Requests -> Threads] /\ request_pool \in Nat /\ PoolSize \in Nat
      /\ thread' = [thread EXCEPT ![r] = T]
  BY SizesAssumption DEF Inv, ManagerTypes, Move
<1>2. /\ IsFiniteSet(Running) /\ Cardinality(Running) + request_pool <= PoolSize
      /\ Cardinality(Running) \in Nat
  BY FS_CardinalityType DEF Inv, PoolInv, PoolIsKept
<1>3. /\ Running = {s \in Requests : thread[s] \in Busy}
      /\ Running' = {s \in Requests : thread'[s] \in Busy}
  BY DEF Running, Busy
<1>4. Running' = IF T \in Busy THEN Running \cup {r} ELSE Running \ {r}
  BY <1>1, <1>3
<1>5. r \in Running <=> thread[r] \in Busy
  BY <1>3
<1>6. IF T \in Busy
      THEN IF thread[r] \in Busy THEN request_pool' = request_pool
           ELSE request_pool > 0 /\ request_pool' = request_pool - 1
      ELSE IF thread[r] \in Busy THEN request_pool' = request_pool + 1
           ELSE request_pool' \in {request_pool, request_pool - 1} \cap Nat
  BY DEF Move
<1>7. /\ IsFiniteSet(Running \cup {r})
      /\ Cardinality(Running \cup {r}) = IF r \in Running THEN Cardinality(Running) ELSE Cardinality(Running) + 1
  BY <1>2, FS_AddElement, Zenon
<1>8. /\ IsFiniteSet(Running \ {r})
      /\ Cardinality(Running \ {r}) = IF r \in Running THEN Cardinality(Running) - 1 ELSE Cardinality(Running)
  BY <1>2, FS_RemoveElement, Zenon
<1>9. CASE T \in Busy
  <2>1. /\ Running' = Running \cup {r} /\ IsFiniteSet(Running')
        /\ Cardinality(Running') = IF r \in Running THEN Cardinality(Running) ELSE Cardinality(Running) + 1
    BY <1>4, <1>7, <1>9
  <2>2. Cardinality(Running') + request_pool' <= PoolSize /\ request_pool' \in 0..PoolSize
    BY <1>1, <1>2, <1>5, <1>6, <1>9, <2>1
  <2>. QED  BY <2>1, <2>2 DEF PoolInv, PoolIsKept
<1>10. CASE T \notin Busy
  <2>1. /\ Running' = Running \ {r} /\ IsFiniteSet(Running')
        /\ Cardinality(Running') = IF r \in Running THEN Cardinality(Running) - 1 ELSE Cardinality(Running)
    BY <1>4, <1>8, <1>10
  <2>2. Cardinality(Running') \in Nat
    BY <2>1, FS_CardinalityType
  <2>3. Cardinality(Running') + request_pool' <= PoolSize /\ request_pool' \in 0..PoolSize
    BY <1>1, <1>2, <1>5, <1>6, <1>10, <2>1, <2>2
  <2>. QED  BY <2>1, <2>3 DEF PoolInv, PoolIsKept
<1>. QED  BY <1>9, <1>10

LEMMA MoveKeeps ==
  ASSUME Inv, NEW r \in Requests, NEW T \in Threads, NEW A \in 0..max_attempts, NEW R \in Replies,
         Move(r, T, A, R)
  PROVE  Inv'
<1>1. /\ thread \in [Requests -> Threads] /\ attempts \in [Requests -> 0..max_attempts]
      /\ buffer \in [Requests -> {"none", "ack"} \cup Answers]
      /\ signalled \subseteq Requests
      /\ reply \in [Requests -> Replies] /\ net \subseteq Requests \X Kinds
      /\ protocol \in {"udp", "tcp"}
  BY DEF Inv, ManagerTypes
<1>2. /\ thread' = [thread EXCEPT ![r] = T]
      /\ attempts' = [attempts EXCEPT ![r] = A]
      /\ reply' = [reply EXCEPT ![r] = R]
      /\ protocol' = protocol
      /\ buffer' \in {buffer, [buffer EXCEPT ![r] = "none"]}
      /\ signalled' \in {signalled, signalled \ {r}}
      /\ net' \subseteq net \cup {<<r, "req">>, <<r, "done">>}
  BY DEF Move
<1>3. UNCHANGED <<agent_table, queue, payload, receiver, sends, response, acked, executed>>
  BY DEF Move, agent
<1>4. ManagerTypes'
  <2>1. net' \subseteq Requests \X Kinds
    BY <1>1, <1>2 DEF Kinds
  <2>2. buffer' \in [Requests -> {"none", "ack"} \cup Answers]
    BY <1>1, <1>2
  <2>. QED  BY <1>1, <1>2, <2>1, <2>2, MovePool DEF ManagerTypes
<1>5. AgentTypes' /\ SendsLeft'
  BY <1>3 DEF Inv, AgentTypes, SendsLeft
<1>6. TableIsWork'
  BY <1>3 DEF Inv, TableIsWork
<1>7. AttemptsLeft'
  <2>1. T \in {"waiting", "start"} => thread[r] \in {"new", "waiting"} /\ A = attempts[r]
    BY DEF Move
  <2>2. T # "new" /\ (T \in {"ack", "response"} => A < max_attempts)
    BY DEF Move
  <2>. QED  BY <1>1, <1>2, <2>1, <2>2 DEF Inv, AttemptsLeft
<1>8. Unanswered'
  <2>1. /\ T # "new"
        /\ T \in {"waiting", "start", "ack", "response"} =>
              R = reply[r] /\ thread[r] \in {"new", "waiting", "start", "ack", "response"}
    BY DEF Move
  <2>. QED  BY <1>1, <1>2, <2>1 DEF Inv, Unanswered
<1>9. Known'
  <2>1. T # "new"
    BY DEF Move
  <2>2. \A s \in Requests \ {r} : \A kind : <<s, kind>> \in net' => <<s, kind>> \in net
    BY <1>2
  <2>. QED  BY <1>1, <1>2, <1>3, <2>1, <2>2 DEF Inv, Known
<1>10. ResultsAreReal'
  <2>1. R = "result" => reply[r] = "result" \/ buffer[r] = "result"
    BY DEF Move
  <2>2. \A s : <<s, "result">> \in net' => <<s, "result">> \in net
    BY <1>2
  <2>3. \A s \in Requests : buffer'[s] = "result" => buffer[s] = "result"
    BY <1>1, <1>2
  <2>4. \A s \in Requests : reply'[s] = "result" => reply[s] = "result" \/ buffer[s] = "result"
    BY <1>1, <1>2, <2>1
  <2>. QED  BY <1>3, <2>2, <2>3, <2>4 DEF Inv, ResultsAreReal
<1>11. TcpOnce'
  <2>1. /\ T # "new"
        /\ T \in {"waiting", "start"} => thread[r] \in {"new", "waiting"} /\ net' = net
        /\ T = "ack" => protocol = "udp"
        /\ <<r, "req">> \in net' => <<r, "req">> \in net \/ thread[r] \in {"start", "ack"}
    BY DEF Move
  <2>2. \A s \in Requests \ {r} : <<s, "req">> \in net' => <<s, "req">> \in net
    BY <1>2
  <2>. QED  BY <1>1, <1>2, <1>3, <2>1, <2>2 DEF Inv, TcpOnce
<1>. QED  BY <1>4, <1>5, <1>6, <1>7, <1>8, <1>9, <1>10, <1>11, MovePool DEF Inv

-----------------------------------------------------------------------------
(* Steps of the agent, and of the network.                                 *)

LEMMA QueueLemmas ==
  ASSUME NEW q \in Seq(Requests), IsInjective(q)
  PROVE  /\ \A r \in Requests \ ToSet(q) :
               ToSet(Append(q, r)) = ToSet(q) \cup {r} /\ IsInjective(Append(q, r))
         /\ q # <<>> => /\ Head(q) \in Requests
                        /\ Head(q) \in ToSet(q)
                        /\ ToSet(Tail(q)) = ToSet(q) \ {Head(q)}
                        /\ IsInjective(Tail(q))
<1>1. ASSUME NEW r \in Requests \ ToSet(q)
      PROVE  ToSet(Append(q, r)) = ToSet(q) \cup {r} /\ IsInjective(Append(q, r))
  <2> DEFINE a == Append(q, r)
  <2>1. /\ DOMAIN a = 1..(Len(q) + 1) /\ DOMAIN q = 1..Len(q) /\ Len(q) \in Nat
        /\ a[Len(q) + 1] = r /\ \A i \in 1..Len(q) : a[i] = q[i]
    OBVIOUS
  <2> HIDE DEF a
  <2>2. ToSet(a) = ToSet(q) \cup {r}
    BY <2>1 DEF ToSet
  <2>3. \A i \in 1..Len(q) : q[i] # r
    BY <1>1, <2>1 DEF ToSet
  <2>4. IsInjective(a)
    BY <2>1, <2>3 DEF IsInjective
  <2>. QED  BY <2>2, <2>4 DEF a
<1>2. ASSUME q # <<>>
      PROVE  /\ Head(q) \in Requests /\ Head(q) \in ToSet(q)
             /\ ToSet(Tail(q)) = ToSet(q) \ {Head(q)} /\ IsInjective(Tail(q))
  <2> DEFINE t == Tail(q)
  <2>1. /\ Len(q) \in Nat \ {0} /\ DOMAIN q = 1..Len(q) /\ Head(q) = q[1]
        /\ DOMAIN t = 1..(Len(q) - 1) /\ \A i \in 1..(Len(q) - 1) : t[i] = q[i + 1]
    BY <1>2
  <2> HIDE DEF t
  <2>2. Head(q) \in Requests /\ Head(q) \in ToSet(q)
    BY <2>1 DEF ToSet
  <2>3. ToSet(t) \subseteq ToSet(q) \ {Head(q)}
    <3> SUFFICES ASSUME NEW i \in 1..(Len(q) - 1)
                 PROVE  t[i] \in ToSet(q) /\ t[i] # Head(q)
      BY <2>1 DEF ToSet
    <3>1. i + 1 \in 1..Len(q) /\ i + 1 # 1 /\ 1 \in 1..Len(q) /\ t[i] = q[i + 1]
      BY <2>1
    <3>. QED  BY <2>1, <3>1 DEF ToSet, IsInjective
  <2>4. ToSet(q) \ {Head(q)} \subseteq ToSet(t)
    <3> SUFFICES ASSUME NEW i \in 1..Len(q), q[i] # q[1]
                 PROVE  q[i] \in ToSet(t)
      BY <2>1 DEF ToSet
    <3>1. i - 1 \in 1..(Len(q) - 1) /\ t[i - 1] = q[i]
      BY <2>1
    <3>. QED  BY <2>1, <3>1 DEF ToSet
  <2>5. IsInjective(t)
    <3> SUFFICES ASSUME NEW i \in 1..(Len(q) - 1), NEW j \in 1..(Len(q) - 1), t[i] = t[j]
                 PROVE  i = j
      BY <2>1 DEF IsInjective
    <3>1. i + 1 \in 1..Len(q) /\ j + 1 \in 1..Len(q) /\ q[i + 1] = q[j + 1]
      BY <2>1
    <3>. QED  BY <2>1, <3>1 DEF IsInjective
  <2>. QED  BY <2>2, <2>3, <2>4, <2>5 DEF t
<1>. QED  BY <1>1, <1>2

(* What a step of the agent may do: to the network, ...                    *)
NetMoves ==
    /\ net' \subseteq Requests \X Kinds
    /\ \A r \in Requests : \A kind \in Kinds : <<r, kind>> \in net' =>
          \/ <<r, kind>> \in net
          \/ kind \in {"ack", "error", "result"} /\ (<<r, "req">> \in net \/ r \in agent_table)

(* ... to its table, ...                                                   *)
TableMoves ==
    /\ AgentTypes' /\ SendsLeft' /\ TableIsWork'
    /\ \A r \in Requests :
          r \in agent_table' /\ r \notin agent_table => <<r, "req">> \in net /\ <<r, "req">> \notin net'
    /\ protocol = "tcp" => receiver' = None

(* ... and by executing a request.                                         *)
ExecutedMoves ==
    \/ executed' = executed
    \/ \E r \in agent_table :
          /\ executed' = [executed EXCEPT ![r] = @ + 1]
          /\ protocol = "tcp" => r \notin agent_table'

ResultsMove ==
    /\ \A r \in Requests : <<r, "result">> \in net' /\ <<r, "result">> \notin net => executed'[r] > 0
    /\ receiver' # None /\ response' = "result" => executed'[receiver'] > 0

AgentMove ==
    /\ UNCHANGED <<protocol, manager>>
    /\ NetMoves /\ TableMoves /\ ExecutedMoves /\ ResultsMove

LEMMA AgentMoveKeeps ==
  ASSUME Inv, AgentMove
  PROVE  Inv'
<1>1. UNCHANGED <<protocol, request_pool, thread, attempts, buffer, signalled, reply>>
  BY DEF AgentMove, manager
<1>2. ManagerTypes'
  BY <1>1 DEF Inv, ManagerTypes, AgentMove, NetMoves
<1>3. AgentTypes' /\ SendsLeft' /\ TableIsWork'
  BY DEF AgentMove, TableMoves
<1>4. AttemptsLeft' /\ Unanswered'
  BY <1>1 DEF Inv, AttemptsLeft, Unanswered
<1>5. PoolInv'
  BY <1>1 DEF Inv, PoolInv, PoolIsKept, Running
<1>6. Known'
  <2>1. "req" \in Kinds
    BY DEF Kinds
  <2>. QED  BY <1>1, <2>1 DEF Inv, Known, AgentMove, NetMoves, TableMoves
<1>7. \A r \in Requests : executed[r] \in Nat /\ executed'[r] \in Nat
  BY <1>3 DEF Inv, AgentTypes
<1>8. \A r \in Requests :
        \/ executed'[r] = executed[r]
        \/ executed'[r] = executed[r] + 1 /\ r \in agent_table /\ (protocol = "tcp" => r \notin agent_table')
  BY DEF Inv, AgentTypes, AgentMove, ExecutedMoves
<1>9. ResultsAreReal'
  <2>1. \A r \in Requests : executed'[r] \in {executed[r], executed[r] + 1}
    BY <1>8
  <2>2. \A r \in Requests : executed[r] > 0 => executed'[r] > 0
    BY <1>7, <2>1
  <2>3. \A r \in Requests : <<r, "result">> \in net' /\ <<r, "result">> \notin net => executed'[r] > 0
    BY DEF AgentMove, ResultsMove
  <2>4. receiver' # None /\ response' = "result" => executed'[receiver'] > 0
    BY DEF AgentMove, ResultsMove
  <2>. QED  BY <1>1, <2>2, <2>3, <2>4 DEF Inv, ResultsAreReal
<1>10. TcpOnce'
  <2>1. protocol' = protocol
    BY <1>1
  <2>2. protocol = "tcp" => receiver' = None
    BY DEF AgentMove, TableMoves
  <2> SUFFICES ASSUME protocol = "tcp", NEW r \in Requests
               PROVE  /\ thread'[r] # "ack"
                      /\ executed'[r] <= 1
                      /\ <<r, "req">> \in net' => r \notin agent_table'
                      /\ <<r, "req">> \in net' \/ r \in agent_table' \/ thread'[r] \in {"new", "waiting", "start"}
                            => executed'[r] = 0
                      /\ thread'[r] \in {"new", "waiting", "start"} =>
                            <<r, "req">> \notin net' /\ r \notin agent_table'
    BY <2>1, <2>2 DEF TcpOnce
  <2>3. /\ thread[r] # "ack"
        /\ executed[r] <= 1
        /\ <<r, "req">> \in net => r \notin agent_table
        /\ <<r, "req">> \in net \/ r \in agent_table \/ thread[r] \in {"new", "waiting", "start"}
              => executed[r] = 0
        /\ thread[r] \in {"new", "waiting", "start"} => <<r, "req">> \notin net /\ r \notin agent_table
    BY DEF Inv, TcpOnce
  <2>4. /\ <<r, "req">> \in net' => <<r, "req">> \in net
        /\ r \in agent_table' /\ r \notin agent_table => <<r, "req">> \in net /\ <<r, "req">> \notin net'
        /\ \/ executed'[r] = executed[r]
           \/ executed'[r] = executed[r] + 1 /\ r \in agent_table /\ r \notin agent_table'
    <3>1. "req" \in Kinds
      BY DEF Kinds
    <3>. QED  BY <1>8, <3>1 DEF AgentMove, NetMoves, TableMoves
  <2>5. executed'[r] \in Nat /\ executed[r] \in Nat
    BY <1>7
  <2>6. CASE executed'[r] = executed[r]
    BY <1>1, <2>3, <2>4, <2>6
  <2>7. CASE executed'[r] = executed[r] + 1 /\ r \in agent_table /\ r \notin agent_table'
    <3>1. executed[r] = 0 /\ executed'[r] = 1
      BY <2>3, <2>4, <2>5, <2>7
    <3>. QED  BY <1>1, <2>3, <2>4, <2>7, <3>1
  <2>. QED  BY <2>4, <2>5, <2>6, <2>7
<1>. QED  BY <1>2, <1>3, <1>4, <1>5, <1>6, <1>9, <1>10 DEF Inv

LEMMA SentTyped ==
  ASSUME NEW messages \in SUBSET (Requests \X Kinds), NEW r \in Requests, NEW kind \in Kinds
  PROVE  /\ Sent(messages, <<r, kind>>) \in SUBSET (Requests \X Kinds)
         /\ Sent(messages, <<r, kind>>) \subseteq messages \cup {<<r, kind>>}
BY DEF Sent

LEMMA NothingExecuted ==
  ASSUME Inv, UNCHANGED <<protocol, receiver, response, executed>>,
         \A r \in Requests : <<r, "result">> \in net' => <<r, "result">> \in net
  PROVE  ExecutedMoves /\ ResultsMove /\ (protocol = "tcp" => receiver' = None)
BY DEF Inv, ExecutedMoves, ResultsMove, ResultsAreReal, TcpOnce

LEMMA TableKept ==
  ASSUME Inv, UNCHANGED <<agent_table, queue, receiver, sends, response, executed>>,
         payload' \in [Requests -> {"request", "ack"}], acked' \in BOOLEAN
  PROVE  /\ AgentTypes' /\ SendsLeft' /\ TableIsWork'
         /\ protocol = "tcp" => receiver' = None
BY DEF Inv, AgentTypes, SendsLeft, TableIsWork, TcpOnce

(* The request r, which was taken from the queue, is answered or given up. *)
LEMMA AnswerMoves ==
  ASSUME Inv, NEW r \in Requests, NEW answer \in Answers, NEW tries \in 0..(max_attempts - 1),
         SendAnswer(r, answer, tries) \/ (Leave(r) /\ UNCHANGED net),
         queue' \in Seq(Requests), IsInjective(queue'),
         r \notin ToSet(queue'), agent_table = ToSet(queue') \cup {r},
         acked' = FALSE, executed' \in [Requests -> Nat]
  PROVE  /\ NetMoves /\ TableMoves
         /\ receiver' # None => receiver' = r /\ response' = answer
         /\ protocol = "tcp" => r \notin agent_table'
         /\ \A s \in Requests : <<s, "result">> \in net' /\ <<s, "result">> \notin net =>
               s = r /\ answer = "result"
<1>1. /\ protocol \in {"udp", "tcp"} /\ net \in SUBSET (Requests \X Kinds)
      /\ agent_table \subseteq Requests /\ payload \in [Requests -> {"request", "ack"}]
      /\ max_attempts \in Nat \ {0} /\ None \notin Requests
  BY SizesAssumption, NoneAssumption DEF Inv, ManagerTypes, AgentTypes
<1>2. Answers = {"error", "result"} /\ answer \in Kinds
  BY DEF Kinds, Answers
<1>3. \/ /\ Leave(r)
         /\ net' = net \/ net' = Sent(net, <<r, answer>>)
      \/ /\ protocol # "tcp"
         /\ net' = Sent(net, <<r, answer>>)
         /\ receiver' = r /\ sends' = tries /\ response' = answer
         /\ UNCHANGED <<agent_table, payload>>
  BY Zenon DEF SendAnswer
<1>4. net' = net \/ net' = Sent(net, <<r, answer>>)
  BY <1>3
<1>5. net' \subseteq Requests \X Kinds /\ net' \subseteq net \cup {<<r, answer>>}
  BY <1>1, <1>2, <1>4, SentTyped
<1>6. NetMoves
  BY <1>2, <1>5 DEF NetMoves
<1>7. \A s \in Requests : <<s, "result">> \in net' /\ <<s, "result">> \notin net =>
          s = r /\ answer = "result"
  BY <1>5
<1>8. CASE Leave(r)
  <2>1. /\ agent_table' = agent_table \ {r} /\ payload' = [payload EXCEPT ![r] = "request"]
        /\ receiver' = None /\ sends' = 0 /\ response' = "error"
    BY <1>8 DEF Leave
  <2>2. TableIsWork'
    BY <1>1, <2>1 DEF TableIsWork
  <2>3. /\ agent_table' \subseteq Requests /\ payload' \in [Requests -> {"request", "ack"}]
        /\ receiver' \in Requests \cup {None} /\ response' \in Answers
    BY <1>1, <1>2, <2>1
  <2>4. AgentTypes' /\ SendsLeft'
    <3>1. sends' \in 0..max_attempts /\ sends' < max_attempts
      BY <1>1, <2>1
    <3>2. acked' \in BOOLEAN
      OBVIOUS
    <3>. QED  BY <2>3, <3>1, <3>2 DEF AgentTypes, SendsLeft
  <2>. QED  BY <1>6, <1>7, <2>1, <2>2, <2>4 DEF TableMoves
<1>9. CASE /\ protocol # "tcp"
           /\ receiver' = r /\ sends' = tries /\ response' = answer
           /\ UNCHANGED <<agent_table, payload>>
  <2>1. TableIsWork'
    BY <1>1, <1>9 DEF TableIsWork
  <2>2. /\ agent_table' \subseteq Requests /\ payload' \in [Requests -> {"request", "ack"}]
        /\ receiver' \in Requests \cup {None} /\ response' \in Answers
    BY <1>1, <1>9
  <2>3. AgentTypes' /\ SendsLeft'
    <3>1. sends' \in 0..max_attempts /\ sends' < max_attempts
      BY <1>1, <1>9
    <3>2. acked' \in BOOLEAN
      OBVIOUS
    <3>. QED  BY <2>2, <3>1, <3>2 DEF AgentTypes, SendsLeft
  <2>. QED  BY <1>6, <1>7, <1>9, <2>1, <2>3 DEF TableMoves
<1>. QED  BY <1>3, <1>8, <1>9

LEMMA AgentMoves ==
  ASSUME Inv, NEW r \in Requests, NoTarget(r) \/ ReqPush(r) \/ AckPush(r) \/ ReqReceiver(r)
  PROVE  AgentMove
<1>1. /\ protocol \in {"udp", "tcp"} /\ net \in SUBSET (Requests \X Kinds)
      /\ agent_table \subseteq Requests /\ queue \in Seq(Requests)
      /\ payload \in [Requests -> {"request", "ack"}]
      /\ receiver \in Requests \cup {None} /\ sends \in Nat /\ sends < max_attempts
      /\ max_attempts \in Nat \ {0}
      /\ response \in Answers /\ acked \in BOOLEAN
      /\ executed \in [Requests -> Nat] /\ None \notin Requests
  BY SizesAssumption, NoneAssumption DEF Inv, ManagerTypes, AgentTypes, SendsLeft
<1>2. /\ agent_table = ToSet(queue) \cup ({receiver} \ {None})
      /\ IsInjective(queue) /\ receiver \notin ToSet(queue)
  BY DEF Inv, TableIsWork
<1>3. /\ protocol = "tcp" => receiver = None
      /\ receiver # None /\ response = "result" => executed[receiver] > 0
  BY DEF Inv, TcpOnce, ResultsAreReal
<1>4. {"req", "ack", "error", "result"} \subseteq Kinds /\ Answers = {"error", "result"}
  BY DEF Kinds, Answers
(* What the acknowledgement leaves of the network.                         *)
<1>5. /\ Acknowledged(r) \in SUBSET (Requests \X Kinds)
      /\ Acknowledged(r) \subseteq (net \ {<<r, "req">>}) \cup {<<r, "ack">>}
  <2>1. net \ {<<r, "req">>} \in SUBSET (Requests \X Kinds)
    BY <1>1
  <2>. QED  BY <1>4, <2>1, SentTyped DEF Acknowledged
<1>6. CASE NoTarget(r)
  <2>1. /\ <<r, "req">> \in net /\ net' = Sent(net \ {<<r, "req">>}, <<r, "error">>)
        /\ UNCHANGED <<protocol, manager>>
        /\ UNCHANGED <<agent_table, queue, payload, receiver, sends, response, acked, executed>>
    BY <1>6 DEF NoTarget, agent
  <2>2. net \ {<<r, "req">>} \in SUBSET (Requests \X Kinds)
    BY <1>1
  <2>3. net' \subseteq Requests \X Kinds /\ net' \subseteq net \cup {<<r, "error">>}
    BY <1>4, <2>1, <2>2, SentTyped
  <2>4. NetMoves
    BY <2>1, <2>3 DEF NetMoves
  <2>5. TableMoves
    BY <1>1, <2>1, TableKept DEF TableMoves
  <2>6. ExecutedMoves /\ ResultsMove
    BY <2>1, <2>3, NothingExecuted
  <2>. QED  BY <2>1, <2>4, <2>5, <2>6 DEF AgentMove
<1>7. CASE ReqPush(r)
  <2>1. /\ <<r, "req">> \in net /\ UNCHANGED <<protocol, manager>>
        /\ UNCHANGED <<receiver, sends, response, acked, executed>>
        /\ \/ net' = Acknowledged(r) /\ UNCHANGED <<agent_table, queue, payload>>
           \/ TooMany(r)
           \/ r \notin agent_table /\ Enqueue(r)
    BY <1>7, Zenon DEF ReqPush
  <2>2. net' = Acknowledged(r) \/ net' = Sent(Acknowledged(r), <<r, "error">>)
    BY <2>1 DEF TooMany, Enqueue
  <2>3. /\ net' \subseteq Requests \X Kinds
        /\ net' \subseteq (net \ {<<r, "req">>}) \cup {<<r, "ack">>, <<r, "error">>}
    BY <1>4, <1>5, <2>2, SentTyped
  <2>4. NetMoves
    BY <2>1, <2>3 DEF NetMoves
  <2>5. ExecutedMoves /\ ResultsMove /\ (protocol = "tcp" => receiver' = None)
    BY <2>1, <2>3, NothingExecuted
  <2>6. CASE UNCHANGED <<agent_table, queue, payload>>
    <3>1. TableMoves
      BY <1>1, <2>1, <2>6, TableKept DEF TableMoves
    <3>. QED  BY <2>1, <2>4, <2>5, <3>1 DEF AgentMove
  <2>7. CASE r \notin agent_table /\ Enqueue(r)
    <3>1. /\ agent_table' = agent_table \cup {r}
          /\ payload' = [payload EXCEPT ![r] = "request"]
          /\ queue' = Append(queue, r) /\ r \notin agent_table
      BY <2>7 DEF Enqueue
    <3>2. queue' \in Seq(Requests) /\ payload' \in [Requests -> {"request", "ack"}]
      BY <1>1, <3>1
    <3>3. r \in Requests \ ToSet(queue) /\ receiver # r
      BY <1>1, <1>2, <3>1
    <3>4. ToSet(queue') = ToSet(queue) \cup {r} /\ IsInjective(queue')
      BY <1>1, <1>2, <3>1, <3>3, QueueLemmas
    <3>5. TableIsWork'
      BY <1>2, <2>1, <3>1, <3>3, <3>4 DEF TableIsWork
    <3>6. AgentTypes' /\ SendsLeft'
      BY <1>1, <2>1, <3>1, <3>2 DEF Inv, AgentTypes, SendsLeft
    <3>7. <<r, "req">> \notin net'
      BY <2>3
    <3>8. TableMoves
      BY <2>1, <2>5, <3>1, <3>5, <3>6, <3>7 DEF TableMoves
    <3>. QED  BY <2>1, <2>4, <2>5, <3>8 DEF AgentMove
  <2>. QED  BY <2>1, <2>6, <2>7 DEF TooMany
<1>8. CASE AckPush(r)
  <2>1. /\ net' = net \ {<<r, "done">>} /\ UNCHANGED <<protocol, manager>>
        /\ UNCHANGED <<agent_table, queue, receiver, sends, response, executed>>
        /\ payload' \in {payload, [payload EXCEPT ![r] = "ack"]}
        /\ acked' \in BOOLEAN
    BY <1>1, <1>8 DEF AckPush
  <2>2. payload' \in [Requests -> {"request", "ack"}]
    BY <1>1, <2>1
  <2>3. NetMoves
    BY <1>1, <2>1 DEF NetMoves
  <2>4. TableMoves
    BY <2>1, <2>2, TableKept DEF TableMoves
  <2>5. ExecutedMoves /\ ResultsMove
    BY <2>1, NothingExecuted
  <2>. QED  BY <2>1, <2>3, <2>4, <2>5 DEF AgentMove
<1>9. CASE Execute(r)
  <2>1. /\ receiver = None /\ queue # <<>> /\ r = Head(queue) /\ queue' = Tail(queue)
        /\ acked' = FALSE /\ UNCHANGED <<protocol, manager>>
    BY <1>9 DEF Execute
  <2>2. /\ queue' \in Seq(Requests) /\ IsInjective(queue') /\ r \notin ToSet(queue')
        /\ agent_table = ToSet(queue') \cup {r}
    BY <1>1, <1>2, <2>1, QueueLemmas
  <2>3. 0 \in 0..(max_attempts - 1)
    BY <1>1
  <2>4. r \in agent_table
    BY <2>2
  <2>5. CASE SendAnswer(r, "error", 0) /\ UNCHANGED executed
    <3>1. "error" \in Answers /\ executed' \in [Requests -> Nat]
      BY <1>1, <1>4, <2>5
    <3>2. /\ NetMoves /\ TableMoves
          /\ receiver' # None => receiver' = r /\ response' = "error"
          /\ \A s \in Requests : <<s, "result">> \in net' /\ <<s, "result">> \notin net =>
                s = r /\ "error" = "result"
      BY <2>1, <2>2, <2>3, <2>5, <3>1, AnswerMoves
    <3>3. ExecutedMoves /\ ResultsMove
      BY <2>5, <3>2 DEF ExecutedMoves, ResultsMove
    <3>. QED  BY <2>1, <3>2, <3>3 DEF AgentMove
  <2>6. CASE Executes(r) /\ \E answer \in Answers : SendAnswer(r, answer, 0)
    <3>1. PICK answer \in Answers : SendAnswer(r, answer, 0)
      BY <2>6
    <3>2. executed' = [executed EXCEPT ![r] = executed[r] + 1]
      BY <2>6 DEF Executes
    <3>3. executed' \in [Requests -> Nat] /\ executed'[r] = executed[r] + 1 /\ executed'[r] > 0
      BY <1>1, <3>2
    <3>4. /\ NetMoves /\ TableMoves
          /\ receiver' # None => receiver' = r /\ response' = answer
          /\ protocol = "tcp" => r \notin agent_table'
          /\ \A s \in Requests : <<s, "result">> \in net' /\ <<s, "result">> \notin net =>
                s = r /\ answer = "result"
      BY <2>1, <2>2, <2>3, <3>1, <3>3, AnswerMoves
    <3>5. ExecutedMoves
      BY <2>4, <3>2, <3>4 DEF ExecutedMoves
    <3>6. ResultsMove
      BY <3>3, <3>4 DEF ResultsMove
    <3>. QED  BY <2>1, <3>4, <3>5, <3>6 DEF AgentMove
  <2>. QED  BY <1>9, <2>5, <2>6 DEF Execute
<1>10. CASE AnswerTimeout(r) \/ AnswerAcked(r)
  <2>1. /\ receiver = r /\ acked' = FALSE
        /\ UNCHANGED <<protocol, manager, queue, executed>>
    BY <1>10 DEF AnswerTimeout, AnswerAcked
  <2>2. PICK tries \in 0..(max_attempts - 1) :
            SendAnswer(r, response, tries) \/ (Leave(r) /\ UNCHANGED net)
    <3>1. CASE Leave(r) /\ UNCHANGED net
      BY <1>1, <3>1
    <3>2. CASE sends + 1 # max_attempts /\ SendAnswer(r, response, sends + 1)
      <4>1. sends + 1 \in 0..(max_attempts - 1)
        BY <1>1, <3>2
      <4>. QED  BY <3>2, <4>1
    <3>. QED  BY <1>10, <3>1, <3>2, Zenon DEF AnswerTimeout, AnswerAcked
  <2>3. /\ queue' \in Seq(Requests) /\ IsInjective(queue') /\ r \notin ToSet(queue')
        /\ agent_table = ToSet(queue') \cup {r}
        /\ executed' \in [Requests -> Nat] /\ response \in Answers
    BY <1>1, <1>2, <2>1
  <2>4. /\ NetMoves /\ TableMoves
        /\ receiver' # None => receiver' = r /\ response' = response
        /\ \A s \in Requests : <<s, "result">> \in net' /\ <<s, "result">> \notin net =>
              s = r /\ response = "result"
    BY <2>1, <2>2, <2>3, AnswerMoves
  <2>5. response = "result" => executed[r] > 0
    BY <1>1, <1>3, <2>1
  <2>6. ExecutedMoves /\ ResultsMove
    BY <2>1, <2>4, <2>5 DEF ExecutedMoves, ResultsMove
  <2>. QED  BY <2>1, <2>4, <2>6 DEF AgentMove
<1>. QED  BY <1>6, <1>7, <1>8, <1>9, <1>10 DEF ReqReceiver

LEMMA NetworkMoves ==
  ASSUME Inv, Lose \/ AgentRestart
  PROVE  AgentMove
<1>1. CASE Lose
  <2>1. net' \subseteq net /\ UNCHANGED <<protocol, manager>>
        /\ UNCHANGED <<agent_table, queue, payload, receiver, sends, response, acked, executed>>
    BY <1>1 DEF Lose, agent
  <2>2. NetMoves
    BY <2>1 DEF Inv, ManagerTypes, NetMoves
  <2>3. TableMoves
    BY <2>1, TableKept DEF TableMoves, Inv, AgentTypes
  <2>4. ExecutedMoves /\ ResultsMove
    BY <2>1, NothingExecuted
  <2>. QED  BY <2>1, <2>2, <2>3, <2>4 DEF AgentMove
<1>2. CASE AgentRestart
  <2>1. /\ UNCHANGED <<protocol, net, manager, executed>>
        /\ agent_table' = {} /\ queue' = <<>> /\ payload' = [r \in Requests |-> "request"]
        /\ receiver' = None /\ sends' = 0 /\ response' = "error" /\ acked' = FALSE
    BY <1>2 DEF AgentRestart
  <2>2. NetMoves
    BY <2>1 DEF Inv, ManagerTypes, NetMoves
  <2>3. TableIsWork'
    BY <2>1 DEF TableIsWork, ToSet, IsInjective
  <2>4. AgentTypes' /\ SendsLeft'
    <3>1. sends' \in 0..max_attempts /\ sends' < max_attempts
      BY <2>1, SizesAssumption
    <3>2. executed' \in [Requests -> Nat]
      BY <2>1 DEF Inv, AgentTypes
    <3>3. queue' \in Seq(Requests) /\ payload' \in [Requests -> {"request", "ack"}]
      BY <2>1
    <3>4. acked' \in BOOLEAN
      BY <2>1
    <3>. QED  BY <2>1, <3>1, <3>2, <3>3, <3>4 DEF AgentTypes, SendsLeft, Answers
  <2>5. TableMoves
    BY <2>1, <2>3, <2>4 DEF TableMoves
  <2>6. ExecutedMoves /\ ResultsMove
    BY <2>1 DEF ExecutedMoves, ResultsMove
  <2>. QED  BY <2>1, <2>2, <2>5, <2>6 DEF AgentMove
<1>. QED  BY <1>1, <1>2

LEMMA SaveKeeps ==
  ASSUME Inv, NEW r \in Requests, NEW kind \in {"ack"} \cup Answers, ReqSave(r, kind)
  PROVE  Inv'
<1>1. /\ UNCHANGED <<protocol, request_pool, thread, attempts, reply>>
      /\ UNCHANGED <<agent_table, queue, payload, receiver, sends, response, acked, executed>>
      /\ <<r, kind>> \in net /\ net' \subseteq net
      /\ buffer' \in {buffer, [buffer EXCEPT ![r] = kind]}
      /\ signalled' \in {signalled, signalled \cup {r}}
  BY DEF ReqSave, agent
<1>2. buffer \in [Requests -> {"none", "ack"} \cup Answers]
  BY DEF Inv, ManagerTypes
<1>3. ManagerTypes'
  <2>1. buffer' \in [Requests -> {"none", "ack"} \cup Answers]
    BY <1>1, <1>2
  <2>. QED  BY <1>1, <2>1 DEF Inv, ManagerTypes
<1>4. AgentTypes' /\ SendsLeft'
  BY <1>1 DEF Inv, AgentTypes, SendsLeft
<1>5. AttemptsLeft' /\ Unanswered'
  BY <1>1 DEF Inv, AttemptsLeft, Unanswered
<1>6. PoolInv' /\ TableIsWork'
  BY <1>1 DEF Inv, PoolInv, PoolIsKept, Running, TableIsWork
<1>7. Known' /\ TcpOnce'
  BY <1>1 DEF Inv, Known, TcpOnce
<1>8. ResultsAreReal'
  <2>1. \A s \in Requests : buffer'[s] = "result" => buffer[s] = "result" \/ <<s, "result">> \in net
    BY <1>1, <1>2
  <2>. QED  BY <1>1, <2>1 DEF Inv, ResultsAreReal
<1>. QED  BY <1>3, <1>4, <1>5, <1>6, <1>7, <1>8 DEF Inv

-----------------------------------------------------------------------------
LEMMA InvInit == Init => Inv
<1> SUFFICES ASSUME Init  PROVE Inv
  OBVIOUS
<1>1. ManagerTypes /\ AgentTypes /\ AttemptsLeft /\ SendsLeft
  <2>1. ManagerTypes
    <3>1. request_pool \in 0..PoolSize /\ attempts \in [Requests -> 0..max_attempts]
      BY SizesAssumption DEF Init
    <3>. QED  BY <3>1 DEF Init, ManagerTypes, Threads, Replies
  <2>2. AgentTypes
    <3>1. sends \in 0..max_attempts /\ executed \in [Requests -> Nat]
      BY SizesAssumption DEF Init
    <3>2. acked \in BOOLEAN
      BY DEF Init
    <3>. QED  BY <3>1, <3>2 DEF Init, AgentTypes, Answers
  <2>3. AttemptsLeft /\ SendsLeft
    BY SizesAssumption DEF Init, AttemptsLeft, SendsLeft
  <2>. QED  BY <2>1, <2>2, <2>3
<1>2. PoolInv
  <2>1. Running = {} /\ request_pool = PoolSize
    BY DEF Init, Running
  <2>. QED  BY <2>1, FS_EmptySet, SizesAssumption DEF PoolInv, PoolIsKept
<1>3. TableIsWork
  BY DEF Init, TableIsWork, ToSet, IsInjective
<1>4. Unanswered /\ Known /\ ResultsAreReal /\ TcpOnce
  BY DEF Init, Unanswered, Known, ResultsAreReal, TcpOnce
<1>. QED  BY <1>1, <1>2, <1>3, <1>4 DEF Inv

(* A step is one of the manager, of the agent or the network, or it saves a*)
(* message.                                                                *)
LEMMA Steps ==
  ASSUME Inv, Next
  PROVE  \/ \E r \in Requests, T \in Threads, A \in 0..max_attempts, R \in Replies : Move(r, T, A, R)
         \/ AgentMove
         \/ \E r \in Requests, kind \in {"ack"} \cup Answers : ReqSave(r, kind)
<1>1. CASE \E r \in Requests : ReqSender(r) \/ Sender(r)
  BY <1>1, SenderMoves
<1>2. CASE \E r \in Requests : ReqDispatch(r)
  BY <1>2, DispatchMoves
<1>3. CASE \E r \in Requests : NoTarget(r) \/ ReqPush(r) \/ AckPush(r) \/ ReqReceiver(r)
  BY <1>3, AgentMoves
<1>4. CASE Lose \/ AgentRestart
  BY <1>4, NetworkMoves
<1>. QED  BY <1>1, <1>2, <1>3, <1>4, Zenon DEF Next

LEMMA InvStep == Inv /\ [Next]_vars => Inv'
<1> SUFFICES ASSUME Inv, [Next]_vars  PROVE Inv'
  OBVIOUS
<1>1. CASE Next
  BY <1>1, Steps, MoveKeeps, AgentMoveKeeps, SaveKeeps
<1>2. CASE UNCHANGED vars
  <2>1. UNCHANGED <<protocol, net, request_pool, thread, attempts, buffer, signalled, reply>>
        /\ UNCHANGED <<agent_table, queue, payload, receiver, sends, response, acked, executed>>
    BY <1>2 DEF vars, manager, agent
  <2>. QED  BY <2>1 DEF Inv, ManagerTypes, AgentTypes, AttemptsLeft, SendsLeft, PoolInv, PoolIsKept,
                        Running, TableIsWork, Unanswered, Known, ResultsAreReal, TcpOnce
<1>. QED  BY <1>1, <1>2

LEMMA InvAlways == Spec => []Inv
BY InvInit, InvStep, PTL DEF Spec

(* Types.                                                                  *)
THEOREM TypeCorrect == Spec => []TypeOK
<1>1. Inv => TypeOK
  BY TypesSplit DEF Inv
<1>. QED  BY <1>1, InvAlways, PTL

(* remoted/request.c: the dispatchers that run and the places left never   *)
(* exceed request_pool, although a failed wait takes a place too.          *)
THEOREM PoolIsKeptAlways == Spec => []PoolIsKept
<1>1. Inv => PoolIsKept
  BY DEF Inv, PoolInv
<1>. QED  BY <1>1, InvAlways, PTL

(* client-agent/request.c: the agent's table holds what is queued or       *)
(* executed, each once.                                                    *)
THEOREM TableIsWorkAlways == Spec => []TableIsWork
<1>1. Inv => TableIsWork
  BY DEF Inv
<1>. QED  BY <1>1, InvAlways, PTL

(* Over TCP no request is executed twice.                                  *)
THEOREM TcpExecutesOnceAlways == Spec => []TcpExecutesOnce
<1>1. Inv => TcpExecutesOnce
  BY DEF Inv, TcpOnce, TcpExecutesOnce
<1>. QED  BY <1>1, InvAlways, PTL

-----------------------------------------------------------------------------
(* Over TCP no acknowledgement is ever under way, and a dispatcher that is *)
(* signalled has its answer in the buffer and nothing counted.             *)
Patient(r) ==
    /\ <<r, "ack">> \notin net
    /\ thread[r] # "ack"
    /\ thread[r] \in {"new", "waiting", "start"} => r \notin signalled
    /\ thread[r] = "response" =>
          attempts[r] = 0 /\ (r \in signalled => buffer[r] \in Answers)
    /\ max_attempts > 1 => reply[r] # "attempts"

TcpPatience == protocol = "tcp" => \A r \in Requests : Patient(r)

(* A step of the manager for one request touches no other.                 *)
LEMMA OthersArePatient ==
  ASSUME TcpPatience, protocol = "tcp", Inv, NEW r \in Requests, NEW s \in Requests \ {r},
         NEW T, NEW A, NEW B, NEW R,
         thread' = [thread EXCEPT ![r] = T], attempts' = [attempts EXCEPT ![r] = A],
         buffer' = [buffer EXCEPT ![r] = B], reply' = [reply EXCEPT ![r] = R],
         signalled' \subseteq signalled, <<s, "ack">> \notin net'
  PROVE  Patient(s)'
<1>1. /\ thread \in [Requests -> Threads] /\ attempts \in [Requests -> 0..max_attempts]
      /\ reply \in [Requests -> Replies]
      /\ buffer \in [Requests -> {"none", "ack"} \cup Answers]
  BY DEF Inv, ManagerTypes
<1>2. thread'[s] = thread[s] /\ attempts'[s] = attempts[s] /\ buffer'[s] = buffer[s] /\ reply'[s] = reply[s]
  BY <1>1
<1>3. Patient(s)
  BY DEF TcpPatience
<1>. QED  BY <1>2, <1>3 DEF Patient

LEMMA DispatcherIsPatient ==
  ASSUME Inv, TcpPatience, protocol = "tcp", NEW r \in Requests,
         ReqSender(r) \/ Sender(r) \/ ReqDispatch(r)
  PROVE  \A s \in Requests : Patient(s)'
<1>1. /\ thread \in [Requests -> Threads] /\ attempts \in [Requests -> 0..max_attempts]
      /\ reply \in [Requests -> Replies]
      /\ buffer \in [Requests -> {"none", "ack"} \cup Answers]
      /\ thread[r] \in {"new", "waiting", "start"} => attempts[r] = 0
  BY DEF Inv, ManagerTypes, AttemptsLeft
<1>2. \A s \in Requests : Patient(s)
  BY DEF TcpPatience
<1>3. thread[r] # "ack" /\ (thread[r] \in {"new", "waiting", "start"} => r \notin signalled)
  BY <1>2 DEF Patient
<1>4. \E T, A, B, R :
         /\ thread' = [thread EXCEPT ![r] = T] /\ attempts' = [attempts EXCEPT ![r] = A]
         /\ buffer' = [buffer EXCEPT ![r] = B] /\ reply' = [reply EXCEPT ![r] = R]
         /\ signalled' \subseteq signalled
         /\ net' \subseteq net \cup {<<r, "req">>}
         /\ T # "ack"
         /\ T \in {"new", "waiting", "start"} => r \notin signalled
         /\ T = "response" => A = 0 /\ r \notin signalled
         /\ max_attempts > 1 => R # "attempts"
  <2>1. CASE ReqSender(r) \/ Sender(r) \/ NoAgent(r) \/ ResponseTimeout(r)
    <3>1. /\ attempts' = [attempts EXCEPT ![r] = attempts[r]] /\ buffer' = [buffer EXCEPT ![r] = buffer[r]]
          /\ signalled' \subseteq signalled /\ net' = net
      BY <1>1, <2>1 DEF ReqSender, Sender, PoolAvailable, PoolTimeout, NoAgent, ResponseTimeout
    <3>2. PICK T, R : /\ thread' = [thread EXCEPT ![r] = T] /\ reply' = [reply EXCEPT ![r] = R]
                      /\ T \in {"start", "waiting", "rejected", "cleanup"}
                      /\ T \in {"start", "waiting"} => thread[r] \in {"new", "waiting"}
                      /\ R \in {reply[r], "error"}
      <4>1. reply = [reply EXCEPT ![r] = reply[r]]
        BY <1>1
      <4>. QED  BY <2>1, <4>1 DEF ReqSender, Sender, PoolAvailable, PoolTimeout, NoAgent, ResponseTimeout,
                           ReplyAndClean
    <3>3. max_attempts > 1 => R # "attempts"
      BY <1>2, <3>2 DEF Patient
    <3>. QED  BY <1>3, <3>1, <3>2, <3>3
  <2>2. CASE FirstSend(r)
    <3>1. /\ attempts' = [attempts EXCEPT ![r] = 0] /\ buffer' = [buffer EXCEPT ![r] = buffer[r]]
          /\ signalled' = signalled /\ thread[r] = "start"
      BY <1>1, <2>2 DEF FirstSend
    <3>2. net' \subseteq net \cup {<<r, "req">>}
      BY <2>2, SentSubset DEF FirstSend, SendToAgent
    <3>3. PICK T \in {"response", "cleanup"}, R \in {reply[r], "error"} :
             thread' = [thread EXCEPT ![r] = T] /\ reply' = [reply EXCEPT ![r] = R]
      <4>1. reply = [reply EXCEPT ![r] = reply[r]]
        BY <1>1
      <4>. QED  BY <2>2, <4>1 DEF FirstSend, SendToAgent, ReplyAndClean
    <3>4. max_attempts > 1 => R # "attempts"
      BY <1>2, <3>3 DEF Patient
    <3>. QED  BY <1>3, <3>1, <3>2, <3>3, <3>4
  <2>3. CASE ResponseWakes(r)
    <3>1. attempts[r] = 0 /\ buffer[r] \in Answers /\ thread[r] = "response"
      BY <1>2, <2>3 DEF Patient, ResponseWakes
    <3>2. attempts' = [attempts EXCEPT ![r] = 1] /\ attempts'[r] = 1
      BY <1>1, <2>3, <3>1 DEF ResponseWakes
    <3>3. /\ buffer' = [buffer EXCEPT ![r] = buffer[r]] /\ signalled' \subseteq signalled
      BY <1>1, <2>3 DEF ResponseWakes
    <3>4. PICK R \in {"attempts", buffer[r]} :
             /\ thread' = [thread EXCEPT ![r] = "cleanup"] /\ reply' = [reply EXCEPT ![r] = R] /\ net' = net
             /\ max_attempts > 1 => R = buffer[r]
      <4>1. CASE max_attempts = 1
        BY <2>3, <3>2, <4>1 DEF ResponseWakes, ReplyAndClean
      <4>2. CASE max_attempts > 1
        BY <2>3, <3>1, <3>2, <4>2, SizesAssumption DEF ResponseWakes, ReplyAndClean, ReturnAnswer
      <4>. QED  BY <4>1, <4>2, SizesAssumption
    <3>5. max_attempts > 1 => R # "attempts"
      BY <3>1, <3>4 DEF Answers
    <3>. QED  BY <3>2, <3>3, <3>4, <3>5
  <2>4. CASE Cleanup(r)
    <3>1. /\ thread' = [thread EXCEPT ![r] = "closed"] /\ attempts' = [attempts EXCEPT ![r] = 0]
          /\ buffer' = [buffer EXCEPT ![r] = "none"] /\ reply' = [reply EXCEPT ![r] = reply[r]]
          /\ signalled' = signalled /\ net' = net
      BY <1>1, <2>4 DEF Cleanup
    <3>2. max_attempts > 1 => reply[r] # "attempts"
      BY <1>2 DEF Patient
    <3>. QED
      <4> DEFINE T == "closed"
      <4>1. T # "ack" /\ T \notin {"new", "waiting", "start", "response"}
        OBVIOUS
      <4>2. signalled' \subseteq signalled /\ net' \subseteq net \cup {<<r, "req">>}
        BY <3>1
      <4>. QED  BY <3>1, <3>2, <4>1, <4>2
  <2>5. ~AckTimeout(r) /\ ~AckWakes(r)
    BY <1>3 DEF AckTimeout, AckWakes
  <2>. QED  BY <2>1, <2>2, <2>3, <2>4, <2>5 DEF ReqDispatch, ReqSender, Sender
<1>5. PICK T, A, B, R :
         /\ thread' = [thread EXCEPT ![r] = T] /\ attempts' = [attempts EXCEPT ![r] = A]
         /\ buffer' = [buffer EXCEPT ![r] = B] /\ reply' = [reply EXCEPT ![r] = R]
         /\ signalled' \subseteq signalled
         /\ net' \subseteq net \cup {<<r, "req">>}
         /\ T # "ack"
         /\ T \in {"new", "waiting", "start"} => r \notin signalled
         /\ T = "response" => A = 0 /\ r \notin signalled
         /\ max_attempts > 1 => R # "attempts"
  BY <1>4
<1>6. \A s \in Requests : <<s, "ack">> \notin net'
  BY <1>2, <1>5 DEF Patient
<1>7. Patient(r)'
  BY <1>1, <1>5, <1>6 DEF Patient
<1>. QED  BY <1>5, <1>6, <1>7, OthersArePatient

(* The agent and the network change nothing of the manager.                *)
LEMMA AgentIsPatient ==
  ASSUME Inv, TcpPatience, protocol = "tcp",
         \/ \E r \in Requests : NoTarget(r) \/ ReqPush(r) \/ AckPush(r) \/ ReqReceiver(r)
         \/ Lose \/ AgentRestart
  PROVE  \A s \in Requests : Patient(s)'
<1>1. UNCHANGED manager
  BY DEF NoTarget, ReqPush, AckPush, ReqReceiver, Execute, AnswerTimeout, AnswerAcked, Lose, AgentRestart
<1>2. \A s \in Requests : <<s, "ack">> \notin net
  BY DEF TcpPatience, Patient
<1>3. receiver = None /\ None \notin Requests
  BY NoneAssumption DEF Inv, TcpOnce
<1>4. \A s \in Requests : <<s, "ack">> \notin net'
  <2>1. CASE \E r \in Requests : NoTarget(r) \/ ReqPush(r) \/ AckPush(r)
    <3>1. \E r \in Requests : net' \subseteq net \cup {<<r, "error">>}
      BY <2>1, SentSubset DEF NoTarget, ReqPush, AckPush, TooMany, Enqueue, Acknowledged
    <3>. QED  BY <1>2, <3>1
  <2>2. CASE \E r \in Requests : ReqReceiver(r)
    <3>1. PICK r \in Requests : Execute(r)
      BY <1>3, <2>2 DEF ReqReceiver, AnswerTimeout, AnswerAcked
    <3>2. \E answer \in Answers : SendAnswer(r, answer, 0)
      BY <3>1 DEF Execute, Answers
    <3>3. \E answer \in Answers : net' \subseteq net \cup {<<r, answer>>}
      BY <3>2, SentSubset DEF SendAnswer
    <3>. QED  BY <1>2, <3>3 DEF Answers
  <2>3. CASE Lose \/ AgentRestart
    BY <1>2, <2>3 DEF Lose, AgentRestart
  <2>. QED  BY <2>1, <2>2, <2>3
<1>. QED  BY <1>1, <1>4 DEF manager, TcpPatience, Patient

LEMMA SaveIsPatient ==
  ASSUME Inv, TcpPatience, protocol = "tcp", NEW r \in Requests,
         NEW kind \in {"ack"} \cup Answers, ReqSave(r, kind)
  PROVE  \A s \in Requests : Patient(s)'
<1>1. thread \in [Requests -> Threads] /\ buffer \in [Requests -> {"none", "ack"} \cup Answers]
  BY DEF Inv, ManagerTypes
<1>2. kind \in Answers /\ \A s \in Requests : <<s, "ack">> \notin net'
  BY DEF TcpPatience, Patient, ReqSave
<1>3. /\ UNCHANGED <<thread, attempts, reply>>
      /\ buffer' \in {buffer, [buffer EXCEPT ![r] = kind]}
      /\ signalled' # signalled => /\ thread[r] = "response" /\ signalled' = signalled \cup {r}
                                   /\ buffer' = [buffer EXCEPT ![r] = kind]
  BY DEF ReqSave, TcpPatience, Patient
<1>. QED  BY <1>1, <1>2, <1>3 DEF TcpPatience, Patient

LEMMA PatienceStep == Inv /\ TcpPatience /\ [Next]_vars => TcpPatience'
<1> SUFFICES ASSUME Inv, TcpPatience, [Next]_vars, protocol' = "tcp"
             PROVE  \A s \in Requests : Patient(s)'
  BY DEF TcpPatience
<1>1. CASE Next
  <2>1. protocol = "tcp"
    <3>1. CASE \E r \in Requests : ReqSender(r) \/ Sender(r) \/ ReqDispatch(r)
      BY <3>1 DEF ReqSender, Sender, PoolAvailable, PoolTimeout, ReqDispatch, NoAgent, FirstSend, AckTimeout,
                  AckWakes, ResponseWakes, ResponseTimeout, Cleanup
    <3>2. CASE ~\E r \in Requests : ReqSender(r) \/ Sender(r) \/ ReqDispatch(r)
      BY <1>1, <3>2 DEF Next, ReqSave, NoTarget, ReqPush, AckPush, ReqReceiver, Execute, AnswerTimeout,
                  AnswerAcked, Lose, AgentRestart
    <3>. QED  BY <3>1, <3>2
  <2>. QED  BY <1>1, <2>1, DispatcherIsPatient, AgentIsPatient, SaveIsPatient, Zenon DEF Next
<1>2. CASE UNCHANGED vars
  BY <1>2 DEF vars, manager, TcpPatience, Patient
<1>. QED  BY <1>1, <1>2

(* remoted/request.c: over TCP the peer of a request is never told that the*)
(* attempts are used up, for any number of attempts but one.               *)
THEOREM TcpAnswersAreReturnedAlways == Spec => []TcpAnswersAreReturned
<1>1. Init => TcpPatience
  BY DEF Init, TcpPatience, Patient
<1>2. TcpPatience => TcpAnswersAreReturned
  BY DEF TcpPatience, Patient, TcpAnswersAreReturned
<1>. QED  BY <1>1, <1>2, InvAlways, PatienceStep, PTL DEF Spec

-----------------------------------------------------------------------------
(* The refinement of RemoteCalls.                                          *)
CallerBar == [r \in Requests |-> Caller(r)]
ServedBar == [r \in Requests |-> IF executed[r] > 0 THEN 1 ELSE 0]

(* What a peer knows is what its thread and its reply say.                 *)
LEMMA CallerCases ==
  ASSUME Inv, NEW r \in Requests
  PROVE  /\ thread[r] = "new" => Caller(r) = "new" /\ reply[r] = "none"
         /\ thread[r] # "new" =>
               /\ reply[r] = "none" => Caller(r) = "open"
               /\ reply[r] = "result" => Caller(r) = "answered"
               /\ reply[r] \in {"error", "attempts"} => Caller(r) = "gave up"
         /\ reply[r] \in {"none", "result", "error", "attempts"}
<1>1. thread[r] = "new" => reply[r] = "none"
  BY DEF Inv, Unanswered
<1>2. reply[r] \in {"none", "result", "error", "attempts"}
  BY DEF Inv, ManagerTypes, Replies, Answers
<1>. QED  BY <1>1, <1>2 DEF Caller

LEMMA CallerCasesAfter ==
  ASSUME Inv', NEW r \in Requests
  PROVE  /\ thread'[r] = "new" => Caller(r)' = "new" /\ reply'[r] = "none"
         /\ thread'[r] # "new" =>
               /\ reply'[r] = "none" => Caller(r)' = "open"
               /\ reply'[r] = "result" => Caller(r)' = "answered"
               /\ reply'[r] \in {"error", "attempts"} => Caller(r)' = "gave up"
         /\ reply'[r] \in {"none", "result", "error", "attempts"}
<1>1. thread'[r] = "new" => reply'[r] = "none"
  BY DEF Inv, Unanswered
<1>2. reply'[r] \in {"none", "result", "error", "attempts"}
  BY DEF Inv, ManagerTypes, Replies, Answers
<1>. QED  BY <1>1, <1>2 DEF Caller

LEMMA MoveRefines ==
  ASSUME Inv, Inv', NEW r \in Requests, NEW T \in Threads, NEW A, NEW R, Move(r, T, A, R)
  PROVE  /\ ServedBar' = ServedBar
         /\ \/ CallerBar' = CallerBar
            \/ \E to \in {"open", "answered", "gave up"} :
                 /\ CallerBar' = [CallerBar EXCEPT ![r] = to]
                 /\ CallerBar[r] = IF to = "open" THEN "new" ELSE "open"
                 /\ to = "answered" => ServedBar[r] = 1
<1>1. /\ thread \in [Requests -> Threads] /\ reply \in [Requests -> Replies]
      /\ thread' = [thread EXCEPT ![r] = T] /\ reply' = [reply EXCEPT ![r] = R]
      /\ T # "new"
  BY DEF Inv, ManagerTypes, Move
<1>2. UNCHANGED executed
  BY DEF Move, agent
<1>3. ServedBar' = ServedBar
  BY <1>2 DEF ServedBar
<1>4. \A s \in Requests \ {r} : Caller(s)' = Caller(s)
  BY <1>1 DEF Caller
<1>5. /\ R # reply[r] => thread[r] \in {"waiting", "start", "ack", "response"}
      /\ R = "result" => reply[r] = "result" \/ buffer[r] = "result"
  BY DEF Move
<1>6. /\ thread'[r] = T /\ reply'[r] = R
  BY <1>1
<1>7. CASE Caller(r)' = Caller(r)
  <2>1. CallerBar' = CallerBar
    BY <1>4, <1>7 DEF CallerBar
  <2>. QED  BY <1>3, <2>1
<1>8. CASE Caller(r)' # Caller(r)
  <2>1. CallerBar' = [CallerBar EXCEPT ![r] = Caller(r)'] /\ CallerBar[r] = Caller(r)
    BY <1>4 DEF CallerBar
  <2>2. CASE thread[r] = "new"
    <3>1. reply[r] = "none" /\ R = "none" /\ Caller(r) = "new"
      BY <1>5, <2>2, CallerCases
    <3>2. Caller(r)' = "open"
      BY <1>1, <1>6, <3>1, CallerCasesAfter
    <3>. QED  BY <1>3, <2>1, <3>1, <3>2
  <2>3. CASE thread[r] # "new"
    <3>1. R # reply[r]
      <4>1. SUFFICES ASSUME R = reply[r]  PROVE FALSE
        OBVIOUS
      <4>2. /\ reply[r] = "none" => Caller(r) = "open"
            /\ reply[r] = "result" => Caller(r) = "answered"
            /\ reply[r] \in {"error", "attempts"} => Caller(r) = "gave up"
            /\ reply[r] \in {"none", "result", "error", "attempts"}
        BY <2>3, CallerCases, Zenon
      <4>3. /\ R = "none" => Caller(r)' = "open"
            /\ R = "result" => Caller(r)' = "answered"
            /\ R \in {"error", "attempts"} => Caller(r)' = "gave up"
        BY <1>1, <1>6, CallerCasesAfter, Zenon
      <4>4. CASE reply[r] = "none"
        BY <1>8, <4>1, <4>2, <4>3, <4>4, Zenon
      <4>5. CASE reply[r] = "result"
        BY <1>8, <4>1, <4>2, <4>3, <4>5, Zenon
      <4>6. CASE reply[r] \in {"error", "attempts"}
        <5>1. R \in {"error", "attempts"}
          BY <4>1, <4>6
        <5>2. Caller(r) = "gave up" /\ Caller(r)' = "gave up"
          BY <4>2, <4>3, <4>6, <5>1, Zenon
        <5>. QED  BY <1>8, <5>2, Zenon
      <4>. QED  BY <4>2, <4>4, <4>5, <4>6, Zenon
    <3>2. thread[r] \in {"waiting", "start", "ack", "response"}
      BY <1>5, <3>1
    <3>3. reply[r] = "none"
      BY <3>2 DEF Inv, Unanswered
    <3>4. Caller(r) = "open"
      BY <2>3, <3>3, CallerCases
    <3>5. Caller(r)' \in {"answered", "gave up"} /\ (Caller(r)' = "answered" => R = "result")
      BY <1>1, <1>6, <3>1, <3>3, CallerCasesAfter
    <3>6. R = "result" => executed[r] > 0
      BY <1>5, <3>3 DEF Inv, ResultsAreReal
    <3>7. Caller(r)' = "answered" => ServedBar[r] = 1
      BY <3>5, <3>6 DEF ServedBar
    <3>. QED  BY <1>3, <2>1, <3>4, <3>5, <3>7
  <2>. QED  BY <2>2, <2>3
<1>. QED  BY <1>7, <1>8

LEMMA AgentMoveRefines ==
  ASSUME Inv, Inv', AgentMove
  PROVE  /\ CallerBar' = CallerBar
         /\ \/ ServedBar' = ServedBar
            \/ \E r \in Requests :
                 /\ ServedBar[r] = 0 /\ ServedBar' = [ServedBar EXCEPT ![r] = 1]
                 /\ CallerBar[r] \in {"open", "gave up"}
<1>1. UNCHANGED <<thread, reply>>
  BY DEF AgentMove, manager
<1>2. CallerBar' = CallerBar
  BY <1>1 DEF CallerBar, Caller
<1>3. CASE executed' = executed
  <2>1. ServedBar' = ServedBar
    BY <1>3 DEF ServedBar
  <2>. QED  BY <1>2, <2>1
<1>4. CASE executed' # executed
  <2>1. PICK r \in agent_table : executed' = [executed EXCEPT ![r] = @ + 1]
    BY <1>4 DEF AgentMove, ExecutedMoves
  <2>2. r \in Requests /\ executed \in [Requests -> Nat]
    BY DEF Inv, AgentTypes
  <2>3. thread[r] # "new"
    BY <2>1, <2>2 DEF Inv, Known
  <2>4. executed'[r] > 0 /\ \A s \in Requests \ {r} : executed'[s] = executed[s]
    <3>1. executed[r] \in Nat /\ executed'[r] = executed[r] + 1
      BY <2>1, <2>2
    <3>2. executed'[r] > 0
      BY <3>1
    <3>. QED  BY <2>1, <2>2, <3>2
  <2>5. ServedBar' = [ServedBar EXCEPT ![r] = 1]
    <3>1. /\ (IF executed'[r] > 0 THEN 1 ELSE 0) = 1
          /\ \A s \in Requests \ {r} : (IF executed'[s] > 0 THEN 1 ELSE 0) = IF executed[s] > 0 THEN 1 ELSE 0
      BY <2>4
    <3>. QED  BY <3>1, Zenon DEF ServedBar
  <2>6. CASE executed[r] > 0
    <3>1. ServedBar[r] = 1 /\ ServedBar = [ServedBar EXCEPT ![r] = ServedBar[r]]
      BY <2>2, <2>6 DEF ServedBar
    <3>. QED  BY <1>2, <2>5, <3>1
  <2>7. CASE executed[r] = 0
    <3>1. reply[r] # "result"
      <4>1. ~(executed[r] > 0)
        BY <2>7
      <4>2. reply[r] = "result" => executed[r] > 0
        BY <2>2 DEF Inv, ResultsAreReal
      <4>. QED  BY <4>1, <4>2
    <3>2. CallerBar[r] \in {"open", "gave up"}
      BY <2>2, <2>3, <3>1, CallerCases DEF CallerBar
    <3>3. ServedBar[r] = 0
      BY <2>2, <2>7 DEF ServedBar
    <3>. QED  BY <1>2, <2>2, <2>5, <3>2, <3>3
  <2>8. executed[r] > 0 \/ executed[r] = 0
    <3>1. executed[r] \in Nat
      BY <2>2
    <3>. QED  BY <3>1
  <2>. QED  BY <2>6, <2>7, <2>8
<1>. QED  BY <1>3, <1>4

LEMMA CallsStep == Inv /\ Inv' /\ [Next]_vars => [Calls!Next]_(Calls!vars)
<1> SUFFICES ASSUME Inv, Inv', [Next]_vars
             PROVE  \/ CallerBar' = CallerBar /\ ServedBar' = ServedBar
                    \/ \E r \in Requests :
                          \/ Calls!Open(r) \/ Calls!Serve(r) \/ Calls!Answer(r) \/ Calls!GiveUp(r)
  BY DEF Calls!Next, Calls!vars, CallerBar, ServedBar
<1>1. ASSUME NEW r \in Requests, NEW T \in Threads, NEW A, NEW R, Move(r, T, A, R)
      PROVE  \/ CallerBar' = CallerBar /\ ServedBar' = ServedBar
             \/ Calls!Open(r) \/ Calls!Answer(r) \/ Calls!GiveUp(r)
  <2>1. /\ ServedBar' = ServedBar
        /\ \/ CallerBar' = CallerBar
           \/ \E to \in {"open", "answered", "gave up"} :
                /\ CallerBar' = [CallerBar EXCEPT ![r] = to]
                /\ CallerBar[r] = IF to = "open" THEN "new" ELSE "open"
                /\ to = "answered" => ServedBar[r] = 1
    BY <1>1, MoveRefines
  <2>. QED  BY <2>1 DEF Calls!Open, Calls!Answer, Calls!GiveUp, Calls!Turn, CallerBar, ServedBar
<1>2. ASSUME AgentMove
      PROVE  \/ CallerBar' = CallerBar /\ ServedBar' = ServedBar
             \/ \E r \in Requests : Calls!Serve(r)
  BY <1>2, AgentMoveRefines DEF Calls!Serve, CallerBar, ServedBar
<1>3. ASSUME UNCHANGED <<thread, reply, executed>>
      PROVE  CallerBar' = CallerBar /\ ServedBar' = ServedBar
  BY <1>3 DEF CallerBar, ServedBar, Caller
<1>4. CASE UNCHANGED vars
  BY <1>3, <1>4 DEF vars, manager, agent
<1>5. CASE \E r \in Requests, kind \in {"ack"} \cup Answers : ReqSave(r, kind)
  BY <1>3, <1>5 DEF ReqSave, agent
<1>. QED  BY <1>1, <1>2, <1>4, <1>5, Steps

(* For any network, pools and restarts of the agent: a local peer gets a   *)
(* result only of a request that the agent has executed.                   *)
THEOREM RequestsAreRemoteCalls == Spec => ImplementsRemoteCalls
<1>1. Init => Calls!Init
  BY DEF Init, Calls!Init, Caller
<1>2. Inv /\ Inv' /\ [Next]_vars => [Calls!Next]_(Calls!vars)
  BY CallsStep
<1>. QED  BY <1>1, <1>2, InvAlways, PTL DEF Spec, Calls!Spec, ImplementsRemoteCalls
=============================================================================
