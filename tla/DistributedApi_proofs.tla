------------------------ MODULE DistributedApi_proofs ------------------------
(***************************************************************************)
(* Proofs about DistributedApi: its types, and that requests of the API    *)
(* are remote calls, for any nodes, routes, requests and number of faults. *)
(*                                                                         *)
(* A request is executed at most once because what asks for its execution  *)
(* (a dapi message, an entry of a queue, a request that is distributed) is *)
(* never there twice, nor after the execution; and every result that is on *)
(* its way, kept or returned is of a request that was executed.            *)
(*                                                                         *)
(* The duty to answer a request is at one place because each step that     *)
(* makes a place of it ends another (Placed).                              *)
(***************************************************************************)
EXTENDS DistributedApi, FiniteSetTheorems, TLAPS

Asks(m, c) == m.kind = "dapi" /\ m.call = c

Distributed(n, c) == serving[n] = c /\ phase[n] = "distribute"

(* Requests are where they belong: with the master if they came from a     *)
(* worker, with a worker if they are to be executed there.                 *)
Belongs(c, n) == IF n = Master THEN route[c].from # Master ELSE route[c].to = n

Routed ==
    /\ \A m \in wire : m.kind = "dapi" =>
          IF m.up THEN route[m.call].from = m.worker ELSE route[m.call].to = m.worker
    /\ \A n \in Nodes : \A i \in DOMAIN queue[n] : Belongs(queue[n][i], n)
    /\ \A n \in Nodes : serving[n] # None => Belongs(serving[n], n)
    /\ serving[Master] # None /\ ~stale => route[serving[Master]].from \in connected

(* Requests that were not sent are nowhere, and no request is twice.       *)
MessagesAreSingle ==
    \A m \in wire : m.kind = "dapi" =>
        /\ executed[m.call] = 0
        /\ caller[m.call] \notin {"new", "refused"}
        /\ \A k \in wire : Asks(k, m.call) => k = m
        /\ \A n \in Nodes : \A i \in DOMAIN queue[n] : queue[n][i] # m.call
        /\ \A n \in Nodes : ~Distributed(n, m.call)

EntriesAreSingle ==
    \A n \in Nodes : \A i \in DOMAIN queue[n] :
        /\ executed[queue[n][i]] = 0
        /\ caller[queue[n][i]] \notin {"new", "refused"}
        /\ \A k \in Nodes : \A j \in DOMAIN queue[k] : queue[k][j] = queue[n][i] => k = n /\ j = i
        /\ \A k \in Nodes : ~Distributed(k, queue[n][i])

ServedAreSingle ==
    \A n \in Nodes : phase[n] = "distribute" =>
        /\ executed[serving[n]] = 0
        /\ caller[serving[n]] \notin {"new", "refused"}
        /\ \A k \in Nodes : Distributed(k, serving[n]) => k = n

ExecutedOnce ==
    \A c \in Calls :
        /\ executed[c] \in {0, 1}
        /\ caller[c] \in {"new", "refused"} => executed[c] = 0
        /\ caller[c] = "answered" => executed[c] = 1

(* Results are of requests that were executed; workers return only those.  *)
Truthful ==
    /\ \A m \in wire : m.kind = "result" => executed[m.call] = 1
    /\ \A m \in wire : m.up => m.kind # "error"
    /\ \A n \in Nodes : phase[n] = "send" /\ result[n] = "result" => executed[serving[n]] = 1
    /\ \A w \in Workers : phase[w] = "send" => result[w] = "result"
    /\ \A c \in Calls : pending[c] = "set" => executed[c] = 1

(* The parts of TypeOK. *)
CallTypes ==
    /\ route \in [Calls -> Routes]
    /\ caller \in [Calls -> {"new", "open", "refused", "answered", "error", "gave up"}]
    /\ clients \subseteq Calls
    /\ \A c \in clients : caller[c] = "open"
    /\ pending \in [Calls -> {"none", "waiting", "set"}]
    /\ late \subseteq Calls
    /\ executed \in [Calls -> Nat]
    /\ faults \in 0 .. MaxFaults

WireTypes ==
    /\ connected \subseteq Workers
    /\ wire \subseteq [kind : Results \cup {"dapi", "dapi_err"}, worker : Workers,
                       up : BOOLEAN, call : Calls]
    /\ \A m \in wire : m.worker \in connected

ServerTypes ==
    /\ queue \in [Nodes -> Seq(Calls)]
    /\ serving \in [Nodes -> Calls \cup {None}]
    /\ phase \in [Nodes -> {"idle", "distribute", "await", "send"}]
    /\ result \in [Nodes -> {"result", "error"}]
    /\ stale \in BOOLEAN

Phases ==
    /\ \A n \in Nodes : serving[n] = None <=> phase[n] = "idle"
    /\ \A w \in Workers : phase[w] # "await"
    /\ \A w \in Workers \ connected : queue[w] = <<>> /\ serving[w] = None

IInv ==
    /\ CallTypes /\ WireTypes /\ ServerTypes /\ Phases
    /\ Routed
    /\ MessagesAreSingle /\ EntriesAreSingle /\ ServedAreSingle
    /\ ExecutedOnce /\ Truthful

-----------------------------------------------------------------------------
USE NodesAssumption

LEMMA NodeFacts ==
    /\ Master \in Nodes /\ Master # None /\ None \notin Nodes /\ None \notin Calls
    /\ Workers \subseteq Nodes
    /\ \A n \in Nodes : n = Master \/ n \in Workers
    /\ \A w \in Workers : w # Master
BY DEF Nodes

LEMMA TypesSplit == CallTypes /\ WireTypes /\ ServerTypes /\ Phases => TypeOK
<1>. SUFFICES ASSUME CallTypes, WireTypes, ServerTypes, Phases PROVE TypeOK
  OBVIOUS
<1>1. clients \subseteq {c \in Calls : caller[c] = "open"}
  BY DEF CallTypes
<1>2. wire \subseteq [kind : Results \cup {"dapi", "dapi_err"}, worker : connected,
                     up : BOOLEAN, call : Calls]
  BY DEF WireTypes
<1>. QED  BY <1>1, <1>2, Zenon DEF TypeOK, CallTypes, WireTypes, ServerTypes, Phases

LEMMA RouteTypes ==
  ASSUME CallTypes, NEW c \in Calls
  PROVE  /\ route[c].from \in Nodes
         /\ route[c].to \in Nodes
         /\ route[c].from # Master \/ route[c].to # Master
<1>1. route[c] \in Routes
  BY DEF CallTypes
<1>2. route[c] \in [from : Nodes, to : Nodes]
  BY <1>1 DEF Nodes
<1>. QED  BY <1>1, <1>2

LEMMA InitInv == Init => IInv
<1>. SUFFICES ASSUME Init PROVE IInv
  OBVIOUS
<1>1. CallTypes /\ WireTypes
  BY DEF Init, CallTypes, WireTypes
<1>2. ServerTypes /\ Phases
  <2>1. /\ queue \in [Nodes -> Seq(Calls)] /\ serving \in [Nodes -> Calls \cup {None}]
        /\ phase \in [Nodes -> {"idle", "distribute", "await", "send"}]
        /\ result \in [Nodes -> {"result", "error"}]
    BY DEF Init
  <2>2. \A n \in Nodes : serving[n] = None /\ phase[n] = "idle" /\ queue[n] = <<>>
    BY DEF Init
  <2>. QED  BY <2>1, <2>2, NodeFacts DEF Init, ServerTypes, Phases
<1>3. Routed /\ MessagesAreSingle /\ EntriesAreSingle /\ ServedAreSingle /\ ExecutedOnce /\ Truthful
  BY NodeFacts DEF Init, Routed, MessagesAreSingle, EntriesAreSingle, ServedAreSingle, ExecutedOnce, Truthful
<1>. QED  BY <1>1, <1>2, <1>3 DEF IInv

LEMMA RequestInv ==
  ASSUME IInv, NEW c \in Calls, Request(c)
  PROVE  IInv'
<1>. DEFINE w == IF route[c].from = Master THEN route[c].to ELSE route[c].from
            m == Msg("dapi", w, w = route[c].from, c)
<1>0. /\ caller[c] = "new"
      /\ UNCHANGED <<route, connected, queue, serving, phase, result, stale, pending, late, executed, faults>>
  BY DEF Request, server
<1>1. w \in Workers
  BY RouteTypes, NodeFacts DEF IInv
<1>2. /\ m.kind = "dapi" /\ m.worker = w /\ m.call = c
      /\ m.up <=> w = route[c].from
      /\ m \in [kind : Results \cup {"dapi", "dapi_err"}, worker : Workers, up : BOOLEAN, call : Calls]
  BY <1>1 DEF Msg
<1>3. \/ caller' = [caller EXCEPT ![c] = "refused"] /\ clients' = clients \ {c} /\ wire' = wire
      \/ /\ w \in connected
         /\ caller' = [caller EXCEPT ![c] = "open"]
         /\ clients' = clients \cup {c}
         /\ wire' = wire \cup {m}
  BY DEF Request, Refuse, Return, Accept
<1>4. (route[c].to # Master /\ w = route[c].to) \/ w = route[c].from
  BY <1>1, NodeFacts, RouteTypes DEF IInv
<1>. HIDE DEF w, m
<1>5. CallTypes'
  BY <1>0, <1>3 DEF IInv, CallTypes
<1>6. WireTypes'
  BY <1>0, <1>1, <1>2, <1>3 DEF IInv, WireTypes
<1>7. ServerTypes' /\ Phases'
  BY <1>0 DEF IInv, ServerTypes, Phases
<1>8. Routed'
  BY <1>0, <1>1, <1>2, <1>3, <1>4 DEF IInv, Routed, Belongs
<1>9. ExecutedOnce'
  BY <1>0, <1>3 DEF IInv, CallTypes, ExecutedOnce
<1>10. /\ \A k \in wire : ~Asks(k, c)
       /\ \A n \in Nodes : \A i \in DOMAIN queue[n] : queue[n][i] # c
       /\ \A n \in Nodes : ~Distributed(n, c)
       /\ executed[c] = 0
  BY <1>0 DEF IInv, MessagesAreSingle, EntriesAreSingle, ServedAreSingle, ExecutedOnce, Asks, Distributed
<1>11. \A d \in Calls : d # c => caller'[d] = caller[d]
  BY <1>3 DEF IInv, CallTypes
<1>12. \A d \in Calls : caller[d] \notin {"new", "refused"} => caller'[d] \notin {"new", "refused"}
  BY <1>0, <1>11
<1>13. MessagesAreSingle'
  <2>. SUFFICES ASSUME NEW k \in wire', k.kind = "dapi"
                PROVE  /\ executed[k.call] = 0
                       /\ caller'[k.call] \notin {"new", "refused"}
                       /\ \A l \in wire' : Asks(l, k.call) => l = k
                       /\ \A n \in Nodes : \A i \in DOMAIN queue[n] : queue[n][i] # k.call
                       /\ \A n \in Nodes : ~Distributed(n, k.call)
    BY <1>0 DEF MessagesAreSingle, Distributed, Asks
  <2>1. CASE k \in wire
    <3>1. k.call # c /\ k.call \in Calls
      BY <1>10, <2>1 DEF Asks, IInv, WireTypes
    <3>. QED  BY <1>2, <1>3, <1>12, <2>1, <3>1 DEF IInv, MessagesAreSingle, Asks
  <2>2. CASE k \notin wire
    <3>1. k = m /\ caller'[c] = "open" /\ k.call = c /\ wire' = wire \cup {m}
      <4>1. wire' # wire
        BY <2>2
      <4>2. wire' = wire \cup {m} /\ caller' = [caller EXCEPT ![c] = "open"]
        BY <1>3, <4>1
      <4>3. k = m
        BY <2>2, <4>2
      <4>. QED  BY <1>2, <1>3, <4>2, <4>3 DEF IInv, CallTypes
    <3>. QED  BY <1>10, <3>1 DEF Asks
  <2>. QED  BY <2>1, <2>2
<1>14. EntriesAreSingle'
  <2>1. \A n \in Nodes : \A i \in DOMAIN queue[n] : queue[n][i] \in Calls
    BY DEF IInv, ServerTypes
  <2>. QED  BY <1>0, <1>12, <2>1 DEF IInv, EntriesAreSingle, Distributed
<1>15. ServedAreSingle'
  <2>1. \A n \in Nodes : phase[n] = "distribute" => serving[n] \in Calls
    BY DEF IInv, ServerTypes, Phases
  <2>. QED  BY <1>0, <1>12, <2>1 DEF IInv, ServedAreSingle, Distributed
<1>16. Truthful'
  BY <1>0, <1>2, <1>3 DEF IInv, Truthful
<1>. QED  BY <1>5, <1>6, <1>7, <1>8, <1>9, <1>13, <1>14, <1>15, <1>16 DEF IInv

-----------------------------------------------------------------------------
(* Steps that add nothing that asks for an execution.                      *)
NothingAsked ==
    /\ route' = route
    /\ executed' = executed
    /\ \A d \in Calls : caller[d] \notin {"new", "refused"} => caller'[d] \notin {"new", "refused"}
    /\ \A m \in wire' : m.kind = "dapi" => m \in wire
    /\ \A n \in Nodes : queue'[n] = queue[n] \/ queue'[n] = <<>>
    /\ \A n \in Nodes : phase'[n] = "distribute" => phase[n] = "distribute"
    /\ \A n \in Nodes : serving'[n] # None => serving'[n] = serving[n]

LEMMA NothingAskedKeeps ==
  ASSUME IInv, NothingAsked, ServerTypes', Phases'
  PROVE  /\ MessagesAreSingle' /\ EntriesAreSingle' /\ ServedAreSingle'
         /\ (serving'[Master] # None /\ ~stale' => route[serving[Master]].from \in connected') => Routed'
<1>1. \A n \in Nodes : \A i \in DOMAIN queue'[n] :
         i \in DOMAIN queue[n] /\ queue'[n][i] = queue[n][i] /\ queue[n][i] \in Calls
  BY DEF NothingAsked, IInv, ServerTypes
<1>2. \A n \in Nodes : phase'[n] = "distribute" =>
         phase[n] = "distribute" /\ serving'[n] = serving[n] /\ serving[n] \in Calls
  BY DEF NothingAsked, IInv, ServerTypes, Phases
<1>3. \A n \in Nodes, c \in Calls : Distributed(n, c)' => Distributed(n, c)
  BY <1>2 DEF Distributed
<1>4. \A m \in wire' : m.kind = "dapi" => m \in wire /\ m.call \in Calls
  BY DEF NothingAsked, IInv, WireTypes
<1>5. MessagesAreSingle'
  BY <1>1, <1>3, <1>4 DEF NothingAsked, IInv, MessagesAreSingle, Asks
<1>6. EntriesAreSingle'
  BY <1>1, <1>3 DEF NothingAsked, IInv, EntriesAreSingle
<1>7. ServedAreSingle'
  BY <1>2, <1>3 DEF NothingAsked, IInv, ServedAreSingle
<1>9. ASSUME serving'[Master] # None /\ ~stale' => route[serving[Master]].from \in connected'
      PROVE  Routed'
  BY <1>1, <1>4, <1>9, NodeFacts DEF NothingAsked, IInv, Routed, Belongs
<1>. QED  BY <1>5, <1>6, <1>7, <1>9

-----------------------------------------------------------------------------
(* Local clients.                                                          *)

LEMMA ReturnKeeps ==
  ASSUME IInv, NEW c \in Calls, caller[c] = "open",
         NEW outcome \in {"answered", "error", "gave up"}, Return(c, outcome),
         outcome = "answered" => executed[c] = 1,
         UNCHANGED <<route, late, executed, faults>>,
         pending' \in [Calls -> {"none", "waiting", "set"}]
  PROVE  /\ CallTypes' /\ ExecutedOnce'
         /\ \A d \in Calls : caller[d] \notin {"new", "refused"} => caller'[d] \notin {"new", "refused"}
<1>1. CallTypes'
  BY DEF Return, IInv, CallTypes
<1>2. /\ \A d \in Calls : d # c => caller'[d] = caller[d]
      /\ caller'[c] = outcome
  BY DEF Return, IInv, CallTypes
<1>3. ExecutedOnce'
  BY <1>2 DEF IInv, ExecutedOnce
<1>. QED  BY <1>1, <1>2, <1>3

LEMMA ClientTimeoutInv ==
  ASSUME IInv, NEW c \in Calls, ClientTimeout(c)
  PROVE  IInv'
<1>1. /\ caller[c] = "open" /\ Return(c, "gave up")
      /\ UNCHANGED <<route, connected, wire, queue, serving, phase, result, stale, pending, late, executed, faults>>
  BY DEF ClientTimeout, server
<1>2. /\ CallTypes' /\ ExecutedOnce'
      /\ \A d \in Calls : caller[d] \notin {"new", "refused"} => caller'[d] \notin {"new", "refused"}
  BY <1>1, ReturnKeeps DEF IInv, CallTypes
<1>3. WireTypes' /\ ServerTypes' /\ Phases' /\ Truthful'
  BY <1>1 DEF IInv, WireTypes, ServerTypes, Phases, Truthful
<1>4. NothingAsked
  BY <1>1, <1>2 DEF NothingAsked
<1>5. serving'[Master] # None /\ ~stale' => route[serving[Master]].from \in connected'
  BY <1>1 DEF IInv, Routed
<1>6. Routed' /\ MessagesAreSingle' /\ EntriesAreSingle' /\ ServedAreSingle'
  BY <1>3, <1>4, <1>5, NothingAskedKeeps
<1>. QED  BY <1>2, <1>3, <1>6 DEF IInv

-----------------------------------------------------------------------------
(* What a node receives.                                                   *)

LEMMA TellClientKeeps ==
  ASSUME IInv, NEW m \in wire, NEW n, TellClient(m, n),
         UNCHANGED <<route, late, executed, faults>>,
         pending' \in [Calls -> {"none", "waiting", "set"}]
  PROVE  /\ CallTypes' /\ ExecutedOnce'
         /\ \A d \in Calls : caller[d] \notin {"new", "refused"} => caller'[d] \notin {"new", "refused"}
<1>1. CASE UNCHANGED <<caller, clients>>
  BY <1>1 DEF IInv, CallTypes, ExecutedOnce
<1>2. CASE m.call \in clients /\ Return(m.call, IF m.kind = "result" THEN "answered" ELSE "error")
  <2>1. m.call \in Calls /\ caller[m.call] = "open"
    BY <1>2 DEF IInv, CallTypes, WireTypes
  <2>2. m.kind = "result" => executed[m.call] = 1
    BY DEF IInv, Truthful
  <2>. QED  BY <1>2, <2>1, <2>2, ReturnKeeps
<1>. QED  BY <1>1, <1>2 DEF TellClient

LEMMA ReplyInv ==
  ASSUME IInv, NEW m \in wire, wire' = wire \ {m},
         UNCHANGED <<caller, clients>> \/ \E n \in Nodes : TellClient(m, n),
         UNCHANGED <<route, connected, queue, serving, phase, result, stale, late, executed, faults>>,
         \/ UNCHANGED pending
         \/ executed[m.call] = 1 /\ pending' = [pending EXCEPT ![m.call] = "set"]
  PROVE  IInv'
<1>1. pending' \in [Calls -> {"none", "waiting", "set"}]
  BY DEF IInv, CallTypes
<1>2. /\ CallTypes' /\ ExecutedOnce'
      /\ \A d \in Calls : caller[d] \notin {"new", "refused"} => caller'[d] \notin {"new", "refused"}
  <2>1. CASE UNCHANGED <<caller, clients>>
    BY <1>1, <2>1 DEF IInv, CallTypes, ExecutedOnce
  <2>. QED  BY <1>1, <2>1, TellClientKeeps
<1>3. WireTypes' /\ ServerTypes' /\ Phases'
  BY DEF IInv, WireTypes, ServerTypes, Phases
<1>4. \A c \in Calls : pending'[c] = "set" => executed[c] = 1
  BY DEF IInv, CallTypes, Truthful
<1>5. Truthful'
  BY <1>4 DEF IInv, Truthful
<1>6. NothingAsked
  BY <1>2 DEF NothingAsked
<1>7. serving'[Master] # None /\ ~stale' => route[serving[Master]].from \in connected'
  BY DEF IInv, Routed
<1>8. Routed' /\ MessagesAreSingle' /\ EntriesAreSingle' /\ ServedAreSingle'
  BY <1>3, <1>6, <1>7, NothingAskedKeeps
<1>. QED  BY <1>2, <1>3, <1>5, <1>8 DEF IInv

LEMMA ReceiveRequestInv ==
  ASSUME IInv, NEW m \in wire, ReceiveRequest(m)
  PROVE  IInv'
<1>. DEFINE n == IF m.up THEN Master ELSE m.worker
            c == m.call
<1>1. /\ m.kind = "dapi" /\ wire' = wire \ {m} /\ queue' = [queue EXCEPT ![n] = Append(@, c)]
      /\ UNCHANGED <<route, caller, clients, connected, serving, phase, result, stale, pending, late, executed, faults>>
  BY DEF ReceiveRequest, Receive, local
<1>2. n \in Nodes /\ c \in Calls /\ (n \in Workers => n \in connected) /\ Belongs(c, n)
  <2>1. m.worker \in connected /\ m.worker \in Workers /\ m.call \in Calls
    BY DEF IInv, WireTypes
  <2>. QED  BY <1>1, <2>1, NodeFacts DEF IInv, Routed, Belongs
<1>3. /\ executed[c] = 0 /\ caller[c] \notin {"new", "refused"}
      /\ \A k \in wire' : ~Asks(k, c)
      /\ \A k \in Nodes : \A i \in DOMAIN queue[k] : queue[k][i] # c
      /\ \A k \in Nodes : ~Distributed(k, c)
  BY <1>1 DEF IInv, MessagesAreSingle
<1>. HIDE DEF n, c
<1>4. /\ \A k \in Nodes : k # n => queue'[k] = queue[k]
      /\ queue[n] \in Seq(Calls) /\ queue'[n] = Append(queue[n], c)
      /\ queue' \in [Nodes -> Seq(Calls)]
  BY <1>1, <1>2 DEF IInv, ServerTypes
<1>5. /\ DOMAIN queue'[n] = 1 .. Len(queue[n]) + 1 /\ Len(queue[n]) \in Nat
      /\ queue'[n][Len(queue[n]) + 1] = c
      /\ \A i \in DOMAIN queue[n] : queue'[n][i] = queue[n][i]
      /\ DOMAIN queue[n] = 1 .. Len(queue[n])
  BY <1>2, <1>4
<1>6. \A k \in Nodes : \A i \in DOMAIN queue'[k] :
         \/ i \in DOMAIN queue[k] /\ queue'[k][i] = queue[k][i]
         \/ k = n /\ i = Len(queue[n]) + 1 /\ queue'[k][i] = c
  BY <1>4, <1>5
<1>7. CallTypes' /\ WireTypes' /\ ServerTypes' /\ ExecutedOnce' /\ Truthful'
  BY <1>1, <1>4 DEF IInv, CallTypes, WireTypes, ServerTypes, ExecutedOnce, Truthful
<1>8. Phases'
  BY <1>1, <1>2, <1>4 DEF IInv, Phases
<1>9. Routed'
  BY <1>1, <1>2, <1>6 DEF IInv, Routed, Belongs
<1>10. MessagesAreSingle'
  <2>1. \A k \in wire' : k.kind = "dapi" => k \in wire /\ k.call # c
    BY <1>1, <1>3 DEF Asks
  <2>. QED  BY <1>1, <1>6, <2>1 DEF IInv, MessagesAreSingle, Asks, Distributed
<1>11. EntriesAreSingle'
  <2>. SUFFICES ASSUME NEW k \in Nodes, NEW i \in DOMAIN queue'[k]
                PROVE  /\ executed[queue'[k][i]] = 0
                       /\ caller[queue'[k][i]] \notin {"new", "refused"}
                       /\ \A l \in Nodes : \A j \in DOMAIN queue'[l] :
                             queue'[l][j] = queue'[k][i] => l = k /\ j = i
                       /\ \A l \in Nodes : ~Distributed(l, queue'[k][i])
    BY <1>1 DEF EntriesAreSingle, Distributed
  <2>1. CASE i \in DOMAIN queue[k] /\ queue'[k][i] = queue[k][i]
    <3>1. queue[k][i] # c
      BY <1>3, <2>1
    <3>. QED  BY <1>6, <2>1, <3>1 DEF IInv, EntriesAreSingle
  <2>2. CASE k = n /\ i = Len(queue[n]) + 1 /\ queue'[k][i] = c
    BY <1>3, <1>6, <2>2
  <2>. QED  BY <1>6, <2>1, <2>2
<1>12. ServedAreSingle'
  BY <1>1 DEF IInv, ServedAreSingle, Distributed
<1>. QED  BY <1>7, <1>8, <1>9, <1>10, <1>11, <1>12 DEF IInv

LEMMA ReceiveMessageInv ==
  ASSUME IInv, NEW m \in wire, ReceiveMessage(m)
  PROVE  IInv'
<1>1. CASE ReceiveRequest(m)
  BY <1>1, ReceiveRequestInv
<1>2. CASE ReceiveResult(m)
  <2>1. m.worker \in Nodes
    BY NodeFacts DEF IInv, WireTypes
  <2>. QED  BY <1>2, <2>1, ReplyInv DEF ReceiveResult, Receive, server
<1>3. CASE ProcessDapiError(m)
  <2>1. (IF m.up THEN Master ELSE m.worker) \in Nodes
    BY NodeFacts DEF IInv, WireTypes
  <2>. QED  BY <1>3, <2>1, ReplyInv DEF ProcessDapiError, Receive, server
<1>4. CASE ProcessDapiRes(m)
  <2>1. /\ m.kind \in Results /\ m.up /\ wire' = wire \ {m}
        /\ UNCHANGED <<route, connected, queue, serving, phase, result, stale, late, executed, faults>>
    BY <1>4 DEF ProcessDapiRes, Receive, server
  <2>2. m.kind # "no string" => executed[m.call] = 1
    BY <2>1 DEF Results, IInv, Truthful
  <2>3. CASE pending[m.call] = "none"
    BY <1>4, <2>1, <2>3, ReplyInv, NodeFacts DEF ProcessDapiRes
  <2>4. CASE pending[m.call] # "none"
    <3>1. /\ UNCHANGED <<caller, clients>>
          /\ \/ UNCHANGED pending
             \/ executed[m.call] = 1 /\ pending' = [pending EXCEPT ![m.call] = "set"]
      BY <1>4, <2>2, <2>4 DEF ProcessDapiRes
    <3>. QED  BY <2>1, <3>1, ReplyInv
  <2>. QED  BY <2>3, <2>4
<1>. QED  BY <1>1, <1>2, <1>3, <1>4 DEF ReceiveMessage

-----------------------------------------------------------------------------
(* APIRequestQueue.                                                        *)

LEMMA TakeInv ==
  ASSUME IInv, NEW n \in Nodes, Take(n)
  PROVE  IInv'
<1>. DEFINE c == Head(queue[n])
<1>1. /\ serving[n] = None /\ queue[n] # <<>> /\ queue' = [queue EXCEPT ![n] = Tail(@)]
      /\ UNCHANGED <<route, caller, clients, connected, wire, result, stale, pending, late, executed, faults>>
  BY DEF Take, local
<1>2. /\ queue[n] \in Seq(Calls) /\ Len(queue[n]) \in Nat /\ DOMAIN queue[n] = 1 .. Len(queue[n])
      /\ 1 \in DOMAIN queue[n] /\ c = queue[n][1] /\ c \in Calls
      /\ queue' \in [Nodes -> Seq(Calls)]
  <2>1. queue[n] \in Seq(Calls)
    BY DEF IInv, ServerTypes
  <2>2. Len(queue[n]) \in Nat /\ DOMAIN queue[n] = 1 .. Len(queue[n]) /\ 1 \in DOMAIN queue[n] /\ c = queue[n][1]
    BY <1>1, <2>1
  <2>3. c \in Calls
    BY <1>1, <2>1
  <2>4. queue' \in [Nodes -> Seq(Calls)]
    BY <1>1, <2>1 DEF IInv, ServerTypes
  <2>. QED  BY <2>1, <2>2, <2>3, <2>4
<1>3. /\ executed[c] = 0 /\ caller[c] \notin {"new", "refused"}
      /\ \A k \in wire : ~Asks(k, c)
      /\ \A k \in Nodes : \A i \in DOMAIN queue[k] : queue[k][i] = c => k = n /\ i = 1
      /\ \A k \in Nodes : ~Distributed(k, c)
      /\ Belongs(c, n)
      /\ n \in Workers => n \in connected
  <2>1. \A k \in wire : ~Asks(k, c)
    BY <1>2 DEF IInv, MessagesAreSingle, Asks
  <2>2. n \in Workers => n \in connected
    BY <1>1 DEF IInv, Phases
  <2>. QED  BY <1>2, <2>1, <2>2 DEF IInv, EntriesAreSingle, Routed
<1>4. \/ n = Master /\ route[c].from \notin connected /\ UNCHANGED <<serving, phase>>
      \/ /\ n = Master => route[c].from \in connected
         /\ serving' = [serving EXCEPT ![n] = c] /\ phase' = [phase EXCEPT ![n] = "distribute"]
  BY DEF Take
<1>. HIDE DEF c
<1>5. \A k \in Nodes : \A i \in DOMAIN queue'[k] :
         \/ k # n /\ i \in DOMAIN queue[k] /\ queue'[k][i] = queue[k][i]
         \/ k = n /\ i + 1 \in DOMAIN queue[k] /\ queue'[k][i] = queue[k][i + 1] /\ i \in Nat /\ i # 0
  <2>1. \A k \in Nodes : k # n => queue'[k] = queue[k]
    BY <1>1 DEF IInv, ServerTypes
  <2>2. queue'[n] = Tail(queue[n])
    BY <1>1 DEF IInv, ServerTypes
  <2>3. \A i \in DOMAIN queue'[n] : i + 1 \in DOMAIN queue[n] /\ queue'[n][i] = queue[n][i + 1] /\ i \in Nat /\ i # 0
    BY <1>1, <1>2, <2>2
  <2>. QED  BY <2>1, <2>3
<1>6. \A k \in Nodes : \A i \in DOMAIN queue'[k] : queue'[k][i] # c /\ queue'[k][i] \in Calls
  <2>1. \A k \in Nodes : \A i \in DOMAIN queue'[k] : queue'[k][i] # c
    BY <1>3, <1>5
  <2>2. \A k \in Nodes : \A i \in DOMAIN queue'[k] : queue'[k][i] \in Calls
    BY <1>2
  <2>. QED  BY <2>1, <2>2
<1>7. /\ serving' \in [Nodes -> Calls \cup {None}]
      /\ phase' \in [Nodes -> {"idle", "distribute", "await", "send"}]
      /\ \A k \in Nodes \ {n} : serving'[k] = serving[k] /\ phase'[k] = phase[k]
      /\ \/ serving'[n] = None /\ phase'[n] = phase[n]
         \/ serving'[n] = c /\ phase'[n] = "distribute" /\ (n = Master => route[c].from \in connected)
  BY <1>1, <1>2, <1>4 DEF IInv, ServerTypes
<1>8. CallTypes' /\ WireTypes' /\ ExecutedOnce'
  BY <1>1 DEF IInv, CallTypes, WireTypes, ExecutedOnce
<1>9. ServerTypes'
  BY <1>1, <1>2, <1>7 DEF IInv, ServerTypes
<1>10. Phases'
  <2>1. \A w \in Workers \ connected : w # n
    BY <1>3
  <2>2. \A k \in Nodes \ {n} : queue'[k] = queue[k]
    BY <1>1 DEF IInv, ServerTypes
  <2>3. \A k \in Nodes : serving'[k] = None <=> phase'[k] = "idle"
    BY <1>1, <1>2, <1>7, NodeFacts DEF IInv, Phases
  <2>4. \A w \in Workers : phase'[w] # "await"
    BY <1>7, NodeFacts DEF IInv, Phases
  <2>. QED  BY <1>1, <1>7, <2>1, <2>2, <2>3, <2>4, NodeFacts DEF IInv, Phases
<1>11. Routed'
  <2>1. \A k \in Nodes : \A i \in DOMAIN queue'[k] : Belongs(queue'[k][i], k)
    BY <1>5 DEF IInv, Routed
  <2>2. \A k \in Nodes : serving'[k] # None => Belongs(serving'[k], k)
    BY <1>3, <1>7 DEF IInv, Routed
  <2>3. serving'[Master] # None /\ ~stale => route[serving'[Master]].from \in connected
    BY <1>7, NodeFacts DEF IInv, Routed
  <2>. QED  BY <1>1, <2>1, <2>2, <2>3 DEF IInv, Routed, Belongs
<1>12. \A k \in Nodes, d \in Calls : Distributed(k, d)' => Distributed(k, d) \/ (k = n /\ d = c)
  BY <1>1, <1>7, NodeFacts DEF Distributed, IInv, Phases
<1>13. MessagesAreSingle'
  <2>1. \A m \in wire : m.kind = "dapi" => m.call # c /\ m.call \in Calls
    BY <1>3 DEF Asks, IInv, WireTypes
  <2>2. \A m \in wire : m.kind = "dapi" => \A k \in Nodes : \A i \in DOMAIN queue'[k] : queue'[k][i] # m.call
    BY <1>5 DEF IInv, MessagesAreSingle
  <2>3. \A m \in wire : m.kind = "dapi" => \A k \in Nodes : ~Distributed(k, m.call)'
    BY <1>12, <2>1 DEF IInv, MessagesAreSingle
  <2>. QED  BY <1>1, <2>2, <2>3 DEF IInv, MessagesAreSingle, Asks, Distributed
<1>14. EntriesAreSingle'
  <2>. SUFFICES ASSUME NEW k \in Nodes, NEW i \in DOMAIN queue'[k]
                PROVE  /\ executed[queue'[k][i]] = 0
                       /\ caller[queue'[k][i]] \notin {"new", "refused"}
                       /\ \A l \in Nodes : \A j \in DOMAIN queue'[l] :
                             queue'[l][j] = queue'[k][i] => l = k /\ j = i
                       /\ \A l \in Nodes : ~(serving'[l] = queue'[k][i] /\ phase'[l] = "distribute")
    BY <1>1 DEF EntriesAreSingle, Distributed
  <2>1. /\ executed[queue'[k][i]] = 0
        /\ caller[queue'[k][i]] \notin {"new", "refused"}
        /\ \A l \in Nodes : ~Distributed(l, queue'[k][i])
    BY <1>5 DEF IInv, EntriesAreSingle
  <2>2. \A l \in Nodes : ~(serving'[l] = queue'[k][i] /\ phase'[l] = "distribute")
    BY <1>6, <1>12, <2>1 DEF Distributed
  <2>3. \A l \in Nodes : \A j \in DOMAIN queue'[l] :
           queue'[l][j] = queue'[k][i] => l = k /\ j = i
    <3>. SUFFICES ASSUME NEW l \in Nodes, NEW j \in DOMAIN queue'[l], queue'[l][j] = queue'[k][i]
                  PROVE  l = k /\ j = i
      OBVIOUS
    <3>. DEFINE I == IF k = n THEN i + 1 ELSE i
                J == IF l = n THEN j + 1 ELSE j
    <3>1. /\ I \in DOMAIN queue[k] /\ queue'[k][i] = queue[k][I]
          /\ J \in DOMAIN queue[l] /\ queue'[l][j] = queue[l][J]
      BY <1>5
    <3>2. l = k /\ J = I
      BY <3>1 DEF IInv, EntriesAreSingle
    <3>3. k = n => i \in Nat /\ j \in Nat
      BY <1>5, <3>2
    <3>. QED  BY <3>2, <3>3
  <2>. QED  BY <2>1, <2>2, <2>3
<1>15. ServedAreSingle'
  <2>. SUFFICES ASSUME NEW k \in Nodes, phase'[k] = "distribute"
                PROVE  /\ executed[serving'[k]] = 0
                       /\ caller[serving'[k]] \notin {"new", "refused"}
                       /\ \A l \in Nodes : serving'[l] = serving'[k] /\ phase'[l] = "distribute" => l = k
    BY <1>1 DEF ServedAreSingle, Distributed
  <2>1. serving'[k] \in Calls
    BY <1>9, <1>10 DEF ServerTypes, Phases
  <2>2. CASE serving'[k] = c /\ k = n
    BY <1>2, <1>3, <1>12, <2>2 DEF Distributed
  <2>3. CASE ~(serving'[k] = c /\ k = n)
    <3>1. phase[k] = "distribute" /\ serving'[k] = serving[k]
      BY <1>1, <1>7, <2>3 DEF IInv, Phases
    <3>2. serving[k] # c
      BY <1>3, <3>1 DEF Distributed
    <3>. QED  BY <1>12, <2>1, <3>1, <3>2 DEF IInv, ServedAreSingle, Distributed
  <2>. QED  BY <2>2, <2>3
<1>16. Truthful'
  <2>1. \A k \in Nodes : phase'[k] = "send" => phase[k] = "send" /\ serving'[k] = serving[k]
    BY <1>1, <1>7
  <2>. QED  BY <1>1, <2>1, NodeFacts DEF IInv, Truthful
<1>. QED  BY <1>8, <1>9, <1>10, <1>11, <1>13, <1>14, <1>15, <1>16 DEF IInv

LEMMA ExecuteInv ==
  ASSUME IInv, NEW n \in Nodes, Execute(n)
  PROVE  IInv'
<1>. DEFINE c == serving[n]
<1>1. /\ phase[n] = "distribute" /\ executed' = [executed EXCEPT ![c] = @ + 1]
      /\ phase' = [phase EXCEPT ![n] = "send"] /\ result' = [result EXCEPT ![n] = "result"]
      /\ UNCHANGED <<route, caller, clients, connected, wire, queue, serving, stale, pending, late, faults>>
  BY DEF Execute, Returns, local
<1>2. c \in Calls
  BY <1>1 DEF IInv, ServerTypes, Phases
<1>3. executed[c] = 0 /\ caller[c] \notin {"new", "refused"} /\ \A k \in Nodes : Distributed(k, c) => k = n
  BY <1>1 DEF IInv, ServedAreSingle
<1>4. /\ \A m \in wire : ~Asks(m, c)
      /\ \A k \in Nodes : \A i \in DOMAIN queue[k] : queue[k][i] # c
  <2>1. Distributed(n, c)
    BY <1>1 DEF Distributed
  <2>. QED  BY <2>1 DEF IInv, MessagesAreSingle, EntriesAreSingle, Asks
<1>. HIDE DEF c
<1>5. /\ \A d \in Calls \ {c} : executed'[d] = executed[d]
      /\ executed'[c] = 1
      /\ executed' \in [Calls -> Nat]
  <2>1. executed \in [Calls -> Nat]
    BY DEF IInv, CallTypes
  <2>2. executed' = [executed EXCEPT ![c] = 1]
    BY <1>1, <1>2, <1>3, <2>1
  <2>. QED  BY <1>2, <2>1, <2>2
<1>6. \A k \in Nodes \ {n} : phase'[k] = phase[k] /\ result'[k] = result[k]
  BY <1>1 DEF IInv, ServerTypes
<1>7. phase'[n] = "send" /\ result'[n] = "result" /\ serving[n] = c
  BY <1>1 DEF IInv, ServerTypes, c
<1>8. CallTypes' /\ WireTypes'
  BY <1>1, <1>5 DEF IInv, CallTypes, WireTypes
<1>9. ServerTypes'
  BY <1>1 DEF IInv, ServerTypes
<1>10. Phases'
  BY <1>1, <1>2, <1>6, <1>7, NodeFacts DEF IInv, Phases
<1>11. Routed'
  BY <1>1 DEF IInv, Routed, Belongs
<1>12. ExecutedOnce'
  BY <1>1, <1>3, <1>5 DEF IInv, ExecutedOnce
<1>13. \A k \in Nodes, d \in Calls : Distributed(k, d)' => Distributed(k, d) /\ d # c
  BY <1>1, <1>3, <1>6, <1>7 DEF Distributed
<1>14. MessagesAreSingle'
  <2>1. \A m \in wire : m.kind = "dapi" => m.call # c /\ m.call \in Calls
    BY <1>4 DEF Asks, IInv, WireTypes
  <2>. QED  BY <1>1, <1>5, <1>13, <2>1 DEF IInv, MessagesAreSingle, Asks
<1>15. EntriesAreSingle'
  <2>1. \A k \in Nodes : \A i \in DOMAIN queue[k] : queue[k][i] \in Calls \ {c}
    BY <1>4 DEF IInv, ServerTypes
  <2>2. \A k \in Nodes : \A i \in DOMAIN queue[k] :
           executed'[queue[k][i]] = 0 /\ \A l \in Nodes : ~Distributed(l, queue[k][i])'
    BY <1>1, <1>5, <1>13, <2>1 DEF IInv, EntriesAreSingle
  <2>. QED  BY <1>1, <2>2 DEF IInv, EntriesAreSingle, Distributed
<1>16. ServedAreSingle'
  <2>1. \A k \in Nodes : phase'[k] = "distribute" => k # n /\ phase[k] = "distribute" /\ serving[k] \in Calls \ {c}
    BY <1>1, <1>3, <1>6, <1>7 DEF IInv, ServerTypes, Phases, Distributed
  <2>. QED  BY <1>1, <1>5, <1>6, <2>1 DEF IInv, ServedAreSingle, Distributed
<1>17. Truthful'
  <2>1. \A d \in Calls : executed[d] = 1 => executed'[d] = 1
    BY <1>3, <1>5
  <2>2. \A m \in wire : m.call \in Calls
    BY DEF IInv, WireTypes
  <2>3. \A k \in Nodes : phase[k] = "send" => serving[k] \in Calls
    BY DEF IInv, ServerTypes, Phases
  <2>4. \A k \in Nodes : phase'[k] = "send" /\ result'[k] = "result" => executed'[serving[k]] = 1
    BY <1>5, <1>6, <1>7, <2>1, <2>3 DEF IInv, Truthful
  <2>5. \A w \in Workers : phase'[w] = "send" => result'[w] = "result"
    BY <1>6, <1>7, NodeFacts DEF IInv, Truthful
  <2>. QED  BY <1>1, <2>1, <2>2, <2>4, <2>5 DEF IInv, Truthful
<1>. QED  BY <1>8, <1>9, <1>10, <1>11, <1>12, <1>14, <1>15, <1>16, <1>17 DEF IInv

(* The master goes on with the request that it serves, without executing   *)
(* or sending anything.                                                    *)
LEMMA MasterReturnsInv ==
  ASSUME IInv, phase[Master] \in {"distribute", "await"}, NEW r \in {"result", "error"}, Returns(Master, r),
         r = "result" => executed[serving[Master]] = 1,
         pending' \in [Calls -> {"none", "waiting", "set"}],
         \A c \in Calls : pending'[c] = "set" => pending[c] = "set",
         late' \subseteq Calls,
         UNCHANGED <<route, caller, clients, connected, wire, queue, serving, stale, executed, faults>>
  PROVE  IInv'
<1>1. /\ \A k \in Nodes \ {Master} : phase'[k] = phase[k] /\ result'[k] = result[k]
      /\ phase'[Master] = "send" /\ result'[Master] = r
  BY NodeFacts DEF Returns, IInv, ServerTypes
<1>2. CallTypes' /\ WireTypes' /\ ExecutedOnce'
  BY DEF IInv, CallTypes, WireTypes, ExecutedOnce
<1>3. ServerTypes'
  BY DEF IInv, ServerTypes, Returns
<1>4. Phases'
  BY <1>1, NodeFacts DEF IInv, Phases
<1>5. Truthful'
  BY <1>1, NodeFacts DEF IInv, Truthful
<1>6. NothingAsked
  BY <1>1 DEF NothingAsked
<1>7. serving'[Master] # None /\ ~stale' => route[serving[Master]].from \in connected'
  BY DEF IInv, Routed
<1>8. Routed' /\ MessagesAreSingle' /\ EntriesAreSingle' /\ ServedAreSingle'
  BY <1>3, <1>4, <1>6, <1>7, NothingAskedKeeps
<1>. QED  BY <1>2, <1>3, <1>4, <1>5, <1>8 DEF IInv

LEMMA MasterServes ==
  ASSUME IInv, phase[Master] # "idle"
  PROVE  serving[Master] \in Calls
BY NodeFacts DEF IInv, ServerTypes, Phases

LEMMA ForwardInv ==
  ASSUME IInv, Forward
  PROVE  IInv'
<1>. DEFINE c == serving[Master]
            w == route[c].to
            m == Msg("dapi", w, FALSE, c)
<1>1. /\ phase[Master] = "distribute" /\ w # Master /\ pending' = [pending EXCEPT ![c] = "waiting"]
      /\ UNCHANGED <<route, caller, clients, connected, queue, serving, stale, late, executed, faults>>
  BY DEF Forward, local
<1>2. c \in Calls /\ w \in Workers
  BY <1>1, MasterServes, RouteTypes, NodeFacts DEF IInv
<1>3. /\ pending' \in [Calls -> {"none", "waiting", "set"}]
      /\ \A d \in Calls : pending'[d] = "set" => pending[d] = "set"
  BY <1>1, <1>2 DEF IInv, CallTypes
<1>4. CASE w \notin connected
  <2>1. Returns(Master, "error") /\ UNCHANGED wire
    BY <1>4 DEF Forward
  <2>2. late' \subseteq Calls
    BY <1>1 DEF IInv, CallTypes
  <2>. QED  BY <1>1, <1>3, <2>1, <2>2, MasterReturnsInv
<1>5. CASE w \in connected
  <2>1. wire' = wire \cup {m} /\ phase' = [phase EXCEPT ![Master] = "await"] /\ result' = result
    BY <1>5 DEF Forward, Forwards
  <2>2. /\ m.kind = "dapi" /\ m.worker = w /\ m.call = c /\ m.up = FALSE
        /\ m \in [kind : Results \cup {"dapi", "dapi_err"}, worker : Workers, up : BOOLEAN, call : Calls]
    BY <1>2 DEF Msg
  <2>3. Distributed(Master, c) /\ w = route[c].to
    BY <1>1 DEF Distributed
  <2>. HIDE DEF c, w, m
  <2>4. /\ executed[c] = 0 /\ caller[c] \notin {"new", "refused"} /\ \A k \in Nodes : Distributed(k, c) => k = Master
        /\ \A k \in wire : ~Asks(k, c)
        /\ \A k \in Nodes : \A i \in DOMAIN queue[k] : queue[k][i] # c
    BY <2>3, NodeFacts DEF IInv, MessagesAreSingle, EntriesAreSingle, ServedAreSingle, Distributed, Asks
  <2>5. /\ \A k \in Nodes \ {Master} : phase'[k] = phase[k]
        /\ phase'[Master] = "await"
    BY <2>1, NodeFacts DEF IInv, ServerTypes
  <2>6. CallTypes' /\ ExecutedOnce'
    BY <1>1, <1>3 DEF IInv, CallTypes, ExecutedOnce
  <2>7. WireTypes'
    BY <1>1, <1>5, <2>1, <2>2 DEF IInv, WireTypes
  <2>8. ServerTypes'
    BY <1>1, <2>1 DEF IInv, ServerTypes
  <2>9. Phases'
    BY <1>1, <2>5, NodeFacts DEF IInv, Phases
  <2>10. Routed'
    BY <1>1, <2>1, <2>2, <2>3 DEF IInv, Routed, Belongs
  <2>11. \A k \in Nodes, d \in Calls : Distributed(k, d)' => Distributed(k, d) /\ d # c
    BY <1>1, <2>4, <2>5 DEF Distributed
  <2>12. MessagesAreSingle'
    <3>. SUFFICES ASSUME NEW k \in wire', k.kind = "dapi"
                  PROVE  /\ executed[k.call] = 0
                         /\ caller[k.call] \notin {"new", "refused"}
                         /\ \A l \in wire' : Asks(l, k.call) => l = k
                         /\ \A n \in Nodes : \A i \in DOMAIN queue[n] : queue[n][i] # k.call
                         /\ \A n \in Nodes : ~Distributed(n, k.call)'
      BY <1>1 DEF MessagesAreSingle, Distributed, Asks
    <3>1. CASE k \in wire
      <4>1. k.call # c /\ k.call \in Calls
        BY <2>4, <3>1 DEF Asks, IInv, WireTypes
      <4>. QED  BY <2>1, <2>2, <2>11, <3>1, <4>1 DEF IInv, MessagesAreSingle, Asks
    <3>2. CASE k = m
      BY <1>2, <2>1, <2>2, <2>4, <2>11, <3>2 DEF Asks, c
    <3>. QED  BY <2>1, <3>1, <3>2
  <2>13. EntriesAreSingle'
    <3>1. \A k \in Nodes : \A i \in DOMAIN queue[k] : queue[k][i] \in Calls
      BY DEF IInv, ServerTypes
    <3>2. \A k \in Nodes : \A i \in DOMAIN queue[k] : \A l \in Nodes : ~Distributed(l, queue[k][i])'
      BY <1>1, <2>11, <3>1 DEF IInv, EntriesAreSingle
    <3>. QED  BY <1>1, <3>2 DEF IInv, EntriesAreSingle, Distributed
  <2>14. ServedAreSingle'
    BY <1>1, <2>5 DEF IInv, ServedAreSingle, Distributed
  <2>15. Truthful'
    BY <1>1, <1>3, <2>1, <2>2, <2>5, NodeFacts DEF IInv, Truthful
  <2>. QED  BY <2>6, <2>7, <2>8, <2>9, <2>10, <2>12, <2>13, <2>14, <2>15 DEF IInv
<1>. QED  BY <1>4, <1>5

LEMMA AwaitInv ==
  ASSUME IInv, Answered \/ ForwardTimeout
  PROVE  IInv'
<1>1. phase[Master] = "await" /\ serving[Master] \in Calls
  BY MasterServes DEF Answered, ForwardTimeout
<1>2. CASE Answered
  <2>1. executed[serving[Master]] = 1
    BY <1>1, <1>2 DEF Answered, IInv, Truthful
  <2>. QED  BY <1>1, <1>2, <2>1, MasterReturnsInv DEF Answered, local, IInv, CallTypes
<1>3. CASE ForwardTimeout
  <2>1. late' \subseteq Calls
    BY <1>1, <1>3 DEF ForwardTimeout, IInv, CallTypes
  <2>. QED  BY <1>1, <1>3, <2>1, MasterReturnsInv DEF ForwardTimeout, local, IInv, CallTypes
<1>. QED  BY <1>2, <1>3

LEMMA FaultCounts ==
  ASSUME IInv, Fault
  PROVE  faults' \in 0 .. MaxFaults
<1>1. faults \in 0 .. MaxFaults
  BY DEF IInv, CallTypes
<1>. QED  BY <1>1 DEF Fault

(* A node is done with its request, and says so or not.                    *)
LEMMA DoneInv ==
  ASSUME IInv, NEW n \in Nodes, phase[n] # "idle",
         NEW kind \in Results \cup {"dapi_err"}, SendBack(n, kind), Done(n),
         kind = "result" => executed[serving[n]] = 1,
         n \in Workers => kind # "error",
         UNCHANGED <<route, caller, clients, connected, queue, result, pending, late, executed>>,
         faults' \in 0 .. MaxFaults
  PROVE  IInv'
<1>. DEFINE c == serving[n]
            w == IF n = Master THEN route[c].from ELSE n
            m == Msg(kind, w, n # Master, c)
<1>1. c \in Calls /\ Belongs(c, n)
  BY DEF IInv, ServerTypes, Phases, Routed
<1>2. wire' = wire \/ (wire' = wire \cup {m} /\ (n = Master => ~stale))
  BY DEF SendBack
<1>3. w \in Workers /\ ((n = Master => ~stale) => w \in connected)
  BY <1>1, RouteTypes, NodeFacts DEF IInv, Routed, Phases, Belongs
<1>4. kind # "dapi" /\ kind \in Results \cup {"dapi", "dapi_err"}
  BY DEF Results
<1>5. /\ m.kind = kind /\ m.worker = w /\ m.call = c /\ (m.up <=> n \in Workers)
      /\ m \in [kind : Results \cup {"dapi", "dapi_err"}, worker : Workers, up : BOOLEAN, call : Calls]
  BY <1>1, <1>3, <1>4, NodeFacts DEF Msg
<1>. HIDE DEF c, w, m
<1>6. /\ serving' \in [Nodes -> Calls \cup {None}]
      /\ phase' \in [Nodes -> {"idle", "distribute", "await", "send"}]
      /\ serving'[n] = None /\ phase'[n] = "idle"
      /\ \A k \in Nodes \ {n} : serving'[k] = serving[k] /\ phase'[k] = phase[k]
      /\ stale' \in BOOLEAN
      /\ n # Master => stale' = stale
  <2>1. /\ serving' = [serving EXCEPT ![n] = None] /\ phase' = [phase EXCEPT ![n] = "idle"]
        /\ stale' = (stale /\ n # Master)
    BY DEF Done
  <2>2. stale' \in BOOLEAN
    BY <2>1
  <2>3. n # Master => stale' = stale
    <3>1. stale \in BOOLEAN
      BY DEF IInv, ServerTypes
    <3>. QED  BY <2>1, <3>1
  <2>. QED  BY <2>1, <2>2, <2>3 DEF IInv, ServerTypes
<1>7. CallTypes' /\ ExecutedOnce'
  BY DEF IInv, CallTypes, ExecutedOnce
<1>8. WireTypes'
  BY <1>2, <1>3, <1>5 DEF IInv, WireTypes
<1>9. ServerTypes'
  BY <1>6 DEF IInv, ServerTypes
<1>10. Phases'
  BY <1>6, NodeFacts DEF IInv, Phases
<1>11. executed' = executed /\ pending' = pending /\ executed[c] = executed[serving[n]]
  BY DEF c
<1>12. Truthful'
  BY <1>2, <1>5, <1>6, <1>11, NodeFacts DEF IInv, Truthful
<1>13. NothingAsked
  BY <1>2, <1>4, <1>5, <1>6 DEF NothingAsked
<1>14. serving'[Master] # None /\ ~stale' => route[serving[Master]].from \in connected'
  BY <1>6, NodeFacts DEF IInv, Routed
<1>15. Routed' /\ MessagesAreSingle' /\ EntriesAreSingle' /\ ServedAreSingle'
  BY <1>9, <1>10, <1>13, <1>14, NothingAskedKeeps
<1>. QED  BY <1>7, <1>8, <1>9, <1>10, <1>12, <1>15 DEF IInv

LEMMA SendInv ==
  ASSUME IInv, NEW n \in Nodes, SendResult(n) \/ SendNoString(n) \/ SendError(n)
  PROVE  IInv'
<1>1. phase[n] # "idle" /\ "no string" \in Results
  BY DEF SendResult, SendNoString, SendError, Results
<1>2. faults' \in 0 .. MaxFaults
  <2>1. faults \in 0 .. MaxFaults
    BY DEF IInv, CallTypes
  <2>2. Fault \/ faults' = faults
    BY DEF SendResult, SendNoString, SendError
  <2>. QED  BY <2>1, <2>2, FaultCounts
<1>3. CASE SendResult(n)
  <2>1. phase[n] = "send" /\ result[n] \in {"result", "error"} /\ result[n] \in Results
    BY <1>3 DEF SendResult, IInv, ServerTypes, Results
  <2>2. /\ result[n] = "result" => executed[serving[n]] = 1
        /\ n \in Workers => result[n] # "error"
    BY <2>1, NodeFacts DEF IInv, Truthful
  <2>. QED  BY <1>1, <1>2, <1>3, <2>1, <2>2, DoneInv DEF SendResult, local
<1>4. CASE SendNoString(n)
  BY <1>1, <1>2, <1>4, DoneInv DEF SendNoString, local
<1>5. CASE SendError(n)
  BY <1>1, <1>2, <1>5, DoneInv DEF SendError, local
<1>. QED  BY <1>3, <1>4, <1>5

-----------------------------------------------------------------------------
(* What may go wrong.                                                      *)

LEMMA LoseConnectionInv ==
  ASSUME IInv, NEW w \in Workers, LoseConnection(w)
  PROVE  IInv'
<1>1. /\ connected' = connected \ {w} /\ wire' = {m \in wire : m.worker # w}
      /\ clients' \subseteq clients
      /\ queue' = [queue EXCEPT ![w] = <<>>] /\ serving' = [serving EXCEPT ![w] = None]
      /\ phase' = [phase EXCEPT ![w] = "idle"]
      /\ stale' = (stale \/ (serving[Master] # None /\ route[serving[Master]].from = w))
      /\ faults' \in 0 .. MaxFaults
      /\ UNCHANGED <<route, caller, result, pending, late, executed>>
  BY FaultCounts DEF LoseConnection
<1>2. /\ queue' \in [Nodes -> Seq(Calls)] /\ serving' \in [Nodes -> Calls \cup {None}]
      /\ phase' \in [Nodes -> {"idle", "distribute", "await", "send"}] /\ stale' \in BOOLEAN
      /\ queue'[w] = <<>> /\ serving'[w] = None /\ phase'[w] = "idle"
      /\ \A k \in Nodes \ {w} : serving'[k] = serving[k] /\ phase'[k] = phase[k] /\ queue'[k] = queue[k]
  <2>1. stale' \in BOOLEAN
    BY <1>1
  <2>2. <<>> \in Seq(Calls)
    OBVIOUS
  <2>. QED  BY <1>1, <2>1, <2>2, NodeFacts DEF IInv, ServerTypes
<1>3. CallTypes' /\ WireTypes' /\ ExecutedOnce'
  BY <1>1 DEF IInv, CallTypes, WireTypes, ExecutedOnce
<1>4. ServerTypes'
  BY <1>1, <1>2 DEF IInv, ServerTypes
<1>5. Phases'
  BY <1>1, <1>2, NodeFacts DEF IInv, Phases
<1>6. Truthful'
  BY <1>1, <1>2, NodeFacts DEF IInv, Truthful
<1>7. NothingAsked
  BY <1>1, <1>2 DEF NothingAsked
<1>8. serving'[Master] # None /\ ~stale' => route[serving[Master]].from \in connected'
  <2>1. serving'[Master] = serving[Master]
    BY <1>2, NodeFacts
  <2>2. ~stale' => ~stale /\ ~(serving[Master] # None /\ route[serving[Master]].from = w)
    BY <1>1
  <2>. QED  BY <1>1, <2>1, <2>2 DEF IInv, Routed
<1>9. Routed' /\ MessagesAreSingle' /\ EntriesAreSingle' /\ ServedAreSingle'
  BY <1>4, <1>5, <1>7, <1>8, NothingAskedKeeps
<1>. QED  BY <1>3, <1>4, <1>5, <1>6, <1>9 DEF IInv

LEMMA ConnectInv ==
  ASSUME IInv, NEW w \in Workers, Connect(w)
  PROVE  IInv'
<1>1. /\ connected' = connected \cup {w}
      /\ UNCHANGED <<route, caller, clients, wire, queue, serving, phase, result, stale, pending, late, executed, faults>>
  BY DEF Connect, local, server
<1>2. CallTypes' /\ WireTypes' /\ ExecutedOnce' /\ Truthful'
  BY <1>1 DEF IInv, CallTypes, WireTypes, ExecutedOnce, Truthful
<1>3. ServerTypes' /\ Phases'
  BY <1>1 DEF IInv, ServerTypes, Phases
<1>4. NothingAsked
  BY <1>1 DEF NothingAsked
<1>5. serving'[Master] # None /\ ~stale' => route[serving[Master]].from \in connected'
  BY <1>1 DEF IInv, Routed
<1>6. Routed' /\ MessagesAreSingle' /\ EntriesAreSingle' /\ ServedAreSingle'
  BY <1>3, <1>4, <1>5, NothingAskedKeeps
<1>. QED  BY <1>2, <1>3, <1>6 DEF IInv

LEMMA RestartInv ==
  ASSUME IInv, Restart
  PROVE  IInv'
<1>1. /\ connected' = {} /\ wire' = {} /\ clients' = {}
      /\ queue' = [n \in Nodes |-> <<>>] /\ serving' = [n \in Nodes |-> None] /\ phase' = [n \in Nodes |-> "idle"]
      /\ stale' = FALSE /\ pending' = [c \in Calls |-> "none"]
      /\ faults' \in 0 .. MaxFaults
      /\ UNCHANGED <<route, caller, result, late, executed>>
  BY FaultCounts DEF Restart
<1>2. \A n \in Nodes : queue'[n] = <<>> /\ serving'[n] = None /\ phase'[n] = "idle"
  BY <1>1
<1>3. CallTypes' /\ WireTypes' /\ ExecutedOnce'
  BY <1>1 DEF IInv, CallTypes, WireTypes, ExecutedOnce
<1>4. ServerTypes'
  <2>1. /\ queue' \in [Nodes -> Seq(Calls)] /\ serving' \in [Nodes -> Calls \cup {None}]
        /\ phase' \in [Nodes -> {"idle", "distribute", "await", "send"}]
    BY <1>1
  <2>. QED  BY <1>1, <2>1 DEF IInv, ServerTypes
<1>5. Phases'
  BY <1>2, NodeFacts DEF Phases
<1>6. Truthful'
  BY <1>1, <1>2, NodeFacts DEF IInv, Truthful
<1>7. NothingAsked
  BY <1>1, <1>2 DEF NothingAsked
<1>8. Routed' /\ MessagesAreSingle' /\ EntriesAreSingle' /\ ServedAreSingle'
  BY <1>2, <1>4, <1>5, <1>7, NodeFacts, NothingAskedKeeps
<1>. QED  BY <1>3, <1>4, <1>5, <1>6, <1>8 DEF IInv

-----------------------------------------------------------------------------
LEMMA StepInv == IInv /\ [Next]_vars => IInv'
<1>. SUFFICES ASSUME IInv, [Next]_vars PROVE IInv'
  OBVIOUS
<1>1. CASE \E c \in Calls : Request(c) \/ ClientTimeout(c)
  BY <1>1, RequestInv, ClientTimeoutInv
<1>2. CASE \E m \in wire : ReceiveMessage(m)
  BY <1>2, ReceiveMessageInv
<1>3. CASE \E n \in Nodes : Serve(n) \/ SendNoString(n) \/ SendError(n)
  BY <1>3, TakeInv, ExecuteInv, ForwardInv, AwaitInv, SendInv DEF Serve
<1>4. CASE \E w \in Workers : LoseConnection(w) \/ Connect(w)
  BY <1>4, LoseConnectionInv, ConnectInv
<1>5. CASE Restart
  BY <1>5, RestartInv
<1>6. CASE UNCHANGED vars
  <2>1. UNCHANGED <<route, caller, clients, connected, wire, queue, serving, phase, result, stale,
                    pending, late, executed, faults>>
    BY <1>6 DEF vars, local, server
  <2>2. CallTypes' /\ WireTypes' /\ ServerTypes' /\ Phases'
    BY <2>1 DEF IInv, CallTypes, WireTypes, ServerTypes, Phases
  <2>3. Routed' /\ ExecutedOnce' /\ Truthful'
    BY <2>1 DEF IInv, Routed, Belongs, ExecutedOnce, Truthful
  <2>4. MessagesAreSingle' /\ EntriesAreSingle' /\ ServedAreSingle'
    BY <2>1 DEF IInv, MessagesAreSingle, EntriesAreSingle, ServedAreSingle, Asks, Distributed
  <2>. QED  BY <2>2, <2>3, <2>4 DEF IInv
<1>. QED  BY <1>1, <1>2, <1>3, <1>4, <1>5, <1>6 DEF Next

LEMMA InvAlways == Spec => []IInv
BY InitInv, StepInv, PTL DEF Spec

(* Every variable keeps its type: what a node serves and the phase it is   *)
(* in agree, only the master awaits an answer, messages are on connections *)
(* that exist, and a worker without a connection serves nothing.           *)
THEOREM TypeCorrect == Spec => []TypeOK
<1>1. IInv => TypeOK
  BY TypesSplit DEF IInv
<1>. QED  BY <1>1, InvAlways, PTL

-----------------------------------------------------------------------------
(* The refinement.                                                         *)

Bar == [c \in Calls |-> IF caller[c] = "error" THEN "gave up" ELSE caller[c]]

LEMMA BarKept ==
  ASSUME UNCHANGED caller
  PROVE  Bar' = Bar
BY DEF Bar

LEMMA BarReturns ==
  ASSUME IInv, NEW c \in Calls, NEW outcome \in {"open", "refused", "answered", "error", "gave up"},
         Return(c, outcome) \/ caller' = [caller EXCEPT ![c] = outcome]
  PROVE  Bar' = [Bar EXCEPT ![c] = IF outcome = "error" THEN "gave up" ELSE outcome]
<1>1. caller' = [caller EXCEPT ![c] = outcome] /\ caller \in [Calls -> {"new", "open", "refused", "answered", "error", "gave up"}]
  BY DEF Return, IInv, CallTypes
<1>. QED  BY <1>1 DEF Bar

LEMMA TellClientRefines ==
  ASSUME IInv, NEW m \in wire, NEW n, TellClient(m, n), executed' = executed
  PROVE  \/ UNCHANGED <<Bar, executed>>
         \/ \E c \in Calls : Remote!Answer(c) \/ Remote!GiveUp(c)
<1>1. CASE UNCHANGED <<caller, clients>>
  BY <1>1, BarKept
<1>2. CASE /\ m.call \in clients
           /\ Return(m.call, IF m.kind = "result" THEN "answered" ELSE "error")
  <2>1. m.call \in Calls /\ caller[m.call] = "open" /\ Bar[m.call] = "open"
    BY <1>2 DEF IInv, CallTypes, WireTypes, Bar
  <2>2. CASE m.kind = "result"
    <3>1. executed[m.call] = 1
      BY <2>2 DEF IInv, Truthful
    <3>2. Bar' = [Bar EXCEPT ![m.call] = "answered"]
      BY <1>2, <2>1, <2>2, BarReturns
    <3>. QED  BY <2>1, <3>1, <3>2 DEF Remote!Answer, Remote!Turn, Bar
  <2>3. CASE m.kind # "result"
    <3>1. Bar' = [Bar EXCEPT ![m.call] = "gave up"]
      BY <1>2, <2>1, <2>3, BarReturns
    <3>. QED  BY <2>1, <3>1 DEF Remote!GiveUp, Remote!Turn, Bar
  <2>. QED  BY <2>2, <2>3
<1>. QED  BY <1>1, <1>2 DEF TellClient

LEMMA StepRefines ==
  ASSUME IInv, [Next]_vars
  PROVE  \/ UNCHANGED <<Bar, executed>>
         \/ \E c \in Calls : \/ Remote!Open(c) \/ Remote!Refuse(c) \/ Remote!Serve(c)
                             \/ Remote!Answer(c) \/ Remote!GiveUp(c)
<1>1. ASSUME NEW c \in Calls, Request(c)
      PROVE  Remote!Open(c) \/ Remote!Refuse(c)
  <2>1. caller[c] = "new" /\ Bar[c] = "new" /\ executed' = executed
    BY <1>1 DEF Request, Bar
  <2>2. caller' = [caller EXCEPT ![c] = "open"] \/ caller' = [caller EXCEPT ![c] = "refused"]
    BY <1>1 DEF Request, Accept, Refuse, Return
  <2>3. Bar' = [Bar EXCEPT ![c] = "open"] \/ Bar' = [Bar EXCEPT ![c] = "refused"]
    BY <2>2, BarReturns
  <2>. QED  BY <2>1, <2>3 DEF Remote!Open, Remote!Refuse, Remote!Turn, Bar
<1>2. ASSUME NEW c \in Calls, ClientTimeout(c)
      PROVE  Remote!GiveUp(c)
  <2>1. Bar[c] = "open" /\ Return(c, "gave up") /\ executed' = executed
    BY <1>2 DEF ClientTimeout, Bar
  <2>2. Bar' = [Bar EXCEPT ![c] = "gave up"]
    BY <2>1, BarReturns
  <2>. QED  BY <2>1, <2>2 DEF Remote!GiveUp, Remote!Turn, Bar
<1>3. ASSUME NEW m \in wire, ReceiveMessage(m)
      PROVE  \/ UNCHANGED <<Bar, executed>>
             \/ \E c \in Calls : Remote!Answer(c) \/ Remote!GiveUp(c)
  <2>1. executed' = executed
    BY <1>3 DEF ReceiveMessage, ReceiveRequest, ReceiveResult, ProcessDapiRes, ProcessDapiError
  <2>2. UNCHANGED caller \/ \E n : TellClient(m, n)
    BY <1>3 DEF ReceiveMessage, ReceiveRequest, ReceiveResult, ProcessDapiRes, ProcessDapiError, local
  <2>. QED  BY <2>1, <2>2, BarKept, TellClientRefines
<1>4. ASSUME NEW n \in Nodes, Execute(n)
      PROVE  \E c \in Calls : Remote!Serve(c)
  <2>. DEFINE c == serving[n]
  <2>1. /\ phase[n] = "distribute" /\ executed' = [executed EXCEPT ![c] = @ + 1] /\ UNCHANGED caller
    BY <1>4 DEF Execute, local
  <2>2. c \in Calls /\ executed[c] = 0 /\ caller[c] \notin {"new", "refused"}
    BY <2>1 DEF IInv, ServerTypes, Phases, ServedAreSingle
  <2>. HIDE DEF c
  <2>3. executed \in [Calls -> Nat] /\ executed' = [executed EXCEPT ![c] = 1]
    <3>1. executed \in [Calls -> Nat]
      BY DEF IInv, CallTypes
    <3>. QED  BY <2>1, <2>2, <3>1
  <2>4. Bar[c] \in {"open", "gave up"}
    <3>1. caller[c] # "answered"
      BY <2>2 DEF IInv, ExecutedOnce
    <3>2. caller[c] \in {"new", "open", "refused", "answered", "error", "gave up"}
      BY <2>2 DEF IInv, CallTypes
    <3>. QED  BY <2>2, <3>1, <3>2 DEF Bar
  <2>5. Bar' = Bar
    BY <2>1, BarKept
  <2>. QED  BY <2>2, <2>3, <2>4, <2>5 DEF Remote!Serve, Bar
<1>5. CASE UNCHANGED <<caller, executed>>
  BY <1>5, BarKept
<1>6. CASE \E n \in Nodes : Serve(n) \/ SendNoString(n) \/ SendError(n)
  BY <1>4, <1>5, <1>6
  DEF Serve, Take, Forward, Answered, ForwardTimeout, SendResult, SendNoString, SendError, local
<1>7. CASE Restart \/ UNCHANGED vars \/ \E w \in Workers : LoseConnection(w) \/ Connect(w)
  BY <1>5, <1>7 DEF Restart, vars, local, LoseConnection, Connect
<1>. QED  BY <1>1, <1>2, <1>3, <1>6, <1>7 DEF Next

(* For any nodes and routes, whatever is lost and whoever restarts or      *)
(* gives up: a request of the API is executed once at most, only if it was *)
(* not refused, and its caller gets a result only if it was executed.      *)
THEOREM RequestsAreRemoteCalls == Spec => ImplementsRemoteCalls
<1>1. Init => Remote!Init
  BY DEF Init, Remote!Init
<1>2. IInv /\ [Next]_vars => [Remote!Next]_(Remote!vars)
  <2>. SUFFICES ASSUME IInv, [Next]_vars PROVE [Remote!Next]_(Remote!vars)
    OBVIOUS
  <2>. QED  BY StepRefines DEF Remote!Next, Remote!vars, Bar
<1>. QED  BY <1>1, <1>2, InvAlways, PTL DEF Spec, Remote!Spec, ImplementsRemoteCalls

-----------------------------------------------------------------------------
(***************************************************************************)
(* Where the duty to answer a request is: at one place at most, and        *)
(* without a fault at one while its caller waits.                          *)
(***************************************************************************)
OnWire(c)  == \E m \in wire : m.call = c
InQueue(c) == \E n \in Nodes : \E i \in DOMAIN queue[n] : queue[n][i] = c

(* The node has the duty to answer: the master has not while it awaits.    *)
Serves(n, c)  == serving[n] = c /\ (phase[n] = "await" => pending[c] = "set")
InService(c)  == \E n \in Nodes : Serves(n, c)

OneMessage(c) == \A m, k \in wire : m.call = c /\ k.call = c => m = k
OneEntry(c) ==
    \A n, k \in Nodes : \A i \in DOMAIN queue[n], j \in DOMAIN queue[k] :
        queue[n][i] = c /\ queue[k][j] = c => n = k /\ i = j
OneServer(c) == \A n, k \in Nodes : Serves(n, c) /\ Serves(k, c) => n = k

Alone(c) ==
    /\ OneMessage(c) /\ OneEntry(c) /\ OneServer(c)
    /\ ~(OnWire(c) /\ InQueue(c))
    /\ ~(OnWire(c) /\ InService(c))
    /\ ~(InQueue(c) /\ InService(c))

(* A request that was not sent is nowhere.                                 *)
Unsent(c) == ~OnWire(c) /\ ~InQueue(c) /\ \A n \in Nodes : serving[n] # c

Single ==
    \A c \in Calls : /\ caller[c] \in {"new", "refused"} => Unsent(c)
                     /\ c \notin late => Alone(c)

(* Without a fault.                                                        *)
Below(c) ==
    \/ \E m \in wire : m.call = c /\ (m.up <=> m.kind # "dapi")
    \/ \E w \in Workers : \E i \in DOMAIN queue[w] : queue[w][i] = c
    \/ \E w \in Workers : serving[w] = c

Awaited(c) ==
    IF route[c].from = Master THEN pending[c] = "none"
    ELSE serving[Master] = c /\ phase[Master] = "await" /\ pending[c] = "waiting"

Addressed == \A m \in wire : ~m.up /\ m.kind # "dapi" => m.worker = route[m.call].from

Unpended == \A c \in Calls : pending[c] # "none" => route[c].from # Master

Calm ==
    /\ connected = Workers /\ ~stale
    /\ \A m \in wire : m.kind \in {"dapi", "result", "error"}
    /\ \A c \in Calls \ late : caller[c] = "open" =>
          /\ c \in clients
          /\ OnWire(c) \/ InQueue(c) \/ InService(c)
          /\ Below(c) => Awaited(c)

Placed == Single /\ Addressed /\ Unpended /\ (faults = 0 => Calm)

(* What a step does to the requests that it is not about; the entries of a *)
(* queue move up when its first is taken.                                  *)
QueueKept(d, s) ==
    \A n \in Nodes : \A i \in DOMAIN queue'[n] : queue'[n][i] = d =>
        i \in Nat /\ i + s[n] \in DOMAIN queue[n] /\ queue[n][i + s[n]] = d

Untouched(d) ==
    /\ \A m \in wire' : m.call = d => m \in wire
    /\ \E s \in [Nodes -> Nat] : QueueKept(d, s)
    /\ \A n \in Nodes : serving'[n] = d => serving[n] = d
    /\ \A n \in Nodes : Serves(n, d)' => Serves(n, d)
    /\ caller'[d] \in {"new", "refused", "open"} => caller'[d] = caller[d]

Stays(d) ==
    /\ OnWire(d) => OnWire(d)'
    /\ InQueue(d) => InQueue(d)'
    /\ InService(d) => InService(d)'
    /\ d \in clients /\ caller'[d] = "open" => d \in clients'
    /\ Awaited(d) => Awaited(d)'

LEMMA QueuesKept ==
  ASSUME IInv, NEW d, \A n \in Nodes : queue'[n] = queue[n] \/ queue'[n] = <<>>
  PROVE  \E s \in [Nodes -> Nat] : QueueKept(d, s)
<1>. DEFINE s == [n \in Nodes |-> 0]
<1>1. s \in [Nodes -> Nat] /\ \A n \in Nodes : s[n] = 0
  OBVIOUS
<1>. HIDE DEF s
<1>2. \A n \in Nodes : queue[n] \in Seq(Calls)
  BY DEF IInv, ServerTypes
<1>3. \A n \in Nodes : \A i \in DOMAIN queue'[n] : i \in DOMAIN queue[n] /\ queue'[n][i] = queue[n][i]
  OBVIOUS
<1>4. \A n \in Nodes : \A i \in DOMAIN queue[n] : i \in Nat /\ i + 0 = i
  BY <1>2
<1>. QED  BY <1>1, <1>3, <1>4 DEF QueueKept

LEMMA UntouchedUnsent ==
  ASSUME NEW d, Untouched(d), Unsent(d)
  PROVE  Unsent(d)'
<1>1. ~OnWire(d)'
  BY DEF Untouched, Unsent, OnWire
<1>2. ~InQueue(d)'
  BY DEF Untouched, QueueKept, Unsent, InQueue
<1>3. \A n \in Nodes : serving'[n] # d
  BY DEF Untouched, Unsent
<1>. QED  BY <1>1, <1>2, <1>3 DEF Unsent

LEMMA UntouchedPlaces ==
  ASSUME NEW d, Untouched(d)
  PROVE  /\ OnWire(d)' => OnWire(d)
         /\ InQueue(d)' => InQueue(d)
         /\ InService(d)' => InService(d)
<1>1. OnWire(d)' => OnWire(d)
  BY DEF Untouched, OnWire
<1>2. InQueue(d)' => InQueue(d)
  BY DEF Untouched, QueueKept, InQueue
<1>3. InService(d)' => InService(d)
  BY DEF Untouched, InService
<1>. QED  BY <1>1, <1>2, <1>3

LEMMA UntouchedAlone ==
  ASSUME NEW d, Untouched(d), Alone(d)
  PROVE  Alone(d)'
<1>1. OneMessage(d)'
  BY DEF Untouched, Alone, OneMessage
<1>2. OneServer(d)'
  BY DEF Untouched, Alone, OneServer
<1>3. OneEntry(d)'
  <2>1. PICK s \in [Nodes -> Nat] : QueueKept(d, s)
    BY DEF Untouched
  <2>. SUFFICES ASSUME NEW n \in Nodes, NEW k \in Nodes,
                       NEW i \in DOMAIN queue'[n], NEW j \in DOMAIN queue'[k],
                       queue'[n][i] = d, queue'[k][j] = d
                PROVE  n = k /\ i = j
    BY DEF OneEntry
  <2>2. /\ i \in Nat /\ i + s[n] \in DOMAIN queue[n] /\ queue[n][i + s[n]] = d
        /\ j \in Nat /\ j + s[k] \in DOMAIN queue[k] /\ queue[k][j + s[k]] = d
    BY <2>1 DEF QueueKept
  <2>3. n = k /\ i + s[n] = j + s[k]
    BY <2>2 DEF Alone, OneEntry
  <2>. QED  BY <2>1, <2>2, <2>3
<1>. QED  BY <1>1, <1>2, <1>3, UntouchedPlaces DEF Alone

LEMMA UntouchedBelow ==
  ASSUME NEW d, Untouched(d), Below(d)'
  PROVE  Below(d)
<1>1. CASE \E m \in wire' : m.call = d /\ (m.up <=> m.kind # "dapi")
  BY <1>1 DEF Untouched, Below
<1>2. CASE \E w \in Workers : \E i \in DOMAIN queue'[w] : queue'[w][i] = d
  BY <1>2, NodeFacts DEF Untouched, QueueKept, Below
<1>3. CASE \E w \in Workers : serving'[w] = d
  BY <1>3, NodeFacts DEF Untouched, Below
<1>. QED  BY <1>1, <1>2, <1>3 DEF Below

(* The request that a step is about, and the others.                       *)
LEMMA SingleFrom ==
  ASSUME Single, late \subseteq late', NEW c,
         \A d \in Calls \ {c} : Untouched(d),
         c \in Calls => /\ caller'[c] \in {"new", "refused"} => Unsent(c)'
                        /\ c \notin late' => Alone(c)'
  PROVE  Single'
<1>. SUFFICES ASSUME NEW d \in Calls
              PROVE  /\ caller'[d] \in {"new", "refused"} => Unsent(d)'
                     /\ d \notin late' => Alone(d)'
  BY DEF Single
<1>1. CASE d = c
  BY <1>1
<1>2. CASE d # c
  <2>1. Untouched(d)
    BY <1>2
  <2>2. caller'[d] \in {"new", "refused"} => caller[d] \in {"new", "refused"}
    BY <2>1 DEF Untouched
  <2>3. (Unsent(d) => Unsent(d)') /\ (Alone(d) => Alone(d)')
    BY <2>1, UntouchedUnsent, UntouchedAlone
  <2>. QED  BY <2>2, <2>3 DEF Single
<1>. QED  BY <1>1, <1>2

LEMMA CalmFrom ==
  ASSUME Calm, late \subseteq late', NEW c,
         connected' = connected, stale' = FALSE,
         \A m \in wire' : m.kind \in {"dapi", "result", "error"},
         \A d \in Calls \ {c} : Untouched(d) /\ Stays(d),
         c \in Calls \ late' /\ caller'[c] = "open" =>
            /\ c \in clients'
            /\ OnWire(c)' \/ InQueue(c)' \/ InService(c)'
            /\ Below(c)' => Awaited(c)'
  PROVE  Calm'
<1>. SUFFICES ASSUME NEW d \in Calls \ late', caller'[d] = "open"
              PROVE  /\ d \in clients'
                     /\ OnWire(d)' \/ InQueue(d)' \/ InService(d)'
                     /\ Below(d)' => Awaited(d)'
  BY DEF Calm
<1>1. CASE d = c
  BY <1>1
<1>2. CASE d # c
  <2>1. Untouched(d) /\ Stays(d) /\ caller[d] = "open" /\ d \in Calls \ late
    BY <1>2 DEF Untouched
  <2>2. /\ d \in clients
        /\ OnWire(d) \/ InQueue(d) \/ InService(d)
        /\ Below(d) => Awaited(d)
    BY <2>1 DEF Calm
  <2>. QED  BY <2>1, <2>2, UntouchedBelow DEF Stays
<1>. QED  BY <1>1, <1>2

(* A request that is somewhere was sent.                                   *)
LEMMA Present ==
  ASSUME Single, NEW c \in Calls,
         OnWire(c) \/ InQueue(c) \/ \E n \in Nodes : serving[n] = c
  PROVE  caller[c] \notin {"new", "refused"}
BY DEF Single, Unsent

LEMMA PlacedFrom ==
  ASSUME Placed, late \subseteq late', NEW c,
         \A d \in Calls \ {c} : Untouched(d),
         c \in Calls => /\ caller'[c] \in {"new", "refused"} => Unsent(c)'
                        /\ c \notin late' => Alone(c)',
         Addressed', Unpended',
         faults' = 0 => faults = 0,
         faults = 0 /\ faults' = 0 =>
            /\ connected' = connected /\ stale' = FALSE
            /\ \A m \in wire' : m.kind \in {"dapi", "result", "error"}
            /\ \A d \in Calls \ {c} : Stays(d)
            /\ c \in Calls \ late' /\ caller'[c] = "open" =>
                  /\ c \in clients'
                  /\ OnWire(c)' \/ InQueue(c)' \/ InService(c)'
                  /\ Below(c)' => Awaited(c)'
  PROVE  Placed'
<1>1. Single'
  BY SingleFrom DEF Placed
<1>2. faults' = 0 => Calm'
  BY CalmFrom DEF Placed
<1>. QED  BY <1>1, <1>2 DEF Placed

(* Three ways of being at one place.                                       *)
LEMMA AloneMessage ==
  ASSUME NEW c, NEW m, \A k \in wire' : k.call = c => k = m, ~InQueue(c)', ~InService(c)'
  PROVE  Alone(c)'
<1>1. OneMessage(c)' /\ OneEntry(c)' /\ OneServer(c)'
  BY DEF OneMessage, OneEntry, OneServer, InQueue, InService
<1>. QED  BY <1>1 DEF Alone

LEMMA AloneEntry ==
  ASSUME NEW c, NEW n, NEW i,
         \A k \in Nodes : \A j \in DOMAIN queue'[k] : queue'[k][j] = c => k = n /\ j = i,
         ~OnWire(c)', ~InService(c)'
  PROVE  Alone(c)'
<1>1. OneMessage(c)' /\ OneEntry(c)' /\ OneServer(c)'
  BY DEF OneMessage, OneEntry, OneServer, OnWire, InService
<1>. QED  BY <1>1 DEF Alone

LEMMA AloneServer ==
  ASSUME NEW c, NEW n, \A k \in Nodes : Serves(k, c)' => k = n, ~OnWire(c)', ~InQueue(c)'
  PROVE  Alone(c)'
<1>1. OneMessage(c)' /\ OneEntry(c)' /\ OneServer(c)'
  BY DEF OneMessage, OneEntry, OneServer, OnWire, InQueue
<1>. QED  BY <1>1 DEF Alone

LEMMA RequestPlaces ==
  ASSUME IInv, Placed, NEW c \in Calls, Request(c)
  PROVE  Placed'
<1>0. /\ caller[c] = "new"
      /\ UNCHANGED <<route, connected, queue, serving, phase, result, stale, pending, late, executed, faults>>
  BY DEF Request, server
<1>1. PICK w : w = (IF route[c].from = Master THEN route[c].to ELSE route[c].from)
  OBVIOUS
<1>2. PICK m : m = Msg("dapi", w, w = route[c].from, c)
  OBVIOUS
<1>3. /\ m.kind = "dapi" /\ m.call = c /\ w \in Workers
      /\ m.up <=> w = route[c].from
  BY <1>1, <1>2, RouteTypes, NodeFacts DEF Msg, IInv
<1>4. /\ \/ caller' = [caller EXCEPT ![c] = "refused"] /\ clients' = clients \ {c} /\ wire' = wire
         \/ /\ caller' = [caller EXCEPT ![c] = "open"]
            /\ clients' = clients \cup {c}
            /\ wire' = wire \cup {m}
  BY <1>1, <1>2 DEF Request, Refuse, Return, Accept
<1>5. Unsent(c)
  BY <1>0 DEF Placed, Single
<1>6. /\ \A d \in Calls \ {c} : caller'[d] = caller[d]
      /\ caller'[c] = "open" => wire' = wire \cup {m} /\ clients' = clients \cup {c}
      /\ caller'[c] = "open" \/ (caller'[c] = "refused" /\ wire' = wire)
  BY <1>4 DEF IInv, CallTypes
<1>7. \A d \in Calls, n \in Nodes : Serves(n, d)' <=> Serves(n, d)
  BY <1>0 DEF Serves
<1>8. ASSUME NEW d \in Calls \ {c} PROVE Untouched(d) /\ Stays(d)
  <2>1. \E s \in [Nodes -> Nat] : QueueKept(d, s)
    BY <1>0, QueuesKept
  <2>2. Untouched(d)
    BY <1>0, <1>3, <1>4, <1>6, <1>7, <2>1 DEF Untouched
  <2>3. Stays(d)
    BY <1>0, <1>4, <1>7 DEF Stays, OnWire, InQueue, InService, Awaited
  <2>. QED  BY <2>2, <2>3
<1>9. ~InQueue(c)' /\ ~InService(c)' /\ \A n \in Nodes : serving'[n] # c
  BY <1>0, <1>5, <1>7 DEF Unsent, InQueue, InService, Serves
<1>10. \A k \in wire' : k.call = c => k = m
  BY <1>4, <1>5 DEF Unsent, OnWire
<1>11. Alone(c)'
  BY <1>9, <1>10, AloneMessage
<1>12. caller'[c] \in {"new", "refused"} => Unsent(c)'
  <2>1. caller'[c] \in {"new", "refused"} => wire' = wire
    BY <1>6
  <2>. QED  BY <1>5, <1>9, <2>1 DEF Unsent, OnWire
<1>13. Addressed'
  BY <1>0, <1>3, <1>4 DEF Placed, Addressed
<1>14. Unpended'
  BY <1>0 DEF Placed, Unpended
<1>15. ASSUME faults = 0, caller'[c] = "open"
       PROVE  OnWire(c)' /\ (Below(c)' => Awaited(c)')
  <2>1. OnWire(c)'
    BY <1>3, <1>6, <1>15 DEF OnWire
  <2>2. ASSUME Below(c)' PROVE Awaited(c)'
    <3>1. \E k \in wire' : k.call = c /\ (k.up <=> k.kind # "dapi")
      BY <1>9, <2>2, NodeFacts DEF Below, InQueue
    <3>2. ~m.up
      BY <1>3, <1>10, <3>1
    <3>3. route[c].from = Master
      BY <1>1, <1>3, <3>2
    <3>4. pending[c] = "none"
      BY <3>3 DEF Placed, Unpended
    <3>. QED  BY <1>0, <3>3, <3>4 DEF Awaited
  <2>. QED  BY <2>1, <2>2
<1>16. faults = 0 => \A k \in wire' : k.kind \in {"dapi", "result", "error"}
  BY <1>3, <1>4 DEF Placed, Calm
<1>17. faults = 0 => stale' = FALSE
  BY <1>0 DEF Placed, Calm, IInv, ServerTypes
<1>. QED  BY <1>0, <1>6, <1>8, <1>11, <1>12, <1>13, <1>14, <1>15, <1>16, <1>17, PlacedFrom

(* A local client gives up.                                                *)
LEMMA ClientTimeoutPlaces ==
  ASSUME IInv, Placed, NEW c \in Calls, ClientTimeout(c)
  PROVE  Placed'
<1>1. /\ caller' = [caller EXCEPT ![c] = "gave up"] /\ clients' = clients \ {c}
      /\ UNCHANGED <<route, connected, wire, queue, serving, phase, result, stale, pending, late, executed, faults>>
  BY DEF ClientTimeout, Return, server
<1>2. caller'[c] = "gave up" /\ \A d \in Calls \ {c} : caller'[d] = caller[d]
  BY <1>1 DEF IInv, CallTypes
<1>3. \A d \in Calls, n \in Nodes : Serves(n, d)' <=> Serves(n, d)
  BY <1>1 DEF Serves
<1>4. ASSUME NEW d \in Calls PROVE Untouched(d)
  <2>1. \E s \in [Nodes -> Nat] : QueueKept(d, s)
    BY <1>1, QueuesKept
  <2>. QED  BY <1>1, <1>2, <1>3, <2>1 DEF Untouched
<1>5. ASSUME NEW d \in Calls \ {c} PROVE Stays(d)
  BY <1>1, <1>3 DEF Stays, OnWire, InQueue, InService, Awaited
<1>6. c \notin late' => Alone(c)'
  BY <1>1, <1>4, UntouchedAlone DEF Placed, Single
<1>7. Addressed' /\ Unpended'
  BY <1>1 DEF Placed, Addressed, Unpended
<1>8. faults = 0 => stale' = FALSE /\ \A m \in wire' : m.kind \in {"dapi", "result", "error"}
  BY <1>1 DEF Placed, Calm, IInv, ServerTypes
<1>. QED  BY <1>1, <1>2, <1>4, <1>5, <1>6, <1>7, <1>8, PlacedFrom

-----------------------------------------------------------------------------
LEMMA TellClientChanges ==
  ASSUME IInv, NEW m \in wire, UNCHANGED <<caller, clients>> \/ \E n : TellClient(m, n)
  PROVE  /\ \A d \in Calls \ {m.call} : caller'[d] = caller[d]
         /\ caller'[m.call] \in {caller[m.call], "answered", "error"}
         /\ clients \ {m.call} \subseteq clients'
<1>1. CASE UNCHANGED <<caller, clients>>
  BY <1>1
<1>2. CASE Return(m.call, IF m.kind = "result" THEN "answered" ELSE "error")
  BY <1>2 DEF Return, IInv, CallTypes, WireTypes
<1>. QED  BY <1>1, <1>2 DEF TellClient

(* A message that is taken and passed on to a local client, or dropped.    *)
LEMMA ReplyPlaces ==
  ASSUME IInv, Placed, NEW m \in wire, wire' = wire \ {m},
         UNCHANGED <<caller, clients>> \/ \E n : TellClient(m, n),
         UNCHANGED <<route, connected, queue, serving, phase, result, stale, pending, late, executed, faults>>,
         faults = 0 /\ caller[m.call] = "open" /\ m.call \notin late => caller'[m.call] # "open"
  PROVE  Placed'
<1>1. PICK c : c = m.call
  OBVIOUS
<1>2. /\ c \in Calls
      /\ \A d \in Calls \ {c} : caller'[d] = caller[d]
      /\ caller'[c] \in {caller[c], "answered", "error"}
      /\ clients \ {c} \subseteq clients'
  BY <1>1, TellClientChanges DEF IInv, WireTypes
<1>3. \A d \in Calls, n \in Nodes : Serves(n, d)' <=> Serves(n, d)
  BY DEF Serves
<1>4. ASSUME NEW d \in Calls PROVE Untouched(d)
  <2>1. \E s \in [Nodes -> Nat] : QueueKept(d, s)
    BY QueuesKept
  <2>2. caller'[d] \in {"new", "refused", "open"} => caller'[d] = caller[d]
    BY <1>2
  <2>. QED  BY <1>3, <2>1, <2>2 DEF Untouched
<1>5. ASSUME NEW d \in Calls \ {c} PROVE Stays(d)
  BY <1>1, <1>2, <1>3 DEF Stays, OnWire, InQueue, InService, Awaited
<1>6. caller'[c] \notin {"new", "refused"}
  BY <1>1, <1>2, Present DEF OnWire, Placed
<1>7. c \notin late' => Alone(c)'
  BY <1>2, <1>4, UntouchedAlone DEF Placed, Single
<1>8. Addressed' /\ Unpended'
  BY DEF Placed, Addressed, Unpended
<1>9. faults = 0 => stale' = FALSE /\ \A k \in wire' : k.kind \in {"dapi", "result", "error"}
  BY DEF Placed, Calm, IInv, ServerTypes
<1>10. faults = 0 /\ c \in Calls \ late' /\ caller'[c] = "open" => FALSE
  BY <1>1, <1>2
<1>. QED  BY <1>4, <1>5, <1>6, <1>7, <1>8, <1>9, <1>10, PlacedFrom

(* A result that is passed on without a fault reaches its client.          *)
LEMMA TellClientReaches ==
  ASSUME IInv, NEW m \in wire, m.call \in clients, m.kind \in {"result", "error"},
         TellClient(m, route[m.call].from)
  PROVE  caller'[m.call] # "open"
<1>1. Return(m.call, IF m.kind = "result" THEN "answered" ELSE "error")
  BY DEF TellClient
<1>. QED  BY <1>1 DEF Return, IInv, CallTypes, WireTypes

LEMMA ReceiveResultPlaces ==
  ASSUME IInv, Placed, NEW m \in wire, ReceiveResult(m) \/ ProcessDapiError(m)
  PROVE  Placed'
<1>1. /\ wire' = wire \ {m}
      /\ UNCHANGED <<route, connected, queue, serving, phase, result, stale, pending, late, executed, faults>>
      /\ \E n : TellClient(m, n)
  BY DEF ReceiveResult, ProcessDapiError, Receive, server
<1>2. ASSUME faults = 0, caller[m.call] = "open", m.call \notin late
      PROVE  caller'[m.call] # "open"
  <2>1. m.kind \in {"dapi", "result", "error"}
    BY <1>2 DEF Placed, Calm
  <2>2. m.kind \in {"result", "error"} /\ ~m.up /\ TellClient(m, m.worker)
    BY <2>1 DEF ReceiveResult, ProcessDapiError, Results
  <2>3. m.worker = route[m.call].from
    BY <2>2 DEF Placed, Addressed
  <2>4. m.call \in clients
    BY <1>2 DEF Placed, Calm, IInv, WireTypes
  <2>. QED  BY <2>2, <2>3, <2>4, TellClientReaches
<1>. QED  BY <1>1, <1>2, ReplyPlaces

(* A worker has the duty to answer what it serves: it does not await.      *)
LEMMA WorkersServe ==
  ASSUME IInv, NEW c, NEW w \in Workers
  PROVE  serving[w] = c <=> Serves(w, c)
BY DEF IInv, Phases, Serves

(* The answer to a request that the master forwarded.                      *)
LEMMA AnswerPlaces ==
  ASSUME IInv, Placed, NEW m \in wire, wire' = wire \ {m}, m.up, m.kind \in Results,
         pending[m.call] # "none", pending' = [pending EXCEPT ![m.call] = "set"],
         UNCHANGED <<route, caller, clients, connected, queue, serving, phase, result, stale, late, executed, faults>>
  PROVE  Placed'
<1>1. PICK c : c = m.call
  OBVIOUS
<1>2. /\ c \in Calls /\ pending'[c] = "set" /\ OnWire(c)
      /\ \A d \in Calls \ {c} : pending'[d] = pending[d]
  BY <1>1 DEF IInv, WireTypes, CallTypes, OnWire
<1>3. ASSUME NEW d \in Calls \ {c} PROVE Untouched(d) /\ Stays(d)
  <2>1. \A n \in Nodes : Serves(n, d)' <=> Serves(n, d)
    BY <1>2 DEF Serves
  <2>2. \E s \in [Nodes -> Nat] : QueueKept(d, s)
    BY QueuesKept
  <2>3. Untouched(d)
    BY <2>1, <2>2 DEF Untouched
  <2>4. Stays(d)
    BY <1>1, <1>2, <2>1 DEF Stays, OnWire, InQueue, InService, Awaited
  <2>. QED  BY <2>3, <2>4
<1>4. caller'[c] \notin {"new", "refused"}
  BY <1>2, Present DEF Placed
<1>5. c \notin late => /\ ~OnWire(c)' /\ ~InQueue(c)'
                       /\ \A n \in Nodes : Serves(n, c)' => n = Master
  <2>. SUFFICES ASSUME c \notin late
                PROVE  /\ ~OnWire(c)' /\ ~InQueue(c)'
                       /\ \A n \in Nodes : Serves(n, c)' => n = Master
    OBVIOUS
  <2>1. Alone(c)
    BY <1>2 DEF Placed, Single
  <2>2. ~OnWire(c)' /\ ~InQueue(c)' /\ \A n \in Nodes : ~Serves(n, c)
    BY <1>1, <1>2, <2>1 DEF Alone, OneMessage, OnWire, InQueue, InService
  <2>3. ASSUME NEW w \in Workers, Serves(w, c)' PROVE FALSE
    BY <2>2, <2>3, WorkersServe, NodeFacts DEF Serves
  <2>. QED  BY <2>2, <2>3, NodeFacts
<1>6. c \notin late' => Alone(c)'
  BY <1>5, AloneServer
<1>7. Addressed'
  BY DEF Placed, Addressed
<1>8. Unpended'
  BY <1>1, <1>2 DEF Placed, Unpended
<1>9. faults = 0 => stale' = FALSE /\ \A k \in wire' : k.kind \in {"dapi", "result", "error"}
  BY DEF Placed, Calm, IInv, ServerTypes
<1>10. ASSUME faults = 0, c \notin late, caller[c] = "open"
       PROVE  c \in clients' /\ InService(c)' /\ ~Below(c)'
  <2>1. Below(c)
    BY <1>1 DEF Below, Results
  <2>2. Awaited(c) /\ c \in clients
    BY <1>2, <1>10, <2>1 DEF Placed, Calm
  <2>3. serving[Master] = c
    BY <1>1, <2>2 DEF Awaited
  <2>4. InService(c)'
    BY <1>2, <2>3, NodeFacts DEF InService, Serves
  <2>5. \A w \in Workers : serving'[w] # c
    <3>1. \A w \in Workers : ~Serves(w, c)
      BY <1>2, <1>10, NodeFacts DEF Placed, Single, Alone, InService
    <3>. QED  BY <3>1, WorkersServe
  <2>6. ~Below(c)'
    BY <1>5, <1>10, <2>5, NodeFacts DEF Below, OnWire, InQueue
  <2>. QED  BY <2>2, <2>4, <2>6
<1>. QED  BY <1>3, <1>4, <1>6, <1>7, <1>8, <1>9, <1>10, PlacedFrom

LEMMA ProcessDapiResPlaces ==
  ASSUME IInv, Placed, NEW m \in wire, ProcessDapiRes(m)
  PROVE  Placed'
<1>1. /\ m.kind \in Results /\ m.up /\ wire' = wire \ {m}
      /\ UNCHANGED <<route, connected, queue, serving, phase, result, stale, late, executed, faults>>
  BY DEF ProcessDapiRes, Receive, server
<1>2. m.call \in Calls /\ Below(m.call)
  BY <1>1 DEF IInv, WireTypes, Below, Results
<1>3. ASSUME faults = 0, caller[m.call] = "open", m.call \notin late
      PROVE  Awaited(m.call) /\ m.call \in clients
  BY <1>2, <1>3 DEF Placed, Calm
<1>4. CASE pending[m.call] = "none"
  <2>1. UNCHANGED pending /\ TellClient(m, Master)
    BY <1>4 DEF ProcessDapiRes
  <2>2. ASSUME faults = 0, caller[m.call] = "open", m.call \notin late
        PROVE  caller'[m.call] # "open"
    <3>1. route[m.call].from = Master
      BY <1>3, <1>4, <2>2 DEF Awaited
    <3>2. m.kind \in {"result", "error"}
      BY <1>1, <2>2 DEF Placed, Calm, Results
    <3>. QED  BY <1>3, <2>1, <2>2, <3>1, <3>2, TellClientReaches
  <2>. QED  BY <1>1, <2>1, <2>2, ReplyPlaces
<1>5. CASE pending[m.call] # "none" /\ m.kind = "no string"
  <2>1. UNCHANGED <<pending, caller, clients>>
    BY <1>5 DEF ProcessDapiRes
  <2>2. faults # 0
    BY <1>5 DEF Placed, Calm
  <2>. QED  BY <1>1, <2>1, <2>2, ReplyPlaces
<1>6. CASE pending[m.call] # "none" /\ m.kind # "no string"
  <2>1. UNCHANGED <<caller, clients>> /\ pending' = [pending EXCEPT ![m.call] = "set"]
    BY <1>6 DEF ProcessDapiRes
  <2>. QED  BY <1>1, <1>6, <2>1, AnswerPlaces
<1>. QED  BY <1>4, <1>5, <1>6

LEMMA ReceiveRequestPlaces ==
  ASSUME IInv, Placed, NEW m \in wire, ReceiveRequest(m)
  PROVE  Placed'
<1>1. PICK c : c = m.call
  OBVIOUS
<1>2. PICK n : n = IF m.up THEN Master ELSE m.worker
  OBVIOUS
<1>3. /\ m.kind = "dapi" /\ wire' = wire \ {m} /\ queue' = [queue EXCEPT ![n] = Append(@, c)]
      /\ UNCHANGED <<route, caller, clients, connected, serving, phase, result, stale, pending, late, executed, faults>>
  BY <1>1, <1>2 DEF ReceiveRequest, Receive, local
<1>4. n \in Nodes /\ c \in Calls /\ OnWire(c) /\ (n \in Workers => ~m.up)
  BY <1>1, <1>2, NodeFacts DEF IInv, WireTypes, OnWire
<1>5. /\ queue[n] \in Seq(Calls) /\ queue'[n] = Append(queue[n], c)
      /\ \A k \in Nodes \ {n} : queue'[k] = queue[k]
  BY <1>3, <1>4 DEF IInv, ServerTypes
<1>6. PICK l \in Nat : l = Len(queue[n]) + 1
  BY <1>5
<1>7. /\ l \in DOMAIN queue'[n] /\ queue'[n][l] = c
      /\ \A i \in DOMAIN queue'[n] : i = l \/ (i \in DOMAIN queue[n] /\ queue'[n][i] = queue[n][i])
      /\ \A i \in DOMAIN queue[n] : i \in DOMAIN queue'[n] /\ queue'[n][i] = queue[n][i]
      /\ \A i \in DOMAIN queue'[n] : i \in Nat
  BY <1>5, <1>6
<1>8. /\ \A k \in Nodes : \A i \in DOMAIN queue'[k] :
            \/ k = n /\ i = l
            \/ i \in DOMAIN queue[k] /\ queue'[k][i] = queue[k][i]
      /\ \A k \in Nodes : \A i \in DOMAIN queue[k] : i \in DOMAIN queue'[k] /\ queue'[k][i] = queue[k][i]
      /\ \A k \in Nodes : \A i \in DOMAIN queue[k] : i \in Nat
  <2>1. \A k \in Nodes : \A i \in DOMAIN queue[k] : i \in Nat
    BY DEF IInv, ServerTypes
  <2>. QED  BY <1>5, <1>7, <2>1
<1>9. \A d \in Calls, k \in Nodes : Serves(k, d)' <=> Serves(k, d)
  BY <1>3 DEF Serves
<1>10. ASSUME NEW d \in Calls \ {c} PROVE Untouched(d) /\ Stays(d)
  <2>. DEFINE s == [k \in Nodes |-> 0]
  <2>1. s \in [Nodes -> Nat] /\ \A k \in Nodes : s[k] = 0
    OBVIOUS
  <2>. HIDE DEF s
  <2>2. \A k \in Nodes : \A i \in DOMAIN queue'[k] : queue'[k][i] = d =>
           i \in Nat /\ i + 0 = i /\ i \in DOMAIN queue[k] /\ queue[k][i] = d
    BY <1>7, <1>8
  <2>3. QueueKept(d, s)
    BY <2>1, <2>2 DEF QueueKept
  <2>4. Untouched(d)
    BY <1>3, <1>9, <2>1, <2>3 DEF Untouched
  <2>5. InQueue(d) => InQueue(d)'
    BY <1>8 DEF InQueue
  <2>6. Stays(d)
    BY <1>1, <1>3, <1>9, <2>5 DEF Stays, OnWire, InService, Awaited
  <2>. QED  BY <2>4, <2>6
<1>11. caller'[c] \notin {"new", "refused"}
  BY <1>3, <1>4, Present DEF Placed
<1>12. c \notin late => /\ ~OnWire(c)' /\ ~InQueue(c)
                        /\ \A k \in Nodes : ~Serves(k, c)
  <2>. SUFFICES ASSUME c \notin late
                PROVE  ~OnWire(c)' /\ ~InQueue(c) /\ \A k \in Nodes : ~Serves(k, c)
    OBVIOUS
  <2>1. Alone(c)
    BY <1>4 DEF Placed, Single
  <2>. QED  BY <1>1, <1>3, <1>4, <2>1 DEF Alone, OneMessage, OnWire, InService
<1>13. c \notin late' => Alone(c)'
  <2>. SUFFICES ASSUME c \notin late PROVE Alone(c)'
    BY <1>3
  <2>1. \A k \in Nodes : \A j \in DOMAIN queue'[k] : queue'[k][j] = c => k = n /\ j = l
    BY <1>8, <1>12 DEF InQueue
  <2>2. ~InService(c)'
    BY <1>4, <1>9, <1>12 DEF InService
  <2>. QED  BY <1>12, <2>1, <2>2, AloneEntry
<1>14. Addressed' /\ Unpended'
  BY <1>3 DEF Placed, Addressed, Unpended
<1>15. faults = 0 => stale' = FALSE /\ \A k \in wire' : k.kind \in {"dapi", "result", "error"}
  BY <1>3 DEF Placed, Calm, IInv, ServerTypes
<1>16. ASSUME faults = 0, c \notin late, caller[c] = "open"
       PROVE  c \in clients' /\ InQueue(c)' /\ (Below(c)' => Awaited(c)')
  <2>1. c \in clients /\ (Below(c) => Awaited(c))
    BY <1>4, <1>16 DEF Placed, Calm
  <2>2. InQueue(c)'
    BY <1>4, <1>7 DEF InQueue
  <2>3. ASSUME Below(c)' PROVE Below(c)
    <3>1. CASE \E k \in wire' : k.call = c /\ (k.up <=> k.kind # "dapi")
      BY <1>3, <3>1 DEF Below
    <3>2. CASE \E w \in Workers : \E i \in DOMAIN queue'[w] : queue'[w][i] = c
      <4>1. PICK w \in Workers : \E i \in DOMAIN queue'[w] : queue'[w][i] = c
        BY <3>2
      <4>2. w = n
        BY <1>8, <1>12, <1>16, <4>1, NodeFacts DEF InQueue
      <4>. QED  BY <1>1, <1>3, <1>4, <4>1, <4>2 DEF Below
    <3>3. CASE \E w \in Workers : serving'[w] = c
      BY <1>3, <3>3 DEF Below
    <3>. QED  BY <2>3, <3>1, <3>2, <3>3 DEF Below
  <2>4. Awaited(c) => Awaited(c)'
    BY <1>3 DEF Awaited
  <2>. QED  BY <1>3, <2>1, <2>2, <2>3, <2>4
<1>. QED  BY <1>3, <1>10, <1>11, <1>13, <1>14, <1>15, <1>16, PlacedFrom

-----------------------------------------------------------------------------
(* APIRequestQueue.                                                        *)

(* What is left of a queue when its first entry is taken.                  *)
LEMMA TailEntries ==
  ASSUME NEW q \in Seq(Calls), q # <<>>
  PROVE  /\ \A i \in DOMAIN Tail(q) : i + 1 \in DOMAIN q /\ i + 1 # 1 /\ i \in Nat /\ Tail(q)[i] = q[i + 1]
         /\ \A i \in DOMAIN q : i # 1 => \E j \in DOMAIN Tail(q) : Tail(q)[j] = q[i]
<1>1. PICK t : t = Tail(q)
  OBVIOUS
<1>2. /\ Len(q) \in Nat /\ Len(q) > 0 /\ DOMAIN q = 1 .. Len(q)
      /\ Len(t) = Len(q) - 1 /\ DOMAIN t = 1 .. Len(q) - 1
      /\ \A i \in DOMAIN t : t[i] = q[i + 1]
  BY <1>1
<1>3. \A i \in DOMAIN t : i + 1 \in DOMAIN q /\ i + 1 # 1 /\ i \in Nat /\ t[i] = q[i + 1]
  BY <1>2
<1>4. ASSUME NEW i \in DOMAIN q, i # 1 PROVE \E j \in DOMAIN t : t[j] = q[i]
  <2>1. PICK j : j = i - 1
    OBVIOUS
  <2>2. j \in DOMAIN t /\ j + 1 = i
    BY <1>2, <1>4, <2>1
  <2>3. t[j] = q[i]
    BY <1>2, <2>2
  <2>. QED  BY <2>2, <2>3
<1>. QED  BY <1>1, <1>3, <1>4

LEMMA TakePlaces ==
  ASSUME IInv, Placed, NEW n \in Nodes, Take(n)
  PROVE  Placed'
<1>1. PICK c : c = Head(queue[n])
  OBVIOUS
<1>2. /\ serving[n] = None /\ queue[n] # <<>> /\ queue' = [queue EXCEPT ![n] = Tail(@)]
      /\ UNCHANGED <<route, caller, clients, connected, wire, result, stale, pending, late, executed, faults>>
  BY DEF Take, local
<1>3. queue[n] \in Seq(Calls)
  BY DEF IInv, ServerTypes
<1>4. 1 \in DOMAIN queue[n] /\ c = queue[n][1] /\ c \in Calls /\ InQueue(c)
  BY <1>1, <1>2, <1>3 DEF InQueue
<1>5. /\ queue'[n] = Tail(queue[n])
      /\ \A k \in Nodes \ {n} : queue'[k] = queue[k]
  BY <1>2 DEF IInv, ServerTypes
<1>6. /\ \A i \in DOMAIN queue'[n] : /\ i + 1 \in DOMAIN queue[n] /\ i + 1 # 1 /\ i \in Nat
                                     /\ queue'[n][i] = queue[n][i + 1]
      /\ \A i \in DOMAIN queue[n] : i # 1 => \E j \in DOMAIN queue'[n] : queue'[n][j] = queue[n][i]
  <2>1. /\ \A i \in DOMAIN Tail(queue[n]) : /\ i + 1 \in DOMAIN queue[n] /\ i + 1 # 1 /\ i \in Nat
                                           /\ Tail(queue[n])[i] = queue[n][i + 1]
        /\ \A i \in DOMAIN queue[n] : i # 1 =>
              \E j \in DOMAIN Tail(queue[n]) : Tail(queue[n])[j] = queue[n][i]
    BY <1>2, <1>3, TailEntries
  <2>. QED  BY <1>5, <2>1, Zenon
<1>7. \/ n = Master /\ route[c].from \notin connected /\ UNCHANGED <<serving, phase>>
      \/ serving' = [serving EXCEPT ![n] = c] /\ phase' = [phase EXCEPT ![n] = "distribute"]
  BY <1>1 DEF Take
<1>8. /\ \A k \in Nodes \ {n} : serving'[k] = serving[k] /\ phase'[k] = phase[k]
      /\ \/ n = Master /\ route[c].from \notin connected /\ serving'[n] = None
         \/ serving'[n] = c /\ phase'[n] = "distribute"
  BY <1>2, <1>7 DEF IInv, ServerTypes
<1>9. c # None /\ \A d \in Calls : d # None
  BY <1>4, NodeFacts
<1>10. ASSUME NEW d \in Calls \ {c} PROVE Untouched(d) /\ Stays(d)
  <2>. DEFINE s == [k \in Nodes |-> IF k = n THEN 1 ELSE 0]
  <2>1. s \in [Nodes -> Nat] /\ \A k \in Nodes : s[k] = IF k = n THEN 1 ELSE 0
    OBVIOUS
  <2>. HIDE DEF s
  <2>2. QueueKept(d, s)
    <3>1. \A k \in Nodes \ {n} : \A i \in DOMAIN queue[k] : i \in Nat /\ i + 0 = i
      BY DEF IInv, ServerTypes
    <3>2. ASSUME NEW k \in Nodes, NEW i \in DOMAIN queue'[k], queue'[k][i] = d
          PROVE  i \in Nat /\ i + s[k] \in DOMAIN queue[k] /\ queue[k][i + s[k]] = d
      <4>1. CASE k = n
        BY <1>6, <2>1, <3>2, <4>1
      <4>2. CASE k # n
        BY <1>5, <2>1, <3>1, <3>2, <4>2
      <4>. QED  BY <4>1, <4>2
    <3>. QED  BY <3>2 DEF QueueKept
  <2>3. \A k \in Nodes : Serves(k, d)' <=> Serves(k, d)
    BY <1>2, <1>8, <1>9 DEF Serves
  <2>4. \A k \in Nodes : serving'[k] = d => serving[k] = d
    BY <1>8, <1>9
  <2>5. Untouched(d)
    BY <1>2, <2>1, <2>2, <2>3, <2>4 DEF Untouched
  <2>6. InQueue(d) => InQueue(d)'
    <3>1. ASSUME NEW k \in Nodes, NEW i \in DOMAIN queue[k], queue[k][i] = d
          PROVE  \E j \in DOMAIN queue'[k] : queue'[k][j] = d
      <4>1. CASE k = n
        BY <1>4, <1>6, <3>1, <4>1
      <4>2. CASE k # n
        BY <1>5, <3>1, <4>2
      <4>. QED  BY <4>1, <4>2
    <3>. QED  BY <3>1 DEF InQueue
  <2>7. Awaited(d) => Awaited(d)'
    BY <1>2, <1>8, <1>9, NodeFacts DEF Awaited
  <2>8. Stays(d)
    BY <1>2, <2>3, <2>6, <2>7 DEF Stays, OnWire, InService
  <2>. QED  BY <2>5, <2>8
<1>11. caller'[c] \notin {"new", "refused"}
  BY <1>2, <1>4, Present DEF Placed
<1>12. c \notin late => /\ ~OnWire(c)' /\ ~InQueue(c)'
                        /\ \A k \in Nodes : Serves(k, c)' => k = n
  <2>. SUFFICES ASSUME c \notin late
                PROVE  ~OnWire(c)' /\ ~InQueue(c)' /\ \A k \in Nodes : Serves(k, c)' => k = n
    OBVIOUS
  <2>1. Alone(c)
    BY <1>4 DEF Placed, Single
  <2>2. ~OnWire(c)'
    BY <1>2, <1>4, <2>1 DEF Alone, OnWire
  <2>3. \A k \in Nodes : Serves(k, c)' => k = n
    BY <1>2, <1>4, <1>8, <2>1 DEF Alone, InService, Serves
  <2>4. \A k \in Nodes : \A i \in DOMAIN queue[k] : queue[k][i] = c => k = n /\ i = 1
    BY <1>4, <2>1 DEF Alone, OneEntry
  <2>5. ASSUME NEW k \in Nodes, NEW i \in DOMAIN queue'[k] PROVE queue'[k][i] # c
    <3>1. CASE k = n
      BY <1>6, <2>4, <3>1
    <3>2. CASE k # n
      BY <1>5, <2>4, <3>2
    <3>. QED  BY <3>1, <3>2
  <2>. QED  BY <2>2, <2>3, <2>5 DEF InQueue
<1>13. c \notin late' => Alone(c)'
  BY <1>2, <1>12, AloneServer
<1>14. Addressed' /\ Unpended'
  BY <1>2 DEF Placed, Addressed, Unpended
<1>15. faults = 0 => stale' = FALSE /\ \A k \in wire' : k.kind \in {"dapi", "result", "error"}
  BY <1>2 DEF Placed, Calm, IInv, ServerTypes
<1>16. ASSUME faults = 0, c \notin late, caller[c] = "open"
       PROVE  c \in clients' /\ InService(c)' /\ (Below(c)' => Awaited(c)')
  <2>1. c \in clients /\ (Below(c) => Awaited(c))
    BY <1>4, <1>16 DEF Placed, Calm
  <2>2. serving'[n] = c /\ phase'[n] = "distribute"
    <3>1. n = Master => route[c].from \in connected
      <4>1. n = Master => route[c].from # Master /\ route[c].from \in Nodes
        BY <1>4, RouteTypes DEF IInv, Routed, Belongs
      <4>. QED  BY <1>16, <4>1, NodeFacts DEF Placed, Calm
    <3>. QED  BY <1>8, <3>1
  <2>3. InService(c)'
    BY <2>2 DEF InService, Serves
  <2>4. ASSUME Below(c)' PROVE Below(c) /\ n # Master
    <3>1. \E w \in Workers : serving'[w] = c
      BY <1>12, <1>16, <2>4, NodeFacts DEF Below, OnWire, InQueue
    <3>2. PICK w \in Workers : serving'[w] = c
      BY <3>1
    <3>3. w = n
      <4>1. CASE w # n
        <5>1. serving[w] = c
          BY <1>8, <3>2, <4>1, NodeFacts
        <5>2. Serves(w, c)
          BY <5>1, WorkersServe
        <5>3. Serves(w, c)'
          BY <1>2, <1>8, <4>1, <5>2, NodeFacts DEF Serves
        <5>. QED  BY <1>12, <1>16, <5>3, NodeFacts
      <4>. QED  BY <4>1
    <3>. QED  BY <1>4, <3>3, NodeFacts DEF Below
  <2>5. n # Master /\ Awaited(c) => Awaited(c)'
    BY <1>2, <1>8, NodeFacts DEF Awaited
  <2>. QED  BY <1>2, <2>1, <2>3, <2>4, <2>5
<1>. QED  BY <1>2, <1>10, <1>11, <1>13, <1>14, <1>15, <1>16, PlacedFrom

(* Steps that leave every request where it is.                             *)
LEMMA PlacesKept ==
  ASSUME IInv, Placed,
         \A d \in Calls : \A n \in Nodes : Serves(n, d)' <=> Serves(n, d),
         \A d \in Calls : Awaited(d) => Awaited(d)',
         UNCHANGED <<route, caller, clients, connected, wire, queue, serving, stale, pending, faults>>,
         late \subseteq late'
  PROVE  Placed'
<1>1. ASSUME NEW d \in Calls PROVE Untouched(d) /\ Stays(d)
  <2>1. \E s \in [Nodes -> Nat] : QueueKept(d, s)
    BY QueuesKept
  <2>2. Untouched(d)
    BY <2>1 DEF Untouched
  <2>3. Stays(d)
    BY DEF Stays, OnWire, InQueue, InService
  <2>. QED  BY <2>2, <2>3
<1>2. Addressed' /\ Unpended'
  BY DEF Placed, Addressed, Unpended
<1>3. faults = 0 => stale' = FALSE /\ \A k \in wire' : k.kind \in {"dapi", "result", "error"}
  BY DEF Placed, Calm, IInv, ServerTypes
<1>4. None \notin Calls
  BY NodeFacts
<1>. QED  BY <1>1, <1>2, <1>3, <1>4, PlacedFrom

LEMMA ExecutePlaces ==
  ASSUME IInv, Placed, NEW n \in Nodes, Execute(n)
  PROVE  Placed'
<1>1. /\ phase[n] = "distribute" /\ phase' = [phase EXCEPT ![n] = "send"]
      /\ UNCHANGED <<route, caller, clients, connected, wire, queue, serving, stale, pending, late, faults>>
  BY DEF Execute, Returns, local
<1>2. phase'[n] = "send" /\ \A k \in Nodes \ {n} : phase'[k] = phase[k]
  BY <1>1 DEF IInv, ServerTypes
<1>3. \A d \in Calls : \A k \in Nodes : Serves(k, d)' <=> Serves(k, d)
  BY <1>1, <1>2 DEF Serves
<1>4. \A d \in Calls : Awaited(d) => Awaited(d)'
  BY <1>1, <1>2, NodeFacts DEF Awaited
<1>. QED  BY <1>1, <1>3, <1>4, PlacesKept

LEMMA PendingTypes == IInv => pending \in [Calls -> {"none", "waiting", "set"}]
<1>1. IInv => CallTypes
  BY DEF IInv
<1>2. CallTypes => pending \in [Calls -> {"none", "waiting", "set"}]
  BY Zenon DEF CallTypes
<1>. QED  BY <1>1, <1>2

(* The master forwards what it serves to a worker.                         *)
LEMMA ForwardsPlaces ==
  ASSUME IInv, Placed, NEW c \in Calls, c = serving[Master], phase[Master] = "distribute",
         pending' = [pending EXCEPT ![c] = "waiting"],
         NEW m, m = Msg("dapi", route[c].to, FALSE, c), wire' = wire \cup {m},
         phase' = [phase EXCEPT ![Master] = "await"],
         UNCHANGED <<route, caller, clients, connected, queue, serving, stale, late, faults>>
  PROVE  Placed'
<1>1. m.kind = "dapi" /\ m.call = c /\ ~m.up
  BY DEF Msg
<1>2. /\ phase'[Master] = "await" /\ pending'[c] = "waiting"
      /\ \A w \in Workers : phase'[w] = phase[w]
      /\ \A d \in Calls \ {c} : pending'[d] = pending[d]
  <2>1. phase'[Master] = "await" /\ \A w \in Workers : phase'[w] = phase[w]
    BY NodeFacts DEF IInv, ServerTypes
  <2>2. pending'[c] = "waiting" /\ \A d \in Calls \ {c} : pending'[d] = pending[d]
    BY PendingTypes
  <2>. QED  BY <2>1, <2>2
<1>3. route[c].from # Master
  BY NodeFacts DEF IInv, Routed, Belongs
<1>4. Serves(Master, c)
  BY DEF Serves
<1>5. ASSUME NEW d \in Calls, NEW k \in Nodes 
      PROVE  Serves(k, d)' <=> Serves(k, d) /\ (k # Master \/ d # c)
  <2>1. CASE k = Master
    BY <1>2, <2>1 DEF Serves
  <2>2. CASE k # Master
    <3>1. k \in Workers /\ phase'[k] # "await" /\ phase[k] # "await"
      BY <1>2, <2>2, NodeFacts DEF IInv, Phases
    <3>. QED  BY <2>2, <3>1 DEF Serves
  <2>. QED  BY <2>1, <2>2
<1>6. ASSUME NEW d \in Calls \ {c} PROVE Untouched(d) /\ Stays(d)
  <2>1. \E s \in [Nodes -> Nat] : QueueKept(d, s)
    BY QueuesKept
  <2>2. Untouched(d)
    BY <1>1, <1>5, <2>1 DEF Untouched
  <2>3. Awaited(d) => Awaited(d)'
    BY <1>2 DEF Awaited
  <2>4. Stays(d)
    BY <1>5, <2>3 DEF Stays, OnWire, InQueue, InService
  <2>. QED  BY <2>2, <2>4
<1>7. caller'[c] \notin {"new", "refused"}
  BY NodeFacts, Present DEF Placed
<1>8. ASSUME c \notin late
      PROVE  (\A k \in wire' : k.call = c => k = m) /\ ~InQueue(c)' /\ ~InService(c)'
  <2>1. Alone(c) /\ InService(c)
    BY <1>4, <1>8, NodeFacts DEF Placed, Single, InService
  <2>2. ~InService(c)'
    BY <1>4, <1>5, <2>1, NodeFacts DEF Alone, OneServer, InService
  <2>3. ~InQueue(c)'
    BY <2>1 DEF Alone, InQueue
  <2>4. \A k \in wire' : k.call = c => k = m
    BY <2>1 DEF Alone, OnWire
  <2>. QED  BY <2>2, <2>3, <2>4
<1>9. c \notin late' => Alone(c)'
  BY <1>8, AloneMessage
<1>10. Addressed'
  BY <1>1 DEF Placed, Addressed
<1>11. Unpended'
  BY <1>2, <1>3 DEF Placed, Unpended
<1>12. faults = 0 => stale' = FALSE /\ \A k \in wire' : k.kind \in {"dapi", "result", "error"}
  BY <1>1 DEF Placed, Calm, IInv, ServerTypes
<1>13. faults = 0 /\ c \notin late /\ caller[c] = "open" => c \in clients'
  BY DEF Placed, Calm
<1>14. OnWire(c)' /\ Awaited(c)'
  BY <1>1, <1>2, <1>3 DEF OnWire, Awaited
<1>. QED  BY <1>6, <1>7, <1>9, <1>10, <1>11, <1>12, <1>13, <1>14, PlacedFrom

(* The worker it is for is not connected.                                  *)
LEMMA ForwardFailsPlaces ==
  ASSUME IInv, Placed, NEW c \in Calls, c = serving[Master], phase[Master] = "distribute",
         route[c].to \in Workers \ connected,
         pending' = [pending EXCEPT ![c] = "waiting"],
         phase' = [phase EXCEPT ![Master] = "send"],
         UNCHANGED <<route, caller, clients, connected, wire, queue, serving, stale, late, faults>>
  PROVE  Placed'
<1>1. /\ phase'[Master] = "send" /\ pending'[c] = "waiting"
      /\ \A w \in Workers : phase'[w] = phase[w]
      /\ \A d \in Calls \ {c} : pending'[d] = pending[d]
  <2>1. phase'[Master] = "send" /\ \A w \in Workers : phase'[w] = phase[w]
    BY NodeFacts DEF IInv, ServerTypes
  <2>2. pending'[c] = "waiting" /\ \A d \in Calls \ {c} : pending'[d] = pending[d]
    BY PendingTypes
  <2>. QED  BY <2>1, <2>2
<1>2. route[c].from # Master
  BY NodeFacts DEF IInv, Routed, Belongs
<1>3. ASSUME NEW d \in Calls, NEW k \in Nodes PROVE Serves(k, d)' <=> Serves(k, d)
  <2>1. CASE k = Master
    BY <1>1, <2>1 DEF Serves
  <2>2. CASE k # Master
    <3>1. k \in Workers /\ phase'[k] # "await" /\ phase[k] # "await"
      BY <1>1, <2>2, NodeFacts DEF IInv, Phases
    <3>. QED  BY <3>1 DEF Serves
  <2>. QED  BY <2>1, <2>2
<1>4. ASSUME NEW d \in Calls PROVE Untouched(d)
  <2>1. \E s \in [Nodes -> Nat] : QueueKept(d, s)
    BY QueuesKept
  <2>. QED  BY <1>3, <2>1 DEF Untouched
<1>5. caller'[c] \notin {"new", "refused"}
  BY NodeFacts, Present DEF Placed
<1>6. c \notin late' => Alone(c)'
  BY <1>4, UntouchedAlone DEF Placed, Single
<1>7. Addressed' /\ Unpended'
  BY <1>1, <1>2 DEF Placed, Addressed, Unpended
<1>8. faults # 0
  BY DEF Placed, Calm
<1>. QED  BY <1>4, <1>5, <1>6, <1>7, <1>8, PlacedFrom

LEMMA ForwardPlaces ==
  ASSUME IInv, Placed, Forward
  PROVE  Placed'
<1>1. PICK c : c = serving[Master]
  OBVIOUS
<1>2. PICK m : m = Msg("dapi", route[c].to, FALSE, c)
  OBVIOUS
<1>3. /\ phase[Master] = "distribute" /\ route[c].to # Master
      /\ pending' = [pending EXCEPT ![c] = "waiting"]
      /\ UNCHANGED <<route, caller, clients, connected, queue, serving, stale, late, faults>>
  BY <1>1 DEF Forward, local
<1>4. c \in Calls /\ route[c].to \in Workers
  BY <1>1, <1>3, MasterServes, RouteTypes, NodeFacts DEF IInv
<1>5. CASE route[c].to \in connected
  <2>1. wire' = wire \cup {m} /\ phase' = [phase EXCEPT ![Master] = "await"]
    BY <1>1, <1>2, <1>5 DEF Forward, Forwards
  <2>. QED  BY <1>1, <1>2, <1>3, <1>4, <2>1, ForwardsPlaces
<1>6. CASE route[c].to \notin connected
  <2>1. wire' = wire /\ phase' = [phase EXCEPT ![Master] = "send"]
    BY <1>1, <1>6 DEF Forward, Returns
  <2>. QED  BY <1>1, <1>3, <1>4, <1>6, <2>1, ForwardFailsPlaces
<1>. QED  BY <1>5, <1>6

LEMMA AnsweredPlaces ==
  ASSUME IInv, Placed, Answered
  PROVE  Placed'
<1>1. PICK c : c = serving[Master]
  OBVIOUS
<1>2. /\ phase[Master] = "await" /\ pending[c] = "set" /\ phase' = [phase EXCEPT ![Master] = "send"]
      /\ UNCHANGED <<route, caller, clients, connected, wire, queue, serving, stale, pending, late, faults>>
  BY <1>1 DEF Answered, Returns, local
<1>3. phase'[Master] = "send" /\ \A k \in Nodes \ {Master} : phase'[k] = phase[k]
  BY <1>2, NodeFacts DEF IInv, ServerTypes
<1>4. \A d \in Calls : \A k \in Nodes : Serves(k, d)' <=> Serves(k, d)
  BY <1>1, <1>2, <1>3 DEF Serves
<1>5. \A d \in Calls : Awaited(d) => Awaited(d)'
  BY <1>1, <1>2, <1>3 DEF Awaited
<1>. QED  BY <1>2, <1>4, <1>5, PlacesKept

(* The request that the master gives up is one that may be doubled.        *)
LEMMA ForwardTimeoutPlaces ==
  ASSUME IInv, Placed, ForwardTimeout
  PROVE  Placed'
<1>1. PICK c : c = serving[Master]
  OBVIOUS
<1>2. /\ phase[Master] = "await" /\ phase' = [phase EXCEPT ![Master] = "send"]
      /\ late' = late \cup {c}
      /\ UNCHANGED <<route, caller, clients, connected, wire, queue, serving, stale, pending, faults>>
  BY <1>1 DEF ForwardTimeout, Returns, local
<1>3. phase'[Master] = "send" /\ \A k \in Nodes \ {Master} : phase'[k] = phase[k]
  BY <1>2, NodeFacts DEF IInv, ServerTypes
<1>4. c \in Calls
  BY <1>1, <1>2, MasterServes
<1>5. ASSUME NEW d \in Calls \ {c} PROVE Untouched(d) /\ Stays(d)
  <2>1. \E s \in [Nodes -> Nat] : QueueKept(d, s)
    BY <1>2, QueuesKept
  <2>2. \A k \in Nodes : Serves(k, d)' <=> Serves(k, d)
    BY <1>1, <1>2, <1>3 DEF Serves
  <2>3. Untouched(d)
    BY <1>2, <2>1, <2>2 DEF Untouched
  <2>4. Awaited(d) => Awaited(d)'
    BY <1>1, <1>2 DEF Awaited
  <2>5. Stays(d)
    BY <1>2, <2>2, <2>4 DEF Stays, OnWire, InQueue, InService
  <2>. QED  BY <2>3, <2>5
<1>6. caller'[c] \notin {"new", "refused"}
  BY <1>1, <1>2, <1>4, NodeFacts, Present DEF Placed
<1>7. Addressed' /\ Unpended'
  BY <1>2 DEF Placed, Addressed, Unpended
<1>8. faults = 0 => stale' = FALSE /\ \A k \in wire' : k.kind \in {"dapi", "result", "error"}
  BY <1>2 DEF Placed, Calm, IInv, ServerTypes
<1>9. c \in late'
  BY <1>2
<1>. QED  BY <1>2, <1>5, <1>6, <1>7, <1>8, <1>9, PlacedFrom

LEMMA AnswerKinds ==
    /\ \A kind \in Results \cup {"dapi_err"} : kind # "dapi"
    /\ \A r \in {"result", "error"} : r \in Results
BY Zenon DEF Results

(* A node is done with its request: the duty goes with the message.        *)
LEMMA DonePlaces ==
  ASSUME IInv, Placed, NEW n \in Nodes, phase[n] \in {"distribute", "send"},
         NEW kind \in Results \cup {"dapi_err"}, SendBack(n, kind), Done(n),
         UNCHANGED <<route, caller, clients, connected, queue, pending, late>>,
         faults' = 0 => faults = 0 /\ kind \in {"result", "error"}
  PROVE  Placed'
<1>1. PICK c : c = serving[n]
  OBVIOUS
<1>2. PICK m : m = Msg(kind, IF n = Master THEN route[c].from ELSE n, n # Master, c)
  OBVIOUS
<1>3. /\ m.kind = kind /\ m.call = c /\ (m.up <=> n # Master)
      /\ n = Master => m.worker = route[c].from
      /\ kind # "dapi"
  <2>1. kind # "dapi"
    BY AnswerKinds
  <2>2. m.kind = kind /\ m.call = c /\ (n = Master => m.worker = route[c].from)
    BY <1>2 DEF Msg
  <2>3. m.up = (n # Master)
    BY <1>2 DEF Msg
  <2>. QED  BY <2>1, <2>2, <2>3
<1>4. wire' = wire \cup {m} \/ (wire' = wire /\ stale)
  BY <1>1, <1>2 DEF SendBack
<1>5. c \in Calls /\ c # None
  BY <1>1, NodeFacts DEF IInv, ServerTypes, Phases
<1>6. /\ serving'[n] = None
      /\ \A k \in Nodes \ {n} : serving'[k] = serving[k] /\ phase'[k] = phase[k]
      /\ stale' = (stale /\ n # Master)
  BY DEF Done, IInv, ServerTypes
<1>7. Serves(n, c)
  BY <1>1 DEF Serves
<1>8. \A d \in Calls : \A k \in Nodes : Serves(k, d)' <=> Serves(k, d) /\ k # n
  <2>1. \A d \in Calls : ~Serves(n, d)'
    BY <1>6, NodeFacts DEF Serves
  <2>2. \A d \in Calls : \A k \in Nodes : k # n => (Serves(k, d)' <=> Serves(k, d))
    BY <1>6 DEF Serves
  <2>. QED  BY <2>1, <2>2
<1>9. ASSUME NEW d \in Calls \ {c} PROVE Untouched(d) /\ Stays(d)
  <2>1. \E s \in [Nodes -> Nat] : QueueKept(d, s)
    BY QueuesKept
  <2>2. /\ \A k \in Nodes : Serves(k, d)' <=> Serves(k, d)
        /\ \A k \in Nodes : serving'[k] = d => serving[k] = d
        /\ \A k \in Nodes : serving[k] = d => k # n
    BY <1>1, <1>6, <1>8, NodeFacts DEF Serves
  <2>3. \A k \in wire' : k.call = d => k \in wire
    BY <1>3, <1>4
  <2>4. Untouched(d)
    BY <2>1, <2>2, <2>3 DEF Untouched
  <2>5. Awaited(d) => Awaited(d)'
    BY <1>6, <2>2, NodeFacts DEF Awaited
  <2>6. Stays(d)
    BY <1>4, <2>2, <2>5 DEF Stays, OnWire, InQueue, InService
  <2>. QED  BY <2>4, <2>6
<1>10. caller'[c] \notin {"new", "refused"}
  BY <1>1, <1>5, Present DEF Placed
<1>11. ASSUME c \notin late
       PROVE  (\A k \in wire' : k.call = c => k = m) /\ ~InQueue(c)' /\ \A k \in Nodes : ~Serves(k, c)'
  <2>1. Alone(c) /\ InService(c)
    BY <1>5, <1>7, <1>11 DEF Placed, Single, InService
  <2>2. \A k \in Nodes : ~Serves(k, c)'
    BY <1>5, <1>7, <1>8, <2>1 DEF Alone, OneServer
  <2>3. ~InQueue(c)'
    BY <2>1 DEF Alone, InQueue
  <2>4. \A k \in wire' : k.call = c => k = m
    BY <1>4, <2>1 DEF Alone, OnWire
  <2>. QED  BY <2>2, <2>3, <2>4
<1>12. c \notin late' => Alone(c)'
  BY <1>11, AloneMessage DEF InService
<1>13. Addressed'
  BY <1>3, <1>4 DEF Placed, Addressed
<1>14. Unpended'
  BY DEF Placed, Unpended
<1>15. faults = 0 /\ faults' = 0 =>
         /\ stale' = FALSE /\ wire' = wire \cup {m}
         /\ \A k \in wire' : k.kind \in {"dapi", "result", "error"}
  BY <1>3, <1>4, <1>6 DEF Placed, Calm
<1>16. ASSUME faults = 0, faults' = 0, c \notin late, caller[c] = "open"
       PROVE  c \in clients' /\ OnWire(c)' /\ (Below(c)' => Awaited(c)')
  <2>1. c \in clients /\ (Below(c) => Awaited(c))
    BY <1>5, <1>16 DEF Placed, Calm
  <2>2. OnWire(c)'
    BY <1>3, <1>15, <1>16 DEF OnWire
  <2>3. ASSUME Below(c)' PROVE Awaited(c)'
    <3>1. ASSUME NEW w \in Workers PROVE serving'[w] # c
      <4>1. CASE w = n
        BY <1>5, <1>6, <4>1
      <4>2. CASE w # n
        <5>1. ~Serves(w, c)'
          BY <1>11, <1>16, NodeFacts
        <5>2. phase'[w] # "await" /\ w \in Nodes
          BY <1>6, <4>2, NodeFacts DEF IInv, Phases
        <5>. QED  BY <5>1, <5>2 DEF Serves
      <4>. QED  BY <4>1, <4>2
    <3>2. \E k \in wire' : k.call = c /\ (k.up <=> k.kind # "dapi")
      BY <1>11, <1>16, <2>3, <3>1, NodeFacts DEF Below, InQueue
    <3>3. n # Master
      BY <1>3, <1>11, <1>16, <3>2
    <3>4. Below(c)
      BY <1>1, <3>3, NodeFacts DEF Below
    <3>. QED  BY <1>6, <2>1, <3>3, <3>4, NodeFacts DEF Awaited
  <2>. QED  BY <2>1, <2>2, <2>3
<1>. QED  BY <1>9, <1>10, <1>12, <1>13, <1>14, <1>15, <1>16, PlacedFrom

(* After a fault nothing is calm any more.                                 *)
LEMMA FaultsCount ==
  ASSUME IInv, Fault
  PROVE  faults' # 0
<1>1. faults \in Nat
  <2>1. CallTypes => faults \in 0 .. MaxFaults
    BY Zenon DEF CallTypes
  <2>. QED  BY <2>1 DEF IInv
<1>. QED  BY <1>1 DEF Fault

LEMMA SendPlaces ==
  ASSUME IInv, Placed, NEW n \in Nodes, SendResult(n) \/ SendNoString(n) \/ SendError(n)
  PROVE  Placed'
<1>1. CASE SendResult(n)
  <2>1. /\ phase[n] = "send" /\ SendBack(n, result[n]) /\ Done(n)
        /\ UNCHANGED <<route, caller, clients, connected, queue, pending, late, faults>>
    BY <1>1 DEF SendResult, local
  <2>2. result[n] \in {"result", "error"} /\ result[n] \in Results
    <3>1. result[n] \in {"result", "error"}
      BY DEF IInv, ServerTypes
    <3>. QED  BY <3>1, AnswerKinds
  <2>. QED  BY <2>1, <2>2, DonePlaces
<1>2. CASE SendNoString(n)
  <2>. DEFINE kind == "no string"
  <2>1. /\ phase[n] = "send" /\ SendBack(n, kind) /\ Done(n)
        /\ UNCHANGED <<route, caller, clients, connected, queue, pending, late>>
    BY <1>2, Zenon DEF SendNoString, local
  <2>2. faults' # 0 /\ kind \in Results
    BY <1>2, FaultsCount, Zenon DEF SendNoString, Results
  <2>. HIDE DEF kind
  <2>. QED  BY <2>1, <2>2, DonePlaces
<1>3. CASE SendError(n)
  <2>1. /\ phase[n] \in {"distribute", "send"} /\ SendBack(n, "dapi_err") /\ Done(n)
        /\ UNCHANGED <<route, caller, clients, connected, queue, pending, late>>
    BY <1>3 DEF SendError, local
  <2>2. faults' # 0
    BY <1>3, FaultsCount DEF SendError
  <2>. QED  BY <2>1, <2>2, DonePlaces
<1>. QED  BY <1>1, <1>2, <1>3

-----------------------------------------------------------------------------
LEMMA LoseConnectionPlaces ==
  ASSUME IInv, Placed, NEW w \in Workers, LoseConnection(w)
  PROVE  Placed'
<1>1. /\ wire' = {m \in wire : m.worker # w}
      /\ queue' = [queue EXCEPT ![w] = <<>>] /\ serving' = [serving EXCEPT ![w] = None]
      /\ phase' = [phase EXCEPT ![w] = "idle"]
      /\ UNCHANGED <<route, caller, pending, late>>
  BY DEF LoseConnection
<1>2. faults' # 0
  BY FaultsCount DEF LoseConnection
<1>3. /\ serving'[w] = None /\ queue'[w] = <<>>
      /\ \A k \in Nodes \ {w} : serving'[k] = serving[k] /\ phase'[k] = phase[k] /\ queue'[k] = queue[k]
  BY <1>1, NodeFacts DEF IInv, ServerTypes
<1>4. ASSUME NEW d \in Calls PROVE Untouched(d)
  <2>1. \E s \in [Nodes -> Nat] : QueueKept(d, s)
    BY <1>3, QueuesKept
  <2>2. \A k \in Nodes : serving'[k] = d => serving[k] = d
    BY <1>3, NodeFacts
  <2>3. \A k \in Nodes : Serves(k, d)' => Serves(k, d)
    BY <1>1, <1>3, NodeFacts DEF Serves
  <2>. QED  BY <1>1, <2>1, <2>2, <2>3 DEF Untouched
<1>5. Addressed' /\ Unpended'
  BY <1>1 DEF Placed, Addressed, Unpended
<1>. QED  BY <1>1, <1>2, <1>4, <1>5, NodeFacts, PlacedFrom

LEMMA RestartPlaces ==
  ASSUME IInv, Placed, Restart
  PROVE  Placed'
<1>1. /\ wire' = {} /\ queue' = [k \in Nodes |-> <<>>] /\ serving' = [k \in Nodes |-> None]
      /\ pending' = [d \in Calls |-> "none"]
      /\ UNCHANGED <<route, caller, late>>
  BY DEF Restart
<1>2. faults' # 0
  BY FaultsCount DEF Restart
<1>3. \A k \in Nodes : serving'[k] = None /\ queue'[k] = <<>>
  BY <1>1
<1>4. ASSUME NEW d \in Calls PROVE Untouched(d)
  <2>1. \E s \in [Nodes -> Nat] : QueueKept(d, s)
    BY <1>3, QueuesKept
  <2>2. \A k \in Nodes : serving'[k] # d
    BY <1>3, NodeFacts
  <2>3. \A k \in Nodes : ~Serves(k, d)'
    BY <2>2 DEF Serves
  <2>. QED  BY <1>1, <2>1, <2>2, <2>3 DEF Untouched
<1>5. Addressed' /\ Unpended'
  BY <1>1 DEF Addressed, Unpended
<1>. QED  BY <1>1, <1>2, <1>4, <1>5, NodeFacts, PlacedFrom

LEMMA ConnectPlaces ==
  ASSUME IInv, Placed, NEW w \in Workers, Connect(w)
  PROVE  Placed'
<1>1. /\ w \notin connected
      /\ UNCHANGED <<route, caller, clients, wire, queue, serving, phase, stale, pending, late, faults>>
  BY DEF Connect, local, server
<1>2. faults # 0
  BY <1>1 DEF Placed, Calm
<1>3. ASSUME NEW d \in Calls PROVE Untouched(d)
  <2>1. \E s \in [Nodes -> Nat] : QueueKept(d, s)
    BY <1>1, QueuesKept
  <2>2. \A k \in Nodes : Serves(k, d)' <=> Serves(k, d)
    BY <1>1 DEF Serves
  <2>. QED  BY <1>1, <2>1, <2>2 DEF Untouched
<1>4. Addressed' /\ Unpended'
  BY <1>1 DEF Placed, Addressed, Unpended
<1>. QED  BY <1>1, <1>2, <1>3, <1>4, NodeFacts, PlacedFrom

-----------------------------------------------------------------------------
LEMMA InitPlaced == Init => Placed
<1>. SUFFICES ASSUME Init PROVE Placed
  OBVIOUS
<1>1. \A n \in Nodes : serving[n] = None /\ queue[n] = <<>>
  BY DEF Init
<1>2. ASSUME NEW c \in Calls PROVE Unsent(c) /\ Alone(c)
  <2>1. ~OnWire(c) /\ ~InQueue(c) /\ \A n \in Nodes : serving[n] # c
    BY <1>1, NodeFacts DEF Init, OnWire, InQueue
  <2>2. \A n \in Nodes : ~Serves(n, c)
    BY <2>1 DEF Serves
  <2>3. OneMessage(c) /\ OneEntry(c) /\ OneServer(c)
    BY <1>1, <2>2 DEF Init, OneMessage, OneEntry, OneServer
  <2>. QED  BY <2>1, <2>3 DEF Unsent, Alone
<1>3. Single
  BY <1>2 DEF Single
<1>4. Addressed /\ Unpended
  BY DEF Init, Addressed, Unpended
<1>5. Calm
  BY DEF Init, Calm
<1>. QED  BY <1>3, <1>4, <1>5 DEF Placed

LEMMA StepPlaced == IInv /\ Placed /\ [Next]_vars => Placed'
<1>. SUFFICES ASSUME IInv, Placed, [Next]_vars PROVE Placed'
  OBVIOUS
<1>1. CASE \E c \in Calls : Request(c) \/ ClientTimeout(c)
  BY <1>1, RequestPlaces, ClientTimeoutPlaces
<1>2. CASE \E m \in wire : ReceiveMessage(m)
  BY <1>2, ReceiveRequestPlaces, ReceiveResultPlaces, ProcessDapiResPlaces DEF ReceiveMessage
<1>3. CASE \E n \in Nodes : Serve(n) \/ SendNoString(n) \/ SendError(n)
  BY <1>3, TakePlaces, ExecutePlaces, ForwardPlaces, AnsweredPlaces, ForwardTimeoutPlaces, SendPlaces DEF Serve
<1>4. CASE \E w \in Workers : LoseConnection(w) \/ Connect(w)
  BY <1>4, LoseConnectionPlaces, ConnectPlaces
<1>5. CASE Restart
  BY <1>5, RestartPlaces
<1>6. CASE UNCHANGED vars
  <2>1. UNCHANGED <<route, caller, clients, connected, wire, queue, serving, phase, stale, pending, late, faults>>
    BY <1>6 DEF vars, local, server
  <2>2. \A d \in Calls : \A n \in Nodes : Serves(n, d)' <=> Serves(n, d)
    BY <2>1 DEF Serves
  <2>3. \A d \in Calls : Awaited(d) => Awaited(d)'
    BY <2>1 DEF Awaited
  <2>. QED  BY <2>1, <2>2, <2>3, PlacesKept
<1>. QED  BY <1>1, <1>2, <1>3, <1>4, <1>5, <1>6 DEF Next

LEMMA PlacedAlways == Spec => []Placed
BY InitPlaced, StepPlaced, InvAlways, PTL DEF Spec

(* A set whose elements are all equal has one at most.                     *)
LEMMA OneAtMost ==
  ASSUME NEW S, \A x, y \in S : x = y
  PROVE  Cardinality(S) <= 1
<1>1. CASE S = {}
  BY <1>1, FS_EmptySet
<1>2. CASE S # {}
  <2>1. PICK x : x \in S
    BY <1>2
  <2>2. S = {x}
    BY <2>1
  <2>. QED  BY <2>2, FS_Singleton
<1>. QED  BY <1>1, <1>2

LEMMA PlacedIsOnePlace == Placed => OnePlace
<1>. SUFFICES ASSUME Placed, NEW c \in Calls \ late
              PROVE  /\ Cardinality(Places(c)) <= 1
                     /\ caller[c] = "open" /\ faults = 0 => Places(c) # {}
  BY DEF OnePlace
<1>1. Alone(c)
  BY DEF Placed, Single
<1>2. \A x : x \in Places(c) <=>
         \/ \E m \in wire : m.call = c /\ x = <<"wire", m>>
         \/ \E n \in Nodes : Serves(n, c) /\ x = <<"served", n>>
         \/ \E n \in Nodes : \E i \in DOMAIN queue[n] : queue[n][i] = c /\ x = <<"queue", n, i>>
  <2>. DEFINE A == {<<"wire", m>> : m \in {m \in wire : m.call = c}}
              B == {<<"served", n>> : n \in {n \in Nodes : Serves(n, c)}}
              Q(n) == {<<"queue", n, i>> : i \in {i \in DOMAIN queue[n] : queue[n][i] = c}}
              C == UNION {Q(n) : n \in Nodes}
  <2>1. Places(c) = A \cup B \cup C
    BY DEF Places, Serves
  <2>2. \A x : x \in A <=> \E m \in wire : m.call = c /\ x = <<"wire", m>>
    OBVIOUS
  <2>3. \A x : x \in B <=> \E n \in Nodes : Serves(n, c) /\ x = <<"served", n>>
    OBVIOUS
  <2>4. \A x, n : x \in Q(n) <=> \E i \in DOMAIN queue[n] : queue[n][i] = c /\ x = <<"queue", n, i>>
    OBVIOUS
  <2>. HIDE DEF Q
  <2>5. \A x : x \in C <=> \E n \in Nodes : x \in Q(n)
    OBVIOUS
  <2>. HIDE DEF A, B, C
  <2>6. \A x : x \in Places(c) <=> x \in A \/ x \in B \/ x \in C
    BY <2>1
  <2>7. \A x : x \in C <=> \E n \in Nodes : \E i \in DOMAIN queue[n] : queue[n][i] = c /\ x = <<"queue", n, i>>
    BY <2>4, <2>5
  <2>. QED  BY <2>2, <2>3, <2>6, <2>7
<1>3. \A x, y \in Places(c) : x = y
  <2>. SUFFICES ASSUME NEW x \in Places(c), NEW y \in Places(c) PROVE x = y
    OBVIOUS
  <2>1. CASE \E m \in wire : m.call = c /\ x = <<"wire", m>>
    BY <1>1, <1>2, <2>1 DEF Alone, OneMessage, OnWire, InQueue, InService
  <2>2. CASE \E n \in Nodes : \E i \in DOMAIN queue[n] : queue[n][i] = c /\ x = <<"queue", n, i>>
    BY <1>1, <1>2, <2>2 DEF Alone, OneEntry, OnWire, InQueue, InService
  <2>3. CASE \E n \in Nodes : Serves(n, c) /\ x = <<"served", n>>
    BY <1>1, <1>2, <2>3 DEF Alone, OneServer, OnWire, InQueue, InService
  <2>. QED  BY <1>2, <2>1, <2>2, <2>3
<1>4. ASSUME caller[c] = "open", faults = 0 PROVE Places(c) # {}
  <2>1. OnWire(c) \/ InQueue(c) \/ InService(c)
    BY <1>4 DEF Placed, Calm
  <2>2. CASE OnWire(c)
    BY <1>2, <2>2, Zenon DEF OnWire
  <2>3. CASE InQueue(c)
    BY <1>2, <2>3, Zenon DEF InQueue
  <2>4. CASE InService(c)
    BY <1>2, <2>4, Zenon DEF InService
  <2>. QED  BY <2>1, <2>2, <2>3, <2>4
<1>. QED  BY <1>3, <1>4, OneAtMost

(* The duty to answer a request is at one place at most, on a connection,  *)
(* in a request_queue or with an APIRequestQueue, whatever connections and *)
(* nodes do, until the master gives the worker up; and without a fault it  *)
(* is at one for as long as its caller waits.                              *)
THEOREM DutiesAreAtOnePlace == Spec => []OnePlace
BY PlacedAlways, PlacedIsOnePlace, PTL
=============================================================================
