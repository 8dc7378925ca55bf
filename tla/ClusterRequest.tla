--------------------------- MODULE ClusterRequest ---------------------------
(***************************************************************************)
(* Requests and responses over one connection of the cluster: send_request,*)
(* data_received and dispatch of common.Handler, at both ends.             *)
(*                                                                         *)
(* Both ends send requests and both number them from a random start.  A    *)
(* message says its counter and its command but not whose counter it is:   *)
(* what is found in the box under that counter decides whether it is taken *)
(* for a response or for a request.                                        *)
(*                                                                         *)
(* A connection lives and dies with its two Handler objects, so this is    *)
(* the life of one connection.  How the stream is cut into messages is the *)
(* subject of ClusterFraming.                                              *)
(***************************************************************************)
EXTENDS Integers, Sequences

CONSTANTS
    Space,        \* counters are numbers modulo Space (2^32 in the code)
    Starts,       \* the counters that the two handlers may draw at first
    MaxRequests   \* bound on the requests of each peer

Peers    == {"client", "server"}
Counters == 0..(Space - 1)
Number   == 1..MaxRequests
Calls    == Peers \X Number

ASSUME SpaceAssumption ==
    /\ Space \in Nat \ {0}
    /\ MaxRequests \in Nat
    /\ Starts \subseteq [Peers -> Counters]

Other(p) == IF p = "client" THEN "server" ELSE "client"

Free    == -1   \* the counter is not a key of the box
Expired == 0    \* box[counter] is None
NoCall  == <<"none", 0>>

(* The command tells a response ("ok", "err") from a request; call stands  *)
(* for the payload: what is asked, or which request it is the answer to.   *)
Message == [counter : Counters, kind : {"request", "response"},
            call : Calls \cup {NoCall}]

Outcome == {"new", "waiting", "written", "answered", "expired", "failed",
            "KeyError"}

VARIABLES
    counter,   \* Handler.counter of each peer
    used,      \* history: the counters of a peer's requests, in order
    box,       \* Handler.box: the request whose Response is there
    outcome,   \* how far send_request is with each request
    reply,     \* Response.content: the request it is an answer to
    channel,   \* the messages on their way to a peer
    handled    \* how often process_request has seen a request

vars == <<counter, used, box, outcome, reply, channel, handled>>

TypeOK ==
    /\ counter \in [Peers -> Counters]
    /\ used \in [Peers -> Seq(Counters)]
    /\ box \in [Peers -> [Counters -> Number \cup {Free, Expired}]]
    /\ outcome \in [Calls -> Outcome]
    /\ reply \in [Calls -> Calls \cup {NoCall}]
    /\ channel \in [Peers -> Seq(Message)]
    /\ handled \in [Calls -> Nat]

Init ==
    /\ counter \in Starts
    /\ used = [p \in Peers |-> <<>>]
    /\ box = [p \in Peers |-> [c \in Counters |-> Free]]
    /\ outcome = [x \in Calls |-> "new"]
    /\ reply = [x \in Calls |-> NoCall]
    /\ channel = [p \in Peers |-> <<>>]
    /\ handled = [x \in Calls |-> 0]

-----------------------------------------------------------------------------
Msg(c, kind, x) == [counter |-> c, kind |-> kind, call |-> x]

Push(q, m) == [channel EXCEPT ![q] = Append(@, m)]

(* Handler.next_counter.                                                   *)
NextCounter(p) == (counter[p] + 1) % Space

(* Handler.send_request up to its await.  When msg_build raises (there is  *)
(* no memory) the Response stays in the box.                               *)
SendRequest(p) ==
    LET n == Len(used[p]) + 1
        c == NextCounter(p)
    IN
    /\ n <= MaxRequests
    /\ counter' = [counter EXCEPT ![p] = c]
    /\ used' = [used EXCEPT ![p] = Append(@, c)]
    /\ box' = [box EXCEPT ![p][c] = n]
    /\ \/ /\ outcome' = [outcome EXCEPT ![<<p, n>>] = "waiting"]
          /\ channel' = Push(Other(p), Msg(c, "request", <<p, n>>))
       \/ /\ outcome' = [outcome EXCEPT ![<<p, n>>] = "failed"]
          /\ UNCHANGED channel
    /\ UNCHANGED <<reply, handled>>

(* Response.write: wakes the coroutine that reads it, if one still does.   *)
(* process_response turns what is not "ok" or "err" into a text.           *)
Write(x, m) ==
    /\ reply' = [reply EXCEPT ![x] =
                    IF m.kind = "response" THEN m.call ELSE NoCall]
    /\ outcome' = [outcome EXCEPT ![x] =
                    IF @ = "waiting" THEN "written" ELSE @]

DispatchUnderOwnCounter(p, m, rest) ==
    /\ handled' = IF m.kind = "request"
                  THEN [handled EXCEPT ![m.call] = @ + 1] ELSE handled
    /\ channel' = [rest EXCEPT ![Other(p)] = Append(@, Msg(counter[p], "response",
                      IF m.kind = "request" THEN m.call ELSE NoCall))]

(* Handler.dispatch.  A command that is not known is answered with "err",  *)
(* and "ok" and "err" are not among the commands of process_request.       *)
Dispatch(p, m, rest) ==
    /\ handled' = IF m.kind = "request"
                  THEN [handled EXCEPT ![m.call] = @ + 1] ELSE handled
    /\ channel' = [rest EXCEPT ![Other(p)] = Append(@, Msg(m.counter, "response",
                      IF m.kind = "request" THEN m.call ELSE NoCall))]

(* Handler.data_received, for one message.                                 *)
DataReceived(p) ==
    /\ channel[p] # <<>>
    /\ LET m     == Head(channel[p])
           entry == box[p][m.counter]
           rest  == [channel EXCEPT ![p] = Tail(@)]
       IN
       \/ /\ entry = Expired
          /\ box' = [box EXCEPT ![p][m.counter] = Free]
          /\ channel' = rest
          /\ UNCHANGED <<outcome, reply, handled>>
       \/ /\ entry \in Number
          /\ Write(<<p, entry>>, m)
          /\ channel' = rest
          /\ UNCHANGED <<box, handled>>
       \/ /\ entry = Free
          /\ Dispatch(p, m, rest)
          /\ UNCHANGED <<box, outcome, reply>>
    /\ UNCHANGED <<counter, used>>

(* The coroutine resumes with the response: del self.box[msg_counter].     *)
Return(p, n) ==
    LET c == used[p][n] IN
    /\ outcome[<<p, n>>] = "written"
    /\ box' = [box EXCEPT ![p][c] = Free]
    /\ outcome' = [outcome EXCEPT ![<<p, n>>] =
                      IF box[p][c] = Free THEN "KeyError" ELSE "answered"]
    /\ UNCHANGED <<counter, used, reply, channel, handled>>

ExpireForgets(p, n) ==
    /\ outcome[<<p, n>>] \in {"waiting", "written"}
    /\ box' = [box EXCEPT ![p][used[p][n]] = Free]
    /\ outcome' = [outcome EXCEPT ![<<p, n>>] = "expired"]
    /\ UNCHANGED <<counter, used, reply, channel, handled>>

ExpireResends(p, n) ==
    /\ outcome[<<p, n>>] = "waiting"
    /\ outcome' = [outcome EXCEPT ![<<p, n>>] = "expired"]
    /\ channel' = Push(Other(p), Msg(used[p][n], "request", <<p, n>>))
    /\ UNCHANGED <<counter, used, box, reply, handled>>

(* asyncio.TimeoutError (error 3020).  The response may arrive between the *)
(* timer that cancels wait_for and the line that sets the entry to None.   *)
Expire(p, n) ==
    /\ outcome[<<p, n>>] \in {"waiting", "written"}
    /\ box' = [box EXCEPT ![p][used[p][n]] = Expired]
    /\ outcome' = [outcome EXCEPT ![<<p, n>>] = "expired"]
    /\ UNCHANGED <<counter, used, reply, channel, handled>>

Next ==
    \/ \E p \in Peers : SendRequest(p) \/ DataReceived(p)
    \/ \E p \in Peers, n \in Number : Return(p, n) \/ Expire(p, n)

Spec == Init /\ [][Next]_vars

(* The event loop reads what arrives and resumes what can run; the timer   *)
(* of wait_for fires.  Nothing is assumed of SendRequest.                  *)
Fairness ==
    /\ \A p \in Peers : WF_vars(DataReceived(p))
    /\ \A p \in Peers, n \in Number : /\ WF_vars(Return(p, n))
                                      /\ WF_vars(Expire(p, n))

FairSpec == Spec /\ Fairness

-----------------------------------------------------------------------------
(***************************************************************************)
(* Properties.                                                             *)
(***************************************************************************)

(* No counter has been drawn twice on this connection, by either peer.     *)
CountersAreUnique ==
    \A p, q \in Peers :
        \A i \in 1..Len(used[p]), j \in 1..Len(used[q]) :
            used[p][i] = used[q][j] => p = q /\ i = j

(* Whatever the order of timeouts, failures and late responses, a request  *)
(* that returns, returns the answer to itself and its peer has handled it, *)
(* provided that no counter was drawn twice.                               *)
AnswersAreOwn ==
    CountersAreUnique =>
        \A x \in Calls : outcome[x] = "answered" =>
            reply[x] = x /\ handled[x] = 1

(* No request is lost and none is handled twice: one that was sent is on   *)
(* its way or handled once, expired or not.                                *)
InFlight(x) ==
    \E p \in Peers : \E i \in 1..Len(channel[p]) :
        channel[p][i].kind = "request" /\ channel[p][i].call = x

RequestsAreHandledOnce ==
    CountersAreUnique =>
        \A x \in Calls :
            outcome[x] \notin {"new", "failed"} =>
                handled[x] = IF InFlight(x) THEN 0 ELSE 1

(* A response that nobody waits for any more is dropped, never dispatched  *)
(* as a request, even when the peers' counters meet: then process_request  *)
(* would answer "err", and each peer the other's "err", without end.       *)
OnlyRequestsAreDispatched ==
    [][\A p \in Peers :
          /\ channel[p] # <<>>
          /\ channel'[p] = Tail(channel[p])
          /\ Head(channel[p]).kind = "response"
          => channel'[Other(p)] = channel[Other(p)]]_vars

(* When no more requests are made, the connection falls silent: what is    *)
(* still on its way is not answered for ever.                              *)
Drains == <>[](\A p \in Peers : channel[p] = <<>>)

(* As long as counters are unique a connection implements RemoteCalls.     *)
CallerView ==
    [x \in Calls |-> CASE outcome[x] = "new"      -> "new"
                       [] outcome[x] = "failed"   -> "refused"
                       [] outcome[x] = "answered" -> "answered"
                       [] outcome[x] = "expired"  -> "gave up"
                       [] OTHER                   -> "open"]
Remote == INSTANCE RemoteCalls WITH caller <- CallerView, served <- handled
ImplementsRemoteCalls ==
    /\ Remote!Init
    /\ [][CountersAreUnique' => Remote!Next]_(Remote!vars)
=============================================================================
