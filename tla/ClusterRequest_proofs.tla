------------------------ MODULE ClusterRequest_proofs ------------------------
(***************************************************************************)
(* Theorems about ClusterRequest, for counters modulo any number, any      *)
(* first counters and any number of requests: as long as no counter has    *)
(* been drawn twice, every call that returns, returns its own answer, and  *)
(* every request that was sent is handled exactly once: ClusterRequest     *)
(* implements RemoteCalls.  Also when the two peers draw the same counters,*)
(* no response is taken for a request.                                     *)
(***************************************************************************)
EXTENDS ClusterRequest, TLAPS

(* A request has an outcome once its counter is drawn.                     *)
SentOK ==
    /\ \A p \in Peers : Len(used[p]) <= MaxRequests
    /\ \A p \in Peers, n \in Number :
          outcome[<<p, n>>] = "new" <=> n > Len(used[p])

(* An entry of the box is, or was, that of a request with this counter.    *)
BoxOK ==
    \A p \in Peers, c \in Counters : box[p][c] # Free =>
        \E n \in 1..Len(used[p]) :
            used[p][n] = c /\ box[p][c] \in {n, Expired}

(* What follows holds while counters are unique.                           *)

(* The entry of a request that has not come to an end is its own.          *)
WaitsOK ==
    \A p \in Peers, n \in Number :
        outcome[<<p, n>>] \in {"waiting", "written"} => box[p][used[p][n]] = n

(* A request on its way is not handled yet, a response on its way answers  *)
(* a handled one, and either way the caller has an entry in its box.       *)
Caller(q, m) == IF m.kind = "request" THEN Other(q) ELSE q

MessageOK(q, m) ==
    /\ \E n \in 1..Len(used[Caller(q, m)]) :
          /\ m.call = <<Caller(q, m), n>>
          /\ m.counter = used[Caller(q, m)][n]
    /\ outcome[m.call] \in {"waiting", "expired"}
    /\ box[Caller(q, m)][m.counter] # Free
    /\ handled[m.call] = IF m.kind = "request" THEN 0 ELSE 1

MessagesOK ==
    \A q \in Peers : \A i \in 1..Len(channel[q]) : MessageOK(q, channel[q][i])

NoTwins ==
    \A q \in Peers : \A i, j \in 1..Len(channel[q]) :
        channel[q][i].call = channel[q][j].call => i = j

ServedOK ==
    \A x \in Calls :
        /\ outcome[x] \in {"new", "failed"} => handled[x] = 0
        /\ outcome[x] \notin {"new", "failed"} /\ ~InFlight(x) => handled[x] = 1
        /\ outcome[x] \in {"written", "answered"} => reply[x] = x /\ handled[x] = 1

Good == WaitsOK /\ MessagesOK /\ NoTwins /\ ServedOK

Inv == TypeOK /\ SentOK /\ BoxOK /\ (CountersAreUnique => Good)

-----------------------------------------------------------------------------
LEMMA OtherPeer ==
    ASSUME NEW p \in Peers
    PROVE  Other(p) \in Peers /\ Other(p) # p /\ Other(Other(p)) = p
  BY DEF Peers, Other

LEMMA CallIsPair ==
    ASSUME NEW p \in Peers, NEW n \in Number
    PROVE  <<p, n>> \in Calls
  BY DEF Calls

LEMMA NextCounterType ==
    ASSUME TypeOK, NEW p \in Peers
    PROVE  NextCounter(p) \in Counters
  BY SpaceAssumption DEF TypeOK, NextCounter, Counters

LEMMA HeadTail ==
    ASSUME NEW S, NEW q \in Seq(S), q # <<>>
    PROVE  /\ Head(q) \in S
           /\ Tail(q) \in Seq(S)
           /\ Len(q) >= 1
           /\ Head(q) = q[1]
           /\ Len(Tail(q)) = Len(q) - 1
           /\ \A i \in 1..Len(Tail(q)) : Tail(q)[i] = q[i + 1]
  OBVIOUS

LEMMA AppendIs ==
    ASSUME NEW S, NEW q \in Seq(S), NEW e \in S
    PROVE  /\ Append(q, e) \in Seq(S)
           /\ Len(Append(q, e)) = Len(q) + 1
           /\ Append(q, e)[Len(q) + 1] = e
           /\ \A i \in 1..Len(q) : Append(q, e)[i] = q[i]
  OBVIOUS

LEMMA PushType ==
    ASSUME NEW ch \in [Peers -> Seq(Message)], NEW q \in Peers, NEW m \in Message
    PROVE  [ch EXCEPT ![q] = Append(@, m)] \in [Peers -> Seq(Message)]
<1>1. Append(ch[q], m) \in Seq(Message)
  BY AppendIs
<1> QED
  BY <1>1

LEMMA PushIs ==
    ASSUME NEW ch \in [Peers -> Seq(Message)], NEW q \in Peers, NEW m \in Message,
           NEW new, new = [ch EXCEPT ![q] = Append(@, m)]
    PROVE  /\ \A r \in Peers \ {q} : new[r] = ch[r]
           /\ Len(ch[q]) \in Nat
           /\ Len(new[q]) = Len(ch[q]) + 1
           /\ new[q][Len(ch[q]) + 1] = m
           /\ \A i \in 1..Len(ch[q]) : new[q][i] = ch[q][i]
<1>1. ch[q] \in Seq(Message) /\ new[q] = Append(ch[q], m)
  OBVIOUS
<1> QED
  BY <1>1, AppendIs

LEMMA BoxType ==
    ASSUME NEW b \in [Peers -> [Counters -> Number \cup {Free, Expired}]],
           NEW p, NEW c, NEW e \in Number \cup {Free, Expired}
    PROVE  [b EXCEPT ![p][c] = e] \in [Peers -> [Counters -> Number \cup {Free, Expired}]]
  OBVIOUS

LEMMA BoxIs ==
    ASSUME NEW b \in [Peers -> [Counters -> Number \cup {Free, Expired}]],
           NEW p \in Peers, NEW c, NEW e, NEW q \in Peers, NEW d \in Counters
    PROVE  [b EXCEPT ![p][c] = e][q][d] = IF q = p /\ d = c THEN e ELSE b[q][d]
  OBVIOUS

LEMMA HandledType ==
    ASSUME NEW h \in [Calls -> Nat], NEW x
    PROVE  [h EXCEPT ![x] = @ + 1] \in [Calls -> Nat]
<1>1. CASE x \in Calls
  BY <1>1
<1>2. CASE x \notin Calls
  <2>1. \A y \in Calls : [h EXCEPT ![x] = @ + 1][y] = h[y]
    BY <1>2
  <2> QED
    BY <2>1
<1> QED
  BY <1>1, <1>2

LEMMA MsgType ==
    ASSUME NEW c \in Counters, NEW kind \in {"request", "response"},
           NEW x \in Calls \cup {NoCall}
    PROVE  /\ Msg(c, kind, x) \in Message
           /\ Msg(c, kind, x).counter = c
           /\ Msg(c, kind, x).kind = kind
           /\ Msg(c, kind, x).call = x
  BY DEF Msg, Message

-----------------------------------------------------------------------------
(***************************************************************************)
(* Types.                                                                  *)
(***************************************************************************)
LEMMA SendRequestType ==
    ASSUME TypeOK, NEW p \in Peers, SendRequest(p)
    PROVE  TypeOK'
<1> DEFINE n == Len(used[p]) + 1
           c == NextCounter(p)
<1>1. n \in Number /\ c \in Counters /\ <<p, n>> \in Calls
  BY NextCounterType, CallIsPair, SpaceAssumption DEF TypeOK, SendRequest, Number
<1>2. counter' \in [Peers -> Counters] /\ used' \in [Peers -> Seq(Counters)]
  BY <1>1 DEF TypeOK, SendRequest
<1>3. box' \in [Peers -> [Counters -> Number \cup {Free, Expired}]]
  BY <1>1 DEF TypeOK, SendRequest
<1>4. outcome' \in [Calls -> Outcome]
  BY <1>1 DEF TypeOK, SendRequest, Outcome
<1>5. channel' \in [Peers -> Seq(Message)]
  <2>1. Msg(c, "request", <<p, n>>) \in Message
    BY <1>1, MsgType
  <2>2. Push(Other(p), Msg(c, "request", <<p, n>>)) \in [Peers -> Seq(Message)]
    BY <2>1, OtherPeer, PushType DEF TypeOK, Push
  <2> QED
    BY <2>2 DEF TypeOK, SendRequest
<1> QED
  BY <1>2, <1>3, <1>4, <1>5 DEF TypeOK, SendRequest

LEMMA DataReceivedType ==
    ASSUME TypeOK, NEW p \in Peers, DataReceived(p)
    PROVE  TypeOK'
<1> DEFINE m    == Head(channel[p])
           rest == [channel EXCEPT ![p] = Tail(@)]
<1>1. m \in Message /\ rest \in [Peers -> Seq(Message)]
  <2>1. channel[p] \in Seq(Message) /\ channel[p] # <<>>
    BY DEF TypeOK, DataReceived
  <2>2. Head(channel[p]) \in Message /\ Tail(channel[p]) \in Seq(Message)
    BY <2>1, HeadTail
  <2> QED
    BY <2>2 DEF TypeOK
<1>2. m.counter \in Counters /\ m.call \in Calls \cup {NoCall}
  BY <1>1 DEF Message
<1>3. CASE /\ box[p][m.counter] = Expired
           /\ box' = [box EXCEPT ![p][m.counter] = Free]
           /\ channel' = rest
           /\ UNCHANGED <<outcome, reply, handled>>
  <2>1. box' \in [Peers -> [Counters -> Number \cup {Free, Expired}]]
    BY <1>2, <1>3 DEF TypeOK
  <2> QED
    BY <1>1, <1>3, <2>1 DEF TypeOK, DataReceived
<1>4. CASE /\ box[p][m.counter] \in Number
           /\ Write(<<p, box[p][m.counter]>>, m)
           /\ channel' = rest
           /\ UNCHANGED <<box, handled>>
  <2>1. <<p, box[p][m.counter]>> \in Calls
    BY <1>4, CallIsPair
  <2>2. outcome' \in [Calls -> Outcome] /\ reply' \in [Calls -> Calls \cup {NoCall}]
    BY <1>2, <1>4, <2>1 DEF TypeOK, Write, Outcome
  <2> QED
    BY <1>1, <1>4, <2>2 DEF TypeOK, DataReceived
<1>5. CASE Dispatch(p, m, rest) /\ UNCHANGED <<box, outcome, reply>>
  <2>1. handled' \in [Calls -> Nat]
    BY <1>5, HandledType DEF TypeOK, Dispatch
  <2> DEFINE x == IF m.kind = "request" THEN m.call ELSE NoCall
  <2>2. Msg(m.counter, "response", x) \in Message
    BY <1>2, MsgType
  <2>3. channel' \in [Peers -> Seq(Message)]
    BY <1>1, <1>5, <2>2, OtherPeer, PushType DEF Dispatch
  <2> QED
    BY <1>5, <2>1, <2>3 DEF TypeOK, DataReceived
<1> QED
  BY <1>3, <1>4, <1>5 DEF DataReceived

LEMMA TypeStep == TypeOK /\ [Next]_vars => TypeOK'
<1> SUFFICES ASSUME TypeOK, [Next]_vars PROVE TypeOK'
  OBVIOUS
<1>1. ASSUME NEW p \in Peers, NEW n \in Number, Return(p, n) \/ Expire(p, n)
      PROVE  TypeOK'
  <2>1. outcome' \in [Calls -> Outcome]
    BY <1>1 DEF TypeOK, Return, Expire, Outcome
  <2>2. box' \in [Peers -> [Counters -> Number \cup {Free, Expired}]]
    <3>1. CASE Return(p, n)
      BY <3>1, BoxType DEF TypeOK, Return
    <3>2. CASE Expire(p, n)
      BY <3>2, BoxType DEF TypeOK, Expire
    <3> QED
      BY <1>1, <3>1, <3>2
  <2> QED
    BY <1>1, <2>1, <2>2 DEF TypeOK, Return, Expire
<1>2. CASE UNCHANGED vars
  BY <1>2 DEF TypeOK, vars
<1> QED
  BY <1>1, <1>2, SendRequestType, DataReceivedType DEF Next

LEMMA InitType == Init => TypeOK
  BY SpaceAssumption DEF Init, TypeOK, Outcome

(* Every variable keeps its type; in particular the counters wrap around   *)
(* in time and the box holds nothing but requests and None.                *)
THEOREM TypeCorrect == Spec => []TypeOK
<1> QED
  BY InitType, TypeStep, PTL DEF Spec

-----------------------------------------------------------------------------
(***************************************************************************)
(* What holds whether counters are unique or not.                          *)
(***************************************************************************)
LEMMA UsedGrows ==
    ASSUME TypeOK, [Next]_vars, NEW q \in Peers
    PROVE  /\ Len(used[q]) <= Len(used'[q])
           /\ \A i \in 1..Len(used[q]) : used'[q][i] = used[q][i]
<1>1. ASSUME NEW p \in Peers, SendRequest(p)
      PROVE  /\ Len(used[q]) <= Len(used'[q])
             /\ \A i \in 1..Len(used[q]) : used'[q][i] = used[q][i]
  <2>1. used[p] \in Seq(Counters) /\ NextCounter(p) \in Counters
    BY NextCounterType DEF TypeOK
  <2>2. used' = [used EXCEPT ![p] = Append(used[p], NextCounter(p))]
    BY <1>1 DEF SendRequest
  <2>3. CASE q = p
    BY <2>1, <2>2, <2>3, AppendIs DEF TypeOK
  <2>4. CASE q # p
    BY <2>2, <2>4 DEF TypeOK
  <2> QED
    BY <2>3, <2>4
<1>2. CASE UNCHANGED used
  BY <1>2 DEF TypeOK
<1> QED
  BY <1>1, <1>2 DEF Next, vars, DataReceived, Return, Expire

LEMMA UniqueBefore ==
    ASSUME TypeOK, [Next]_vars, CountersAreUnique'
    PROVE  CountersAreUnique
<1>1. SUFFICES ASSUME NEW p \in Peers, NEW q \in Peers,
                      NEW i \in 1..Len(used[p]), NEW j \in 1..Len(used[q]),
                      used[p][i] = used[q][j]
               PROVE  p = q /\ i = j
  BY DEF CountersAreUnique
<1>2. /\ i \in 1..Len(used'[p]) /\ used'[p][i] = used[p][i]
      /\ j \in 1..Len(used'[q]) /\ used'[q][j] = used[q][j]
  <2>1. Len(used[p]) \in Nat /\ Len(used[q]) \in Nat
    BY DEF TypeOK
  <2>2. Len(used'[p]) \in Nat /\ Len(used'[q]) \in Nat
    BY TypeStep DEF TypeOK
  <2> QED
    BY <2>1, <2>2, UsedGrows
<1> QED
  BY <1>1, <1>2 DEF CountersAreUnique

(* What SendRequest does to the variables, entry by entry.                 *)
LEMMA Sending ==
    ASSUME TypeOK, SentOK, NEW p \in Peers, SendRequest(p),
           NEW n, n = Len(used[p]) + 1
    PROVE  /\ n \in Number
           /\ NextCounter(p) \in Counters
           /\ Len(used'[p]) = n
           /\ used'[p][n] = NextCounter(p)
           /\ \A i \in 1..Len(used[p]) : used'[p][i] = used[p][i]
           /\ \A q \in Peers \ {p} : used'[q] = used[q]
           /\ box'[p][NextCounter(p)] = n
           /\ \A q \in Peers, c \in Counters :
                 q # p \/ c # NextCounter(p) => box'[q][c] = box[q][c]
           /\ outcome'[<<p, n>>] \in {"waiting", "failed"}
           /\ \A x \in Calls \ {<<p, n>>} : outcome'[x] = outcome[x]
<1>1. n \in Number /\ NextCounter(p) \in Counters /\ <<p, n>> \in Calls
  BY NextCounterType, CallIsPair, SpaceAssumption DEF TypeOK, SendRequest, Number
<1>2. used' = [used EXCEPT ![p] = Append(used[p], NextCounter(p))]
  BY DEF SendRequest
<1>3. used[p] \in Seq(Counters)
  BY DEF TypeOK
<1>4. /\ Len(used'[p]) = n
      /\ used'[p][n] = NextCounter(p)
      /\ \A i \in 1..Len(used[p]) : used'[p][i] = used[p][i]
      /\ \A q \in Peers \ {p} : used'[q] = used[q]
  BY <1>1, <1>2, <1>3, AppendIs DEF TypeOK
<1>5. box' = [box EXCEPT ![p][NextCounter(p)] = n]
  BY DEF SendRequest
<1>6. /\ box'[p][NextCounter(p)] = n
      /\ \A q \in Peers, c \in Counters :
            q # p \/ c # NextCounter(p) => box'[q][c] = box[q][c]
  BY <1>1, <1>5 DEF TypeOK
<1>7. /\ outcome'[<<p, n>>] \in {"waiting", "failed"}
      /\ \A x \in Calls \ {<<p, n>>} : outcome'[x] = outcome[x]
  BY <1>1 DEF SendRequest, TypeOK
<1> QED
  BY <1>1, <1>4, <1>6, <1>7

(* The message that DataReceived takes, and what it does to the box.       *)
LEMMA Receiving ==
    ASSUME TypeOK, NEW p \in Peers, DataReceived(p),
           NEW m, m = Head(channel[p])
    PROVE  /\ m \in Message
           /\ Len(channel[p]) >= 1
           /\ m = channel[p][1]
           /\ \A q \in Peers, c \in Counters :
                 box'[q][c] = IF q = p /\ c = m.counter /\ box[p][c] = Expired
                              THEN Free ELSE box[q][c]
<1>1. m \in Message /\ Len(channel[p]) >= 1 /\ m = channel[p][1]
  <2>1. channel[p] \in Seq(Message) /\ channel[p] # <<>>
    BY DEF TypeOK, DataReceived
  <2> QED
    BY <2>1, HeadTail
<1>2. CASE box[p][m.counter] = Expired
  <2>1. box' = [box EXCEPT ![p][m.counter] = Free]
    BY <1>2 DEF DataReceived, Expired, Free, Number
  <2>2. box \in [Peers -> [Counters -> Number \cup {Free, Expired}]]
    BY DEF TypeOK
  <2>3. ASSUME NEW q \in Peers, NEW c \in Counters
        PROVE  box'[q][c] = IF q = p /\ c = m.counter THEN Free ELSE box[q][c]
    BY <2>1, <2>2, BoxIs
  <2> QED
    BY <1>1, <1>2, <2>3
<1>3. CASE box[p][m.counter] # Expired
  <2>1. box' = box
    BY <1>3 DEF DataReceived
  <2> QED
    BY <1>1, <1>3, <2>1
<1> QED
  BY <1>2, <1>3

LEMMA SentStep == TypeOK /\ SentOK /\ [Next]_vars => SentOK'
<1> SUFFICES ASSUME TypeOK, SentOK, [Next]_vars PROVE SentOK'
  OBVIOUS
<1>0. \A q \in Peers : Len(used[q]) \in Nat
  BY DEF TypeOK
<1>1. ASSUME NEW p \in Peers, SendRequest(p) PROVE SentOK'
  <2> DEFINE n == Len(used[p]) + 1
  <2>0. n \in Number /\ Len(used'[p]) = n /\ \A q \in Peers \ {p} : used'[q] = used[q]
    BY <1>1, Sending
  <2>1. ASSUME NEW q \in Peers PROVE Len(used'[q]) <= MaxRequests
    BY <2>0, SpaceAssumption DEF SentOK, Number
  <2>2. ASSUME NEW q \in Peers, NEW k \in Number
        PROVE  outcome'[<<q, k>>] = "new" <=> k > Len(used'[q])
    <3>1. CASE q = p /\ k = n
      BY <1>1, <3>1, Sending
    <3>2. CASE q = p /\ k # n
      <4>1. <<q, k>> \in Calls \ {<<p, n>>} /\ k \in Nat
        BY <3>2, CallIsPair DEF Number
      <4>2. \A y \in Calls \ {<<p, n>>} : outcome'[y] = outcome[y]
        BY <1>1, Sending
      <4>3. outcome'[<<q, k>>] = outcome[<<q, k>>] /\ Len(used'[q]) = n
        BY <2>0, <3>2, <4>1, <4>2
      <4> QED
        BY <1>0, <3>2, <4>1, <4>3 DEF SentOK
    <3>3. CASE q # p
      <4>1. <<q, k>> \in Calls \ {<<p, n>>}
        BY <3>3, CallIsPair
      <4>2. \A y \in Calls \ {<<p, n>>} : outcome'[y] = outcome[y]
        BY <1>1, Sending
      <4>3. outcome'[<<q, k>>] = outcome[<<q, k>>] /\ used'[q] = used[q]
        BY <2>0, <3>3, <4>1, <4>2
      <4> QED
        BY <4>3 DEF SentOK
    <3> QED
      BY <3>1, <3>2, <3>3
  <2> QED
    BY <2>1, <2>2 DEF SentOK
<1>2. ASSUME UNCHANGED used,
             \A x \in Calls : outcome'[x] = "new" <=> outcome[x] = "new"
      PROVE  SentOK'
  BY <1>2, CallIsPair DEF SentOK
<1>3. ASSUME NEW p \in Peers, DataReceived(p) PROVE SentOK'
  BY <1>2, <1>3 DEF DataReceived, Write, TypeOK
<1>4. ASSUME NEW p \in Peers, NEW n \in Number, Return(p, n) PROVE SentOK'
  BY <1>2, <1>4 DEF Return, TypeOK
<1>5. ASSUME NEW p \in Peers, NEW n \in Number, Expire(p, n) PROVE SentOK'
  BY <1>2, <1>5 DEF Expire, TypeOK
<1>6. CASE UNCHANGED vars
  BY <1>2, <1>6 DEF vars
<1> QED
  BY <1>1, <1>3, <1>4, <1>5, <1>6 DEF Next

LEMMA BoxStep == TypeOK /\ SentOK /\ BoxOK /\ [Next]_vars => BoxOK'
<1> SUFFICES ASSUME TypeOK, SentOK, BoxOK, [Next]_vars PROVE BoxOK'
  OBVIOUS
<1>0. \A q \in Peers : Len(used[q]) \in Nat
  BY DEF TypeOK
<1>1. ASSUME NEW p \in Peers, SendRequest(p) PROVE BoxOK'
  <2> DEFINE n == Len(used[p]) + 1
  <2>n. n \in Nat
    BY <1>0
  <2>0. /\ Len(used'[p]) = n
        /\ used'[p][n] = NextCounter(p)
        /\ box'[p][NextCounter(p)] = n
    BY <1>1, Sending
  <2>1. SUFFICES ASSUME NEW q \in Peers, NEW c \in Counters, box'[q][c] # Free
                 PROVE  \E k \in 1..Len(used'[q]) :
                           used'[q][k] = c /\ box'[q][c] \in {k, Expired}
    BY DEF BoxOK
  <2>2. CASE q = p /\ c = NextCounter(p)
    <3>1. n \in 1..Len(used'[q])
      BY <2>n, <2>0, <2>2
    <3> QED
      BY <2>0, <2>2, <3>1
  <2>3. CASE q # p \/ c # NextCounter(p)
    <3>1. box'[q][c] = box[q][c]
      BY <1>1, <2>3, Sending
    <3>2. PICK k \in 1..Len(used[q]) : used[q][k] = c /\ box[q][c] \in {k, Expired}
      BY <2>1, <3>1 DEF BoxOK
    <3>3. Len(used'[q]) \in Nat
      BY TypeStep DEF TypeOK
    <3>4. k \in 1..Len(used'[q]) /\ used'[q][k] = c
      BY <1>0, <3>2, <3>3, UsedGrows
    <3> QED
      BY <3>1, <3>2, <3>4
  <2> QED
    BY <2>2, <2>3
<1>2. ASSUME UNCHANGED used,
             \A p \in Peers, c \in Counters :
                box'[p][c] \in {box[p][c], Free} \/
                (box'[p][c] = Expired /\ \E k \in 1..Len(used[p]) : used[p][k] = c)
      PROVE  BoxOK'
  BY <1>2 DEF BoxOK
<1>3. ASSUME NEW p \in Peers, DataReceived(p) PROVE BoxOK'
  <2>1. \A q \in Peers, c \in Counters : box'[q][c] \in {box[q][c], Free}
    BY <1>3, Receiving
  <2> QED
    BY <1>2, <1>3, <2>1 DEF DataReceived
<1>4. ASSUME NEW p \in Peers, NEW n \in Number, Return(p, n) PROVE BoxOK'
  <2>1. \A q \in Peers, c \in Counters : box'[q][c] \in {box[q][c], Free}
    <3>1. box' = [box EXCEPT ![p][used[p][n]] = Free]
      BY <1>4 DEF Return
    <3>2. box \in [Peers -> [Counters -> Number \cup {Free, Expired}]]
      BY DEF TypeOK
    <3>3. ASSUME NEW q \in Peers, NEW c \in Counters
          PROVE  box'[q][c] = IF q = p /\ c = used[p][n] THEN Free ELSE box[q][c]
      BY <3>1, <3>2, BoxIs
    <3> QED
      BY <3>3
  <2> QED
    BY <1>2, <1>4, <2>1 DEF Return
<1>5. ASSUME NEW p \in Peers, NEW n \in Number, Expire(p, n) PROVE BoxOK'
  <2>1. n \in 1..Len(used[p])
    BY <1>0, <1>5 DEF Expire, SentOK, Number
  <2>2. \A q \in Peers, c \in Counters :
            box'[q][c] = box[q][c] \/
            (q = p /\ c = used[p][n] /\ box'[q][c] = Expired)
    BY <1>5 DEF Expire, TypeOK
  <2> QED
    BY <1>2, <1>5, <2>1, <2>2 DEF Expire
<1>6. CASE UNCHANGED vars
  BY <1>2, <1>6 DEF vars
<1> QED
  BY <1>1, <1>3, <1>4, <1>5, <1>6 DEF Next

-----------------------------------------------------------------------------
(***************************************************************************)
(* What holds while counters are unique, action by action.                 *)
(***************************************************************************)
Before == TypeOK /\ SentOK /\ BoxOK /\ Good

LEMMA LensAreNat ==
    ASSUME TypeOK, NEW q \in Peers
    PROVE  Len(used[q]) \in Nat /\ Len(channel[q]) \in Nat
  BY DEF TypeOK

LEMMA CallerIsPeer ==
    ASSUME NEW q \in Peers, NEW m
    PROVE  Caller(q, m) \in Peers
  BY OtherPeer DEF Caller

(* The counter that SendRequest draws is new, and so is the request.       *)
LEMMA SendingIsNew ==
    ASSUME TypeOK, SentOK, CountersAreUnique', NEW p \in Peers, SendRequest(p),
           NEW n, n = Len(used[p]) + 1,
           NEW q \in Peers, NEW k \in 1..Len(used[q])
    PROVE  /\ used'[q][k] = used[q][k]
           /\ used[q][k] # NextCounter(p)
           /\ <<q, k>> \in Calls \ {<<p, n>>}
           /\ k \in 1..Len(used'[q])
<1>1. used'[q][k] = used[q][k] /\ k \in 1..Len(used'[q])
  <2>1. [Next]_vars
    BY DEF Next
  <2>2. Len(used[q]) \in Nat /\ Len(used'[q]) \in Nat
    BY <2>1, TypeStep, LensAreNat DEF TypeOK
  <2> QED
    BY <2>1, <2>2, UsedGrows
<1>2. q = p => k # n
  BY LensAreNat
<1>3. <<q, k>> \in Calls \ {<<p, n>>}
  <2>1. Len(used[q]) \in Nat /\ Len(used[q]) <= MaxRequests
    BY LensAreNat DEF SentOK
  <2>2. k \in Number
    BY <2>1, SpaceAssumption DEF Number
  <2> QED
    BY <1>2, <2>2, CallIsPair
<1>4. n \in 1..Len(used'[p]) /\ used'[p][n] = NextCounter(p)
  <2>1. Len(used'[p]) = n /\ used'[p][n] = NextCounter(p)
    BY Sending
  <2> QED
    BY <2>1, LensAreNat
<1>5. used[q][k] # NextCounter(p)
  BY <1>1, <1>2, <1>4 DEF CountersAreUnique
<1> QED
  BY <1>1, <1>3, <1>5

LEMMA GoodSend ==
    ASSUME Before, CountersAreUnique', NEW p \in Peers, SendRequest(p)
    PROVE  Good'
<1>n. PICK n : n = Len(used[p]) + 1
  OBVIOUS
<1>c. PICK c : c = NextCounter(p)
  OBVIOUS
<1> DEFINE x == <<p, n>>
           r == Msg(c, "request", x)
<1>0. TypeOK /\ SentOK /\ BoxOK /\ WaitsOK /\ MessagesOK /\ NoTwins /\ ServedOK
  BY DEF Before, Good
<1>1. n \in Number /\ c \in Counters /\ x \in Calls
  BY <1>n, <1>c, <1>0, Sending, CallIsPair
<1>2. used'[p][n] = c /\ box'[p][c] = n /\ Len(used'[p]) = n
  BY <1>n, <1>c, <1>0, Sending
<1>3. /\ \A q \in Peers, d \in Counters :
            q # p \/ d # c => box'[q][d] = box[q][d]
      /\ \A y \in Calls \ {x} : outcome'[y] = outcome[y]
      /\ handled' = handled /\ reply' = reply
  <2>1. \A q \in Peers, d \in Counters :
            q # p \/ d # c => box'[q][d] = box[q][d]
    <3>1. \A q \in Peers, d \in Counters :
              q # p \/ d # NextCounter(p) => box'[q][d] = box[q][d]
      BY <1>n, <1>0, Sending
    <3> QED
      BY <1>c, <3>1
  <2>2. \A y \in Calls \ {x} : outcome'[y] = outcome[y]
    <3>1. \A y \in Calls \ {<<p, Len(used[p]) + 1>>} : outcome'[y] = outcome[y]
      BY <1>0, Sending
    <3> QED
      BY <1>n, <3>1
  <2>3. handled' = handled /\ reply' = reply
    BY DEF SendRequest
  <2> QED
    BY <2>1, <2>2, <2>3
<1>4. ASSUME NEW q \in Peers, NEW k \in 1..Len(used[q])
      PROVE  /\ used'[q][k] = used[q][k]
             /\ used[q][k] # c
             /\ <<q, k>> \in Calls \ {x}
             /\ k \in 1..Len(used'[q])
             /\ used[q][k] \in Counters
  <2>1. used[q][k] \in Counters
    BY <1>0 DEF TypeOK
  <2> QED
    BY <1>n, <1>c, <1>0, <2>1, SendingIsNew
<1>5. outcome[x] = "new" /\ handled[x] = 0
  <2>1. n > Len(used[p])
    BY <1>n, <1>0, LensAreNat
  <2> QED
    BY <1>0, <1>1, <2>1 DEF SentOK, ServedOK
<1>6. WaitsOK'
  <2> SUFFICES ASSUME NEW q \in Peers, NEW k \in Number,
                      outcome'[<<q, k>>] \in {"waiting", "written"}
               PROVE  box'[q][used'[q][k]] = k
    BY DEF WaitsOK
  <2>1. CASE <<q, k>> = x
    BY <1>2, <2>1
  <2>2. CASE <<q, k>> # x
    <3>1. outcome[<<q, k>>] \in {"waiting", "written"}
      BY <1>3, <2>2, CallIsPair
    <3>2. k \in 1..Len(used[q])
      BY <1>0, <3>1, LensAreNat DEF SentOK, Number
    <3>3. box[q][used[q][k]] = k
      BY <1>0, <3>1 DEF WaitsOK
    <3> QED
      BY <1>3, <1>4, <3>2, <3>3
  <2> QED
    BY <2>1, <2>2
<1>7. ASSUME NEW q \in Peers, NEW m, MessageOK(q, m)
      PROVE  MessageOK(q, m)' /\ m.call # x
  <2>1. PICK k \in 1..Len(used[Caller(q, m)]) :
            m.call = <<Caller(q, m), k>> /\ m.counter = used[Caller(q, m)][k]
    BY <1>7 DEF MessageOK
  <2>2. Caller(q, m) \in Peers
    BY CallerIsPeer
  <2>3. /\ used'[Caller(q, m)][k] = m.counter
        /\ m.counter # c /\ m.counter \in Counters
        /\ m.call \in Calls \ {x}
        /\ k \in 1..Len(used'[Caller(q, m)])
    BY <1>4, <2>1, <2>2
  <2>4. outcome'[m.call] = outcome[m.call]
    BY <1>3, <2>3
  <2>5. box'[Caller(q, m)][m.counter] = box[Caller(q, m)][m.counter]
    BY <1>3, <2>2, <2>3
  <2> QED
    BY <1>3, <1>7, <2>1, <2>3, <2>4, <2>5 DEF MessageOK, Caller
<1>8. CASE /\ outcome' = [outcome EXCEPT ![x] = "failed"]
           /\ channel' = channel
  <2>1. MessagesOK'
    <3> SUFFICES ASSUME NEW q \in Peers, NEW i \in 1..Len(channel'[q]),
                        NEW m, m = channel'[q][i]
                 PROVE  MessageOK(q, m)'
      BY DEF MessagesOK, MessageOK, Caller
    <3> QED
      BY <1>0, <1>7, <1>8 DEF MessagesOK
  <2>4. NoTwins'
    BY <1>0, <1>8 DEF NoTwins
  <2>2. outcome'[x] = "failed"
    BY <1>0, <1>1, <1>8 DEF TypeOK
  <2>3. ServedOK'
    BY <1>0, <1>3, <1>5, <1>8, <2>2 DEF ServedOK, InFlight
  <2> QED
    BY <1>6, <2>1, <2>3, <2>4 DEF Good
<1>9. CASE /\ outcome' = [outcome EXCEPT ![x] = "waiting"]
           /\ channel' = Push(Other(p), r)
  <2>1. outcome'[x] = "waiting"
    BY <1>0, <1>1, <1>9 DEF TypeOK
  <2>2. r \in Message /\ r.counter = c /\ r.kind = "request" /\ r.call = x
    BY <1>1, MsgType
  <2>o. PICK o : o = Other(p)
    OBVIOUS
  <2>l. PICK l : l = Len(channel[o])
    OBVIOUS
  <2>3. /\ o \in Peers /\ l \in Nat
        /\ \A q \in Peers \ {o} : channel'[q] = channel[q]
        /\ Len(channel'[o]) = l + 1
        /\ channel'[o][l + 1] = r
        /\ \A i \in 1..l : channel'[o][i] = channel[o][i]
    BY <1>0, <1>9, <2>o, <2>l, <2>2, OtherPeer, PushIs DEF Push, TypeOK
  <2>4. MessageOK(o, r)'
    <3>1. Caller(o, r) = p
      BY <2>o, <2>2, OtherPeer DEF Caller
    <3>2. n \in 1..Len(used'[p])
      BY <1>n, <1>0, <1>2, LensAreNat
    <3>3. box'[p][c] # Free
      BY <1>1, <1>2 DEF Number, Free
    <3> QED
      BY <1>2, <1>3, <1>5, <2>1, <2>2, <3>1, <3>2, <3>3 DEF MessageOK, Caller
  <2>5. MessagesOK'
    <3> SUFFICES ASSUME NEW q \in Peers, NEW i \in 1..Len(channel'[q]),
                        NEW m, m = channel'[q][i]
                 PROVE  MessageOK(q, m)'
      BY DEF MessagesOK, MessageOK, Caller
    <3>1. CASE q = o /\ i = l + 1
      BY <2>3, <2>4, <3>1
    <3>2. CASE q = o /\ i # l + 1
      <4>1. i \in 1..l /\ channel'[q][i] = channel[q][i]
        BY <2>l, <2>3, <3>2
      <4> QED
        BY <1>0, <1>7, <2>l, <3>2, <4>1 DEF MessagesOK
    <3>3. CASE q # o
      BY <1>0, <1>7, <2>3, <3>3 DEF MessagesOK
    <3> QED
      BY <3>1, <3>2, <3>3
  <2>6. NoTwins'
    <3>1. \A i \in 1..l : channel[o][i].call # x
      BY <1>0, <1>7, <2>l, <2>3 DEF MessagesOK
    <3> SUFFICES ASSUME NEW q \in Peers, NEW i \in 1..Len(channel'[q]),
                        NEW j \in 1..Len(channel'[q]),
                        channel'[q][i].call = channel'[q][j].call
                 PROVE  i = j
      BY DEF NoTwins
    <3>2. CASE q = o
      <4>1. i \in 1..l \/ i = l + 1
        BY <2>3, <3>2
      <4>2. j \in 1..l \/ j = l + 1
        BY <2>3, <3>2
      <4>3. CASE i \in 1..l /\ j \in 1..l
        BY <1>0, <2>l, <2>3, <3>2, <4>3 DEF NoTwins
      <4>4. CASE i = l + 1 /\ j \in 1..l
        BY <2>2, <2>3, <3>1, <3>2, <4>4
      <4>5. CASE i \in 1..l /\ j = l + 1
        BY <2>2, <2>3, <3>1, <3>2, <4>5
      <4> QED
        BY <4>1, <4>2, <4>3, <4>4, <4>5
    <3>3. CASE q # o
      BY <1>0, <2>3, <3>3 DEF NoTwins
    <3> QED
      BY <3>2, <3>3
  <2>7. ServedOK'
    <3>1. InFlight(x)'
      <4>1. l + 1 \in 1..Len(channel'[o])
        BY <2>3
      <4> QED
        BY <2>2, <2>3, <4>1 DEF InFlight
    <3>2. ASSUME NEW y \in Calls, InFlight(y) PROVE InFlight(y)'
      <4>1. PICK q \in Peers : \E i \in 1..Len(channel[q]) :
                channel[q][i].kind = "request" /\ channel[q][i].call = y
        BY <3>2 DEF InFlight
      <4>2. PICK i \in 1..Len(channel[q]) :
                channel[q][i].kind = "request" /\ channel[q][i].call = y
        BY <4>1
      <4>3. i \in 1..Len(channel'[q]) /\ channel'[q][i] = channel[q][i]
        BY <2>l, <2>3
      <4> QED
        BY <4>2, <4>3 DEF InFlight
    <3> SUFFICES ASSUME NEW y \in Calls
                 PROVE  /\ outcome'[y] \in {"new", "failed"} => handled'[y] = 0
                        /\ outcome'[y] \notin {"new", "failed"} /\ ~InFlight(y)'
                              => handled'[y] = 1
                        /\ outcome'[y] \in {"written", "answered"}
                              => reply'[y] = y /\ handled'[y] = 1
      BY DEF ServedOK
    <3>3. CASE y = x
      BY <2>1, <3>1, <3>3
    <3>4. CASE y # x
      BY <1>0, <1>3, <3>2, <3>4 DEF ServedOK
    <3> QED
      BY <3>3, <3>4
  <2> QED
    BY <1>6, <2>5, <2>6, <2>7 DEF Good
<1> QED
  BY <1>n, <1>c, <1>8, <1>9 DEF SendRequest

(* A message tells its request, by its counter alone.                      *)
LEMMA CounterIsCall ==
    ASSUME CountersAreUnique, NEW q \in Peers, NEW m, MessageOK(q, m),
           NEW p \in Peers, NEW k \in 1..Len(used[p]), used[p][k] = m.counter
    PROVE  Caller(q, m) = p /\ m.call = <<p, k>>
<1>1. PICK n \in 1..Len(used[Caller(q, m)]) :
          m.call = <<Caller(q, m), n>> /\ m.counter = used[Caller(q, m)][n]
  BY DEF MessageOK
<1> QED
  BY <1>1, CallerIsPeer DEF CountersAreUnique

(* An action that keeps a message, its outcome and its entry.              *)
LEMMA MessageKept ==
    ASSUME NEW q, NEW m, MessageOK(q, m), UNCHANGED used,
           outcome'[m.call] \in {"waiting", "expired"},
           box'[Caller(q, m)][m.counter] # Free,
           handled'[m.call] = handled[m.call]
    PROVE  MessageOK(q, m)'
  BY DEF MessageOK, Caller

(* The message that DataReceived takes is gone and the others are left.    *)
LEMMA RestIs ==
    ASSUME TypeOK, NEW p \in Peers, channel[p] # <<>>,
           NEW rest, rest = [channel EXCEPT ![p] = Tail(@)]
    PROVE  /\ rest \in [Peers -> Seq(Message)]
           /\ rest[Other(p)] = channel[Other(p)]
           /\ Len(rest[p]) = Len(channel[p]) - 1
           /\ Len(channel[p]) \in Nat \ {0}
           /\ \A i \in 1..Len(rest[p]) :
                 i + 1 \in 1..Len(channel[p]) /\ rest[p][i] = channel[p][i + 1]
<1>1. channel[p] \in Seq(Message) /\ rest[p] = Tail(channel[p])
  BY DEF TypeOK
<1>2. /\ Tail(channel[p]) \in Seq(Message)
      /\ Len(rest[p]) = Len(channel[p]) - 1
      /\ \A i \in 1..Len(rest[p]) : rest[p][i] = channel[p][i + 1]
  <2> DEFINE c == channel[p]
  <2>1. c \in Seq(Message) /\ c # <<>>
    BY <1>1
  <2> HIDE DEF c
  <2>2. /\ Tail(c) \in Seq(Message)
        /\ Len(Tail(c)) = Len(c) - 1
        /\ \A i \in 1..Len(Tail(c)) : Tail(c)[i] = c[i + 1]
    BY <2>1, HeadTail
  <2> QED
    BY <1>1, <2>2 DEF c
<1>3. Len(channel[p]) \in Nat \ {0}
  BY <1>1
<1>4. rest \in [Peers -> Seq(Message)] /\ rest[Other(p)] = channel[Other(p)]
  BY <1>1, <1>2, OtherPeer DEF TypeOK
<1> QED
  BY <1>2, <1>3, <1>4

(* A request is dispatched and a response finds its entry in the box.      *)
LEMMA KindDecidesEntry ==
    ASSUME Before, CountersAreUnique, NEW p \in Peers, NEW m \in Message,
           MessageOK(p, m)
    PROVE  /\ m.kind = "request" => box[p][m.counter] = Free
           /\ m.kind = "response" => /\ box[p][m.counter] # Free
                                     /\ box[p][m.counter] # Expired
                                          => m.call = <<p, box[p][m.counter]>>
<1>1. m.counter \in Counters
  BY DEF Message
<1>2. ASSUME box[p][m.counter] # Free
      PROVE  \E k \in 1..Len(used[p]) :
                /\ Caller(p, m) = p /\ m.call = <<p, k>>
                /\ box[p][m.counter] \in {k, Expired}
  <2>1. PICK k \in 1..Len(used[p]) :
            used[p][k] = m.counter /\ box[p][m.counter] \in {k, Expired}
    BY <1>1, <1>2 DEF Before, BoxOK
  <2> QED
    BY <2>1, CounterIsCall
<1>3. m.kind = "request" => Caller(p, m) # p
  BY OtherPeer DEF Caller
<1>4. m.kind = "response" => box[p][m.counter] # Free
  BY DEF MessageOK, Caller
<1> QED
  BY <1>2, <1>3, <1>4

LEMMA FirstIsCaller ==
    ASSUME NEW q, NEW m, MessageOK(q, m)
    PROVE  m.call[1] = Caller(q, m)
<1>1. PICK n \in 1..Len(used[Caller(q, m)]) : m.call = <<Caller(q, m), n>>
  BY DEF MessageOK
<1> QED
  BY <1>1

(* Messages about one request: there is never more than one.               *)
LEMMA OneMessage ==
    ASSUME Before, NEW p \in Peers, NEW q \in Peers,
           NEW i \in 1..Len(channel[p]), NEW j \in 1..Len(channel[q]),
           channel[p][i].call = channel[q][j].call
    PROVE  p = q /\ i = j
<1>1. MessageOK(p, channel[p][i]) /\ MessageOK(q, channel[q][j])
  BY DEF Before, Good, MessagesOK
<1>2. channel[p][i] \in Message /\ channel[q][j] \in Message
  BY DEF Before, TypeOK
<1>3. channel[p][i].kind = channel[q][j].kind
  BY <1>1, <1>2 DEF MessageOK, Message
<1>4. Caller(p, channel[p][i]) = Caller(q, channel[q][j])
  <2>1. channel[p][i].call[1] = Caller(p, channel[p][i])
    BY <1>1, FirstIsCaller
  <2>2. channel[q][j].call[1] = Caller(q, channel[q][j])
    BY <1>1, FirstIsCaller
  <2> QED
    BY <2>1, <2>2
<1>5. p = q
  BY <1>3, <1>4, OtherPeer DEF Caller
<1> QED
  BY <1>5 DEF Before, Good, NoTwins

LEMMA OneMessagePerCounter ==
    ASSUME CountersAreUnique, NEW p \in Peers, NEW q \in Peers,
           NEW m, MessageOK(p, m), NEW o, MessageOK(q, o), o.counter = m.counter
    PROVE  o.call = m.call
<1>1. PICK k \in 1..Len(used[Caller(p, m)]) :
          m.call = <<Caller(p, m), k>> /\ m.counter = used[Caller(p, m)][k]
  BY DEF MessageOK
<1> QED
  BY <1>1, CounterIsCall, CallerIsPeer

(* The channels once the first message to p has been read. *)
Remains(p) == [channel EXCEPT ![p] = Tail(@)]

LEMMA Rest ==
    ASSUME Before, NEW p \in Peers, channel[p] # <<>>,
           NEW m, m = Head(channel[p]),
           NEW rest, rest = Remains(p)
    PROVE  \A q \in Peers : \A i \in 1..Len(rest[q]) :
              /\ MessageOK(q, rest[q][i])
              /\ rest[q][i] \in Message
              /\ rest[q][i].call # m.call
              /\ \A j \in 1..Len(rest[q]) : rest[q][i].call = rest[q][j].call => i = j
<1>0. rest = [channel EXCEPT ![p] = Tail(@)]
  BY DEF Remains
<1> SUFFICES ASSUME NEW q \in Peers, NEW i \in 1..Len(rest[q])
             PROVE  /\ MessageOK(q, rest[q][i])
                    /\ rest[q][i] \in Message
                    /\ rest[q][i].call # m.call
                    /\ \A j \in 1..Len(rest[q]) :
                          rest[q][i].call = rest[q][j].call => i = j
  OBVIOUS
<1>1. TypeOK
  BY DEF Before
<1>2. m = channel[p][1] /\ 1 \in 1..Len(channel[p])
  <2>1. channel[p] \in Seq(Message)
    BY <1>1 DEF TypeOK
  <2> QED
    BY <2>1, HeadTail
<1>3. CASE q = p
  <2>1. \A j \in 1..Len(rest[q]) :
            j + 1 \in 1..Len(channel[q]) /\ rest[q][j] = channel[q][j + 1]
    BY <1>0, <1>1, <1>3, RestIs
  <2>3. rest[q][i].call # m.call
    <3>1. PICK a \in 1..Len(channel[q]) : a = i + 1 /\ channel[q][a] = rest[q][i]
      BY <2>1
    <3>2. a # 1
      BY <3>1
    <3>3. 1 \in 1..Len(channel[q]) /\ m = channel[q][1]
      BY <1>2, <1>3
    <3>4. channel[q][a].call # channel[q][1].call
      BY <3>2, <3>3, OneMessage
    <3> QED
      BY <3>1, <3>3, <3>4
  <2>4. ASSUME NEW j \in 1..Len(rest[q]), rest[q][i].call = rest[q][j].call
        PROVE  i = j
    <3>1. PICK a \in 1..Len(channel[q]) : a = i + 1 /\ channel[q][a] = rest[q][i]
      BY <2>1
    <3>2. PICK b \in 1..Len(channel[q]) : b = j + 1 /\ channel[q][b] = rest[q][j]
      BY <2>1, <2>4
    <3>3. a = b
      BY <2>4, <3>1, <3>2, OneMessage
    <3> QED
      BY <3>1, <3>2, <3>3
  <2>5. MessageOK(q, rest[q][i]) /\ rest[q][i] \in Message
    <3>1. PICK a \in 1..Len(channel[q]) : channel[q][a] = rest[q][i]
      BY <2>1
    <3>2. MessageOK(q, channel[q][a]) /\ channel[q][a] \in Message
      BY <1>1 DEF Before, Good, MessagesOK, TypeOK
    <3> QED
      BY <3>1, <3>2
  <2> QED
    BY <2>3, <2>4, <2>5
<1>4. CASE q # p
  <2>1. rest[q] = channel[q]
    BY <1>0, <1>1, <1>4 DEF TypeOK
  <2>2. rest[q][i].call # m.call
    BY <1>2, <1>4, <2>1, OneMessage
  <2>3. MessageOK(q, channel[q][i]) /\ channel[q][i] \in Message
    BY <1>1, <2>1 DEF Before, Good, MessagesOK, TypeOK
  <2>4. \A j \in 1..Len(rest[q]) : rest[q][i].call = rest[q][j].call => i = j
    BY <2>1, OneMessage
  <2> QED
    BY <2>1, <2>2, <2>3, <2>4
<1> QED
  BY <1>3, <1>4

LEMMA RestInFlight ==
    ASSUME Before, NEW p \in Peers, channel[p] # <<>>,
           NEW m, m = Head(channel[p]),
           NEW rest, rest = Remains(p)
    PROVE  \A y : InFlight(y) /\ (y # m.call \/ m.kind # "request") =>
              \E q \in Peers : \E i \in 1..Len(rest[q]) :
                 rest[q][i].kind = "request" /\ rest[q][i].call = y
<1>0. rest = [channel EXCEPT ![p] = Tail(@)]
  BY DEF Remains
<1> SUFFICES ASSUME NEW y, InFlight(y), y # m.call \/ m.kind # "request"
             PROVE  \E q \in Peers : \E i \in 1..Len(rest[q]) :
                       rest[q][i].kind = "request" /\ rest[q][i].call = y
  OBVIOUS
<1>1. TypeOK
  BY DEF Before
<1>2. PICK q \in Peers : \E i \in 1..Len(channel[q]) :
          channel[q][i].kind = "request" /\ channel[q][i].call = y
  BY DEF InFlight
<1>3. PICK i \in 1..Len(channel[q]) :
          channel[q][i].kind = "request" /\ channel[q][i].call = y
  BY <1>2
<1>4. CASE q = p
  <2>1. channel[p] \in Seq(Message) /\ m = channel[p][1]
    BY <1>1, HeadTail DEF TypeOK
  <2>2. i # 1 /\ Len(channel[p]) \in Nat
    BY <1>3, <1>4, <2>1
  <2>3. /\ Len(rest[p]) = Len(channel[p]) - 1
        /\ \A j \in 1..Len(rest[p]) : rest[p][j] = channel[p][j + 1]
    BY <1>0, <1>1, RestIs
  <2>4. i - 1 \in 1..Len(rest[p]) /\ (i - 1) + 1 = i
    BY <1>4, <2>2, <2>3
  <2>5. rest[p][i - 1] = channel[p][i]
    BY <2>3, <2>4
  <2> QED
    BY <1>3, <1>4, <2>4, <2>5
<1>5. CASE q # p
  <2>1. rest[q] = channel[q]
    BY <1>0, <1>1, <1>5 DEF TypeOK
  <2> QED
    BY <1>3, <2>1
<1> QED
  BY <1>4, <1>5

LEMMA GoodReceive ==
    ASSUME Before, CountersAreUnique, NEW p \in Peers, DataReceived(p)
    PROVE  Good'
<1>0. TypeOK /\ SentOK /\ BoxOK /\ WaitsOK /\ MessagesOK /\ NoTwins /\ ServedOK
  BY DEF Before, Good
<1>m. PICK m : m = Head(channel[p])
  OBVIOUS
<1>p. PICK rest : rest = Remains(p)
  OBVIOUS
<1>r. rest = [channel EXCEPT ![p] = Tail(@)]
  BY <1>p DEF Remains
<1>1. channel[p] # <<>> /\ UNCHANGED <<counter, used>>
  BY DEF DataReceived
<1>2. m \in Message /\ m.counter \in Counters /\ MessageOK(p, m)
  <2>1. m \in Message /\ m = channel[p][1] /\ 1 \in 1..Len(channel[p])
    <3>1. m \in Message /\ m = channel[p][1] /\ Len(channel[p]) >= 1
      BY <1>0, <1>m, Receiving
    <3> QED
      BY <1>0, <3>1, LensAreNat
  <2> QED
    BY <1>0, <2>1 DEF MessagesOK, Message
<1>3. /\ m.kind = "request" => box[p][m.counter] = Free
      /\ m.kind = "response" => /\ box[p][m.counter] # Free
                                /\ box[p][m.counter] # Expired
                                     => m.call = <<p, box[p][m.counter]>>
  BY <1>2, KindDecidesEntry
<1>4. \A q \in Peers, c \in Counters :
          box'[q][c] = IF q = p /\ c = m.counter /\ box[p][c] = Expired
                       THEN Free ELSE box[q][c]
  BY <1>0, <1>m, Receiving
<1>5. ASSUME NEW q \in Peers, NEW i \in 1..Len(rest[q])
      PROVE  /\ MessageOK(q, rest[q][i])
             /\ rest[q][i] \in Message
             /\ rest[q][i].call # m.call
             /\ \A j \in 1..Len(rest[q]) : rest[q][i].call = rest[q][j].call => i = j
  BY <1>1, <1>m, <1>p, Rest
<1>6. ASSUME NEW y, InFlight(y), y # m.call \/ m.kind # "request"
      PROVE  \E q \in Peers : \E i \in 1..Len(rest[q]) :
                rest[q][i].kind = "request" /\ rest[q][i].call = y
  BY <1>1, <1>6, <1>m, <1>p, RestInFlight
<1>7. ASSUME NEW q \in Peers, NEW o \in Message, MessageOK(q, o), o.call # m.call
      PROVE  box'[Caller(q, o)][o.counter] # Free
  <2>1. o.counter \in Counters /\ Caller(q, o) \in Peers
    BY CallerIsPeer DEF Message
  <2>2. o.counter # m.counter
    BY <1>2, <1>7, OneMessagePerCounter
  <2> QED
    BY <1>4, <1>7, <2>1, <2>2 DEF MessageOK
<1>8. ASSUME m.kind = "response", channel' = rest, UNCHANGED handled,
             \A y \in Calls : outcome'[y] = outcome[y] \/ (y = m.call /\ outcome'[y] # "new"
                 /\ outcome'[y] # "failed" /\ outcome[y] \notin {"new", "failed"}),
             \A y \in Calls : outcome'[y] \in {"written", "answered"}
                 => reply'[y] = y /\ handled[y] = 1
      PROVE  MessagesOK' /\ NoTwins' /\ ServedOK'
  <2>1. MessagesOK'
    <3> SUFFICES ASSUME NEW q \in Peers, NEW i \in 1..Len(channel'[q]),
                        NEW o, o = channel'[q][i]
                 PROVE  MessageOK(q, o)'
      BY DEF MessagesOK, MessageOK, Caller
    <3>1. MessageOK(q, o) /\ o \in Message /\ o.call # m.call
      BY <1>5, <1>8
    <3>2. outcome[o.call] \in {"waiting", "expired"} /\ o.call \in Calls
      <4>1. o.call # NoCall
        <5>1. o.call[1] = Caller(q, o)
          BY <3>1, FirstIsCaller
        <5>2. NoCall[1] = "none" /\ Caller(q, o) \in {"client", "server"}
          BY CallerIsPeer DEF NoCall, Peers
        <5> QED
          BY <5>1, <5>2
      <4> QED
        BY <3>1, <4>1 DEF MessageOK, Message
    <3>3. outcome'[o.call] \in {"waiting", "expired"}
      BY <1>8, <3>1, <3>2
    <3> QED
      BY <1>1, <1>7, <1>8, <3>1, <3>3, MessageKept
  <2>2. NoTwins'
    BY <1>5, <1>8 DEF NoTwins
  <2>3. ServedOK'
    <3>1. ASSUME NEW y, InFlight(y) PROVE InFlight(y)'
      BY <1>6, <1>8, <3>1 DEF InFlight
    <3> SUFFICES ASSUME NEW y \in Calls
                 PROVE  /\ outcome'[y] \in {"new", "failed"} => handled'[y] = 0
                        /\ outcome'[y] \notin {"new", "failed"} /\ ~InFlight(y)'
                              => handled'[y] = 1
                        /\ outcome'[y] \in {"written", "answered"}
                              => reply'[y] = y /\ handled'[y] = 1
      BY DEF ServedOK
    <3>2. /\ outcome[y] \in {"new", "failed"} => handled[y] = 0
          /\ outcome[y] \notin {"new", "failed"} /\ ~InFlight(y) => handled[y] = 1
      BY <1>0 DEF ServedOK
    <3> QED
      BY <1>8, <3>1, <3>2
  <2> QED
    BY <2>1, <2>2, <2>3
<1>9. m.call \in Calls /\ outcome[m.call] \in {"waiting", "expired"}
  <2>1. m.call # NoCall
    <3>1. m.call[1] = Caller(p, m)
      BY <1>2, FirstIsCaller
    <3>2. NoCall[1] = "none" /\ Caller(p, m) \in {"client", "server"}
      BY CallerIsPeer DEF NoCall, Peers
    <3> QED
      BY <3>1, <3>2
  <2> QED
    BY <1>2, <2>1 DEF MessageOK, Message
<1>10. CASE /\ box[p][m.counter] = Expired
            /\ channel' = rest
            /\ UNCHANGED <<outcome, reply, handled>>
  <2>1. m.kind = "response"
    BY <1>2, <1>3, <1>10 DEF Message, Free, Expired
  <2>2. MessagesOK' /\ NoTwins' /\ ServedOK'
    BY <1>0, <1>8, <1>10, <2>1 DEF ServedOK
  <2>3. WaitsOK'
    <3> SUFFICES ASSUME NEW q \in Peers, NEW k \in Number,
                        outcome[<<q, k>>] \in {"waiting", "written"}
                 PROVE  box'[q][used[q][k]] = k
      BY <1>1, <1>10 DEF WaitsOK
    <3>1. box[q][used[q][k]] = k /\ k # Expired
      BY <1>0 DEF WaitsOK, Number, Expired
    <3>2. k \in 1..Len(used[q]) /\ used[q][k] \in Counters
      BY <1>0, LensAreNat DEF SentOK, Number, TypeOK
    <3> QED
      BY <1>4, <3>1, <3>2
  <2> QED
    BY <2>2, <2>3 DEF Good
<1>11. CASE /\ box[p][m.counter] \in Number
            /\ Write(<<p, box[p][m.counter]>>, m)
            /\ channel' = rest
            /\ UNCHANGED <<box, handled>>
  <2>1. m.kind = "response" /\ m.call = <<p, box[p][m.counter]>>
    BY <1>2, <1>3, <1>11 DEF Message, Free, Expired, Number
  <2>2. handled[m.call] = 1
    BY <1>2, <2>1 DEF MessageOK
  <2>3. /\ reply' = [reply EXCEPT ![m.call] = m.call]
        /\ outcome' = [outcome EXCEPT ![m.call] =
                          IF @ = "waiting" THEN "written" ELSE @]
    BY <1>11, <2>1 DEF Write
  <2>4. ASSUME NEW y \in Calls
        PROVE  /\ y # m.call => outcome'[y] = outcome[y] /\ reply'[y] = reply[y]
               /\ y = m.call => /\ outcome'[y] \in {"written", "expired"}
                                /\ reply'[y] = y
    BY <1>0, <1>9, <2>3 DEF TypeOK
  <2>5. MessagesOK' /\ NoTwins' /\ ServedOK'
    BY <1>0, <1>8, <1>9, <1>11, <2>1, <2>2, <2>4 DEF ServedOK
  <2>6. WaitsOK'
    <3> SUFFICES ASSUME NEW q \in Peers, NEW k \in Number,
                        outcome'[<<q, k>>] \in {"waiting", "written"}
                 PROVE  box[q][used[q][k]] = k
      BY <1>1, <1>11 DEF WaitsOK
    <3>1. outcome[<<q, k>>] \in {"waiting", "written"}
      BY <1>0, <1>9, <2>3, CallIsPair DEF TypeOK
    <3> QED
      BY <1>0, <3>1 DEF WaitsOK
  <2> QED
    BY <2>5, <2>6 DEF Good
<1>12. CASE /\ box[p][m.counter] = Free
            /\ Dispatch(p, m, rest)
            /\ UNCHANGED <<box, outcome, reply>>
  <2>1. m.kind = "request"
    BY <1>2, <1>3, <1>12 DEF Message
  <2>2. handled[m.call] = 0
    BY <1>2, <2>1 DEF MessageOK
  <2>a. PICK a : a = Msg(m.counter, "response", m.call)
    OBVIOUS
  <2>o. PICK o : o = Other(p)
    OBVIOUS
  <2>l. PICK l : l = Len(rest[o])
    OBVIOUS
  <2>3. a \in Message /\ a.counter = m.counter /\ a.kind = "response" /\ a.call = m.call
    BY <1>2, <1>9, <2>a, MsgType
  <2>4. handled' = [handled EXCEPT ![m.call] = @ + 1]
    BY <1>12, <2>1 DEF Dispatch
  <2>5. handled'[m.call] = 1 /\ \A y \in Calls \ {m.call} : handled'[y] = handled[y]
    BY <1>0, <1>9, <2>2, <2>4 DEF TypeOK
  <2>6. rest \in [Peers -> Seq(Message)]
    BY <1>0, <1>1, <1>r, RestIs
  <2>7. channel' = [rest EXCEPT ![o] = Append(@, a)]
    BY <1>12, <2>1, <2>a, <2>o DEF Dispatch
  <2>8. /\ o \in Peers /\ o # p /\ Other(o) = p /\ l \in Nat
        /\ \A q \in Peers \ {o} : channel'[q] = rest[q]
        /\ Len(channel'[o]) = l + 1
        /\ channel'[o][l + 1] = a
        /\ \A i \in 1..l : channel'[o][i] = rest[o][i]
    BY <2>3, <2>6, <2>7, <2>o, <2>l, OtherPeer, PushIs
  <2>9. Caller(p, m) = o /\ Caller(o, a) = o
    BY <2>1, <2>3, <2>o DEF Caller
  <2>10. MessageOK(o, a)'
    BY <1>1, <1>2, <1>9, <1>12, <2>3, <2>5, <2>9 DEF MessageOK, Caller
  <2>11. ASSUME NEW q \in Peers, NEW i \in 1..Len(rest[q]), NEW d, d = rest[q][i]
         PROVE  MessageOK(q, d)'
    <3>1. MessageOK(q, d) /\ d \in Message /\ d.call # m.call
      BY <1>5, <2>11
    <3>2. d.call # NoCall
      <4>1. d.call[1] = Caller(q, d)
        BY <3>1, FirstIsCaller
      <4>2. NoCall[1] = "none" /\ Caller(q, d) \in {"client", "server"}
        BY CallerIsPeer DEF NoCall, Peers
      <4> QED
        BY <4>1, <4>2
    <3>3. handled'[d.call] = handled[d.call]
      BY <2>5, <3>1, <3>2 DEF Message
    <3>4. outcome'[d.call] \in {"waiting", "expired"}
      BY <1>12, <3>1 DEF MessageOK
    <3> QED
      BY <1>1, <1>7, <3>1, <3>3, <3>4, MessageKept
  <2>12. MessagesOK'
    <3> SUFFICES ASSUME NEW q \in Peers, NEW i \in 1..Len(channel'[q]),
                        NEW d, d = channel'[q][i]
                 PROVE  MessageOK(q, d)'
      BY DEF MessagesOK, MessageOK, Caller
    <3>1. CASE q = o /\ i = l + 1
      BY <2>8, <2>10, <3>1
    <3>2. CASE q = o /\ i # l + 1
      <4>1. i \in 1..Len(rest[q]) /\ d = rest[q][i]
        BY <2>8, <2>l, <3>2
      <4> QED
        BY <2>11, <4>1
    <3>3. CASE q # o
      BY <2>8, <2>11, <3>3
    <3> QED
      BY <3>1, <3>2, <3>3
  <2>13. NoTwins'
    <3> SUFFICES ASSUME NEW q \in Peers, NEW i \in 1..Len(channel'[q]),
                        NEW j \in 1..Len(channel'[q]),
                        channel'[q][i].call = channel'[q][j].call
                 PROVE  i = j
      BY DEF NoTwins
    <3>1. CASE q = o
      <4>1. (i \in 1..l \/ i = l + 1) /\ (j \in 1..l \/ j = l + 1)
        BY <2>8, <3>1
      <4>2. ASSUME NEW k \in 1..l PROVE channel'[o][k].call # m.call
        <5>1. k \in 1..Len(rest[o]) /\ channel'[o][k] = rest[o][k]
          BY <2>8, <2>l
        <5> QED
          BY <1>5, <2>8, <5>1
      <4>3. channel'[o][l + 1].call = m.call
        BY <2>3, <2>8
      <4>4. CASE i \in 1..l /\ j \in 1..l
        <5>1. i \in 1..Len(rest[o]) /\ j \in 1..Len(rest[o])
          BY <2>l, <4>4
        <5>2. channel'[o][i] = rest[o][i] /\ channel'[o][j] = rest[o][j]
          BY <2>8, <4>4
        <5>3. rest[o][i].call = rest[o][j].call
          BY <3>1, <5>2
        <5> QED
          BY <1>5, <2>8, <5>1, <5>3
      <4> QED
        BY <3>1, <4>1, <4>2, <4>3, <4>4
    <3>2. CASE q # o
      BY <1>5, <2>8, <3>2
    <3> QED
      BY <3>1, <3>2
  <2>14. ServedOK'
    <3>1. ASSUME NEW y, InFlight(y), y # m.call PROVE InFlight(y)'
      <4>1. PICK q \in Peers : \E i \in 1..Len(rest[q]) :
                rest[q][i].kind = "request" /\ rest[q][i].call = y
        BY <1>6, <3>1
      <4>2. PICK i \in 1..Len(rest[q]) :
                rest[q][i].kind = "request" /\ rest[q][i].call = y
        BY <4>1
      <4>3. i \in 1..Len(channel'[q]) /\ channel'[q][i] = rest[q][i]
        BY <2>8, <2>l
      <4> QED
        BY <4>2, <4>3 DEF InFlight
    <3> SUFFICES ASSUME NEW y \in Calls
                 PROVE  /\ outcome'[y] \in {"new", "failed"} => handled'[y] = 0
                        /\ outcome'[y] \notin {"new", "failed"} /\ ~InFlight(y)'
                              => handled'[y] = 1
                        /\ outcome'[y] \in {"written", "answered"}
                              => reply'[y] = y /\ handled'[y] = 1
      BY DEF ServedOK
    <3>2. CASE y = m.call
      BY <1>9, <1>12, <2>5, <3>2
    <3>3. CASE y # m.call
      BY <1>0, <1>12, <2>5, <3>1, <3>3 DEF ServedOK
    <3> QED
      BY <3>2, <3>3
  <2>15. WaitsOK'
    BY <1>0, <1>1, <1>12 DEF WaitsOK
  <2> QED
    BY <2>12, <2>13, <2>14, <2>15 DEF Good
<1> QED
  BY <1>m, <1>r, <1>10, <1>11, <1>12 DEF DataReceived

(* The end of a call, by its response or by the timer.                     *)
LEMMA GoodEnd ==
    ASSUME Before, CountersAreUnique, NEW p \in Peers, NEW n \in Number,
           Return(p, n) \/ Expire(p, n)
    PROVE  Good'
<1>x. PICK x : x = <<p, n>>
  OBVIOUS
<1>c. PICK c : c = used[p][n]
  OBVIOUS
<1>0. TypeOK /\ SentOK /\ BoxOK /\ WaitsOK /\ MessagesOK /\ NoTwins /\ ServedOK
  BY DEF Before, Good
<1>1. UNCHANGED <<counter, used, reply, channel, handled>>
  BY DEF Return, Expire
<1>2. x \in Calls /\ outcome[x] \in {"waiting", "written"}
  BY <1>x, CallIsPair DEF Return, Expire
<1>3. n \in 1..Len(used[p]) /\ c \in Counters
  <2>1. ~(n > Len(used[p]))
    BY <1>0, <1>2, <1>x DEF SentOK
  <2>2. n \in 1..Len(used[p])
    BY <1>0, <2>1, LensAreNat DEF Number
  <2> QED
    BY <1>0, <1>c, <2>2 DEF TypeOK
<1>4. box[p][c] = n /\ n # Free
  BY <1>0, <1>2, <1>x, <1>c DEF WaitsOK, Number, Free
<1>5. \A q \in Peers, d \in Counters :
          q # p \/ d # c => box'[q][d] = box[q][d]
  <2>1. CASE Return(p, n)
    BY <1>0, <1>c, <2>1, BoxIs DEF Return, TypeOK
  <2>2. CASE Expire(p, n)
    BY <1>0, <1>c, <2>2, BoxIs DEF Expire, TypeOK
  <2> QED
    BY <2>1, <2>2
<1>6. \A y \in Calls \ {x} : outcome'[y] = outcome[y]
  BY <1>0, <1>x DEF Return, Expire, TypeOK
<1>7. \/ outcome[x] = "written" /\ outcome'[x] = "answered"
      \/ outcome'[x] = "expired" /\ box'[p][c] = Expired
  <2>1. CASE Return(p, n)
    BY <1>0, <1>2, <1>4, <1>x, <1>c, <2>1 DEF Return, TypeOK
  <2>2. CASE Expire(p, n)
    <3>1. box'[p][c] = Expired
      BY <1>0, <1>3, <1>c, <2>2, BoxIs DEF Expire, TypeOK
    <3>2. outcome'[x] = "expired"
      BY <1>0, <1>2, <1>x, <2>2 DEF Expire, TypeOK
    <3> QED
      BY <3>1, <3>2
  <2> QED
    BY <2>1, <2>2
<1>8. WaitsOK'
  <2> SUFFICES ASSUME NEW q \in Peers, NEW k \in Number,
                      outcome'[<<q, k>>] \in {"waiting", "written"}
               PROVE  box'[q][used[q][k]] = k
    BY <1>1 DEF WaitsOK
  <2>1. <<q, k>> # x
    BY <1>7
  <2>2. outcome[<<q, k>>] \in {"waiting", "written"}
    BY <1>6, <2>1, CallIsPair
  <2>3. k \in 1..Len(used[q])
    BY <1>0, <2>2, LensAreNat DEF SentOK, Number
  <2>4. used[q][k] \in Counters
    BY <1>0, <2>3 DEF TypeOK
  <2>5. q # p \/ used[q][k] # c
    BY <1>3, <1>c, <1>x, <2>1, <2>3 DEF CountersAreUnique
  <2>6. box[q][used[q][k]] = k
    BY <1>0, <2>2 DEF WaitsOK
  <2> QED
    BY <1>5, <2>4, <2>5, <2>6
<1>9. MessagesOK'
  <2> SUFFICES ASSUME NEW q \in Peers, NEW i \in 1..Len(channel'[q]),
                      NEW o, o = channel'[q][i]
               PROVE  MessageOK(q, o)'
    BY DEF MessagesOK, MessageOK, Caller
  <2>1. MessageOK(q, o) /\ o \in Message
    BY <1>0, <1>1 DEF MessagesOK, TypeOK
  <2>2. o.counter \in Counters /\ Caller(q, o) \in Peers
    BY <2>1, CallerIsPeer DEF Message
  <2>3. o.call \in Calls
    <3>1. o.call[1] = Caller(q, o)
      BY <2>1, FirstIsCaller
    <3>2. NoCall[1] = "none" /\ Caller(q, o) \in {"client", "server"}
      BY <2>2 DEF NoCall, Peers
    <3> QED
      BY <2>1, <3>1, <3>2 DEF Message
  <2>4. CASE o.call # x
    <3>1. Caller(q, o) # p \/ o.counter # c
      BY <1>3, <1>c, <1>x, <2>1, <2>4, CounterIsCall
    <3>2. box'[Caller(q, o)][o.counter] # Free
      BY <1>5, <2>1, <2>2, <3>1 DEF MessageOK
    <3>3. outcome'[o.call] \in {"waiting", "expired"}
      BY <1>6, <2>1, <2>3, <2>4 DEF MessageOK
    <3> QED
      BY <1>1, <2>1, <3>2, <3>3, MessageKept
  <2>5. CASE o.call = x
    <3>1. PICK k \in 1..Len(used[Caller(q, o)]) :
              o.call = <<Caller(q, o), k>> /\ o.counter = used[Caller(q, o)][k]
      BY <2>1 DEF MessageOK
    <3>2. Caller(q, o) = p /\ o.counter = c
      BY <1>x, <1>c, <2>5, <3>1
    <3>3. outcome'[x] = "expired" /\ box'[p][c] = Expired
      BY <1>7, <2>1, <2>5 DEF MessageOK
    <3> QED
      BY <1>1, <2>1, <2>5, <3>2, <3>3, MessageKept DEF Free, Expired
  <2> QED
    BY <2>4, <2>5
<1>10. NoTwins'
  BY <1>0, <1>1 DEF NoTwins
<1>11. ServedOK'
  <2> SUFFICES ASSUME NEW y \in Calls
               PROVE  /\ outcome'[y] \in {"new", "failed"} => handled[y] = 0
                      /\ outcome'[y] \notin {"new", "failed"} /\ ~InFlight(y)
                            => handled[y] = 1
                      /\ outcome'[y] \in {"written", "answered"}
                            => reply[y] = y /\ handled[y] = 1
    BY <1>1 DEF ServedOK, InFlight
  <2>1. CASE y # x
    BY <1>0, <1>6, <2>1 DEF ServedOK
  <2>2. CASE y = x
    BY <1>0, <1>2, <1>7, <2>2 DEF ServedOK
  <2> QED
    BY <2>1, <2>2
<1> QED
  BY <1>8, <1>9, <1>10, <1>11 DEF Good

LEMMA InvInit == Init => Inv
<1> SUFFICES ASSUME Init PROVE Inv
  OBVIOUS
<1>1. TypeOK
  BY InitType
<1>2. \A q \in Peers : Len(used[q]) = 0 /\ Len(channel[q]) = 0
  BY DEF Init
<1>3. SentOK
  BY <1>2, SpaceAssumption, CallIsPair DEF SentOK, Init, Number
<1>4. BoxOK
  BY DEF BoxOK, Init
<1>5. WaitsOK
  BY CallIsPair DEF WaitsOK, Init
<1>6. MessagesOK /\ NoTwins
  BY <1>2 DEF MessagesOK, NoTwins
<1>7. ServedOK
  BY DEF ServedOK, Init
<1> QED
  BY <1>1, <1>3, <1>4, <1>5, <1>6, <1>7 DEF Inv, Good

LEMMA InvStep == Inv /\ [Next]_vars => Inv'
<1> SUFFICES ASSUME Inv, [Next]_vars PROVE Inv'
  OBVIOUS
<1>1. TypeOK' /\ SentOK' /\ BoxOK'
  BY TypeStep, SentStep, BoxStep DEF Inv
<1>2. ASSUME CountersAreUnique' PROVE Good'
  <2>1. CountersAreUnique
    BY <1>2, UniqueBefore DEF Inv
  <2>2. Before
    BY <2>1 DEF Inv, Before
  <2>3. ASSUME NEW p \in Peers, SendRequest(p) PROVE Good'
    BY <1>2, <2>2, <2>3, GoodSend
  <2>4. ASSUME NEW p \in Peers, DataReceived(p) PROVE Good'
    BY <2>1, <2>2, <2>4, GoodReceive
  <2>5. ASSUME NEW p \in Peers, NEW n \in Number, Return(p, n) \/ Expire(p, n)
        PROVE  Good'
    BY <2>1, <2>2, <2>5, GoodEnd
  <2>6. CASE UNCHANGED vars
    <3>1. MessagesOK'
      <4> SUFFICES ASSUME NEW q \in Peers, NEW i \in 1..Len(channel'[q]),
                          NEW o, o = channel'[q][i]
                   PROVE  MessageOK(q, o)'
        BY DEF MessagesOK, MessageOK, Caller
      <4>1. MessageOK(q, o)
        BY <2>2, <2>6 DEF vars, Before, Good, MessagesOK
      <4> QED
        BY <2>6, <4>1 DEF vars, MessageOK, Caller
    <3>2. WaitsOK' /\ NoTwins' /\ ServedOK'
      BY <2>2, <2>6 DEF Before, vars, Good, WaitsOK, NoTwins, ServedOK, InFlight
    <3> QED
      BY <3>1, <3>2 DEF Good
  <2> QED
    BY <2>3, <2>4, <2>5, <2>6 DEF Next
<1> QED
  BY <1>1, <1>2 DEF Inv

LEMMA InvAlways == Spec => []Inv
<1> QED
  BY InvInit, InvStep, PTL DEF Spec

(* While no counter is drawn twice, send_request returns the response of   *)
(* its own request, whatever was late, expired or failed before.           *)
THEOREM AnswersAreOwnAlways == Spec => []AnswersAreOwn
<1>1. Inv => AnswersAreOwn
  BY DEF Inv, Good, ServedOK, AnswersAreOwn
<1> QED
  BY <1>1, InvAlways, PTL

(* While no counter is drawn twice, process_request sees every request     *)
(* that was sent once, also when its sender has given up waiting.          *)
THEOREM RequestsHandledOnceAlways == Spec => []RequestsAreHandledOnce
<1>1. ASSUME Inv, CountersAreUnique, NEW x \in Calls, InFlight(x)
      PROVE  handled[x] = 0
  <2>1. PICK q \in Peers : \E i \in 1..Len(channel[q]) :
            channel[q][i].kind = "request" /\ channel[q][i].call = x
    BY <1>1 DEF InFlight
  <2>2. PICK i \in 1..Len(channel[q]) :
            channel[q][i].kind = "request" /\ channel[q][i].call = x
    BY <2>1
  <2>3. MessageOK(q, channel[q][i])
    BY <1>1 DEF Inv, Good, MessagesOK
  <2> QED
    BY <2>2, <2>3 DEF MessageOK
<1>2. Inv => RequestsAreHandledOnce
  BY <1>1 DEF Inv, Good, ServedOK, RequestsAreHandledOnce
<1> QED
  BY <1>2, InvAlways, PTL
-----------------------------------------------------------------------------
(***************************************************************************)
(* The refinement of RemoteCalls.                                          *)
(***************************************************************************)
View(o) == CASE o = "new"      -> "new"
             [] o = "failed"   -> "refused"
             [] o = "answered" -> "answered"
             [] o = "expired"  -> "gave up"
             [] OTHER          -> "open"

LEMMA ViewIs ==
    ASSUME NEW x \in Calls
    PROVE  CallerView[x] = View(outcome[x])
  BY DEF CallerView, View

(* A step for one call turns what its caller sees and nothing else.        *)
LEMMA ViewTurns ==
    ASSUME TypeOK, NEW x \in Calls, NEW from, NEW to,
           \A y \in Calls \ {x} : outcome'[y] = outcome[y],
           View(outcome[x]) = from, View(outcome'[x]) = to
    PROVE  /\ CallerView[x] = from
           /\ CallerView' = [CallerView EXCEPT ![x] = to]
<1>1. CallerView[x] = from /\ DOMAIN CallerView = Calls
  BY ViewIs DEF CallerView
<1>2. \A y \in Calls : CallerView'[y] = IF y = x THEN to ELSE CallerView[y]
  BY DEF CallerView, View
<1>3. CallerView' = [y \in Calls |-> CallerView'[y]] /\ CallerView = [y \in Calls |-> CallerView[y]]
  BY DEF CallerView
<1> QED
  BY <1>1, <1>2, <1>3

LEMMA ViewStays ==
    ASSUME UNCHANGED outcome
    PROVE  CallerView' = CallerView
  BY DEF CallerView

LEMMA RemoteSend ==
    ASSUME Inv, NEW p \in Peers, SendRequest(p)
    PROVE  Remote!Next
<1> DEFINE n == Len(used[p]) + 1
           x == <<p, n>>
<1>1. /\ n \in Number /\ outcome'[x] \in {"waiting", "failed"}
      /\ \A y \in Calls \ {x} : outcome'[y] = outcome[y]
  BY Sending DEF Inv
<1>2. x \in Calls /\ outcome[x] = "new"
  <2>1. n > Len(used[p])
    BY LensAreNat DEF Inv
  <2> QED
    BY <1>1, <2>1, CallIsPair DEF Inv, SentOK
<1>3. UNCHANGED handled
  BY DEF SendRequest
<1> HIDE DEF x
<1>4. View(outcome[x]) = "new" /\ View("waiting") = "open" /\ View("failed") = "refused"
  BY <1>2 DEF View
<1>5. /\ CallerView[x] = "new"
      /\ \/ CallerView' = [CallerView EXCEPT ![x] = "open"]
         \/ CallerView' = [CallerView EXCEPT ![x] = "refused"]
  BY <1>1, <1>2, <1>4, ViewTurns DEF Inv
<1> QED
  BY <1>2, <1>3, <1>5 DEF Remote!Next, Remote!Open, Remote!Refuse, Remote!Turn

(* What is dispatched is the request of a caller that waits or gave up;    *)
(* what is written wakes a caller and shows nothing yet.                   *)
LEMMA RemoteReceive ==
    ASSUME Inv, CountersAreUnique, NEW p \in Peers, DataReceived(p)
    PROVE  Remote!Next \/ UNCHANGED <<CallerView, handled>>
<1>0. Before
  BY DEF Inv, Before
<1>m. PICK m : m = Head(channel[p])
  OBVIOUS
<1>1. m \in Message /\ MessageOK(p, m)
  <2>1. m \in Message /\ m = channel[p][1] /\ 1 \in 1..Len(channel[p])
    <3>1. m \in Message /\ m = channel[p][1] /\ Len(channel[p]) >= 1
      BY <1>m, Receiving DEF Inv
    <3> QED
      BY <3>1, LensAreNat DEF Inv
  <2> QED
    BY <1>0, <2>1 DEF Before, Good, MessagesOK
<1>2. /\ m.kind = "response" => box[p][m.counter] # Free
      /\ m.call \in Calls
  <2>1. m.call \in Calls
    <3>1. PICK k \in 1..Len(used[Caller(p, m)]) : m.call = <<Caller(p, m), k>>
      BY <1>1 DEF MessageOK
    <3>2. Caller(p, m) \in Peers
      BY CallerIsPeer
    <3>3. Len(used[Caller(p, m)]) <= MaxRequests /\ Len(used[Caller(p, m)]) \in Nat
      BY <3>2, LensAreNat DEF Inv, SentOK
    <3> QED
      BY <3>1, <3>2, <3>3, SpaceAssumption, CallIsPair DEF Number
  <2> QED
    BY <1>0, <1>1, <2>1, KindDecidesEntry
<1>3. CASE /\ box[p][m.counter] = Expired /\ UNCHANGED <<outcome, reply, handled>>
  BY <1>3, ViewStays
<1>4. CASE box[p][m.counter] \in Number /\ Write(<<p, box[p][m.counter]>>, m) /\ UNCHANGED <<box, handled>>
  <2> DEFINE x == <<p, box[p][m.counter]>>
  <2>1. x \in Calls /\ outcome' = [outcome EXCEPT ![x] = IF @ = "waiting" THEN "written" ELSE @]
    BY <1>4, CallIsPair DEF Write
  <2> HIDE DEF x
  <2>2. \A y \in Calls : View(outcome'[y]) = View(outcome[y])
    BY <2>1 DEF Inv, TypeOK, View
  <2>3. CallerView' = CallerView
    BY <2>2 DEF CallerView, View
  <2> QED
    BY <1>4, <2>3
<1>5. CASE /\ box[p][m.counter] = Free
           /\ Dispatch(p, m, [channel EXCEPT ![p] = Tail(@)])
           /\ UNCHANGED <<box, outcome, reply>>
  <2>1. m.kind = "request"
    BY <1>1, <1>2, <1>5 DEF Message
  <2>2. handled' = [handled EXCEPT ![m.call] = @ + 1] /\ handled[m.call] = 0
    BY <1>1, <1>5, <2>1 DEF Dispatch, MessageOK
  <2>3. handled' = [handled EXCEPT ![m.call] = 1]
    BY <2>2
  <2>4. CallerView[m.call] \in {"open", "gave up"} /\ CallerView' = CallerView
    <3>1. outcome[m.call] \in {"waiting", "expired"}
      BY <1>1 DEF MessageOK
    <3> QED
      BY <1>2, <1>5, <3>1, ViewIs, ViewStays DEF View
  <2> QED
    BY <1>2, <2>2, <2>3, <2>4 DEF Remote!Next, Remote!Serve
<1> QED
  BY <1>3, <1>4, <1>5, <1>m DEF DataReceived

LEMMA RemoteEnd ==
    ASSUME Inv, CountersAreUnique, NEW p \in Peers, NEW n \in Number,
           Return(p, n) \/ Expire(p, n)
    PROVE  Remote!Next
<1> DEFINE x == <<p, n>>
<1>1. x \in Calls /\ outcome[x] \in {"waiting", "written"} /\ UNCHANGED handled
  BY CallIsPair DEF Return, Expire
<1>2. box[p][used[p][n]] = n /\ n # Free
  BY <1>1 DEF Inv, Good, WaitsOK, Number, Free
<1>3. /\ \A y \in Calls \ {x} : outcome'[y] = outcome[y]
      /\ \/ outcome'[x] = "expired"
         \/ outcome'[x] = "answered" /\ outcome[x] = "written"
  BY <1>1, <1>2 DEF Return, Expire, Inv, TypeOK
<1> HIDE DEF x
<1>4. View(outcome[x]) = "open" /\ View("expired") = "gave up" /\ View("answered") = "answered"
  BY <1>1 DEF View
<1>5. outcome[x] = "written" => handled[x] = 1
  BY <1>1 DEF Inv, Good, ServedOK
<1>6. /\ CallerView[x] = "open"
      /\ \/ CallerView' = [CallerView EXCEPT ![x] = "gave up"]
         \/ CallerView' = [CallerView EXCEPT ![x] = "answered"] /\ handled[x] = 1
  BY <1>1, <1>3, <1>4, <1>5, ViewTurns DEF Inv
<1> QED
  BY <1>1, <1>6 DEF Remote!Next, Remote!GiveUp, Remote!Answer, Remote!Turn

LEMMA RemoteStep == Inv /\ [Next]_vars => [CountersAreUnique' => Remote!Next]_(Remote!vars)
<1> SUFFICES ASSUME Inv, [Next]_vars, CountersAreUnique'
             PROVE  Remote!Next \/ UNCHANGED <<CallerView, handled>>
  BY DEF Remote!vars
<1>1. CountersAreUnique
  BY UniqueBefore DEF Inv
<1>2. CASE UNCHANGED vars
  BY <1>2, ViewStays DEF vars
<1>3. CASE Next
  BY <1>1, <1>3, RemoteSend, RemoteReceive, RemoteEnd DEF Next
<1> QED
  BY <1>2, <1>3

(* A connection is RemoteCalls until a counter is drawn twice: served once,*)
(* answered only when served, whatever expires, fails or comes late.       *)
THEOREM ConnectionIsRemoteCalls == Spec => ImplementsRemoteCalls
<1>1. Init => Remote!Init
  BY DEF Init, Remote!Init, CallerView
<1> QED
  BY <1>1, RemoteStep, InvAlways, PTL DEF Spec, ImplementsRemoteCalls

-----------------------------------------------------------------------------
(***************************************************************************)
(* No response is dispatched, even when the two peers have drawn the same  *)
(* counter: as long as each draws a counter once, which it does for Space  *)
(* requests of a connection.                                               *)
(***************************************************************************)
OwnUnique ==
    \A p \in Peers : \A i, j \in 1..Len(used[p]) : used[p][i] = used[p][j] => i = j

(* How far back a counter was drawn, without the modulus.                  *)
Numbered ==
    \A p \in Peers : \A i \in 1..Len(used[p]) :
        used[p][i] + (Len(used[p]) - i) \in {counter[p], counter[p] + Space}

LEMMA NextCounterIs ==
    ASSUME TypeOK, NEW p \in Peers
    PROVE  NextCounter(p) = IF counter[p] + 1 = Space THEN 0 ELSE counter[p] + 1
<1>1. counter[p] \in 0..(Space - 1) /\ Space \in Nat \ {0}
  BY SpaceAssumption DEF TypeOK, Counters
<1>2. ASSUME NEW x \in 0..(Space - 1)
      PROVE  (x + 1) % Space = IF x + 1 = Space THEN 0 ELSE x + 1
  BY <1>1
<1> QED
  BY <1>1, <1>2 DEF NextCounter

LEMMA NumberedStep ==
    ASSUME MaxRequests <= Space, TypeOK, SentOK, SentOK', Numbered, [Next]_vars
    PROVE  Numbered'
<1>1. ASSUME NEW p \in Peers, SendRequest(p), NEW q \in Peers, NEW i \in 1..Len(used'[q])
      PROVE  used'[q][i] + (Len(used'[q]) - i) \in {counter'[q], counter'[q] + Space}
  <2>1. CASE q # p
    <3>1. used'[q] = used[q] /\ counter'[q] = counter[q]
      BY <1>1, <2>1 DEF SendRequest, TypeOK
    <3> QED
      BY <1>1, <3>1 DEF Numbered
  <2>2. CASE q = p
    <3> DEFINE n == Len(used[p]) + 1
    <3>1. /\ Len(used'[p]) = n /\ used'[p][n] = NextCounter(p)
          /\ \A j \in 1..Len(used[p]) : used'[p][j] = used[p][j]
      BY <1>1, Sending
    <3>2. counter'[p] = NextCounter(p) /\ counter[p] \in 0..(Space - 1) /\ Space \in Nat \ {0}
      BY <1>1, SpaceAssumption DEF SendRequest, TypeOK, Counters
    <3>3. Len(used[p]) \in Nat /\ n <= MaxRequests /\ MaxRequests \in Nat
      BY <3>1, LensAreNat, SpaceAssumption DEF SentOK
    <3>4. CASE i = n
      BY <2>2, <3>1, <3>2, <3>3, <3>4, NextCounterIs
    <3>5. CASE i # n
      <4> DEFINE u == used[p][i]
                 far == Len(used[p]) - i
      <4>1. i \in 1..Len(used[p])
        BY <1>1, <2>2, <3>1, <3>3, <3>5
      <4>2. u \in 0..(Space - 1)
        <5>1. used[p] \in Seq(Counters)
          BY DEF TypeOK
        <5>2. used[p][i] \in Counters
          BY <4>1, <5>1
        <5> QED
          BY <5>2 DEF Counters
      <4>3. u + far \in {counter[p], counter[p] + Space}
        BY <4>1 DEF Numbered
      <4>4. used'[p][i] = u /\ Len(used'[p]) - i = far + 1 /\ far \in Nat /\ far + 1 < Space
        BY <3>1, <3>3, <4>1, <3>2
      <4> HIDE DEF u, far
      <4>5. CASE counter[p] + 1 = Space
        <5>1. NextCounter(p) = 0
          BY <4>5, NextCounterIs
        <5>2. u + far = counter[p]
          BY <3>2, <4>2, <4>3, <4>4, <4>5
        <5>3. u + (far + 1) = 0 + Space
          BY <3>2, <4>2, <4>4, <4>5, <5>2
        <5> QED
          BY <2>2, <3>2, <4>4, <5>1, <5>3
      <4>6. CASE counter[p] + 1 # Space
        <5>1. NextCounter(p) = counter[p] + 1
          BY <4>6, NextCounterIs
        <5>2. u + (far + 1) \in {counter[p] + 1, counter[p] + 1 + Space}
          BY <3>2, <4>2, <4>3, <4>4
        <5> QED
          BY <2>2, <3>2, <4>4, <5>1, <5>2
      <4> QED
        BY <4>5, <4>6
    <3> QED
      BY <3>4, <3>5
  <2> QED
    BY <2>1, <2>2
<1>2. CASE UNCHANGED <<used, counter>>
  BY <1>2 DEF Numbered
<1> QED
  BY <1>1, <1>2 DEF Numbered, Next, vars, DataReceived, Return, Expire

LEMMA OwnCounters ==
    ASSUME MaxRequests <= Space, TypeOK, SentOK, Numbered
    PROVE  OwnUnique
<1> SUFFICES ASSUME NEW p \in Peers, NEW i \in 1..Len(used[p]), NEW j \in 1..Len(used[p]),
                    used[p][i] = used[p][j]
             PROVE  i = j
  BY DEF OwnUnique
<1>1. /\ Len(used[p]) \in Nat /\ Len(used[p]) <= MaxRequests
      /\ MaxRequests \in Nat /\ Space \in Nat \ {0}
      /\ used[p][i] \in 0..(Space - 1) /\ counter[p] \in 0..(Space - 1)
  BY LensAreNat, SpaceAssumption DEF SentOK, TypeOK, Counters
<1>2. /\ used[p][i] + (Len(used[p]) - i) \in {counter[p], counter[p] + Space}
      /\ used[p][j] + (Len(used[p]) - j) \in {counter[p], counter[p] + Space}
  BY DEF Numbered
<1> DEFINE u == used[p][i]
           l == Len(used[p])
           c == counter[p]
<1>3. /\ l \in Nat /\ l <= Space /\ u \in Nat /\ c \in Nat /\ Space \in Nat
      /\ i \in 1..l /\ j \in 1..l
  BY <1>1
<1>4. /\ u + (l - i) = c \/ u + (l - i) = c + Space
      /\ u + (l - j) = c \/ u + (l - j) = c + Space
  BY <1>2
<1> HIDE DEF u, l, c
<1>5. i - j # Space /\ j - i # Space
  BY <1>3
<1> QED
  BY <1>3, <1>4, <1>5

-----------------------------------------------------------------------------
Says(ch, q, i, kind, c) == ch[q][i].kind = kind /\ ch[q][i].counter = c

(* The request of p with the counter c is on its way, or a response under  *)
(* it; p has an entry that nothing has come for.                           *)
Req(ch, p, c) == \E i \in 1..Len(ch[Other(p)]) : Says(ch, Other(p), i, "request", c)
Res(ch, p, c) == \E i \in 1..Len(ch[p]) : Says(ch, p, i, "response", c)
Drawn(p, c) == \E n \in 1..Len(used[p]) : used[p][n] = c
Touched(p, c) ==
    \/ box[p][c] = Free
    \/ \E n \in 1..Len(used[p]) : used[p][n] = c /\ outcome[<<p, n>>] = "written"

Single(ch) ==
    \A q \in Peers : \A i, j \in 1..Len(ch[q]) :
        Says(ch, q, j, ch[q][i].kind, ch[q][i].counter) => i = j

(* A peer answers a request only when it has none with the same counter on *)
(* its own way there, and channels keep the order.                         *)
Fifo(ch) ==
    \A q \in Peers : \A i, j \in 1..Len(ch[q]) :
        /\ i < j
        /\ ch[q][i].kind = "request"
        /\ ch[q][j].kind = "response"
        => ch[q][i].counter # ch[q][j].counter

(* When the requests of both peers cross under one counter, each is taken  *)
(* for the response to the other, and neither is answered.                 *)
CrossOK(p, c) ==
    /\ ~(Req(channel, p, c) /\ Res(channel, p, c))
    /\ Req(channel, p, c) \/ Res(channel, p, c) => Drawn(p, c)
    /\ Res(channel, p, c) => ~Touched(p, c)
    /\ Req(channel, p, c) /\ Touched(p, c) =>
          /\ ~Touched(Other(p), c)
          /\ ~Req(channel, Other(p), c)
          /\ ~Res(channel, Other(p), c)

Cross == \A p \in Peers, c \in Counters : CrossOK(p, c)

Silent == WaitsOK /\ Single(channel) /\ Fifo(channel) /\ Cross

Channels == [Peers -> Seq(Message)]

(* What is left when the first message is taken.                           *)
LEMMA Taken ==
    ASSUME TypeOK, Single(channel), Fifo(channel), NEW p \in Peers, channel[p] # <<>>,
           NEW rest, rest = Remains(p),
           NEW m, m = channel[p][1]
    PROVE  /\ rest \in Channels /\ Single(rest) /\ Fifo(rest)
           /\ \A r \in Peers, c \in Counters :
                 /\ Req(rest, r, c) => Req(channel, r, c)
                 /\ Res(rest, r, c) => Res(channel, r, c)
           /\ m.kind = "request" => /\ Req(channel, Other(p), m.counter)
                                    /\ ~Req(rest, Other(p), m.counter)
                                    /\ ~Res(channel, p, m.counter)
           /\ m.kind = "response" => /\ Res(channel, p, m.counter)
                                     /\ ~Res(rest, p, m.counter)
<1> DEFINE q == Other(p)
<1>0. q \in Peers /\ q # p /\ Other(q) = p /\ Peers = {p, q}
  BY OtherPeer DEF Peers, Other
<1>1. /\ rest \in Channels
      /\ rest[q] = channel[q]
      /\ Len(rest[p]) = Len(channel[p]) - 1
      /\ Len(channel[p]) \in Nat \ {0}
      /\ \A i \in 1..Len(rest[p]) :
            i + 1 \in 1..Len(channel[p]) /\ rest[p][i] = channel[p][i + 1]
  BY RestIs DEF Channels, Remains
<1> HIDE DEF q
<1>2. Single(rest)
  <2> SUFFICES ASSUME NEW r \in Peers, NEW i \in 1..Len(rest[r]), NEW j \in 1..Len(rest[r]),
                      Says(rest, r, j, rest[r][i].kind, rest[r][i].counter)
               PROVE  i = j
    BY DEF Single
  <2>1. CASE r = q
    <3>1. rest[r] = channel[r]
      BY <1>1, <2>1
    <3>2. Says(channel, r, j, channel[r][i].kind, channel[r][i].counter)
      BY <3>1 DEF Says
    <3> QED
      BY <3>1, <3>2 DEF Single
  <2>2. CASE r = p
    <3>1. i + 1 \in 1..Len(channel[p]) /\ j + 1 \in 1..Len(channel[p])
      BY <1>1, <2>2
    <3>2. rest[p][i] = channel[p][i + 1] /\ rest[p][j] = channel[p][j + 1]
      BY <1>1, <2>2
    <3>3. Says(channel, p, j + 1, channel[p][i + 1].kind, channel[p][i + 1].counter)
      BY <2>2, <3>2 DEF Says
    <3>4. i + 1 = j + 1
      BY <3>1, <3>3 DEF Single
    <3>5. i \in Int /\ j \in Int
      OBVIOUS
    <3> QED
      BY <3>4, <3>5
  <2> QED
    BY <1>0, <2>1, <2>2
<1>3. Fifo(rest)
  <2> SUFFICES ASSUME NEW r \in Peers, NEW i \in 1..Len(rest[r]), NEW j \in 1..Len(rest[r]),
                      i < j, rest[r][i].kind = "request", rest[r][j].kind = "response"
               PROVE  rest[r][i].counter # rest[r][j].counter
    BY DEF Fifo
  <2>1. CASE r = q
    BY <1>0, <1>1, <2>1 DEF Fifo
  <2>2. CASE r = p
    <3>1. /\ i + 1 \in 1..Len(channel[p]) /\ rest[p][i] = channel[p][i + 1]
          /\ j + 1 \in 1..Len(channel[p]) /\ rest[p][j] = channel[p][j + 1]
      BY <1>1, <2>2
    <3>2. i + 1 < j + 1
      OBVIOUS
    <3> QED
      BY <2>2, <3>1, <3>2 DEF Fifo
  <2> QED
    BY <1>0, <2>1, <2>2
<1>4. ASSUME NEW r \in Peers, NEW c \in Counters
      PROVE  /\ Req(rest, r, c) => Req(channel, r, c)
             /\ Res(rest, r, c) => Res(channel, r, c)
  <2>1. ASSUME NEW t \in Peers, NEW kind, NEW i \in 1..Len(rest[t]), Says(rest, t, i, kind, c)
        PROVE  \E j \in 1..Len(channel[t]) : Says(channel, t, j, kind, c)
    <3>1. CASE t = q
      BY <1>0, <1>1, <2>1, <3>1 DEF Says
    <3>2. CASE t = p
      <4>1. i + 1 \in 1..Len(channel[p]) /\ rest[p][i] = channel[p][i + 1]
        BY <1>1, <3>2
      <4>2. Says(channel, p, i + 1, kind, c)
        BY <2>1, <3>2, <4>1 DEF Says
      <4> QED
        BY <3>2, <4>1, <4>2
    <3> QED
      BY <1>0, <3>1, <3>2
  <2> QED
    BY <2>1, OtherPeer DEF Req, Res
<1>5. 1 \in 1..Len(channel[p])
  BY <1>1
<1>6. \A i \in 1..Len(rest[p]) :
          i + 1 # 1 /\ 1 < i + 1 /\ i + 1 \in 1..Len(channel[p]) /\ rest[p][i] = channel[p][i + 1]
  BY <1>1
<1>7. ASSUME m.kind = "request"
      PROVE  /\ Req(channel, q, m.counter)
             /\ ~Req(rest, q, m.counter)
             /\ ~Res(channel, p, m.counter)
  <2>1. Req(channel, q, m.counter)
    BY <1>0, <1>5, <1>7 DEF Req, Says
  <2>2. ASSUME NEW i \in 1..Len(rest[p]), Says(rest, p, i, "request", m.counter)
        PROVE  FALSE
    <3>1. i + 1 \in 1..Len(channel[p]) /\ i + 1 # 1 /\ rest[p][i] = channel[p][i + 1]
      BY <1>6
    <3>2. Says(channel, p, i + 1, channel[p][1].kind, channel[p][1].counter)
      BY <1>7, <2>2, <3>1 DEF Says
    <3> QED
      BY <1>5, <3>1, <3>2 DEF Single
  <2>3. ASSUME NEW j \in 1..Len(channel[p]), Says(channel, p, j, "response", m.counter)
        PROVE  FALSE
    <3>1. j # 1
      BY <1>7, <2>3 DEF Says
    <3>2. 1 < j
      BY <1>1, <3>1
    <3> QED
      BY <1>5, <1>7, <2>3, <3>2 DEF Says, Fifo
  <2> QED
    BY <1>0, <2>1, <2>2, <2>3 DEF Req, Res
<1>8. ASSUME m.kind = "response"
      PROVE  Res(channel, p, m.counter) /\ ~Res(rest, p, m.counter)
  <2>1. Res(channel, p, m.counter)
    BY <1>5, <1>8 DEF Res, Says
  <2>2. ASSUME NEW i \in 1..Len(rest[p]), Says(rest, p, i, "response", m.counter)
        PROVE  FALSE
    <3>1. i + 1 \in 1..Len(channel[p]) /\ i + 1 # 1 /\ rest[p][i] = channel[p][i + 1]
      BY <1>6
    <3>2. Says(channel, p, i + 1, channel[p][1].kind, channel[p][1].counter)
      BY <1>8, <2>2, <3>1 DEF Says
    <3> QED
      BY <1>5, <3>1, <3>2 DEF Single
  <2> QED
    BY <2>1, <2>2 DEF Res
<1> QED
  BY <1>1, <1>2, <1>3, <1>4, <1>7, <1>8 DEF q

(* What is there when a message is sent to q.                              *)
Sent(ch, q, m) == [ch EXCEPT ![q] = Append(@, m)]

LEMMA Pushed ==
    ASSUME NEW ch \in Channels, Single(ch), Fifo(ch), NEW q \in Peers, NEW m \in Message,
           NEW new, new = Sent(ch, q, m),
           m.kind = "request" => ~Req(ch, Other(q), m.counter),
           m.kind = "response" => ~Res(ch, q, m.counter) /\ ~Req(ch, Other(q), m.counter)
    PROVE  /\ Single(new) /\ Fifo(new)
           /\ \A r \in Peers, c \in Counters :
                 /\ Req(new, r, c) => \/ Req(ch, r, c)
                                      \/ m.kind = "request" /\ q = Other(r) /\ c = m.counter
                 /\ Res(new, r, c) => \/ Res(ch, r, c)
                                      \/ m.kind = "response" /\ q = r /\ c = m.counter
<1> DEFINE n == Len(ch[q]) + 1
<1>1. /\ \A r \in Peers \ {q} : new[r] = ch[r]
      /\ Len(ch[q]) \in Nat
      /\ Len(new[q]) = n
      /\ new[q][n] = m
      /\ \A i \in 1..Len(ch[q]) : new[q][i] = ch[q][i]
  BY PushIs DEF Channels, Sent
<1>2. \A i \in 1..Len(new[q]) : i = n \/ (i \in 1..Len(ch[q]) /\ i < n)
  BY <1>1
<1>3. \A i \in 1..Len(ch[q]) : ~Says(ch, q, i, m.kind, m.counter)
  BY OtherPeer DEF Req, Res, Says, Message
<1>4. m.kind = "response" => \A i \in 1..Len(ch[q]) : ~Says(ch, q, i, "request", m.counter)
  BY OtherPeer DEF Req
<1>m. m.kind \in {"request", "response"}
  BY DEF Message
<1> HIDE DEF n
<1>5. Single(new)
  <2> SUFFICES ASSUME NEW r \in Peers, NEW i \in 1..Len(new[r]), NEW j \in 1..Len(new[r]),
                      Says(new, r, j, new[r][i].kind, new[r][i].counter)
               PROVE  i = j
    BY DEF Single
  <2>1. CASE r # q
    BY <1>1, <2>1 DEF Single, Says
  <2>2. CASE r = q
    BY <1>1, <1>2, <1>3, <2>2 DEF Single, Says
  <2> QED
    BY <2>1, <2>2
<1>6. Fifo(new)
  <2> SUFFICES ASSUME NEW r \in Peers, NEW i \in 1..Len(new[r]), NEW j \in 1..Len(new[r]),
                      i < j, new[r][i].kind = "request", new[r][j].kind = "response"
               PROVE  new[r][i].counter # new[r][j].counter
    BY DEF Fifo
  <2>1. CASE r # q
    BY <1>1, <2>1 DEF Fifo
  <2>2. CASE r = q
    <3>1. i # n
      BY <1>1, <1>2, <2>2
    <3>2. i \in 1..Len(ch[q]) /\ new[q][i] = ch[q][i]
      BY <1>1, <1>2, <2>2, <3>1
    <3>3. CASE j = n
      BY <1>1, <1>4, <2>2, <3>2, <3>3 DEF Says
    <3>4. CASE j # n
      <4>1. j \in 1..Len(ch[q]) /\ new[q][j] = ch[q][j]
        BY <1>1, <1>2, <2>2, <3>4
      <4> QED
        BY <2>2, <3>2, <4>1 DEF Fifo
    <3> QED
      BY <3>3, <3>4
  <2> QED
    BY <2>1, <2>2
<1>7. ASSUME NEW r \in Peers, NEW c \in Counters, NEW kind,
             NEW i \in 1..Len(new[r]), Says(new, r, i, kind, c)
      PROVE  \/ i \in 1..Len(ch[r]) /\ Says(ch, r, i, kind, c)
             \/ r = q /\ kind = m.kind /\ c = m.counter
  BY <1>1, <1>2, <1>7 DEF Says
<1>8. ASSUME NEW r \in Peers, NEW c \in Counters
      PROVE  /\ Req(new, r, c) => \/ Req(ch, r, c)
                                  \/ m.kind = "request" /\ q = Other(r) /\ c = m.counter
             /\ Res(new, r, c) => \/ Res(ch, r, c)
                                  \/ m.kind = "response" /\ q = r /\ c = m.counter
  BY <1>7, OtherPeer DEF Req, Res
<1> QED
  BY <1>5, <1>6, <1>8

LEMMA CrossKept ==
    ASSUME NEW r \in Peers, NEW d \in Counters, CrossOK(r, d),
           \A t \in Peers : /\ Req(channel', t, d) => Req(channel, t, d)
                            /\ Res(channel', t, d) => Res(channel, t, d)
                            /\ Touched(t, d)' => Touched(t, d),
           Drawn(r, d) => Drawn(r, d)'
    PROVE  CrossOK(r, d)'
  BY OtherPeer DEF CrossOK

LEMMA SilentSend ==
    ASSUME TypeOK, SentOK, BoxOK, Silent, OwnUnique', NEW p \in Peers, SendRequest(p),
           NEW n, n = Len(used[p]) + 1, NEW c, c = NextCounter(p)
    PROVE  Silent'
<1> DEFINE q == Other(p)
<1>1. /\ n \in Number
      /\ c \in Counters
      /\ Len(used'[p]) = n
      /\ used'[p][n] = c
      /\ \A i \in 1..Len(used[p]) : used'[p][i] = used[p][i]
      /\ \A r \in Peers \ {p} : used'[r] = used[r]
      /\ box'[p][c] = n
      /\ \A r \in Peers, d \in Counters : r # p \/ d # c => box'[r][d] = box[r][d]
      /\ outcome'[<<p, n>>] \in {"waiting", "failed"}
      /\ \A x \in Calls \ {<<p, n>>} : outcome'[x] = outcome[x]
  BY Sending
<1>2. \A r \in Peers : Len(used[r]) \in Nat /\ Len(used[r]) <= MaxRequests
  BY LensAreNat DEF SentOK
<1>3. q \in Peers /\ q # p /\ Other(q) = p /\ Peers = {p, q}
  BY OtherPeer DEF Peers, Other
<1>4. n \in 1..Len(used'[p])
  BY <1>1, <1>2
<1>5. \A i \in 1..Len(used[p]) : i \in 1..Len(used'[p]) /\ i # n
  BY <1>1, <1>2
<1>6. \A i \in 1..Len(used'[p]) : i = n \/ i \in 1..Len(used[p])
  BY <1>1, <1>2
<1>c. channel' \in {channel, [channel EXCEPT ![q] = Append(@, Msg(c, "request", <<p, n>>))]}
  BY DEF SendRequest, Push
<1> HIDE DEF q
<1>7. ~Drawn(p, c)
  BY <1>1, <1>4, <1>5 DEF Drawn, OwnUnique
<1>8. box[p][c] = Free
  BY <1>1, <1>7 DEF BoxOK, Drawn
<1>9. ~Req(channel, p, c) /\ ~Res(channel, p, c)
  BY <1>1, <1>7 DEF Silent, Cross, CrossOK
<1>10. Single(channel') /\ Fifo(channel')
       /\ \A r \in Peers, d \in Counters :
             /\ Req(channel', r, d) => Req(channel, r, d) \/ (r = p /\ d = c)
             /\ Res(channel', r, d) => Res(channel, r, d)
  <2>1. CASE channel' = channel
    BY <2>1 DEF Silent
  <2>2. CASE channel' = [channel EXCEPT ![q] = Append(@, Msg(c, "request", <<p, n>>))]
    <3> DEFINE m == Msg(c, "request", <<p, n>>)
    <3>1. m \in Message /\ m.kind = "request" /\ m.counter = c
      BY <1>1, CallIsPair DEF Msg, Message
    <3> HIDE DEF m
    <3>2. channel \in Channels
      BY DEF TypeOK, Channels
    <3>3. channel' = Sent(channel, q, m)
      BY <2>2 DEF m, Sent
    <3>5. /\ m.kind = "request" => ~Req(channel, Other(q), m.counter)
          /\ m.kind = "response" => /\ ~Res(channel, q, m.counter)
                                    /\ ~Req(channel, Other(q), m.counter)
      BY <1>3, <1>9, <3>1
    <3>6. Single(channel) /\ Fifo(channel)
      BY DEF Silent
    <3>4. /\ Single(channel') /\ Fifo(channel')
          /\ \A r \in Peers, d \in Counters :
                /\ Req(channel', r, d) => \/ Req(channel, r, d)
                                          \/ m.kind = "request" /\ q = Other(r) /\ d = m.counter
                /\ Res(channel', r, d) => \/ Res(channel, r, d)
                                          \/ m.kind = "response" /\ q = r /\ d = m.counter
      BY <1>3, <3>1, <3>2, <3>3, <3>5, <3>6, Pushed
    <3> QED
      BY <1>3, <3>1, <3>4, OtherPeer
  <2> QED
    BY <1>c, <2>1, <2>2
<1>11. ASSUME NEW r \in Peers, NEW k \in 1..Len(used[r])
       PROVE  /\ outcome'[<<r, k>>] = outcome[<<r, k>>]
              /\ used'[r][k] = used[r][k]
              /\ k \in 1..Len(used'[r])
  <2>1. k \in Number
    BY <1>2, SpaceAssumption DEF Number
  <2>2. <<r, k>> \in Calls \ {<<p, n>>}
    BY <1>5, <2>1, CallIsPair
  <2> QED
    BY <1>1, <1>5, <2>2
<1>12. \A r \in Peers, d \in Counters : Drawn(r, d) => Drawn(r, d)'
  BY <1>11 DEF Drawn
<1>13. Drawn(p, c)'
  BY <1>1, <1>4 DEF Drawn
<1>14. ASSUME NEW r \in Peers, NEW d \in Counters, Touched(r, d)'
       PROVE  Touched(r, d) /\ (r # p \/ d # c)
  <2>1. CASE r = p /\ d = c
    <3>1. n # Free
      BY <1>1 DEF Number, Free
    <3>2. PICK k \in 1..Len(used'[p]) : used'[p][k] = c /\ outcome'[<<p, k>>] = "written"
      BY <1>1, <1>14, <2>1, <3>1 DEF Touched
    <3>3. k = n
      BY <1>1, <1>4, <3>2 DEF OwnUnique
    <3> QED
      BY <1>1, <3>2, <3>3
  <2>2. CASE r # p \/ d # c
    <3>1. box'[r][d] = box[r][d]
      BY <1>1, <2>2
    <3>2. CASE box[r][d] = Free
      BY <2>2, <3>2 DEF Touched
    <3>3. CASE box[r][d] # Free
      <4>1. PICK k \in 1..Len(used'[r]) : used'[r][k] = d /\ outcome'[<<r, k>>] = "written"
        BY <1>14, <3>1, <3>3 DEF Touched
      <4>2. k \in 1..Len(used[r])
        BY <1>1, <1>6, <2>2, <4>1
      <4> QED
        BY <1>11, <2>2, <4>1, <4>2 DEF Touched
    <3> QED
      BY <3>2, <3>3
  <2> QED
    BY <2>1, <2>2
<1>15. ASSUME NEW r \in Peers, NEW d \in Counters PROVE CrossOK(r, d)'
  <2>1. CrossOK(r, d) /\ CrossOK(p, c) /\ CrossOK(q, c)
    BY <1>1, <1>3 DEF Silent, Cross
  <2>2. CASE d # c
    BY <1>10, <1>12, <1>14, <2>1, <2>2, CrossKept
  <2>3. CASE r = p /\ d = c
    BY <1>1, <1>9, <1>10, <1>13, <1>14, <2>3 DEF CrossOK
  <2>4. CASE r = q /\ d = c
    <3>1. Touched(p, c)
      BY <1>8 DEF Touched
    <3>2. ~(Req(channel, q, c) /\ Touched(q, c))
      BY <1>3, <2>1, <3>1 DEF CrossOK
    <3> QED
      BY <1>1, <1>3, <1>10, <1>12, <1>14, <2>1, <2>4, <3>2 DEF CrossOK
  <2> QED
    BY <1>3, <2>2, <2>3, <2>4
<1>16. WaitsOK'
  <2> SUFFICES ASSUME NEW r \in Peers, NEW k \in Number,
                      outcome'[<<r, k>>] \in {"waiting", "written"}
               PROVE  box'[r][used'[r][k]] = k
    BY DEF WaitsOK
  <2>1. CASE r = p /\ k = n
    BY <1>1, <2>1
  <2>2. CASE r # p \/ k # n
    <3>1. <<r, k>> \in Calls \ {<<p, n>>}
      BY <2>2, CallIsPair
    <3>2. outcome[<<r, k>>] \in {"waiting", "written"}
      BY <1>1, <3>1
    <3>3. k \in 1..Len(used[r])
      BY <1>2, <3>2 DEF SentOK, Number
    <3>4. used[r] \in Seq(Counters)
      BY DEF TypeOK
    <3>5. used[r][k] \in Counters
      BY <3>3, <3>4
    <3>6. r # p \/ used[r][k] # c
      BY <1>7, <3>3 DEF Drawn
    <3> QED
      BY <1>1, <1>11, <3>2, <3>3, <3>5, <3>6 DEF Silent, WaitsOK
  <2> QED
    BY <2>1, <2>2
<1> QED
  BY <1>10, <1>15, <1>16 DEF Silent, Cross

(* A message that finds an entry is taken for a response, be it one or not. *)
LEMMA CrossTaken ==
    ASSUME TypeOK, Silent, NEW p \in Peers, channel[p] # <<>>,
           channel' = Remains(p), UNCHANGED used,
           NEW m, m = channel[p][1], m.counter \in Counters,
           m.kind \in {"request", "response"},
           \A r \in Peers, d \in Counters :
              Touched(r, d)' => Touched(r, d) \/ (r = p /\ d = m.counter)
    PROVE  Single(channel') /\ Fifo(channel') /\ Cross'
<1> DEFINE q == Other(p)
<1>1. q \in Peers /\ q # p /\ Other(q) = p /\ Other(p) = q /\ Peers = {p, q}
  BY OtherPeer DEF Peers, Other
<1> HIDE DEF q
<1>2. Single(channel) /\ Fifo(channel)
  BY DEF Silent
<1>3. /\ Single(channel') /\ Fifo(channel')
      /\ \A r \in Peers, c \in Counters :
            /\ Req(channel', r, c) => Req(channel, r, c)
            /\ Res(channel', r, c) => Res(channel, r, c)
      /\ m.kind = "request" => /\ Req(channel, q, m.counter)
                               /\ ~Req(channel', q, m.counter)
                               /\ ~Res(channel, p, m.counter)
      /\ m.kind = "response" => /\ Res(channel, p, m.counter)
                                /\ ~Res(channel', p, m.counter)
  BY <1>1, <1>2, Taken
<1>4. \A r \in Peers, d \in Counters : Drawn(r, d) => Drawn(r, d)'
  BY DEF Drawn
<1>5. ASSUME NEW r \in Peers, NEW d \in Counters PROVE CrossOK(r, d)'
  <2>1. CrossOK(r, d) /\ CrossOK(p, d) /\ CrossOK(q, d)
    BY <1>1 DEF Silent, Cross
  <2>2. CASE d # m.counter
    BY <1>3, <1>4, <2>1, <2>2, CrossKept
  <2>3. CASE d = m.counter /\ m.kind = "response"
    <3>1. Res(channel, p, d) /\ ~Res(channel', p, d) /\ ~Req(channel, p, d)
      BY <1>3, <2>1, <2>3 DEF CrossOK
    <3>2. ~(Req(channel, q, d) /\ Touched(q, d))
      BY <1>1, <2>1, <3>1 DEF CrossOK
    <3> QED
      BY <1>1, <1>3, <1>4, <2>1, <3>1, <3>2 DEF CrossOK
  <2>4. CASE d = m.counter /\ m.kind = "request"
    <3>1. Req(channel, q, d) /\ ~Req(channel', q, d) /\ ~Res(channel, p, d)
      BY <1>3, <2>4
    <3>2. ~Res(channel, q, d)
      BY <2>1, <3>1 DEF CrossOK
    <3>3. Req(channel, p, d) => ~Touched(q, d)
      BY <1>1, <2>1, <3>1 DEF CrossOK
    <3> QED
      BY <1>1, <1>3, <1>4, <2>1, <3>1, <3>2, <3>3 DEF CrossOK
  <2> QED
    BY <2>2, <2>3, <2>4
<1> QED
  BY <1>3, <1>5 DEF Cross

(* A response finds an entry; a message that finds none is a request.      *)
LEMMA ResponseFindsEntry ==
    ASSUME TypeOK, Silent, NEW p \in Peers, channel[p] # <<>>,
           NEW m \in Message, m = channel[p][1], m.kind = "response"
    PROVE  box[p][m.counter] # Free
<1>1. m.counter \in Counters
  BY DEF Message
<1>2. Res(channel, p, m.counter)
  BY Taken DEF Silent
<1> QED
  BY <1>1, <1>2 DEF Silent, Cross, CrossOK, Touched

LEMMA SilentReceive ==
    ASSUME TypeOK, SentOK, BoxOK, Silent, NEW p \in Peers, DataReceived(p)
    PROVE  Silent'
<1> DEFINE q == Other(p)
<1>q. q \in Peers /\ q # p /\ Other(q) = p /\ Other(p) = q /\ Peers = {p, q}
  BY OtherPeer DEF Peers, Other
<1>1. PICK m : m = Head(channel[p])
  OBVIOUS
<1>2. /\ m \in Message /\ m = channel[p][1] /\ channel[p] # <<>>
      /\ m.counter \in Counters /\ m.kind \in {"request", "response"}
  <2>1. m \in Message /\ m = channel[p][1] /\ channel[p] # <<>>
    BY <1>1, Receiving DEF DataReceived
  <2> QED
    BY <2>1 DEF Message
<1>3. UNCHANGED used
  BY DEF DataReceived
<1>4. CASE box[p][m.counter] = Expired
  <2>1. channel' = Remains(p) /\ UNCHANGED outcome
    BY <1>1, <1>4 DEF DataReceived, Remains, Expired, Free, Number
  <2>2. \A r \in Peers, c \in Counters :
            box'[r][c] = IF r = p /\ c = m.counter THEN Free ELSE box[r][c]
    BY <1>1, <1>4, Receiving
  <2>3. \A r \in Peers, d \in Counters :
            Touched(r, d)' => Touched(r, d) \/ (r = p /\ d = m.counter)
    BY <1>3, <2>1, <2>2 DEF Touched
  <2>4. WaitsOK'
    <3> SUFFICES ASSUME NEW r \in Peers, NEW k \in Number,
                        outcome[<<r, k>>] \in {"waiting", "written"}
                 PROVE  box'[r][used[r][k]] = k
      BY <1>3, <2>1 DEF WaitsOK
    <3>1. box[r][used[r][k]] = k /\ k # Expired
      BY DEF Silent, WaitsOK, Number, Expired
    <3>2. used[r][k] \in Counters
      <4>1. k \in 1..Len(used[r])
        BY LensAreNat DEF SentOK, Number
      <4>2. used[r] \in Seq(Counters)
        BY DEF TypeOK
      <4> QED
        BY <4>1, <4>2
    <3> QED
      BY <1>4, <2>2, <3>1, <3>2
  <2> QED
    BY <1>2, <1>3, <2>1, <2>3, <2>4, CrossTaken DEF Silent
<1>5. CASE box[p][m.counter] \in Number
  <2>1. /\ channel' = Remains(p) /\ UNCHANGED box
        /\ outcome' = [outcome EXCEPT ![<<p, box[p][m.counter]>>] =
                          IF @ = "waiting" THEN "written" ELSE @]
    <3>1. box[p][m.counter] # Free /\ box[p][m.counter] # Expired
      BY <1>5 DEF Number, Free, Expired
    <3> QED
      BY <1>1, <3>1 DEF DataReceived, Write, Remains
  <2>2. PICK k \in 1..Len(used[p]) : used[p][k] = m.counter /\ box[p][m.counter] = k
    <3>1. box[p][m.counter] # Free /\ box[p][m.counter] # Expired
      BY <1>5 DEF Number, Free, Expired
    <3> QED
      BY <1>2, <3>1 DEF BoxOK
  <2>3. ASSUME NEW x \in Calls
        PROVE  \/ outcome'[x] = outcome[x]
               \/ x = <<p, k>> /\ outcome[x] = "waiting" /\ outcome'[x] = "written"
    BY <2>1, <2>2, <2>3 DEF TypeOK
  <2>4. ASSUME NEW r \in Peers, NEW d \in Counters, Touched(r, d)'
        PROVE  Touched(r, d) \/ (r = p /\ d = m.counter)
    <3>1. CASE box[r][d] = Free
      BY <3>1 DEF Touched
    <3>2. CASE box[r][d] # Free
      <4>1. PICK j \in 1..Len(used[r]) : used[r][j] = d /\ outcome'[<<r, j>>] = "written"
        BY <1>3, <2>1, <2>4, <3>2 DEF Touched
      <4>2. <<r, j>> \in Calls
        <5>1. Len(used[r]) \in Nat /\ Len(used[r]) <= MaxRequests
          BY LensAreNat DEF SentOK
        <5>2. j \in Number
          BY <5>1, SpaceAssumption DEF Number
        <5> QED
          BY <5>2, CallIsPair
      <4>3. CASE outcome'[<<r, j>>] = outcome[<<r, j>>]
        BY <4>1, <4>3 DEF Touched
      <4>4. CASE <<r, j>> = <<p, k>>
        BY <2>2, <4>1, <4>4
      <4> QED
        BY <2>3, <4>2, <4>3, <4>4
    <3> QED
      BY <3>1, <3>2
  <2>5. WaitsOK'
    <3>1. \A r \in Peers, n \in Number :
              outcome'[<<r, n>>] \in {"waiting", "written"} =>
                  outcome[<<r, n>>] \in {"waiting", "written"}
      BY <2>3, CallIsPair
    <3> QED
      BY <1>3, <2>1, <3>1 DEF Silent, WaitsOK
  <2> QED
    BY <1>2, <1>3, <2>1, <2>4, <2>5, CrossTaken DEF Silent
<1>6. CASE box[p][m.counter] = Free
  <2>1. m.kind = "request"
    BY <1>2, <1>6, ResponseFindsEntry
  <2> DEFINE rest == Remains(p)
             a == Msg(m.counter, "response", m.call)
  <2>2. UNCHANGED <<box, outcome>>
    BY <1>1, <1>6 DEF DataReceived, Expired, Free, Number
  <2>3. channel' = Sent(rest, q, a)
    BY <1>1, <1>6, <2>1 DEF DataReceived, Dispatch, Remains, Sent, Expired, Free, Number
  <2>4. a \in Message /\ a.kind = "response" /\ a.counter = m.counter
    BY <1>2 DEF Message, Msg
  <2>5. /\ rest \in Channels /\ Single(rest) /\ Fifo(rest)
        /\ \A r \in Peers, d \in Counters :
              /\ Req(rest, r, d) => Req(channel, r, d)
              /\ Res(rest, r, d) => Res(channel, r, d)
        /\ Req(channel, q, m.counter)
        /\ ~Req(rest, q, m.counter)
        /\ ~Res(channel, p, m.counter)
    BY <1>2, <2>1, Taken DEF Silent
  <2> HIDE DEF rest, a, q
  <2>6. Touched(p, m.counter) /\ CrossOK(p, m.counter) /\ CrossOK(q, m.counter)
    BY <1>2, <1>6, <1>q DEF Touched, Silent, Cross
  <2>7. ~Res(channel, q, m.counter) /\ ~Touched(q, m.counter) /\ Drawn(q, m.counter)
    BY <1>q, <2>5, <2>6 DEF CrossOK
  <2>8. ~Req(channel, p, m.counter)
    BY <1>q, <2>5, <2>6 DEF CrossOK
  <2>9. /\ a.kind = "request" => ~Req(rest, Other(q), a.counter)
        /\ a.kind = "response" => /\ ~Res(rest, q, a.counter)
                                  /\ ~Req(rest, Other(q), a.counter)
    BY <1>2, <1>q, <2>4, <2>5, <2>7, <2>8
  <2>10. /\ Single(channel') /\ Fifo(channel')
         /\ \A r \in Peers, c \in Counters :
               /\ Req(channel', r, c) => \/ Req(rest, r, c)
                                         \/ a.kind = "request" /\ q = Other(r) /\ c = a.counter
               /\ Res(channel', r, c) => \/ Res(rest, r, c)
                                         \/ a.kind = "response" /\ q = r /\ c = a.counter
    BY <1>q, <2>3, <2>4, <2>5, <2>9, Pushed
  <2>11. \A r \in Peers, d \in Counters :
            /\ Req(channel', r, d) => Req(rest, r, d)
            /\ Res(channel', r, d) => Res(rest, r, d) \/ (r = q /\ d = m.counter)
    BY <2>4, <2>10
  <2>12. \A r \in Peers, d \in Counters :
            Touched(r, d)' = Touched(r, d) /\ Drawn(r, d)' = Drawn(r, d)
    BY <1>3, <2>2 DEF Touched, Drawn
  <2>13. ASSUME NEW r \in Peers, NEW d \in Counters PROVE CrossOK(r, d)'
    <3>1. CrossOK(r, d)
      BY DEF Silent, Cross
    <3>2. CASE d # m.counter
      BY <2>5, <2>11, <2>12, <3>1, <3>2, CrossKept
    <3>3. CASE d = m.counter /\ r = p
      BY <1>2, <1>q, <2>5, <2>8, <2>11, <3>1, <3>3 DEF CrossOK
    <3>4. CASE d = m.counter /\ r = q
      BY <1>2, <1>q, <2>5, <2>7, <2>11, <2>12, <3>1, <3>4 DEF CrossOK
    <3> QED
      BY <1>q, <3>2, <3>3, <3>4
  <2>14. WaitsOK'
    BY <1>3, <2>2 DEF Silent, WaitsOK
  <2> QED
    BY <2>10, <2>13, <2>14 DEF Silent, Cross
<1> QED
  <2>1. box[p][m.counter] \in Number \cup {Free, Expired}
    BY <1>2 DEF TypeOK
  <2> QED
    BY <1>4, <1>5, <1>6, <2>1

LEMMA SilentEnd ==
    ASSUME TypeOK, SentOK, OwnUnique, Silent, NEW p \in Peers, NEW n \in Number,
           Return(p, n) \/ Expire(p, n)
    PROVE  Silent'
<1> DEFINE c == used[p][n]
<1>1. UNCHANGED <<used, channel>> /\ <<p, n>> \in Calls
  BY CallIsPair DEF Return, Expire
<1>2. outcome[<<p, n>>] \in {"waiting", "written"} /\ (Return(p, n) => outcome[<<p, n>>] = "written")
  BY DEF Return, Expire
<1>3. n \in 1..Len(used[p])
  BY <1>2, LensAreNat DEF SentOK, Number
<1>4. used[p] \in Seq(Counters)
  BY DEF TypeOK
<1>5. c \in Counters
  BY <1>3, <1>4
<1>6. /\ \A r \in Peers, d \in Counters :
            r # p \/ d # c => box'[r][d] = box[r][d]
      /\ Expire(p, n) => box'[p][c] = Expired
  BY <1>5 DEF Return, Expire, TypeOK
<1>7. /\ outcome'[<<p, n>>] \in {"KeyError", "answered", "expired"}
      /\ \A x \in Calls \ {<<p, n>>} : outcome'[x] = outcome[x]
  BY <1>1 DEF Return, Expire, TypeOK
<1>8. ASSUME NEW r \in Peers, NEW d \in Counters, Touched(r, d)'
      PROVE  Touched(r, d)
  <2>1. CASE box'[r][d] = Free
    <3>1. CASE r = p /\ d = c
      <4>1. Return(p, n)
        BY <1>6, <2>1, <3>1 DEF Expired, Free
      <4> QED
        BY <1>2, <1>3, <3>1, <4>1 DEF Touched
    <3>2. CASE r # p \/ d # c
      BY <1>6, <2>1, <3>2 DEF Touched
    <3> QED
      BY <3>1, <3>2
  <2>2. CASE box'[r][d] # Free
    <3>1. PICK k \in 1..Len(used[r]) : used[r][k] = d /\ outcome'[<<r, k>>] = "written"
      BY <1>1, <1>8, <2>2 DEF Touched
    <3>2. k \in Number
      <4>1. Len(used[r]) \in Nat /\ Len(used[r]) <= MaxRequests
        BY LensAreNat DEF SentOK
      <4> QED
        BY <4>1, SpaceAssumption DEF Number
    <3>3. <<r, k>> \in Calls \ {<<p, n>>}
      BY <1>7, <3>1, <3>2, CallIsPair
    <3> QED
      BY <1>7, <3>1, <3>3 DEF Touched
  <2> QED
    BY <2>1, <2>2
<1>9. ASSUME NEW r \in Peers, NEW d \in Counters PROVE CrossOK(r, d)'
  <2>1. CrossOK(r, d)
    BY DEF Silent, Cross
  <2>2. Drawn(r, d) => Drawn(r, d)'
    BY <1>1 DEF Drawn
  <2> QED
    BY <1>1, <1>8, <2>1, <2>2, CrossKept
<1>10. WaitsOK'
  <2> SUFFICES ASSUME NEW r \in Peers, NEW k \in Number,
                      outcome'[<<r, k>>] \in {"waiting", "written"}
               PROVE  box'[r][used'[r][k]] = k
    BY DEF WaitsOK
  <2>1. <<r, k>> \in Calls \ {<<p, n>>}
    BY <1>7, CallIsPair
  <2>2. outcome[<<r, k>>] \in {"waiting", "written"}
    BY <1>7, <2>1
  <2>3. k \in 1..Len(used[r])
    BY <2>2, LensAreNat DEF SentOK, Number
  <2>4. used[r] \in Seq(Counters)
    BY DEF TypeOK
  <2>5. used[r][k] \in Counters
    BY <2>3, <2>4
  <2>6. r # p \/ used[r][k] # c
    BY <1>3, <2>1, <2>3 DEF OwnUnique
  <2> QED
    BY <1>1, <1>6, <2>2, <2>5, <2>6 DEF Silent, WaitsOK
<1> QED
  BY <1>1, <1>9, <1>10 DEF Silent, Cross

LEMMA SilentStutter ==
    ASSUME Silent, UNCHANGED vars
    PROVE  Silent'
<1>1. channel' = channel
  BY DEF vars
<1>2. ASSUME NEW r \in Peers, NEW d \in Counters PROVE CrossOK(r, d)'
  <2>1. CrossOK(r, d)
    BY DEF Silent, Cross
  <2>2. \A t \in Peers : Touched(t, d)' = Touched(t, d) /\ Drawn(t, d)' = Drawn(t, d)
    BY DEF vars, Touched, Drawn
  <2> QED
    BY <1>1, <2>1, <2>2, CrossKept
<1>3. WaitsOK'
  BY DEF vars, Silent, WaitsOK
<1>4. Single(channel') /\ Fifo(channel')
  BY <1>1 DEF Silent
<1> QED
  BY <1>2, <1>3, <1>4 DEF Silent, Cross

LEMMA SilentStep ==
    ASSUME TypeOK, SentOK, BoxOK, OwnUnique, OwnUnique', Silent, [Next]_vars
    PROVE  Silent'
<1>1. ASSUME NEW p \in Peers, SendRequest(p) PROVE Silent'
  BY <1>1, SilentSend
<1>2. ASSUME NEW p \in Peers, DataReceived(p) PROVE Silent'
  BY <1>2, SilentReceive
<1>3. ASSUME NEW p \in Peers, NEW n \in Number, Return(p, n) \/ Expire(p, n)
      PROVE  Silent'
  BY <1>3, SilentEnd
<1>4. CASE UNCHANGED vars
  BY <1>4, SilentStutter
<1> QED
  BY <1>1, <1>2, <1>3, <1>4 DEF Next

Calm == TypeOK /\ SentOK /\ BoxOK /\ Numbered /\ Silent

LEMMA CalmInit == Init => Calm
<1> SUFFICES ASSUME Init PROVE Calm
  OBVIOUS
<1>1. TypeOK /\ SentOK /\ BoxOK
  BY InvInit DEF Inv
<1>2. \A p \in Peers : Len(used[p]) = 0 /\ Len(channel[p]) = 0
  BY DEF Init
<1>3. WaitsOK
  BY CallIsPair DEF WaitsOK, Init
<1>4. Numbered /\ Single(channel) /\ Fifo(channel)
  BY <1>2 DEF Numbered, Single, Fifo
<1>5. \A p \in Peers, c \in Counters : ~Req(channel, p, c) /\ ~Res(channel, p, c)
  BY <1>2, OtherPeer DEF Req, Res
<1> QED
  BY <1>1, <1>3, <1>4, <1>5 DEF Calm, Silent, Cross, CrossOK

LEMMA OwnCountersNext ==
    ASSUME MaxRequests <= Space
    PROVE  (TypeOK /\ SentOK /\ Numbered => OwnUnique)'
<1>1. TypeOK /\ SentOK /\ Numbered => OwnUnique
  BY OwnCounters
<1> QED
  BY <1>1, PTL

LEMMA CalmStep == MaxRequests <= Space /\ Calm /\ [Next]_vars => Calm'
<1> SUFFICES ASSUME MaxRequests <= Space, Calm, [Next]_vars PROVE Calm'
  OBVIOUS
<1>1. TypeOK' /\ SentOK' /\ BoxOK'
  BY TypeStep, SentStep, BoxStep DEF Calm
<1>2. Numbered'
  BY <1>1, NumberedStep DEF Calm
<1>3. OwnUnique
  BY OwnCounters DEF Calm
<1>4. OwnUnique'
  BY <1>1, <1>2, OwnCountersNext
<1>5. Silent'
  BY <1>3, <1>4, SilentStep DEF Calm
<1> QED
  BY <1>1, <1>2, <1>5 DEF Calm

(* What the property says of a step.                                       *)
Undispatched ==
    \A p \in Peers :
        /\ channel[p] # <<>>
        /\ channel'[p] = Tail(channel[p])
        /\ Head(channel[p]).kind = "response"
        => channel'[Other(p)] = channel[Other(p)]

LEMMA StepIsUndispatched == Calm /\ [Next]_vars => [Undispatched]_vars
<1> SUFFICES ASSUME Calm, Next,
                    NEW p \in Peers, channel[p] # <<>>,
                    channel'[p] = Tail(channel[p]),
                    Head(channel[p]).kind = "response"
             PROVE  channel'[Other(p)] = channel[Other(p)]
  BY DEF Undispatched
<1>1. CASE UNCHANGED channel
  BY <1>1
<1>2. channel[p] \in Seq(Message) /\ TypeOK
  BY DEF Calm, TypeOK
<1>3. Len(channel'[p]) < Len(channel[p]) /\ Len(channel[p]) \in Nat
  <2>1. Len(Tail(channel[p])) = Len(channel[p]) - 1 /\ Len(channel[p]) \in Nat
    BY <1>2, HeadTail, LensAreNat
  <2> QED
    BY <2>1
<1>4. ASSUME NEW q \in Peers, SendRequest(q)
      PROVE  channel'[Other(p)] = channel[Other(p)]
  <2>1. CASE UNCHANGED channel
    BY <2>1
  <2>2. CASE channel' = Push(Other(q), Msg(NextCounter(q), "request", <<q, Len(used[q]) + 1>>))
    <3> DEFINE m == Msg(NextCounter(q), "request", <<q, Len(used[q]) + 1>>)
    <3>1. m \in Message
      <4>1. Len(used[q]) + 1 \in Number
        BY <1>2, <1>4, Sending DEF Calm
      <4> QED
        BY <1>2, <4>1, NextCounterType, CallIsPair DEF Msg, Message
    <3> HIDE DEF m
    <3>2. channel \in [Peers -> Seq(Message)] /\ Other(q) \in Peers
      BY <1>2, OtherPeer DEF TypeOK
    <3>3. channel' = [channel EXCEPT ![Other(q)] = Append(@, m)]
      BY <2>2 DEF m, Push
    <3>4. Len(channel'[p]) >= Len(channel[p])
      <4>1. CASE p = Other(q)
        BY <1>2, <3>1, <3>2, <3>3, <4>1, AppendIs
      <4>2. CASE p # Other(q)
        BY <1>2, <3>2, <3>3, <4>2
      <4> QED
        BY <4>1, <4>2
    <3>5. Len(channel[p]) \in Nat
      BY <1>2
    <3> QED
      BY <1>3, <3>4, <3>5
  <2> QED
    BY <1>4, <2>1, <2>2 DEF SendRequest
<1>5. ASSUME NEW q \in Peers, DataReceived(q)
      PROVE  channel'[Other(p)] = channel[Other(p)]
  <2>1. PICK m : m = Head(channel[q])
    OBVIOUS
  <2>2. m \in Message /\ m = channel[q][1] /\ channel[q] # <<>> /\ m.counter \in Counters
    <3>1. m \in Message /\ m = channel[q][1] /\ channel[q] # <<>>
      BY <1>2, <1>5, <2>1, Receiving DEF DataReceived
    <3> QED
      BY <3>1 DEF Message
  <2>3. CASE q = p
    <3>1. box[q][m.counter] # Free
      BY <1>2, <2>1, <2>2, <2>3, ResponseFindsEntry DEF Calm
    <3>2. channel' = Remains(q)
      BY <1>5, <2>1, <3>1 DEF DataReceived, Remains
    <3> QED
      BY <1>2, <2>3, <3>2, OtherPeer DEF Remains, TypeOK
  <2>4. CASE q # p
    <3>1. p = Other(q) /\ Other(p) = q
      BY <2>4 DEF Peers, Other
    <3>2. CASE box[q][m.counter] # Free
      <4>1. channel' = Remains(q)
        BY <1>5, <2>1, <3>2 DEF DataReceived, Remains
      <4>2. channel'[p] = channel[p]
        BY <1>2, <2>4, <4>1 DEF Remains, TypeOK
      <4>3. Len(channel'[p]) = Len(channel[p])
        BY <4>2
      <4> QED
        BY <1>3, <4>3
    <3>3. CASE box[q][m.counter] = Free
      <4> DEFINE a == Msg(m.counter, "response", IF m.kind = "request" THEN m.call ELSE NoCall)
                 rest == Remains(q)
      <4>1. channel' = [rest EXCEPT ![p] = Append(@, a)]
        BY <1>5, <2>1, <3>1, <3>3 DEF DataReceived, Dispatch, Remains, Expired, Free, Number
      <4>2. a \in Message
        BY <2>2 DEF Message, Msg
      <4>3. rest \in [Peers -> Seq(Message)] /\ rest[p] = channel[p]
        BY <1>2, <2>2, <3>1, RestIs DEF Remains
      <4> HIDE DEF a, rest
      <4>4. channel'[p] = Append(channel[p], a)
        BY <4>1, <4>3
      <4>5. Len(channel'[p]) = Len(channel[p]) + 1
        <5> DEFINE c == channel[p]
        <5>1. c \in Seq(Message) /\ channel'[p] = Append(c, a)
          BY <1>2, <4>4
        <5> HIDE DEF c
        <5>2. Len(Append(c, a)) = Len(c) + 1
          BY <4>2, <5>1, AppendIs
        <5> QED
          BY <5>1, <5>2 DEF c
      <4> QED
        BY <1>3, <4>5
    <3> QED
      BY <3>2, <3>3
  <2> QED
    BY <2>3, <2>4
<1>6. ASSUME NEW q \in Peers, NEW n \in Number, Return(q, n) \/ Expire(q, n)
      PROVE  UNCHANGED channel
  BY <1>6 DEF Return, Expire
<1> QED
  BY <1>1, <1>4, <1>5, <1>6 DEF Next

(* A late response finds the entry that its request left, also when the    *)
(* other peer has drawn the same counter: it never reaches process_request. *)
(* Each peer may send as many requests as there are counters.              *)
THEOREM ResponsesAreNotDispatched ==
    ASSUME MaxRequests <= Space
    PROVE  Spec => OnlyRequestsAreDispatched
<1>1. Calm /\ [Next]_vars => Calm'
  BY CalmStep
<1>2. OnlyRequestsAreDispatched <=> [][Undispatched]_vars
  BY DEF OnlyRequestsAreDispatched, Undispatched
<1> QED
  BY <1>1, <1>2, CalmInit, StepIsUndispatched, PTL DEF Spec
=============================================================================
