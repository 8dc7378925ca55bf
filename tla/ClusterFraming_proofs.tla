------------------------ MODULE ClusterFraming_proofs ------------------------
(***************************************************************************)
(* Theorems about ClusterFraming, for any length of the header, chunk,     *)
(* key, counters and sizes of messages: every variable keeps its type, and *)
(* as long as no read ends right behind a header, wherever else the stream *)
(* is cut, messages arrive whole, in order, and nothing of them is kept.   *)
(***************************************************************************)
EXTENDS ClusterFraming, SequenceTheorems, TLAPS

(* Numbers.                                                                *)
LEMMA Division ==
    ASSUME NEW a \in Nat, NEW b \in Nat \ {0}
    PROVE  /\ a \div b \in Nat
           /\ (a \div b) * b <= a
           /\ a < (a \div b) * b + b
  OBVIOUS

LEMMA Multiples ==
    ASSUME NEW i \in Nat, NEW j \in Nat, NEW b \in Nat
    PROVE  /\ i * b \in Nat
           /\ i <= j => i * b <= j * b
           /\ (i + 1) * b = i * b + b
<1>1. i * b \in Nat /\ j * b \in Nat /\ (i + 1) * b = i * b + b
  OBVIOUS
<1>2. ASSUME i <= j PROVE i * b <= j * b
  <2>1. PICK d \in Nat : j = i + d
    <3>1. j - i \in Nat /\ j = i + (j - i)
      BY <1>2
    <3> QED
      BY <3>1
  <2>2. j * b = i * b + d * b /\ d * b \in Nat
    BY <2>1
  <2> QED
    BY <1>1, <2>2
<1> QED
  BY <1>1, <1>2

-----------------------------------------------------------------------------
(***************************************************************************)
(* Types.                                                                  *)
(***************************************************************************)
LEMMA ConstantsType ==
    TypeOK => /\ overhead \in Nat
              /\ HeaderLen \in Nat /\ HeaderLen > 0
              /\ requestChunk \in Nat /\ requestChunk > HeaderLen
              /\ requestChunk - HeaderLen \in Nat \ {0}
  BY FramingAssumption DEF TypeOK

(* What msg_build returns: at least one part; all but the last are flagged *)
(* and have the same size.                                                 *)
Built == [size : Nat, divided : BOOLEAN]

LEMMA MsgBuildParts ==
    ASSUME TypeOK, NEW size \in Nat, NEW built, built = MsgBuild(size)
    PROVE  /\ built \in Seq(Built)
           /\ Len(built) > 0
           /\ \A i \in DOMAIN built : built[i].divided = (i # Len(built))
           /\ \A i \in DOMAIN built : i < Len(built) => built[i].size = built[1].size
<1> DEFINE total == size + overhead
           room  == requestChunk - HeaderLen
           n     == CeilDiv(total, room)
           s(i)  == IF i < n THEN room ELSE total - (n - 1) * room
<1>0. total \in Nat /\ room \in Nat \ {0} /\ total >= size /\ room <= requestChunk
  BY ConstantsType
<1>1. CASE size <= requestChunk
  <2>1. built = <<[size |-> total, divided |-> FALSE]>>
    BY <1>1 DEF MsgBuild
  <2>2. [size |-> total, divided |-> FALSE] \in Built
    BY <1>0 DEF Built
  <2> HIDE DEF total
  <2>3. built \in Seq(Built) /\ Len(built) = 1 /\ DOMAIN built = {1}
    BY <2>1, <2>2
  <2>4. built[1].divided = FALSE
    BY <2>1
  <2>5. \A i \in DOMAIN built : i = 1
    BY <2>3
  <2>6. \A i \in DOMAIN built : built[i].divided = (i # Len(built))
    <3> SUFFICES ASSUME NEW i \in DOMAIN built PROVE built[i].divided = (i # Len(built))
      OBVIOUS
    <3>1. i = 1 /\ (i # Len(built)) = FALSE
      BY <2>3, <2>5
    <3> QED
      BY <2>4, <3>1
  <2>7. \A i \in DOMAIN built : i < Len(built) => built[i].size = built[1].size
    BY <2>5
  <2> QED
    BY <2>3, <2>6, <2>7
<1>2. CASE ~(size <= requestChunk)
  <2>0. total > 0 /\ requestChunk \in Nat
    BY <1>0, <1>2, ConstantsType
  <2>1. n \in Nat /\ n > 0 /\ total - (n - 1) * room \in Nat
    <3>1. total + room - 1 \in Nat /\ n = (total + room - 1) \div room
      BY <1>0, <2>0 DEF CeilDiv
    <3>2. n \in Nat /\ n * room <= total + room - 1 /\ total + room - 1 < n * room + room
      BY <1>0, <3>1, Division
    <3> HIDE DEF total, room, n
    <3>3. n > 0
      <4>1. CASE n = 0
        BY <1>0, <2>0, <3>2, <4>1
      <4> QED
        BY <3>2, <4>1
    <3>4. (n - 1) * room = n * room - room /\ n * room \in Nat
      BY <1>0, <3>2
    <3> QED
      BY <1>0, <3>2, <3>3, <3>4
  <2>2. built = [i \in 1..n |-> [size |-> s(i), divided |-> i < n]]
    BY <1>2 DEF MsgBuild
  <2> HIDE DEF n, total
  <2>3. \A i \in 1..n : s(i) \in Nat
    BY <1>0, <2>1
  <2>4. \A i \in 1..n : i < n => s(i) = s(1)
    BY <2>1
  <2> HIDE DEF s
  <2>5. \A i \in 1..n : [size |-> s(i), divided |-> i < n] \in Built
    BY <2>3 DEF Built
  <2>6. built \in Seq(Built) /\ Len(built) = n
    BY <2>1, <2>2, <2>5
  <2>7. \A i \in 1..n : built[i].size = s(i) /\ built[i].divided = (i < n)
    BY <2>2
  <2>8. DOMAIN built = 1..n /\ 1 \in 1..n
    BY <2>1, <2>2
  <2>9. \A i \in 1..n : (i < n) = (i # n)
    BY <2>1
  <2> QED
    BY <2>1, <2>4, <2>6, <2>7, <2>8, <2>9
<1> QED
  BY <1>1, <1>2

(* A push adds the parts q of one message to the stream.                   *)
PartsOf(c, q) ==
    /\ q \in Seq(Part)
    /\ Len(q) > 0
    /\ q[1].start = Written
    /\ \A i, j \in DOMAIN q : j = i + 1 => q[j].start = End(q[i])
    /\ \A i, j \in DOMAIN q : i < j => End(q[i]) <= q[j].start
    /\ \A i \in DOMAIN q : q[i].counter = c /\ q[i].divided = (i # Len(q))

Pushed(c, q) ==
    /\ PartsOf(c, q)
    /\ parts' = parts \o q
    /\ messages' = Append(messages, [counter |-> c, first |-> Len(parts) + 1,
                                     last |-> Len(parts) + Len(q)])
    /\ UNCHANGED <<overhead, requestChunk, arrived, parsed, inMsg, divMsgBox,
                   delivered, receiver, loneHeader>>

LEMMA WrittenType ==
    TypeOK => Written \in Nat /\ \A i \in DOMAIN parts : End(parts[i]) \in Nat
<1> SUFFICES ASSUME TypeOK PROVE Written \in Nat /\ \A i \in DOMAIN parts : End(parts[i]) \in Nat
  OBVIOUS
<1>1. parts \in Seq(Part)
  BY DEF TypeOK
<1>2. \A i \in DOMAIN parts : parts[i] \in Part
  BY <1>1
<1>3. \A i \in DOMAIN parts : End(parts[i]) \in Nat
  BY <1>2, ConstantsType DEF Part, End
<1>4. parts # <<>> => Len(parts) \in DOMAIN parts
  BY <1>1
<1> QED
  BY <1>3, <1>4 DEF Written, Last

LEMMA PushAppends ==
    ASSUME TypeOK, NEW c \in Counters, NEW size \in Sizes, Push(c, size)
    PROVE  \E q : Pushed(c, q)
<1>1. PICK built : built = MsgBuild(size)
  OBVIOUS
<1>2. /\ built \in Seq(Built)
      /\ Len(built) > 0
      /\ \A i \in DOMAIN built : built[i].divided = (i # Len(built))
      /\ \A i \in DOMAIN built : i < Len(built) => built[i].size = built[1].size
  <2>1. size \in Nat
    BY FramingAssumption
  <2> QED
    BY <1>1, <2>1, MsgBuildParts
<1>3. PICK l : l = Len(built) /\ l \in Nat /\ l > 0 /\ DOMAIN built = 1..l
  BY <1>2
<1>4. \A i \in 1..l : built[i] \in Built /\ built[i].size \in Nat /\ built[i].divided \in BOOLEAN
  <2>1. \A i \in 1..l : built[i] \in Built
    BY <1>2, <1>3
  <2> QED
    BY <2>1 DEF Built
<1>5. PICK b : b = HeaderLen + built[1].size /\ b \in Nat
  BY <1>3, <1>4, ConstantsType
<1>6. PICK w : w = Written /\ w \in Nat
  BY WrittenType
<1> DEFINE Start(i) == w + (i - 1) * b
           part(i)  == [start |-> Start(i), counter |-> c,
                        size |-> built[i].size, divided |-> built[i].divided]
           q == [i \in 1..l |-> part(i)]
<1>7. \A i \in 1..l : (i - 1) * b \in Nat /\ i * b \in Nat /\ i * b = (i - 1) * b + b
  <2> SUFFICES ASSUME NEW i \in 1..l
               PROVE  (i - 1) * b \in Nat /\ i * b \in Nat /\ i * b = (i - 1) * b + b
    OBVIOUS
  <2>1. i - 1 \in Nat /\ i \in Nat /\ (i - 1) + 1 = i
    BY <1>3
  <2>2. ((i - 1) + 1) * b = (i - 1) * b + b /\ (i - 1) * b \in Nat
    BY <1>5, <2>1, Multiples
  <2> QED
    BY <1>5, <2>1, <2>2
<1>8. \A i \in 1..l : part(i) \in Part
  BY <1>4, <1>6, <1>7 DEF Part
<1>9. q \in Seq(Part) /\ Len(q) = l /\ DOMAIN q = 1..l
  <2> HIDE DEF part
  <2> QED
    BY <1>3, <1>8
<1>10. \A i \in 1..l : /\ q[i].start = w + (i - 1) * b /\ q[i].counter = c
                       /\ q[i].size = built[i].size /\ q[i].divided = built[i].divided
  OBVIOUS
<1> HIDE DEF q
<1>11. q[1].start = w
  <2>1. (1 - 1) * b = 0
    BY <1>5
  <2> QED
    BY <1>3, <1>6, <1>10, <2>1
<1>12. \A i \in 1..l : i < l => End(q[i]) = w + i * b
  <2> SUFFICES ASSUME NEW i \in 1..l, i < l PROVE End(q[i]) = w + i * b
    OBVIOUS
  <2>1. HeaderLen + q[i].size = b
    BY <1>2, <1>3, <1>5, <1>10
  <2>2. q[i].start = w + (i - 1) * b /\ HeaderLen \in Nat /\ q[i].size \in Nat
    BY <1>4, <1>10, ConstantsType
  <2>3. i * b = (i - 1) * b + b /\ (i - 1) * b \in Nat
    BY <1>7
  <2>4. PICK x \in Nat : x = (i - 1) * b
    BY <2>3
  <2> QED
    BY <1>5, <1>6, <2>1, <2>2, <2>3, <2>4 DEF End
<1>13. \A i, j \in 1..l : j = i + 1 => q[j].start = End(q[i])
  <2> SUFFICES ASSUME NEW i \in 1..l, NEW j \in 1..l, j = i + 1 PROVE q[j].start = End(q[i])
    OBVIOUS
  <2>1. j - 1 = i /\ i < l
    BY <1>3
  <2> QED
    BY <1>10, <1>12, <2>1
<1>14. \A i, j \in 1..l : i < j => End(q[i]) <= q[j].start
  <2> SUFFICES ASSUME NEW i \in 1..l, NEW j \in 1..l, i < j PROVE End(q[i]) <= q[j].start
    OBVIOUS
  <2>1. i \in Nat /\ j - 1 \in Nat /\ i <= j - 1 /\ i < l
    BY <1>3
  <2>2. i * b <= (j - 1) * b
    BY <1>5, <2>1, Multiples
  <2>3. i * b \in Nat /\ (j - 1) * b \in Nat
    BY <1>7
  <2>4. PICK x \in Nat, y \in Nat : x = i * b /\ y = (j - 1) * b
    BY <2>3
  <2> QED
    BY <1>6, <1>10, <1>12, <2>1, <2>2, <2>4
<1>15. PartsOf(c, q)
  BY <1>2, <1>3, <1>6, <1>9, <1>10, <1>11, <1>13, <1>14 DEF PartsOf
<1>16. /\ parts' = parts \o q
       /\ messages' = Append(messages, [counter |-> c, first |-> Len(parts) + 1,
                                        last |-> Len(parts) + Len(q)])
  BY <1>1, <1>3, <1>5, <1>6, <1>9 DEF Push, q
<1> QED
  BY <1>15, <1>16 DEF Pushed, Push

(* What in_msg says of the bytes read.                                     *)
Continued == inMsg.received # 0 => inMsg.from + inMsg.received = parsed

Types == TypeOK /\ Continued

(* What receive_data does to a message: all that has arrived, or what is   *)
(* missing.                                                                *)
LEMMA ReceiveDataType ==
    ASSUME TypeOK, NEW msg \in Started, NEW place \in Nat, NEW r, r = ReceiveData(msg, place),
           place <= arrived, msg.received <= msg.total, msg.from + msg.received = place
    PROVE  /\ r \in Started
           /\ r.counter = msg.counter /\ r.total = msg.total
           /\ r.divided = msg.divided /\ r.from = msg.from
           /\ r.received >= msg.received /\ r.received <= r.total
           /\ r.from + r.received <= arrived
           /\ r.received < r.total => r.from + r.received = arrived
<1>1. arrived \in Nat
  BY DEF TypeOK
<1>2. msg.from \in Nat /\ msg.received \in Nat /\ msg.total \in Nat
  BY DEF Started
<1>3. PICK x : x = IF msg.received + (arrived - place) < msg.total
                   THEN msg.received + (arrived - place) ELSE msg.total
  OBVIOUS
<1>4. /\ x \in Nat /\ x >= msg.received /\ x <= msg.total
      /\ msg.from + x <= arrived
      /\ x < msg.total => msg.from + x = arrived
  BY <1>1, <1>2, <1>3
<1>5. r = [msg EXCEPT !.received = x]
  BY <1>3 DEF ReceiveData
<1>6. msg = [counter |-> msg.counter, total |-> msg.total, divided |-> msg.divided,
             from |-> msg.from, received |-> msg.received]
      /\ msg.counter \in Counters /\ msg.divided \in BOOLEAN
  BY DEF Started
<1>7. r = [counter |-> msg.counter, total |-> msg.total, divided |-> msg.divided,
           from |-> msg.from, received |-> x]
  BY <1>5, <1>6
<1>8. r \in Started
  BY <1>2, <1>4, <1>6, <1>7 DEF Started
<1>9. /\ r.counter = msg.counter /\ r.total = msg.total
      /\ r.divided = msg.divided /\ r.from = msg.from /\ r.received = x
  BY <1>7
<1> QED
  BY <1>4, <1>8, <1>9

(* The header at a place, and the message that is read from it.            *)
LEMMA HeaderType ==
    ASSUME TypeOK, NEW h \in HeadersAt(parsed), arrived - parsed >= HeaderLen
    PROVE  /\ ReadHeader(h) \in Started
           /\ ReadHeader(h).received = 0 /\ ReadHeader(h).from = parsed + HeaderLen
           /\ parsed + HeaderLen \in Nat /\ parsed + HeaderLen <= arrived
<1>1. PICK i \in 1..Len(parts) :
         h = [counter |-> parts[i].counter, total |-> parts[i].size,
              divided |-> parts[i].divided]
  BY DEF HeadersAt
<1>2. parts[i] \in Part
  BY DEF TypeOK
<1>3. h.counter \in Counters /\ h.total \in Nat /\ h.divided \in BOOLEAN
  BY <1>1, <1>2 DEF Part
<1>4. parsed \in Nat /\ arrived \in Nat /\ parsed <= arrived
  BY DEF TypeOK
<1> QED
  BY <1>3, <1>4, ConstantsType DEF ReadHeader, Started

LEMMA PayloadType ==
    ASSUME TypeOK, NEW msg \in Started
    PROVE  Append(divMsgBox[msg.counter], <<msg.from, msg.from + msg.total>>) \in Joined
<1>1. msg.counter \in Counters /\ msg.from \in Nat /\ msg.total \in Nat
  BY DEF Started
<1>2. divMsgBox[msg.counter] \in Seq(Nat \X Nat)
  BY <1>1 DEF TypeOK, Joined
<1>3. <<msg.from, msg.from + msg.total>> \in Nat \X Nat
  BY <1>1
<1> QED
  BY <1>2, <1>3 DEF Joined

LEMMA ParsedType ==
    ASSUME TypeOK, NEW msg \in Started, msg.received <= msg.total,
           msg.from + msg.received <= arrived, Parsed(msg),
           UNCHANGED <<overhead, requestChunk, messages, parts, arrived>>
    PROVE  Types'
<1>1. msg.counter \in Counters /\ msg.from \in Nat /\ msg.total \in Nat /\ msg.received \in Nat
  BY DEF Started
<1>2. arrived' \in Nat /\ parsed' \in 0..arrived'
  BY <1>1 DEF TypeOK, Parsed
<1>3. CASE msg.received = msg.total
  <2>1. Complete(msg) /\ inMsg' = Fresh /\ UNCHANGED loneHeader
    BY <1>3 DEF Parsed
  <2>2. PICK p : p = Append(divMsgBox[msg.counter], <<msg.from, msg.from + msg.total>>)
    OBVIOUS
  <2>3. p \in Joined
    BY <2>2, PayloadType
  <2>4. <<>> \in Joined
    BY DEF Joined
  <2>5. /\ divMsgBox \in [Counters -> Joined]
        /\ delivered \in Seq([counter : Counters, payload : Joined])
    BY DEF TypeOK
  <2>6. /\ divMsgBox' \in [Counters -> Joined]
        /\ delivered' \in Seq([counter : Counters, payload : Joined])
        /\ receiver' \in {"idle", "parsing", "closed", "garbled"}
    <3>1. CASE msg.divided
      BY <2>1, <2>2, <2>3, <2>5, <3>1 DEF Complete
    <3>2. CASE ~msg.divided
      <4>1. divMsgBox' = [divMsgBox EXCEPT ![msg.counter] = <<>>] /\ Deliver(msg.counter, p)
        BY <2>1, <2>2, <3>2 DEF Complete
      <4>2. [counter |-> msg.counter, payload |-> p] \in [counter : Counters, payload : Joined]
        BY <1>1, <2>3
      <4>3. divMsgBox' \in [Counters -> Joined]
        BY <2>4, <2>5, <4>1
      <4>4. CASE Decrypts(p)
        <5>1. /\ delivered' = Append(delivered, [counter |-> msg.counter, payload |-> p])
              /\ receiver' = "parsing"
          BY <4>1, <4>4 DEF Deliver
        <5>2. delivered' \in Seq([counter : Counters, payload : Joined])
          <6>1. PICK S : S = [counter : Counters, payload : Joined]
            OBVIOUS
          <6>2. PICK d : d = [counter |-> msg.counter, payload |-> p]
            OBVIOUS
          <6>3. delivered \in Seq(S) /\ d \in S /\ delivered' = Append(delivered, d)
            BY <2>5, <4>2, <5>1, <6>1, <6>2, Zenon
          <6>4. delivered' \in Seq(S)
            BY <6>3
          <6> QED
            BY <6>1, <6>4
        <5> QED
          BY <4>3, <5>1, <5>2
      <4>5. CASE ~Decrypts(p)
        BY <2>5, <4>1, <4>3, <4>5 DEF Deliver
      <4> QED
        BY <4>4, <4>5
    <3> QED
      BY <3>1, <3>2, Zenon
  <2>7. /\ inMsg' \in Started \cup {Fresh}
        /\ inMsg'.received < inMsg'.total \/ inMsg' = Fresh
        /\ inMsg'.received = 0
    BY <2>1 DEF Fresh
  <2> QED
    BY <1>2, <2>1, <2>6, <2>7 DEF TypeOK, Types, Continued
<1>4. CASE msg.received # msg.total
  <2>1. /\ inMsg' = msg /\ receiver' = "idle" /\ parsed' = msg.from + msg.received
        /\ loneHeader' = (loneHeader \/ msg.received = 0)
        /\ UNCHANGED <<divMsgBox, delivered>>
    BY <1>4 DEF Parsed
  <2>2. msg.received < msg.total
    BY <1>1, <1>4
  <2>3. loneHeader' \in BOOLEAN
    BY <2>1 DEF TypeOK
  <2> QED
    BY <1>2, <2>1, <2>2, <2>3 DEF TypeOK, Types, Continued
<1> QED
  BY <1>3, <1>4

LEMMA TypesInit == Init => Types
<1> SUFFICES ASSUME Init PROVE Types
  OBVIOUS
<1>1. [c \in Counters |-> <<>>] \in [Counters -> Joined]
  <2>1. <<>> \in Joined
    BY DEF Joined
  <2> QED
    BY <2>1
<1>2. divMsgBox \in [Counters -> Joined]
  BY <1>1 DEF Init
<1>3. /\ inMsg \in Started \cup {Fresh}
      /\ inMsg.received < inMsg.total \/ inMsg = Fresh
      /\ inMsg.received = 0
  BY DEF Init, Fresh
<1>4. /\ messages \in Seq(Sent) /\ parts \in Seq(Part)
      /\ delivered \in Seq([counter : Counters, payload : Joined])
  BY DEF Init
<1>5. /\ overhead \in Overheads
      /\ requestChunk \in Nat /\ requestChunk > HeaderLen
      /\ arrived \in Nat /\ parsed \in 0..arrived
      /\ receiver \in {"idle", "parsing", "closed", "garbled"}
      /\ loneHeader \in BOOLEAN
  <2>1. overhead \in Overheads /\ requestChunk = RequestChunk
    BY DEF Init
  <2>2. requestChunk \in Nat /\ requestChunk > HeaderLen
    BY <2>1, FramingAssumption
  <2>3. arrived = 0 /\ parsed = 0
    BY DEF Init
  <2>4. receiver \in {"idle", "parsing", "closed", "garbled"} /\ loneHeader \in BOOLEAN
    BY DEF Init
  <2>5. arrived \in Nat /\ parsed \in 0..arrived
    BY <2>3
  <2> QED
    BY <2>1, <2>2, <2>4, <2>5
<1> QED
  BY <1>2, <1>3, <1>4, <1>5 DEF Types, TypeOK, Continued

LEMMA TypesNext == Types /\ [Next]_vars => Types'
<1> SUFFICES ASSUME Types, [Next]_vars PROVE Types'
  OBVIOUS
<1>0. TypeOK /\ Continued
  BY DEF Types
<1>1. ASSUME NEW c \in Counters, NEW s \in Sizes, Push(c, s) PROVE Types'
  <2>1. PICK q : Pushed(c, q)
    BY <1>0, <1>1, PushAppends
  <2>2. q \in Seq(Part) /\ Len(q) \in Nat
    BY <2>1 DEF Pushed, PartsOf
  <2>3. parts \in Seq(Part) /\ Len(parts) \in Nat /\ messages \in Seq(Sent)
    BY <1>0 DEF TypeOK
  <2>4. parts' \in Seq(Part)
    BY <2>1, <2>2, <2>3 DEF Pushed
  <2>5. [counter |-> c, first |-> Len(parts) + 1, last |-> Len(parts) + Len(q)] \in Sent
    BY <2>2, <2>3 DEF Sent
  <2>6. messages' \in Seq(Sent)
    BY <2>1, <2>3, <2>5 DEF Pushed
  <2> QED
    BY <1>0, <2>1, <2>4, <2>6 DEF Pushed, TypeOK, Types, Continued
<1>2. CASE MsgBuildFails
  BY <1>0, <1>2, FramingAssumption DEF MsgBuildFails, TypeOK, Types, Continued
<1>3. ASSUME NEW n \in 1..(Written - arrived), DataReceived(n) PROVE Types'
  <2>1. n \in Nat
    BY <1>0, WrittenType DEF TypeOK
  <2> QED
    BY <1>0, <1>3, <2>1 DEF DataReceived, TypeOK, Types, Continued
<1>4. CASE MsgParse
  <2>0. UNCHANGED <<overhead, requestChunk, messages, parts, arrived>>
    BY <1>4 DEF MsgParse
  <2>1. ASSUME arrived - parsed >= HeaderLen, NEW h \in HeadersAt(parsed),
               Parsed(ReceiveData(ReadHeader(h), parsed + HeaderLen))
        PROVE  Types'
    <3>1. PICK m : m = ReadHeader(h)
      OBVIOUS
    <3>2. PICK place : place = parsed + HeaderLen
      OBVIOUS
    <3>3. m \in Started /\ m.received = 0 /\ m.from = place /\ place \in Nat /\ place <= arrived
      BY <1>0, <2>1, <3>1, <3>2, HeaderType
    <3>4. m.received <= m.total /\ m.from + m.received = place
      BY <3>3 DEF Started
    <3>5. PICK r : r = ReceiveData(m, place)
      OBVIOUS
    <3>6. r \in Started /\ r.received <= r.total /\ r.from + r.received <= arrived
      BY <1>0, <3>3, <3>4, <3>5, ReceiveDataType
    <3> QED
      BY <1>0, <2>0, <2>1, <3>1, <3>2, <3>5, <3>6, ParsedType
  <2>2. ASSUME inMsg.received # 0, arrived > parsed, Parsed(ReceiveData(inMsg, parsed))
        PROVE  Types'
    <3>1. inMsg \in Started /\ inMsg.received <= inMsg.total
      <4>1. inMsg # Fresh
        BY <2>2 DEF Fresh
      <4>2. inMsg \in Started
        BY <1>0, <4>1 DEF TypeOK
      <4>3. inMsg.received \in Nat /\ inMsg.total \in Nat
        BY <4>2 DEF Started
      <4> QED
        BY <1>0, <4>1, <4>2, <4>3 DEF TypeOK
    <3>2. parsed \in Nat /\ parsed <= arrived /\ inMsg.from + inMsg.received = parsed
      BY <1>0, <2>2 DEF TypeOK, Continued
    <3>3. PICK r : r = ReceiveData(inMsg, parsed)
      OBVIOUS
    <3>4. r \in Started /\ r.received <= r.total /\ r.from + r.received <= arrived
      BY <1>0, <3>1, <3>2, <3>3, ReceiveDataType
    <3> QED
      BY <1>0, <2>0, <2>2, <3>3, <3>4, ParsedType
  <2>3. ASSUME UNCHANGED <<parsed, inMsg, divMsgBox, delivered, loneHeader>>,
               receiver' \in {"idle", "garbled"}
        PROVE  Types'
    BY <1>0, <2>0, <2>3 DEF TypeOK, Types, Continued
  <2> QED
    BY <1>4, <2>1, <2>2, <2>3 DEF MsgParse
<1>5. CASE UNCHANGED vars
  BY <1>0, <1>5 DEF vars, TypeOK, Types, Continued
<1> QED
  BY <1>1, <1>2, <1>3, <1>4, <1>5 DEF Next

LEMMA TypesAlways == Spec => []Types
  BY TypesInit, TypesNext, PTL DEF Spec

(* No step takes a variable out of its type.                               *)
THEOREM TypeCorrect == Spec => []TypeOK
<1>1. Types => TypeOK
  BY DEF Types
<1> QED
  BY <1>1, TypesAlways, PTL

Contiguous ==
    /\ parts # <<>> => parts[1].start = 0
    /\ \A i, j \in DOMAIN parts : j = i + 1 => parts[j].start = End(parts[i])
    /\ \A i, j \in DOMAIN parts : i < j => End(parts[i]) <= parts[j].start

Grouped ==
    /\ \A n \in DOMAIN messages : \A i \in messages[n].first..messages[n].last :
          /\ i \in DOMAIN parts
          /\ parts[i].counter = messages[n].counter
          /\ parts[i].divided = (i # messages[n].last)
    /\ \A n \in DOMAIN messages : messages[n].first <= messages[n].last
    /\ \A n \in DOMAIN messages :
          messages[n].first = 1 + (IF n = 1 THEN 0 ELSE messages[n - 1].last)
    /\ Len(parts) = IF messages = <<>> THEN 0 ELSE messages[Len(messages)].last

(* Where the part after the first k begins; the last part of message n.    *)
Place(k)   == IF k = 0 THEN 0 ELSE End(parts[k])
LastOf(n)  == IF n = 0 THEN 0 ELSE messages[n].last

(* What has been read, while no cut fell right behind a header: n messages *)
(* are delivered, k parts are complete, those behind message n are in the  *)
(* box, and what was read of the next one is in in_msg.                    *)
Delivered(n) ==
    /\ Len(delivered) = n
    /\ \A i \in 1..n : delivered[i] = [counter |-> messages[i].counter, payload |-> Token(i)]

Boxed(n, k) ==
    \A c \in Counters :
        divMsgBox[c] = IF k > LastOf(n) /\ c = messages[n + 1].counter
                       THEN [j \in 1..(k - LastOf(n)) |-> Payload(parts[LastOf(n) + j])]
                       ELSE <<>>

At(n, k) ==
    /\ n \in 0..Len(messages)
    /\ LastOf(n) <= k
    /\ k > LastOf(n) => n < Len(messages) /\ k < LastOf(n + 1)

Position(k) ==
    \/ inMsg = Fresh /\ parsed = Place(k)
    \/ /\ inMsg.received > 0
       /\ k + 1 \in DOMAIN parts
       /\ LET p == parts[k + 1] IN
          /\ inMsg = [counter |-> p.counter, total |-> p.size, divided |-> p.divided,
                      from |-> p.start + HeaderLen, received |-> inMsg.received]
          /\ inMsg.received < p.size
          /\ parsed = p.start + HeaderLen + inMsg.received

Reading ==
    /\ receiver \in {"idle", "parsing"}
    /\ \E n, k \in Nat : At(n, k) /\ Delivered(n) /\ Boxed(n, k) /\ Position(k)

(* What is idle could not go on.                                           *)
Starved ==
    receiver = "idle" =>
        IF inMsg.received = 0 THEN arrived - parsed < HeaderLen ELSE arrived = parsed

Framed ==
    /\ Contiguous /\ Grouped
    /\ arrived <= Written
    /\ ~loneHeader => Reading /\ Starved

Stream == Contiguous /\ Grouped

LEMMA StreamTypes ==
    ASSUME TypeOK
    PROVE  /\ parts \in Seq(Part) /\ Len(parts) \in Nat /\ DOMAIN parts = 1..Len(parts)
           /\ messages \in Seq(Sent) /\ Len(messages) \in Nat
           /\ DOMAIN messages = 1..Len(messages)
           /\ \A i \in DOMAIN parts : /\ parts[i].start \in Nat /\ parts[i].size \in Nat
                                      /\ End(parts[i]) \in Nat
                                      /\ parts[i].start < End(parts[i])
           /\ \A n \in DOMAIN messages :
                 /\ messages[n].first \in Nat /\ messages[n].first > 0
                 /\ messages[n].last \in Nat
<1>1. parts \in Seq(Part) /\ messages \in Seq(Sent)
  BY DEF TypeOK
<1>2. /\ Len(parts) \in Nat /\ DOMAIN parts = 1..Len(parts)
      /\ Len(messages) \in Nat /\ DOMAIN messages = 1..Len(messages)
  BY <1>1
<1>3. \A i \in DOMAIN parts : /\ parts[i].start \in Nat /\ parts[i].size \in Nat
                              /\ End(parts[i]) \in Nat
                              /\ parts[i].start < End(parts[i])
  <2> SUFFICES ASSUME NEW i \in DOMAIN parts
               PROVE  /\ parts[i].start \in Nat /\ parts[i].size \in Nat
                      /\ End(parts[i]) \in Nat
                      /\ parts[i].start < End(parts[i])
    OBVIOUS
  <2>1. parts[i] \in Part
    BY <1>1
  <2>2. parts[i].start \in Nat /\ parts[i].size \in Nat
    BY <2>1 DEF Part
  <2> QED
    BY <2>2, ConstantsType DEF End
<1>4. \A n \in DOMAIN messages : messages[n] \in Sent
  BY <1>1
<1>5. \A n \in DOMAIN messages : /\ messages[n].first \in Nat /\ messages[n].first > 0
                                 /\ messages[n].last \in Nat
  BY <1>4 DEF Sent
<1> QED
  BY <1>1, <1>2, <1>3, <1>5

(* The bytes written end where the last part ends, and so behind each.     *)
LEMMA WrittenIsLast ==
    ASSUME TypeOK, Stream
    PROVE  /\ Written = Place(Len(parts))
           /\ \A i \in DOMAIN parts : End(parts[i]) <= Written
<1>0. Len(parts) \in Nat /\ DOMAIN parts = 1..Len(parts) /\ parts \in Seq(Part)
  BY StreamTypes
<1>1. Written = Place(Len(parts))
  <2>1. CASE parts = <<>>
    <3>1. Len(parts) = 0
      BY <2>1
    <3> QED
      BY <2>1, <3>1 DEF Written, Place
  <2>2. CASE parts # <<>>
    <3>1. Len(parts) # 0
      BY <1>0, <2>2
    <3> QED
      BY <2>2, <3>1 DEF Written, Place, Last
  <2> QED
    BY <2>1, <2>2
<1>2. ASSUME NEW i \in DOMAIN parts PROVE End(parts[i]) <= Written
  <2>1. PICK L : L = Len(parts)
    OBVIOUS
  <2>2. L \in Nat /\ L > 0 /\ L \in DOMAIN parts /\ i \in 1..L /\ Written = End(parts[L])
    BY <1>0, <1>1, <2>1 DEF Place
  <2>3. CASE i = L
    BY <2>2, <2>3, StreamTypes
  <2>4. CASE i # L
    <3>1. i < L
      BY <2>2, <2>4
    <3>2. End(parts[i]) <= parts[L].start
      BY <2>2, <3>1 DEF Stream, Contiguous
    <3> QED
      BY <2>2, <3>2, StreamTypes
  <2> QED
    BY <2>3, <2>4
<1> QED
  BY <1>1, <1>2

(* Messages are of parts that are written.                                 *)
LEMMA LastOfBounds ==
    ASSUME TypeOK, Stream
    PROVE  /\ \A n \in 0..Len(messages) : LastOf(n) \in 0..Len(parts)
           /\ LastOf(Len(messages)) = Len(parts)
           /\ \A n \in 0..Len(messages) : n < Len(messages) =>
                 /\ messages[n + 1].first = LastOf(n) + 1
                 /\ LastOf(n) < LastOf(n + 1)
                 /\ LastOf(n + 1) = messages[n + 1].last
                 /\ n + 1 \in DOMAIN messages
<1>0. /\ Len(messages) \in Nat /\ DOMAIN messages = 1..Len(messages) /\ messages \in Seq(Sent)
      /\ Len(parts) \in Nat /\ DOMAIN parts = 1..Len(parts)
  BY StreamTypes
<1>1. ASSUME NEW n \in 1..Len(messages) PROVE LastOf(n) \in 0..Len(parts)
  <2>1. n \in DOMAIN messages /\ n # 0
    BY <1>0
  <2>2. /\ messages[n].first \in Nat /\ messages[n].last \in Nat
        /\ messages[n].first <= messages[n].last
    BY <2>1, StreamTypes DEF Stream, Grouped
  <2>3. messages[n].last \in messages[n].first..messages[n].last
    BY <2>2
  <2>4. messages[n].last \in DOMAIN parts
    BY <2>1, <2>3 DEF Stream, Grouped
  <2> QED
    BY <1>0, <2>1, <2>4 DEF LastOf
<1>2. LastOf(0) = 0
  BY DEF LastOf
<1>3. \A n \in 0..Len(messages) : LastOf(n) \in 0..Len(parts)
  <2> SUFFICES ASSUME NEW n \in 0..Len(messages) PROVE LastOf(n) \in 0..Len(parts)
    OBVIOUS
  <2>1. n = 0 \/ n \in 1..Len(messages)
    BY <1>0
  <2>2. 0 \in 0..Len(parts)
    BY <1>0
  <2> QED
    BY <1>1, <1>2, <2>1, <2>2
<1>4. LastOf(Len(messages)) = Len(parts)
  <2>1. Len(parts) = IF messages = <<>> THEN 0 ELSE messages[Len(messages)].last
    BY DEF Stream, Grouped
  <2>2. (messages = <<>>) <=> (Len(messages) = 0)
    BY <1>0
  <2> QED
    BY <2>1, <2>2 DEF LastOf
<1>5. ASSUME NEW n \in 0..Len(messages), n < Len(messages)
      PROVE  /\ messages[n + 1].first = LastOf(n) + 1
             /\ LastOf(n) < LastOf(n + 1)
             /\ LastOf(n + 1) = messages[n + 1].last
             /\ n + 1 \in DOMAIN messages
  <2>1. PICK m : m = n + 1
    OBVIOUS
  <2>2. m \in DOMAIN messages /\ m # 0 /\ m - 1 = n /\ n \in Nat
    BY <1>0, <1>5, <2>1
  <2>3. messages[m].first = 1 + (IF m = 1 THEN 0 ELSE messages[m - 1].last)
    BY <2>2 DEF Stream, Grouped
  <2>4. (m = 1) <=> (n = 0)
    BY <2>1, <2>2
  <2>5. messages[m].first = 1 + LastOf(n)
    BY <2>2, <2>3, <2>4 DEF LastOf
  <2>6. LastOf(n) \in Nat
    BY <1>0, <1>3
  <2>7. LastOf(m) = messages[m].last
    BY <2>2 DEF LastOf
  <2>8. messages[m].first <= messages[m].last
    BY <2>2 DEF Stream, Grouped
  <2>9. messages[m].last \in Nat
    BY <2>2, StreamTypes
  <2> QED
    BY <2>1, <2>2, <2>5, <2>6, <2>7, <2>8, <2>9
<1> QED
  BY <1>3, <1>4, <1>5

(* What a push leaves of the stream, and what it adds.                     *)
LEMMA PushFacts ==
    ASSUME TypeOK, NEW c \in Counters, NEW q, Pushed(c, q)
    PROVE  /\ Len(q) \in Nat /\ Len(q) > 0 /\ DOMAIN q = 1..Len(q)
           /\ DOMAIN parts' = 1..(Len(parts) + Len(q)) /\ Len(parts') = Len(parts) + Len(q)
           /\ \A i \in 1..Len(parts) : parts'[i] = parts[i]
           /\ \A i \in 1..Len(q) : parts'[Len(parts) + i] = q[i]
           /\ DOMAIN messages' = 1..(Len(messages) + 1) /\ Len(messages') = Len(messages) + 1
           /\ \A n \in 1..Len(messages) : messages'[n] = messages[n]
           /\ messages'[Len(messages) + 1] =
                 [counter |-> c, first |-> Len(parts) + 1, last |-> Len(parts) + Len(q)]
<1>1. q \in Seq(Part) /\ Len(q) > 0 /\ parts' = parts \o q
  BY DEF Pushed, PartsOf
<1>2. parts \in Seq(Part) /\ messages \in Seq(Sent)
  BY DEF TypeOK
<1>3. /\ Len(q) \in Nat /\ Len(q) > 0 /\ DOMAIN q = 1..Len(q)
      /\ DOMAIN parts' = 1..(Len(parts) + Len(q)) /\ Len(parts') = Len(parts) + Len(q)
      /\ \A i \in 1..Len(parts) : parts'[i] = parts[i]
      /\ \A i \in 1..Len(q) : parts'[Len(parts) + i] = q[i]
  BY <1>1, <1>2
<1>4. PICK m : m = [counter |-> c, first |-> Len(parts) + 1, last |-> Len(parts) + Len(q)]
  OBVIOUS
<1>5. messages' = Append(messages, m)
  BY <1>4 DEF Pushed
<1>6. m \in Sent
  BY <1>2, <1>3, <1>4 DEF Sent
<1>7. /\ DOMAIN messages' = 1..(Len(messages) + 1) /\ Len(messages') = Len(messages) + 1
      /\ \A n \in 1..Len(messages) : messages'[n] = messages[n]
      /\ messages'[Len(messages) + 1] = m
  BY <1>2, <1>5, <1>6
<1> QED
  BY <1>3, <1>4, <1>7

LEMMA PushedPart ==
    ASSUME TypeOK, NEW c \in Counters, NEW q, Pushed(c, q), NEW i \in 1..Len(q)
    PROVE  parts'[Len(parts) + i] = q[i]
<1>1. parts' = parts \o q /\ parts \in Seq(Part) /\ q \in Seq(Part)
  BY DEF Pushed, PartsOf, TypeOK
<1> QED
  BY <1>1, ConcatProperties

LEMMA ContiguousPush ==
    ASSUME TypeOK, Stream, NEW c \in Counters, NEW q, Pushed(c, q)
    PROVE  Contiguous'
<1>1. PICK L : L = Len(parts)
  OBVIOUS
<1>2. PICK l : l = Len(q)
  OBVIOUS
<1>3. PICK p : p = parts'
  OBVIOUS
<1>4. /\ L \in Nat /\ l \in Nat /\ l > 0 /\ DOMAIN parts = 1..L /\ DOMAIN q = 1..l
  BY <1>1, <1>2, PushFacts, StreamTypes
<1>5. /\ DOMAIN p = 1..(L + l)
      /\ \A i \in 1..L : p[i] = parts[i]
      /\ \A i \in 1..l : p[L + i] = q[i]
  <2>1. DOMAIN p = 1..(L + l)
    BY <1>1, <1>2, <1>3, PushFacts
  <2>2. \A i \in 1..L : p[i] = parts[i]
    BY <1>1, <1>3, PushFacts
  <2>3. \A i \in 1..l : p[L + i] = q[i]
    <3> SUFFICES ASSUME NEW i \in 1..l PROVE p[L + i] = q[i]
      OBVIOUS
    <3>1. i \in 1..Len(q)
      BY <1>2
    <3>2. parts'[Len(parts) + i] = q[i]
      BY <3>1, PushedPart
    <3> QED
      BY <1>1, <1>3, <3>2
  <2> QED
    BY <2>1, <2>2, <2>3
<1>6. /\ q[1].start = Written
      /\ \A i, j \in DOMAIN q : j = i + 1 => q[j].start = End(q[i])
      /\ \A i, j \in DOMAIN q : i < j => End(q[i]) <= q[j].start
  BY DEF Pushed, PartsOf
<1>7. PICK W : W = Written /\ W \in Nat
  BY WrittenType
<1>8. W = (IF L = 0 THEN 0 ELSE End(parts[L])) /\ \A i \in 1..L : End(parts[i]) <= W
  BY <1>1, <1>4, <1>7, WrittenIsLast DEF Place
<1>9. \A i \in 1..l : /\ q[i].start \in Nat /\ End(q[i]) \in Nat /\ q[i].start < End(q[i])
                      /\ q[i].start >= W
  <2>1. \A i \in 1..l : /\ q[i].start \in Nat /\ End(q[i]) \in Nat /\ q[i].start < End(q[i])
    <3> SUFFICES ASSUME NEW i \in 1..l
                 PROVE  /\ q[i].start \in Nat /\ End(q[i]) \in Nat /\ q[i].start < End(q[i])
      OBVIOUS
    <3>1. q \in Seq(Part) /\ q[i] \in Part
      BY <1>4 DEF Pushed, PartsOf
    <3>2. q[i].start \in Nat /\ q[i].size \in Nat
      BY <3>1 DEF Part
    <3> QED
      BY <3>2, ConstantsType DEF End
  <2>2. 1 \in 1..l
    BY <1>4
  <2>3. ASSUME NEW i \in 1..l PROVE q[i].start >= W
    <3>1. CASE i = 1
      BY <1>6, <1>7, <3>1
    <3>2. CASE i # 1
      <4>1. 1 < i
        BY <1>4, <3>2
      <4>2. End(q[1]) <= q[i].start
        BY <1>4, <1>6, <2>2, <4>1
      <4> QED
        BY <1>6, <1>7, <2>1, <2>2, <4>2
    <3> QED
      BY <3>1, <3>2
  <2> QED
    BY <2>1, <2>3
<1>10. /\ parts # <<>> => parts[1].start = 0
       /\ \A i, j \in DOMAIN parts : j = i + 1 => parts[j].start = End(parts[i])
       /\ \A i, j \in DOMAIN parts : i < j => End(parts[i]) <= parts[j].start
  BY DEF Stream, Contiguous
<1>11. p[1].start = 0
  <2>1. CASE L = 0
    <3>1. 1 \in 1..l /\ L + 1 = 1
      BY <1>4, <2>1
    <3>2. p[1] = q[1]
      BY <1>5, <3>1
    <3> QED
      BY <1>6, <1>7, <1>8, <2>1, <3>2
  <2>2. CASE L # 0
    <3>1. 1 \in 1..L /\ parts # <<>>
      BY <1>1, <1>4, <2>2
    <3> QED
      BY <1>10, <1>5, <3>1
  <2> QED
    BY <2>1, <2>2
<1>12. ASSUME NEW i \in DOMAIN p, NEW j \in DOMAIN p, j = i + 1
       PROVE  p[j].start = End(p[i])
  <2>0. i \in 1..(L + l) /\ j \in 1..(L + l)
    BY <1>5
  <2>1. CASE j <= L
    <3>1. i \in 1..L /\ j \in 1..L
      BY <1>4, <1>12, <2>0, <2>1
    <3> QED
      BY <1>4, <1>10, <1>5, <1>12, <3>1
  <2>2. CASE i = L
    <3>1. 1 \in 1..l /\ j = L + 1 /\ L \in 1..L /\ L # 0
      BY <1>4, <1>12, <2>0, <2>2
    <3>2. p[j] = q[1] /\ p[i] = parts[L]
      BY <1>5, <2>2, <3>1
    <3> QED
      BY <1>6, <1>7, <1>8, <3>1, <3>2
  <2>3. CASE i > L
    <3>1. PICK x \in 1..l, y \in 1..l : i = L + x /\ j = L + y /\ y = x + 1
      <4>1. i - L \in 1..l /\ j - L \in 1..l /\ i = L + (i - L) /\ j = L + (j - L)
            /\ j - L = (i - L) + 1
        <5>1. L \in Nat /\ l \in Nat /\ i \in Int /\ j = i + 1
          BY <1>4, <1>12, <2>0
        <5> QED
          BY <2>0, <2>3, <5>1
      <4> QED
        BY <4>1
    <3>2. p[i] = q[x] /\ p[j] = q[y]
      BY <1>5, <3>1
    <3> QED
      BY <1>4, <1>6, <3>1, <3>2
  <2> QED
    BY <1>4, <1>12, <2>0, <2>1, <2>2, <2>3
<1>13. ASSUME NEW i \in DOMAIN p, NEW j \in DOMAIN p, i < j
       PROVE  End(p[i]) <= p[j].start
  <2>0. i \in 1..(L + l) /\ j \in 1..(L + l)
    BY <1>5
  <2>1. CASE j <= L
    <3>1. i \in 1..L /\ j \in 1..L
      BY <1>4, <1>13, <2>0, <2>1
    <3> QED
      BY <1>4, <1>10, <1>5, <1>13, <3>1
  <2>2. CASE i <= L /\ j > L
    <3>1. PICK y \in 1..l : j = L + y
      <4>1. j - L \in 1..l /\ j = L + (j - L)
        BY <1>4, <2>0, <2>2
      <4> QED
        BY <4>1
    <3>2. i \in 1..L
      BY <1>4, <2>0, <2>2
    <3>3. p[i] = parts[i] /\ p[j] = q[y]
      BY <1>5, <3>1, <3>2
    <3>4. End(parts[i]) \in Nat /\ End(parts[i]) <= W /\ q[y].start \in Nat /\ q[y].start >= W
      BY <1>4, <1>8, <1>9, <3>2, StreamTypes
    <3> QED
      BY <1>7, <3>3, <3>4
  <2>3. CASE i > L
    <3>1. PICK x \in 1..l, y \in 1..l : i = L + x /\ j = L + y /\ x < y
      <4>1. i - L \in 1..l /\ j - L \in 1..l /\ i = L + (i - L) /\ j = L + (j - L)
            /\ i - L < j - L
        BY <1>4, <1>13, <2>0, <2>3
      <4> QED
        BY <4>1
    <3>2. p[i] = q[x] /\ p[j] = q[y]
      BY <1>5, <3>1
    <3> QED
      BY <1>4, <1>6, <3>1, <3>2
  <2> QED
    BY <1>4, <1>13, <2>0, <2>1, <2>2, <2>3
<1> QED
  BY <1>3, <1>11, <1>12, <1>13 DEF Contiguous, End

LEMMA GroupedPush ==
    ASSUME TypeOK, Stream, NEW c \in Counters, NEW q, Pushed(c, q)
    PROVE  Grouped'
<1>1. PICK L : L = Len(parts)
  OBVIOUS
<1>2. PICK l : l = Len(q)
  OBVIOUS
<1>3. PICK M : M = Len(messages)
  OBVIOUS
<1>4. PICK p : p = parts'
  OBVIOUS
<1>5. PICK m : m = messages'
  OBVIOUS
<1>6. /\ L \in Nat /\ l \in Nat /\ l > 0 /\ M \in Nat
      /\ DOMAIN parts = 1..L /\ DOMAIN q = 1..l /\ DOMAIN messages = 1..M
      /\ DOMAIN p = 1..(L + l) /\ DOMAIN m = 1..(M + 1) /\ Len(m) = M + 1 /\ Len(p) = L + l
      /\ \A i \in 1..L : p[i] = parts[i]
      /\ \A i \in 1..l : p[L + i] = q[i]
      /\ \A n \in 1..M : m[n] = messages[n]
  <2>1. L \in Nat /\ M \in Nat /\ DOMAIN parts = 1..L /\ DOMAIN messages = 1..M
    BY <1>1, <1>3, StreamTypes
  <2>2. /\ l \in Nat /\ l > 0 /\ DOMAIN q = 1..l
        /\ DOMAIN p = 1..(L + l) /\ Len(p) = L + l
        /\ \A i \in 1..L : p[i] = parts[i]
        /\ \A i \in 1..l : p[L + i] = q[i]
    <3>1. l \in Nat /\ l > 0 /\ DOMAIN q = 1..l
      BY <1>2, PushFacts
    <3>2. DOMAIN p = 1..(L + l) /\ Len(p) = L + l
      BY <1>1, <1>2, <1>4, PushFacts
    <3>3. \A i \in 1..L : p[i] = parts[i]
      BY <1>1, <1>4, PushFacts
    <3>4. \A i \in 1..l : p[L + i] = q[i]
      <4> SUFFICES ASSUME NEW i \in 1..l PROVE p[L + i] = q[i]
        OBVIOUS
      <4>1. i \in 1..Len(q)
        BY <1>2
      <4>2. parts'[Len(parts) + i] = q[i]
        BY <4>1, PushedPart
      <4> QED
        BY <1>1, <1>4, <4>2
    <3> QED
      BY <3>1, <3>2, <3>3, <3>4
  <2>3. /\ DOMAIN m = 1..(M + 1) /\ Len(m) = M + 1
        /\ \A n \in 1..M : m[n] = messages[n]
    BY <1>3, <1>5, PushFacts
  <2> QED
    BY <2>1, <2>2, <2>3
<1>7. m[M + 1].counter = c /\ m[M + 1].first = L + 1 /\ m[M + 1].last = L + l
  <2>1. m[M + 1] = [counter |-> c, first |-> L + 1, last |-> L + l]
    BY <1>1, <1>2, <1>3, <1>5, PushFacts
  <2> QED
    BY <2>1
<1>8. \A i \in 1..l : q[i].counter = c /\ q[i].divided = (i # l)
  BY <1>2, <1>6 DEF Pushed, PartsOf
<1>9. ASSUME NEW n \in DOMAIN m, NEW i \in m[n].first..m[n].last
      PROVE  /\ i \in DOMAIN p
             /\ p[i].counter = m[n].counter
             /\ p[i].divided = (i # m[n].last)
  <2>1. CASE n \in 1..M
    <3>1. m[n] = messages[n] /\ n \in DOMAIN messages
      BY <1>6, <2>1
    <3>2. /\ i \in DOMAIN parts
          /\ parts[i].counter = messages[n].counter
          /\ parts[i].divided = (i # messages[n].last)
      BY <1>9, <3>1 DEF Stream, Grouped
    <3>3. i \in 1..L /\ i \in 1..(L + l)
      BY <1>6, <3>2
    <3>4. p[i] = parts[i]
      BY <1>6, <3>3
    <3> QED
      BY <1>6, <3>1, <3>2, <3>3, <3>4
  <2>2. CASE n = M + 1
    <3>0. i \in (L + 1)..(L + l)
      BY <1>7, <1>9, <2>2
    <3>1. PICK x \in 1..l : i = L + x
      <4>1. i - L \in 1..l /\ i = L + (i - L)
        BY <1>6, <3>0
      <4> QED
        BY <4>1
    <3>2. p[i] = q[x] /\ i \in 1..(L + l)
      BY <1>6, <3>1
    <3>3. (x # l) = (i # L + l)
      BY <1>6, <3>1
    <3> QED
      BY <1>6, <1>7, <1>8, <2>2, <3>2, <3>3
  <2> QED
    BY <1>6, <2>1, <2>2
<1>10. \A n \in DOMAIN m : m[n].first <= m[n].last
  <2> SUFFICES ASSUME NEW n \in DOMAIN m PROVE m[n].first <= m[n].last
    OBVIOUS
  <2>1. CASE n \in 1..M
    BY <1>6, <2>1 DEF Stream, Grouped
  <2>2. CASE n = M + 1
    BY <1>6, <1>7, <2>2
  <2> QED
    BY <1>6, <2>1, <2>2
<1>11. ASSUME NEW n \in DOMAIN m
       PROVE  m[n].first = 1 + (IF n = 1 THEN 0 ELSE m[n - 1].last)
  <2>1. CASE n \in 1..M
    <3>1. m[n] = messages[n] /\ n \in DOMAIN messages
      BY <1>6, <2>1
    <3>2. n # 1 => n - 1 \in 1..M
      BY <1>6, <2>1
    <3>3. n # 1 => m[n - 1] = messages[n - 1]
      BY <1>6, <3>2
    <3>4. messages[n].first = 1 + (IF n = 1 THEN 0 ELSE messages[n - 1].last)
      BY <3>1 DEF Stream, Grouped
    <3> QED
      BY <3>1, <3>3, <3>4
  <2>2. CASE n = M + 1
    <3>1. L = IF messages = <<>> THEN 0 ELSE messages[M].last
      BY <1>1, <1>3 DEF Stream, Grouped
    <3>2. (messages = <<>>) <=> (M = 0)
      BY <1>3, StreamTypes
    <3>3. M # 0 => m[M] = messages[M]
      BY <1>6
    <3>4. (n = 1) <=> (M = 0)
      BY <1>6, <2>2
    <3>5. n - 1 = M
      BY <1>6, <2>2
    <3>6. L = IF n = 1 THEN 0 ELSE m[n - 1].last
      BY <3>1, <3>2, <3>3, <3>4, <3>5
    <3>7. m[n].first = L + 1
      BY <1>7, <2>2
    <3> QED
      BY <1>6, <3>6, <3>7
  <2> QED
    BY <1>6, <2>1, <2>2
<1>12. Len(p) = IF m = <<>> THEN 0 ELSE m[Len(m)].last
  <2>1. m # <<>>
    BY <1>6
  <2> QED
    BY <1>6, <1>7, <2>1
<1> QED
  BY <1>4, <1>5, <1>9, <1>10, <1>11, <1>12 DEF Grouped

(* The reader has come no further than the stream.                         *)
LEMMA AtBounds ==
    ASSUME TypeOK, Stream, NEW n \in Nat, NEW k \in Nat, At(n, k)
    PROVE  /\ n \in 0..Len(messages) /\ LastOf(n) \in Nat /\ LastOf(n) <= k /\ k <= Len(parts)
           /\ k > LastOf(n) => /\ n < Len(messages) /\ LastOf(n + 1) \in Nat
                               /\ k < LastOf(n + 1)
<1>1. /\ n \in 0..Len(messages) /\ LastOf(n) <= k
      /\ k > LastOf(n) => n < Len(messages) /\ k < LastOf(n + 1)
  BY DEF At
<1>2. Len(messages) \in Nat /\ Len(parts) \in Nat
  BY StreamTypes
<1>3. LastOf(n) \in 0..Len(parts)
  BY <1>1, LastOfBounds
<1>4. n < Len(messages) => LastOf(n + 1) \in 0..Len(parts)
  <2> SUFFICES ASSUME n < Len(messages) PROVE LastOf(n + 1) \in 0..Len(parts)
    OBVIOUS
  <2>1. n + 1 \in 0..Len(messages)
    BY <1>1, <1>2
  <2> QED
    BY <2>1, LastOfBounds
<1>5. PICK a, b : a = LastOf(n) /\ b = LastOf(n + 1)
  OBVIOUS
<1> QED
  BY <1>1, <1>2, <1>3, <1>4, <1>5

(* A push changes nothing of what has been read or is being read.          *)
LEMMA TokenPush ==
    ASSUME TypeOK, Stream, NEW c \in Counters, NEW q, Pushed(c, q),
           NEW n \in 1..Len(messages)
    PROVE  Token(n)' = Token(n)
<1>1. n \in DOMAIN messages /\ messages'[n] = messages[n]
  BY PushFacts, StreamTypes
<1>2. PICK f, l : f = messages[n].first /\ l = messages[n].last
  OBVIOUS
<1>3. f \in Nat /\ f > 0 /\ l \in Nat
  BY <1>1, <1>2, StreamTypes
<1>4. ASSUME NEW k \in 1..(l - f + 1) PROVE parts'[f + k - 1] = parts[f + k - 1]
  <2>1. f + k - 1 \in f..l
    BY <1>3
  <2>2. f + k - 1 \in DOMAIN parts
    BY <1>1, <1>2, <2>1 DEF Stream, Grouped
  <2>3. f + k - 1 \in 1..Len(parts)
    BY <2>2, StreamTypes
  <2> QED
    BY <2>3, PushFacts
<1>5. Token(n) = [k \in 1..(l - f + 1) |-> Payload(parts[f + k - 1])]
  BY <1>2 DEF Token
<1>6. Token(n)' = [k \in 1..(l - f + 1) |-> Payload(parts'[f + k - 1])]
  BY <1>1, <1>2 DEF Token, Payload, End
<1> QED
  BY <1>4, <1>5, <1>6

LEMMA ReadingPush ==
    ASSUME Types, Stream, Reading, NEW c \in Counters, NEW q, Pushed(c, q)
    PROVE  Reading'
<1>0. TypeOK
  BY DEF Types
<1>1. PICK n \in Nat, k \in Nat : At(n, k) /\ Delivered(n) /\ Boxed(n, k) /\ Position(k)
  BY DEF Reading
<1>2. PICK M : M = Len(messages)
  OBVIOUS
<1>3. PICK L : L = Len(parts)
  OBVIOUS
<1>4. M \in Nat /\ L \in Nat /\ DOMAIN parts = 1..L
  BY <1>0, <1>2, <1>3, StreamTypes
<1>5. /\ n \in 0..M /\ LastOf(n) \in Nat /\ LastOf(n) <= k /\ k <= L
      /\ k > LastOf(n) => n < M /\ LastOf(n + 1) \in Nat /\ k < LastOf(n + 1)
  BY <1>0, <1>1, <1>2, <1>3, AtBounds
<1>6. /\ DOMAIN parts' = 1..(L + Len(q)) /\ Len(q) \in Nat
      /\ \A i \in 1..L : parts'[i] = parts[i]
      /\ Len(messages') = M + 1
      /\ \A i \in 1..M : messages'[i] = messages[i]
  BY <1>0, <1>2, <1>3, PushFacts
<1>7. LastOf(n)' = LastOf(n)
  <2>1. n # 0 => messages'[n] = messages[n]
    BY <1>4, <1>5, <1>6
  <2> QED
    BY <2>1 DEF LastOf
<1>8. n < M => messages'[n + 1] = messages[n + 1] /\ LastOf(n + 1)' = LastOf(n + 1)
  <2>1. n < M => messages'[n + 1] = messages[n + 1]
    BY <1>4, <1>5, <1>6
  <2>2. n + 1 # 0
    OBVIOUS
  <2> QED
    BY <2>1, <2>2 DEF LastOf
<1>9. At(n, k)'
  <2>1. n \in 0..(M + 1) /\ (n < M => n < M + 1)
    BY <1>4, <1>5
  <2> QED
    BY <1>5, <1>6, <1>7, <1>8, <2>1 DEF At
<1>10. Delivered(n)'
  <2>1. delivered' = delivered
    BY DEF Pushed
  <2>2. \A i \in 1..n : i \in 1..M
    BY <1>4, <1>5
  <2>3. \A i \in 1..n : Token(i)' = Token(i)
    BY <1>0, <1>2, <2>2, TokenPush
  <2>4. \A i \in 1..n : messages'[i] = messages[i]
    BY <1>6, <2>2
  <2>5. /\ Len(delivered) = n
        /\ \A i \in 1..n : delivered[i] = [counter |-> messages[i].counter, payload |-> Token(i)]
    BY <1>1 DEF Delivered
  <2> QED
    BY <2>1, <2>3, <2>4, <2>5 DEF Delivered
<1>11. Boxed(n, k)'
  <2>0. divMsgBox' = divMsgBox
    BY DEF Pushed
  <2>1. CASE k > LastOf(n)
    <3>1. messages'[n + 1] = messages[n + 1]
      BY <1>5, <1>8, <2>1
    <3>2. PICK a : a = LastOf(n) /\ a = LastOf(n)'
      BY <1>7
    <3>3. ASSUME NEW j \in 1..(k - a) PROVE parts'[a + j] = parts[a + j]
      <4>1. a + j \in 1..L
        BY <1>4, <1>5, <3>2
      <4> QED
        BY <1>6, <4>1
    <3>4. \A e \in Counters :
             divMsgBox[e] = IF k > a /\ e = messages[n + 1].counter
                            THEN [j \in 1..(k - a) |-> Payload(parts[a + j])]
                            ELSE <<>>
      BY <1>1, <3>2 DEF Boxed
    <3>5. [j \in 1..(k - a) |-> Payload(parts[a + j])]
             = [j \in 1..(k - a) |-> Payload(parts'[a + j])]
      BY <3>3
    <3>6. \A e \in Counters :
             divMsgBox'[e] = IF k > a /\ e = messages'[n + 1].counter
                             THEN [j \in 1..(k - a) |-> Payload(parts'[a + j])]
                             ELSE <<>>
      BY <2>0, <3>1, <3>4, <3>5
    <3> QED
      BY <3>2, <3>6 DEF Boxed, Payload, End
  <2>2. CASE ~(k > LastOf(n))
    <3>1. \A e \in Counters : divMsgBox'[e] = <<>>
      BY <1>1, <2>0, <2>2 DEF Boxed
    <3>2. ~(k > LastOf(n)')
      BY <1>7, <2>2
    <3> QED
      BY <3>1, <3>2 DEF Boxed
  <2> QED
    BY <2>1, <2>2
<1>12. Position(k)'
  <2>0. inMsg' = inMsg /\ parsed' = parsed
    BY DEF Pushed
  <2>1. CASE inMsg = Fresh /\ parsed = Place(k)
    <3>1. k # 0 => parts'[k] = parts[k]
      BY <1>4, <1>5, <1>6
    <3>2. Place(k)' = Place(k)
      BY <3>1 DEF Place, End
    <3> QED
      BY <2>0, <2>1, <3>2 DEF Position, Fresh
  <2>2. CASE /\ inMsg.received > 0
             /\ k + 1 \in DOMAIN parts
             /\ inMsg = [counter |-> parts[k + 1].counter, total |-> parts[k + 1].size,
                         divided |-> parts[k + 1].divided,
                         from |-> parts[k + 1].start + HeaderLen,
                         received |-> inMsg.received]
             /\ inMsg.received < parts[k + 1].size
             /\ parsed = parts[k + 1].start + HeaderLen + inMsg.received
    <3>1. k + 1 \in DOMAIN parts' /\ parts'[k + 1] = parts[k + 1]
      BY <1>4, <1>6, <2>2
    <3> QED
      BY <2>0, <2>2, <3>1 DEF Position
  <2> QED
    BY <1>1, <2>1, <2>2 DEF Position
<1>13. receiver' \in {"idle", "parsing"}
  BY DEF Reading, Pushed
<1> QED
  BY <1>9, <1>10, <1>11, <1>12, <1>13 DEF Reading

(* The part after the first k is of the message after the first n.         *)
LEMMA NextPart ==
    ASSUME TypeOK, Stream, NEW n \in Nat, NEW k \in Nat, At(n, k), k < Len(parts)
    PROVE  /\ k + 1 \in DOMAIN parts
           /\ n < Len(messages) /\ n + 1 \in DOMAIN messages
           /\ LastOf(n) + 1 = messages[n + 1].first
           /\ LastOf(n + 1) = messages[n + 1].last
           /\ k + 1 <= LastOf(n + 1)
           /\ parts[k + 1].counter = messages[n + 1].counter
           /\ parts[k + 1].divided = (k + 1 # LastOf(n + 1))
<1>0. /\ Len(messages) \in Nat /\ DOMAIN messages = 1..Len(messages)
      /\ Len(parts) \in Nat /\ DOMAIN parts = 1..Len(parts)
  BY StreamTypes
<1>1. /\ n \in 0..Len(messages) /\ LastOf(n) \in Nat /\ LastOf(n) <= k
      /\ k > LastOf(n) => n < Len(messages) /\ LastOf(n + 1) \in Nat /\ k < LastOf(n + 1)
  BY AtBounds
<1>2. n < Len(messages)
  <2>1. CASE n = Len(messages)
    <3>1. LastOf(n) = Len(parts)
      BY <2>1, LastOfBounds
    <3> QED
      BY <1>0, <1>1, <3>1
  <2>2. n \in 0..Len(messages)
    BY <1>1
  <2>3. PICK M \in Nat : M = Len(messages)
    BY <1>0
  <2>4. n \in 0..M /\ (n = M => n < M)
    BY <2>1, <2>2, <2>3
  <2>5. n < M
    BY <2>4
  <2> QED
    BY <2>3, <2>5
<1>3. /\ messages[n + 1].first = LastOf(n) + 1
      /\ LastOf(n) < LastOf(n + 1)
      /\ LastOf(n + 1) = messages[n + 1].last
      /\ n + 1 \in DOMAIN messages
  BY <1>1, <1>2, LastOfBounds
<1>4. n + 1 \in 0..Len(messages)
  BY <1>0, <1>1, <1>2
<1>5. LastOf(n + 1) \in 0..Len(parts)
  BY <1>4, LastOfBounds
<1>6. PICK a, b : a = LastOf(n) /\ b = LastOf(n + 1)
  OBVIOUS
<1>7. k + 1 <= b /\ k + 1 \in (a + 1)..b
  <2>1. a \in Nat /\ b \in Nat /\ a <= k /\ a < b /\ (k > a => k < b)
    BY <1>0, <1>1, <1>3, <1>5, <1>6
  <2> QED
    BY <2>1
<1>8. k + 1 \in messages[n + 1].first..messages[n + 1].last
  BY <1>3, <1>6, <1>7
<1>9. /\ k + 1 \in DOMAIN parts
      /\ parts[k + 1].counter = messages[n + 1].counter
      /\ parts[k + 1].divided = (k + 1 # messages[n + 1].last)
  BY <1>3, <1>8 DEF Stream, Grouped
<1> QED
  BY <1>2, <1>3, <1>6, <1>7, <1>9

(* Where the reader looks for a header is the header of the next part.     *)
LEMMA NextHeader ==
    ASSUME TypeOK, Stream, arrived <= Written, NEW n \in Nat, NEW k \in Nat, At(n, k),
           parsed = Place(k), arrived - parsed >= HeaderLen
    PROVE  /\ k < Len(parts)
           /\ parts[k + 1].start = parsed
           /\ HeadersAt(parsed) =
                 {[counter |-> parts[k + 1].counter, total |-> parts[k + 1].size,
                   divided |-> parts[k + 1].divided]}
<1>0. Len(parts) \in Nat /\ DOMAIN parts = 1..Len(parts)
  BY StreamTypes
<1>1. k <= Len(parts)
  BY AtBounds
<1>2. arrived \in Nat /\ parsed \in Nat /\ HeaderLen \in Nat /\ HeaderLen > 0 /\ Written \in Nat
  BY ConstantsType, WrittenType DEF TypeOK
<1>3. k < Len(parts)
  <2>1. k # Len(parts)
    <3>1. k = Len(parts) => parsed = Written
      BY WrittenIsLast
    <3>2. parsed # Written
      BY <1>2
    <3> QED
      BY <3>1, <3>2
  <2>2. PICK L \in Nat : L = Len(parts)
    BY <1>0
  <2>3. k # L /\ k <= L
    BY <1>1, <2>1, <2>2
  <2>4. k < L
    BY <2>3
  <2> QED
    BY <2>2, <2>4
<1>4. k + 1 \in DOMAIN parts
  BY <1>0, <1>3
<1>5. parts[k + 1].start = parsed
  <2>1. CASE k = 0
    <3>1. parts # <<>> /\ k + 1 = 1
      BY <1>0, <1>3, <2>1
    <3> QED
      BY <2>1, <3>1 DEF Stream, Contiguous, Place
  <2>2. CASE k # 0
    <3>1. k \in DOMAIN parts
      BY <1>0, <1>1, <2>2
    <3> QED
      BY <1>4, <2>2, <3>1 DEF Stream, Contiguous, Place
  <2> QED
    BY <2>1, <2>2
<1>6. ASSUME NEW j \in 1..Len(parts), parts[j].start = parsed PROVE j = k + 1
  <2>0. j \in DOMAIN parts
    BY <1>0
  <2>1. CASE j < k + 1
    <3>1. End(parts[j]) <= parts[k + 1].start
      BY <1>4, <2>0, <2>1 DEF Stream, Contiguous
    <3>2. parts[j].start < End(parts[j]) /\ End(parts[j]) \in Nat
      BY <2>0, StreamTypes
    <3> QED
      BY <1>2, <1>5, <1>6, <3>1, <3>2
  <2>2. CASE k + 1 < j
    <3>1. End(parts[k + 1]) <= parts[j].start
      BY <1>4, <2>0, <2>2 DEF Stream, Contiguous
    <3>2. parts[k + 1].start < End(parts[k + 1]) /\ End(parts[k + 1]) \in Nat
      BY <1>4, StreamTypes
    <3> QED
      BY <1>2, <1>5, <1>6, <3>1, <3>2
  <2> QED
    BY <1>0, <2>1, <2>2
<1>7. {j \in 1..Len(parts) : parts[j].start = parsed} = {k + 1}
  BY <1>0, <1>4, <1>5, <1>6
<1> QED
  BY <1>3, <1>5, <1>7 DEF HeadersAt

(* The parts of a message, once the last one is appended.                  *)
PartsBehind(n, k) == [j \in 1..(k - LastOf(n)) |-> Payload(parts[LastOf(n) + j])]

LEMMA PartAppended ==
    ASSUME TypeOK, Stream, NEW n \in Nat, NEW k \in Nat, At(n, k), k < Len(parts), Boxed(n, k),
           NEW c, c = parts[k + 1].counter
    PROVE  Append(divMsgBox[c], Payload(parts[k + 1])) = PartsBehind(n, k + 1)
<1>1. PICK a : a = LastOf(n) /\ a \in Nat /\ a <= k
  BY AtBounds
<1>2. c = messages[n + 1].counter /\ k + 1 \in DOMAIN parts
  BY NextPart
<1>3. c \in Counters
  <2>1. parts[k + 1] \in Part
    BY <1>2, StreamTypes
  <2> QED
    BY <2>1 DEF Part
<1>4. PICK d : d = k - a /\ d \in Nat
  BY <1>1
<1>5. \A j \in 1..d : Payload(parts[a + j]) \in Nat \X Nat
  <2> SUFFICES ASSUME NEW j \in 1..d PROVE Payload(parts[a + j]) \in Nat \X Nat
    OBVIOUS
  <2>1. a + j \in 1..Len(parts)
    BY <1>1, <1>4, StreamTypes
  <2>2. a + j \in DOMAIN parts
    BY <2>1, StreamTypes
  <2> QED
    BY <2>2, StreamTypes, ConstantsType DEF Payload
<1>6. PICK p : p = Payload(parts[k + 1])
  OBVIOUS
<1>7. p \in Nat \X Nat
  <2>1. parts[k + 1].start \in Nat /\ End(parts[k + 1]) \in Nat
    BY <1>2, StreamTypes
  <2> QED
    BY <1>6, <2>1, ConstantsType DEF Payload
<1> DEFINE b == [j \in 1..d |-> Payload(parts[a + j])]
           e == [j \in 1..(d + 1) |-> Payload(parts[a + j])]
<1>8. divMsgBox[c] = b
  <2>1. CASE k > a
    BY <1>1, <1>2, <1>3, <1>4, <2>1 DEF Boxed
  <2>2. CASE ~(k > a)
    <3>1. divMsgBox[c] = <<>>
      BY <1>1, <1>3, <2>2 DEF Boxed
    <3>2. d = 0
      BY <1>1, <1>4, <2>2
    <3>3. b = <<>>
      BY <3>2
    <3> QED
      BY <3>1, <3>3
  <2> QED
    BY <2>1, <2>2
<1>9. b \in Seq(Nat \X Nat) /\ Len(b) = d
  BY <1>4, <1>5
<1>10. Append(b, p) = e
  <2>1. a + (d + 1) = k + 1
    BY <1>1, <1>4
  <2>2. e[d + 1] = p /\ \A j \in 1..d : e[j] = b[j]
    BY <1>4, <1>6, <2>1
  <2>3. \A j \in 1..(d + 1) : e[j] \in Nat \X Nat
    <3>1. \A j \in 1..(d + 1) : j \in 1..d \/ j = d + 1
      BY <1>4
    <3>2. \A j \in 1..d : b[j] \in Nat \X Nat
      BY <1>5
    <3> QED
      BY <1>7, <2>2, <3>1, <3>2
  <2>4. DOMAIN e = 1..(d + 1)
    OBVIOUS
  <2> HIDE DEF b, e
  <2>5. PICK m : m = d + 1 /\ m \in Nat
    BY <1>4
  <2>6. e \in Seq(Nat \X Nat) /\ Len(e) = m
    <3>1. \A j \in 1..m : Payload(parts[a + j]) \in Nat \X Nat
      BY <2>3, <2>5 DEF e
    <3>2. e = [j \in 1..m |-> Payload(parts[a + j])]
      BY <2>5 DEF e
    <3> QED
      BY <2>5, <3>1, <3>2
  <2>7. /\ Append(b, p) \in Seq(Nat \X Nat) /\ Len(Append(b, p)) = m
        /\ \A j \in 1..d : Append(b, p)[j] = b[j]
        /\ Append(b, p)[m] = p
    BY <1>7, <1>9, <2>5, AppendProperties
  <2>8. \A j \in 1..m : Append(b, p)[j] = e[j]
    <3>1. \A j \in 1..m : j \in 1..d \/ j = m
      BY <1>4, <2>5
    <3> QED
      BY <2>2, <2>5, <2>7, <3>1
  <2> QED
    BY <2>6, <2>7, <2>8, SeqEqual
<1>11. PartsBehind(n, k + 1) = e
  <2>1. (k + 1) - a = d + 1
    BY <1>1, <1>4
  <2> QED
    BY <1>1, <2>1 DEF PartsBehind
<1> QED
  BY <1>6, <1>8, <1>10, <1>11

LEMMA TokenIsParts ==
    ASSUME TypeOK, Stream, NEW n \in Nat, NEW k \in Nat, At(n, k), k < Len(parts),
           k + 1 = LastOf(n + 1)
    PROVE  Token(n + 1) = PartsBehind(n, k + 1)
<1>1. PICK a : a = LastOf(n) /\ a \in Nat /\ a <= k
  BY AtBounds
<1>2. messages[n + 1].first = a + 1 /\ messages[n + 1].last = k + 1
  BY <1>1, NextPart
<1>3. (k + 1) - (a + 1) + 1 = (k + 1) - a
  BY <1>1
<1>4. Token(n + 1) = [j \in 1..((k + 1) - (a + 1) + 1) |-> Payload(parts[(a + 1) + j - 1])]
  BY <1>2 DEF Token
<1>5. ASSUME NEW j \in 1..((k + 1) - a)
      PROVE  Payload(parts[(a + 1) + j - 1]) = Payload(parts[a + j])
  <2>1. (a + 1) + j - 1 = a + j
    BY <1>1
  <2> QED
    BY <2>1
<1>6. Token(n + 1) = [j \in 1..((k + 1) - a) |-> Payload(parts[a + j])]
  BY <1>3, <1>4, <1>5
<1> QED
  BY <1>1, <1>6 DEF PartsBehind

(* msg_parse takes the rest of the next part, or all that has arrived.     *)
Unread == UNCHANGED <<messages, parts, arrived>>

LEMMA ParsedCompletes ==
    ASSUME TypeOK, Stream, Unread, NEW n \in Nat, NEW k \in Nat,
           At(n, k), Delivered(n), Boxed(n, k), k < Len(parts),
           NEW msg, msg = [counter |-> parts[k + 1].counter, total |-> parts[k + 1].size,
                           divided |-> parts[k + 1].divided,
                           from |-> parts[k + 1].start + HeaderLen,
                           received |-> parts[k + 1].size],
           Parsed(msg)
    PROVE  Reading' /\ receiver' = "parsing"
<1>0. messages' = messages /\ parts' = parts /\ arrived' = arrived
  BY DEF Unread
<1>1. /\ k + 1 \in DOMAIN parts
      /\ n < Len(messages) /\ n + 1 \in DOMAIN messages
      /\ k + 1 <= LastOf(n + 1)
      /\ parts[k + 1].counter = messages[n + 1].counter
      /\ parts[k + 1].divided = (k + 1 # LastOf(n + 1))
  BY NextPart
<1>2. PICK a, b : a = LastOf(n) /\ b = LastOf(n + 1)
  OBVIOUS
<1>3. a \in Nat /\ a <= k /\ b \in Nat /\ k + 1 <= b
  <2>1. LastOf(n + 1) \in Nat
    <3>1. LastOf(n + 1) = messages[n + 1].last
      BY NextPart
    <3> QED
      BY <1>1, <3>1, StreamTypes
  <2> QED
    BY <1>1, <1>2, <2>1, AtBounds
<1>4. LastOf(n)' = a /\ LastOf(n + 1)' = b
  BY <1>0, <1>2 DEF LastOf
<1>5. /\ msg.counter = messages[n + 1].counter /\ msg.total = parts[k + 1].size
      /\ msg.received = msg.total /\ msg.divided = (k + 1 # b)
      /\ msg.from = parts[k + 1].start + HeaderLen
  BY <1>1, <1>2
<1>6. Complete(msg) /\ inMsg' = Fresh /\ parsed' = msg.from + msg.received
  BY <1>5 DEF Parsed
<1>7. PICK c : c = messages[n + 1].counter
  OBVIOUS
<1>8. c \in Counters
  <2>1. parts[k + 1] \in Part
    BY <1>1, StreamTypes
  <2> QED
    BY <1>1, <1>7, <2>1 DEF Part
<1>9. Position(k + 1)'
  <2>1. parsed' = End(parts[k + 1])
    BY <1>5, <1>6 DEF End
  <2>2. k + 1 # 0
    OBVIOUS
  <2>3. Place(k + 1)' = End(parts[k + 1])
    BY <1>0, <2>2 DEF Place, End
  <2> QED
    BY <1>6, <2>1, <2>3 DEF Position, Fresh
<1>10. PICK payload : payload = Append(divMsgBox[msg.counter], <<msg.from, msg.from + msg.total>>)
  OBVIOUS
<1>11. payload = PartsBehind(n, k + 1)
  <2>1. <<msg.from, msg.from + msg.total>> = Payload(parts[k + 1])
    BY <1>5 DEF Payload, End
  <2>2. c = parts[k + 1].counter
    BY <1>1, <1>7
  <2>3. Append(divMsgBox[c], Payload(parts[k + 1])) = PartsBehind(n, k + 1)
    BY <2>2, PartAppended
  <2> QED
    BY <1>5, <1>7, <1>10, <2>1, <2>3
<1>12. divMsgBox \in [Counters -> Joined]
  BY DEF TypeOK
<1>13. \A e \in Counters : e # c => divMsgBox[e] = <<>>
  BY <1>7 DEF Boxed
<1>14. CASE k + 1 # b
  <2>1. /\ divMsgBox' = [divMsgBox EXCEPT ![c] = payload]
        /\ receiver' = "parsing" /\ delivered' = delivered
    BY <1>5, <1>6, <1>7, <1>10, <1>14 DEF Complete
  <2>2. At(n, k + 1)'
    <3>1. a <= k + 1 /\ k + 1 < b
      BY <1>3, <1>14
    <3> QED
      BY <1>0, <1>1, <1>4, <3>1 DEF At
  <2>3. Delivered(n)'
    BY <1>0, <2>1 DEF Delivered, Token, Payload, End
  <2>4. Boxed(n, k + 1)'
    <3>1. k + 1 > a
      BY <1>3
    <3>2. \A e \in Counters : divMsgBox'[e] = IF e = c THEN payload ELSE <<>>
      BY <1>8, <1>12, <1>13, <2>1
    <3>3. payload = [j \in 1..((k + 1) - a) |-> Payload(parts[a + j])]
      BY <1>2, <1>11 DEF PartsBehind
    <3>4. \A e \in Counters :
             divMsgBox'[e] = IF k + 1 > a /\ e = messages'[n + 1].counter
                             THEN [j \in 1..((k + 1) - a) |-> Payload(parts[a + j])]
                             ELSE <<>>
      BY <1>0, <1>7, <3>1, <3>2, <3>3
    <3> QED
      BY <1>0, <1>4, <3>4 DEF Boxed, Payload, End
  <2>5. k + 1 \in Nat
    OBVIOUS
  <2> QED
    BY <1>9, <2>1, <2>2, <2>3, <2>4, <2>5 DEF Reading
<1>15. CASE k + 1 = b
  <2>1. payload = Token(n + 1)
    BY <1>2, <1>11, <1>15, TokenIsParts
  <2>2. Decrypts(payload)
    <3>1. n + 1 \in 1..Len(messages)
      BY <1>1, StreamTypes
    <3> QED
      BY <2>1, <3>1 DEF Decrypts
  <2>3. /\ divMsgBox' = [divMsgBox EXCEPT ![c] = <<>>]
        /\ Deliver(c, payload)
    BY <1>5, <1>6, <1>7, <1>10, <1>15 DEF Complete
  <2>4. PICK d : d = [counter |-> c, payload |-> payload]
    OBVIOUS
  <2>5. receiver' = "parsing" /\ delivered' = Append(delivered, d)
    BY <2>2, <2>3, <2>4 DEF Deliver
  <2>6. At(n + 1, k + 1)'
    <3>1. n + 1 \in 0..Len(messages) /\ ~(k + 1 > b) /\ b <= k + 1
      BY <1>1, <1>3, <1>15, StreamTypes
    <3> QED
      BY <1>0, <1>4, <3>1 DEF At
  <2>7. Delivered(n + 1)'
    <3>1. PICK S : delivered \in Seq(S) /\ d \in S
      <4>1. delivered \in Seq([counter : Counters, payload : Joined])
        BY DEF TypeOK
      <4>2. msg.from \in Nat /\ msg.total \in Nat
        <5>1. parts[k + 1].start \in Nat /\ parts[k + 1].size \in Nat
          BY <1>1, StreamTypes
        <5>2. HeaderLen \in Nat
          BY ConstantsType
        <5> QED
          BY <1>5, <5>1, <5>2
      <4>3. divMsgBox[c] \in Seq(Nat \X Nat)
        BY <1>8, <1>12 DEF Joined
      <4>4. payload \in Joined
        <5>0. PICK p : p = <<msg.from, msg.from + msg.total>>
          OBVIOUS
        <5>1. p \in Nat \X Nat
          BY <4>2, <5>0
        <5>2. payload = Append(divMsgBox[c], p)
          BY <1>5, <1>7, <1>10, <5>0
        <5>3. payload \in Seq(Nat \X Nat)
          BY <4>3, <5>1, <5>2, AppendProperties
        <5> QED
          BY <5>3 DEF Joined
      <4>5. d \in [counter : Counters, payload : Joined]
        BY <1>8, <2>4, <4>4
      <4> QED
        BY <4>1, <4>5
    <3>2. Len(delivered) = n
      BY DEF Delivered
    <3>3. /\ Len(delivered') = n + 1
          /\ \A i \in 1..n : delivered'[i] = delivered[i]
          /\ delivered'[n + 1] = d
      BY <2>5, <3>1, <3>2, AppendProperties
    <3>4. \A i \in 1..(n + 1) : i \in 1..n \/ i = n + 1
      OBVIOUS
    <3>5. \A i \in 1..(n + 1) :
             delivered'[i] = [counter |-> messages[i].counter, payload |-> Token(i)]
      BY <1>7, <2>1, <2>4, <3>3, <3>4 DEF Delivered
    <3> QED
      BY <1>0, <3>3, <3>5 DEF Delivered, Token, Payload, End
  <2>8. Boxed(n + 1, k + 1)'
    <3>1. \A e \in Counters : divMsgBox'[e] = <<>>
      BY <1>8, <1>12, <1>13, <2>3
    <3>2. ~(k + 1 > LastOf(n + 1)')
      BY <1>3, <1>4, <1>15
    <3> QED
      BY <3>1, <3>2 DEF Boxed
  <2>9. n + 1 \in Nat /\ k + 1 \in Nat
    OBVIOUS
  <2> QED
    BY <1>9, <2>5, <2>6, <2>7, <2>8, <2>9 DEF Reading
<1> QED
  BY <1>14, <1>15

LEMMA ParsedStays ==
    ASSUME TypeOK, Stream, Unread, NEW n \in Nat, NEW k \in Nat,
           At(n, k), Delivered(n), Boxed(n, k), k < Len(parts),
           NEW r \in Nat, r > 0, r < parts[k + 1].size,
           parts[k + 1].start + HeaderLen + r = arrived,
           NEW msg, msg = [counter |-> parts[k + 1].counter, total |-> parts[k + 1].size,
                           divided |-> parts[k + 1].divided,
                           from |-> parts[k + 1].start + HeaderLen,
                           received |-> r],
           Parsed(msg)
    PROVE  Reading' /\ Starved'
<1>0. messages' = messages /\ parts' = parts /\ arrived' = arrived
  BY DEF Unread
<1>1. k + 1 \in DOMAIN parts
  BY NextPart
<1>2. PICK s : s = parts[k + 1].size /\ s \in Nat /\ r < s
  BY <1>1, StreamTypes
<1>3. /\ msg.total = s /\ msg.received = r
      /\ msg.from = parts[k + 1].start + HeaderLen
  BY <1>2
<1>4. msg.received # msg.total
  BY <1>2, <1>3
<1>5. /\ inMsg' = msg /\ receiver' = "idle" /\ parsed' = msg.from + msg.received
      /\ UNCHANGED <<divMsgBox, delivered>>
  BY <1>4 DEF Parsed
<1>6. Position(k)'
  BY <1>0, <1>1, <1>2, <1>3, <1>5 DEF Position
<1>7. At(n, k)' /\ Delivered(n)'
  BY <1>0, <1>5 DEF At, Delivered, LastOf, Token, Payload, End
<1>8. Boxed(n, k)'
  BY <1>0, <1>5 DEF Boxed, LastOf, Payload, End
<1>9. Starved'
  <2>1. arrived' = parsed' /\ inMsg'.received # 0
    BY <1>0, <1>3, <1>5
  <2> QED
    BY <2>1 DEF Starved
<1> QED
  BY <1>5, <1>6, <1>7, <1>8, <1>9 DEF Reading

LEMMA ParsedReads ==
    ASSUME TypeOK, Stream, Unread, ~loneHeader', NEW n \in Nat, NEW k \in Nat,
           At(n, k), Delivered(n), Boxed(n, k), k < Len(parts),
           NEW msg \in Started,
           msg.counter = parts[k + 1].counter, msg.total = parts[k + 1].size,
           msg.divided = parts[k + 1].divided, msg.from = parts[k + 1].start + HeaderLen,
           msg.received <= msg.total,
           msg.received < msg.total => msg.from + msg.received = arrived,
           Parsed(msg)
    PROVE  Reading' /\ Starved'
<1>1. PICK r : r = msg.received
  OBVIOUS
<1>2. msg = [counter |-> parts[k + 1].counter, total |-> parts[k + 1].size,
             divided |-> parts[k + 1].divided, from |-> parts[k + 1].start + HeaderLen,
             received |-> r]
  BY <1>1 DEF Started
<1>3. r \in Nat /\ msg.total \in Nat
  BY <1>1 DEF Started
<1>4. CASE r = parts[k + 1].size
  <2>1. Reading' /\ receiver' = "parsing"
    BY <1>2, <1>4, ParsedCompletes
  <2>2. Starved'
    BY <2>1 DEF Starved
  <2> QED
    BY <2>1, <2>2
<1>5. CASE r # parts[k + 1].size
  <2>1. r < msg.total /\ r < parts[k + 1].size
    BY <1>1, <1>3, <1>5
  <2>2. msg.received # msg.total
    BY <1>1, <1>5
  <2>3. loneHeader' = (loneHeader \/ msg.received = 0)
    BY <2>2 DEF Parsed
  <2>4. r # 0
    BY <1>1, <2>3, Zenon
  <2>5. r > 0 /\ parts[k + 1].start + HeaderLen + r = arrived
    BY <1>1, <1>3, <2>1, <2>4
  <2> QED
    BY <1>2, <1>3, <2>1, <2>5, ParsedStays
<1> QED
  BY <1>4, <1>5

(* Where the reader is does not depend on what has arrived.                *)
LEMMA SameReading ==
    ASSUME UNCHANGED <<messages, parts, parsed, inMsg, divMsgBox, delivered>>,
           NEW n \in Nat, NEW k \in Nat,
           At(n, k), Delivered(n), Boxed(n, k), Position(k)
    PROVE  At(n, k)' /\ Delivered(n)' /\ Boxed(n, k)' /\ Position(k)'
<1>1. /\ messages' = messages /\ parts' = parts /\ parsed' = parsed
      /\ inMsg' = inMsg /\ divMsgBox' = divMsgBox /\ delivered' = delivered
  OBVIOUS
<1>2. At(n, k)'
  BY <1>1 DEF At, LastOf
<1>3. Delivered(n)'
  BY <1>1 DEF Delivered, Token, Payload, End
<1>4. Boxed(n, k)'
  BY <1>1 DEF Boxed, LastOf, Payload, End
<1>5. Position(k)'
  BY <1>1 DEF Position, Place, End, Fresh
<1> QED
  BY <1>2, <1>3, <1>4, <1>5

LEMMA ParseReads ==
    ASSUME Types, Stream, arrived <= Written, Reading, Starved, MsgParse, ~loneHeader'
    PROVE  Reading' /\ Starved'
<1>0. TypeOK /\ Continued
  BY DEF Types
<1>1. PICK n \in Nat, k \in Nat : At(n, k) /\ Delivered(n) /\ Boxed(n, k) /\ Position(k)
  BY DEF Reading
<1>2. Unread
  BY DEF MsgParse, Unread
<1>3. /\ arrived \in Nat /\ parsed \in Nat /\ parsed <= arrived
      /\ HeaderLen \in Nat /\ HeaderLen > 0
      /\ Len(parts) \in Nat /\ DOMAIN parts = 1..Len(parts)
  BY <1>0, ConstantsType, StreamTypes DEF TypeOK
<1>4. inMsg.received = 0 => parsed = Place(k)
  BY <1>1 DEF Position
<1>5. ASSUME inMsg.received = 0, arrived - parsed >= HeaderLen, NEW h \in HeadersAt(parsed),
             Parsed(ReceiveData(ReadHeader(h), parsed + HeaderLen))
      PROVE  Reading' /\ Starved'
  <2>1. /\ k < Len(parts) /\ parts[k + 1].start = parsed
        /\ h = [counter |-> parts[k + 1].counter, total |-> parts[k + 1].size,
                divided |-> parts[k + 1].divided]
    BY <1>0, <1>1, <1>4, <1>5, NextHeader
  <2>2. PICK m : m = ReadHeader(h)
    OBVIOUS
  <2>3. PICK place : place = parsed + HeaderLen
    OBVIOUS
  <2>4. m \in Started /\ m.received = 0 /\ m.from = place /\ place \in Nat /\ place <= arrived
    BY <1>0, <1>5, <2>2, <2>3, HeaderType
  <2>5. /\ m.counter = parts[k + 1].counter /\ m.total = parts[k + 1].size
        /\ m.divided = parts[k + 1].divided
    BY <2>1, <2>2 DEF ReadHeader
  <2>6. m.received <= m.total /\ m.from + m.received = place
    BY <2>4 DEF Started
  <2>7. PICK r : r = ReceiveData(m, place)
    OBVIOUS
  <2>8. /\ r \in Started
        /\ r.counter = m.counter /\ r.total = m.total
        /\ r.divided = m.divided /\ r.from = m.from
        /\ r.received <= r.total
        /\ r.received < r.total => r.from + r.received = arrived
    BY <1>0, <2>4, <2>6, <2>7, ReceiveDataType
  <2>9. Parsed(r)
    BY <1>5, <2>2, <2>3, <2>7
  <2>10. r.from = parts[k + 1].start + HeaderLen
    BY <2>1, <2>3, <2>4, <2>8
  <2> QED
    BY <1>0, <1>1, <1>2, <2>1, <2>5, <2>8, <2>9, <2>10, ParsedReads
<1>6. ASSUME inMsg.received = 0, arrived - parsed >= HeaderLen, HeadersAt(parsed) = {}
      PROVE  FALSE
  BY <1>0, <1>1, <1>4, <1>6, NextHeader
<1>7. ASSUME inMsg.received # 0, arrived > parsed, Parsed(ReceiveData(inMsg, parsed))
      PROVE  Reading' /\ Starved'
  <2>1. /\ k + 1 \in DOMAIN parts
        /\ inMsg.counter = parts[k + 1].counter /\ inMsg.total = parts[k + 1].size
        /\ inMsg.divided = parts[k + 1].divided
        /\ inMsg.from = parts[k + 1].start + HeaderLen
    <3>1. inMsg # Fresh
      BY <1>7 DEF Fresh
    <3>2. /\ k + 1 \in DOMAIN parts
          /\ inMsg = [counter |-> parts[k + 1].counter, total |-> parts[k + 1].size,
                      divided |-> parts[k + 1].divided,
                      from |-> parts[k + 1].start + HeaderLen,
                      received |-> inMsg.received]
      BY <1>1, <3>1 DEF Position
    <3> QED
      BY <3>2
  <2>2. k < Len(parts)
    BY <1>3, <2>1
  <2>3. inMsg \in Started /\ inMsg.received <= inMsg.total
    <3>1. inMsg # Fresh
      BY <1>7 DEF Fresh
    <3>2. inMsg \in Started /\ inMsg.received < inMsg.total
      BY <1>0, <3>1 DEF TypeOK
    <3> QED
      BY <3>2 DEF Started
  <2>4. inMsg.from + inMsg.received = parsed
    BY <1>0, <1>7 DEF Continued
  <2>5. PICK r : r = ReceiveData(inMsg, parsed)
    OBVIOUS
  <2>6. /\ r \in Started
        /\ r.counter = inMsg.counter /\ r.total = inMsg.total
        /\ r.divided = inMsg.divided /\ r.from = inMsg.from
        /\ r.received <= r.total
        /\ r.received < r.total => r.from + r.received = arrived
    BY <1>0, <1>3, <2>3, <2>4, <2>5, ReceiveDataType
  <2>7. Parsed(r)
    BY <1>7, <2>5
  <2> QED
    BY <1>0, <1>1, <1>2, <2>1, <2>2, <2>6, <2>7, ParsedReads
<1>8. ASSUME IF inMsg.received = 0 THEN arrived - parsed < HeaderLen ELSE arrived = parsed,
             receiver' = "idle",
             UNCHANGED <<parsed, inMsg, divMsgBox, delivered, loneHeader>>
      PROVE  Reading' /\ Starved'
  <2>1. Starved'
    BY <1>2, <1>8 DEF Starved, Unread
  <2>2. At(n, k)' /\ Delivered(n)' /\ Boxed(n, k)' /\ Position(k)'
    <3>1. UNCHANGED <<messages, parts, parsed, inMsg, divMsgBox, delivered>>
      BY <1>2, <1>8 DEF Unread
    <3> QED
      BY <1>1, <3>1, SameReading
  <2> QED
    BY <1>8, <2>1, <2>2 DEF Reading
<1> QED
  BY <1>5, <1>6, <1>7, <1>8 DEF MsgParse

LEMMA FramedInit == Init => Framed
<1> SUFFICES ASSUME Init PROVE Framed
  OBVIOUS
<1>1. /\ parts = <<>> /\ messages = <<>> /\ delivered = <<>>
      /\ arrived = 0 /\ parsed = 0 /\ inMsg = Fresh /\ receiver = "idle"
      /\ divMsgBox = [c \in Counters |-> <<>>]
  BY DEF Init
<1>2. Len(parts) = 0 /\ DOMAIN parts = {} /\ Len(messages) = 0 /\ DOMAIN messages = {}
  BY <1>1
<1>3. Contiguous /\ Grouped
  BY <1>1, <1>2 DEF Contiguous, Grouped
<1>4. arrived <= Written
  BY <1>1 DEF Written
<1>5. LastOf(0) = 0 /\ Place(0) = 0
  BY DEF LastOf, Place
<1>6. At(0, 0) /\ Delivered(0) /\ Boxed(0, 0) /\ Position(0)
  BY <1>1, <1>2, <1>5 DEF At, Delivered, Boxed, Position
<1>7. Reading
  BY <1>1, <1>6 DEF Reading
<1>8. Starved
  BY <1>1, FramingAssumption DEF Starved, Fresh
<1> QED
  BY <1>3, <1>4, <1>7, <1>8 DEF Framed

LEMMA FramedNext == Types /\ Framed /\ [Next]_vars => Framed'
<1> SUFFICES ASSUME Types, Framed, [Next]_vars PROVE Framed'
  OBVIOUS
<1>0. /\ TypeOK /\ Stream /\ arrived <= Written
      /\ ~loneHeader => Reading /\ Starved
  BY DEF Types, Framed, Stream
<1>1. ASSUME NEW c \in Counters, NEW s \in Sizes, Push(c, s) PROVE Framed'
  <2>1. PICK q : Pushed(c, q)
    BY <1>0, <1>1, PushAppends
  <2>2. Contiguous' /\ Grouped'
    BY <1>0, <2>1, ContiguousPush, GroupedPush
  <2>3. arrived' <= Written'
    <3>0. PICK p : p = parts'
      OBVIOUS
    <3>1. /\ Len(q) \in Nat /\ Len(q) > 0 /\ DOMAIN q = 1..Len(q)
          /\ Len(p) = Len(parts) + Len(q)
          /\ \A i \in 1..Len(q) : p[Len(parts) + i] = q[i]
      <4>1. p = parts \o q /\ q \in Seq(Part) /\ Len(q) > 0
        BY <2>1, <3>0 DEF Pushed, PartsOf
      <4>2. parts \in Seq(Part)
        BY <1>0, StreamTypes
      <4> QED
        BY <4>1, <4>2
    <3>2. /\ q[1].start = Written
          /\ \A i, j \in DOMAIN q : i < j => End(q[i]) <= q[j].start
          /\ q \in Seq(Part)
      BY <2>1 DEF Pushed, PartsOf
    <3>3. PICK l : l = Len(q) /\ l \in Nat /\ l > 0
      BY <3>1
    <3>4. \A i \in 1..l : /\ q[i].start \in Nat /\ End(q[i]) \in Nat
                          /\ q[i].start < End(q[i])
      <4> SUFFICES ASSUME NEW i \in 1..l
                   PROVE  q[i].start \in Nat /\ End(q[i]) \in Nat /\ q[i].start < End(q[i])
        OBVIOUS
      <4>1. q[i] \in Part
        BY <3>1, <3>2, <3>3
      <4>2. q[i].start \in Nat /\ q[i].size \in Nat
        BY <4>1 DEF Part
      <4> QED
        BY <1>0, <4>2, ConstantsType DEF End
    <3>5. 1 \in 1..l /\ l \in 1..l /\ (l = 1 \/ 1 < l)
      BY <3>3
    <3>6. Written <= End(q[l])
      <4>1. Written \in Nat
        BY <1>0, WrittenType
      <4>2. CASE l = 1
        BY <3>2, <3>4, <3>5, <4>1, <4>2
      <4>3. CASE 1 < l
        <5>1. End(q[1]) <= q[l].start
          BY <3>1, <3>2, <3>3, <3>5, <4>3
        <5> QED
          BY <3>2, <3>4, <3>5, <4>1, <5>1
      <4> QED
        BY <3>5, <4>2, <4>3
    <3>7. Written' = End(q[l])
      <4>1. Len(p) = Len(parts) + l /\ Len(p) # 0
        BY <1>0, <3>1, <3>3, StreamTypes
      <4>2. p[Len(parts) + l] = q[l]
        BY <3>1, <3>3, <3>5
      <4>3. p # <<>> /\ p[Len(p)] = q[l]
        BY <4>1, <4>2
      <4> QED
        BY <3>0, <4>3 DEF Written, Last, End
    <3>8. arrived' = arrived /\ arrived \in Nat /\ Written \in Nat
      BY <1>0, <2>1, WrittenType DEF Pushed, TypeOK
    <3> QED
      BY <1>0, <3>4, <3>5, <3>6, <3>7, <3>8
  <2>4. ASSUME ~loneHeader' PROVE Reading' /\ Starved'
    <3>1. Reading /\ Starved
      BY <1>0, <2>1, <2>4 DEF Pushed
    <3>2. Starved'
      BY <2>1, <3>1 DEF Pushed, Starved
    <3> QED
      BY <1>0, <2>1, <3>1, <3>2, ReadingPush
  <2> QED
    BY <2>2, <2>3, <2>4 DEF Framed
<1>2. ASSUME UNCHANGED <<messages, parts, parsed, inMsg, divMsgBox, delivered, loneHeader>>,
             arrived' <= Written', receiver' \in {"idle", "parsing"},
             Starved => Starved'
      PROVE  Framed'
  <2>1. Contiguous' /\ Grouped'
    BY <1>0, <1>2 DEF Stream, Contiguous, Grouped, End
  <2>2. ASSUME ~loneHeader' PROVE Reading' /\ Starved'
    <3>1. Reading /\ Starved
      BY <1>0, <1>2, <2>2
    <3>2. PICK n \in Nat, k \in Nat : At(n, k) /\ Delivered(n) /\ Boxed(n, k) /\ Position(k)
      BY <3>1 DEF Reading
    <3>3. At(n, k)' /\ Delivered(n)' /\ Boxed(n, k)' /\ Position(k)'
      BY <1>2, <3>2, SameReading
    <3> QED
      BY <1>2, <3>1, <3>3 DEF Reading
  <2> QED
    BY <1>2, <2>1, <2>2 DEF Framed
<1>3. CASE UNCHANGED <<messages, parts, arrived, parsed, inMsg, divMsgBox, delivered,
                       receiver, loneHeader>>
  <2>1. Contiguous' /\ Grouped' /\ arrived' <= Written'
    BY <1>0, <1>3 DEF Stream, Contiguous, Grouped, End, Written, Last
  <2>2. ASSUME ~loneHeader' PROVE Reading' /\ Starved'
    <3>1. Reading /\ Starved
      BY <1>0, <1>3, <2>2
    <3>2. PICK n \in Nat, k \in Nat : At(n, k) /\ Delivered(n) /\ Boxed(n, k) /\ Position(k)
      BY <3>1 DEF Reading
    <3>3. At(n, k)' /\ Delivered(n)' /\ Boxed(n, k)' /\ Position(k)'
      BY <1>3, <3>2, SameReading
    <3>4. receiver' \in {"idle", "parsing"} /\ Starved'
      BY <1>3, <3>1 DEF Reading, Starved
    <3> QED
      BY <3>3, <3>4 DEF Reading
  <2> QED
    BY <2>1, <2>2 DEF Framed
<1>4. CASE MsgBuildFails
  BY <1>3, <1>4 DEF MsgBuildFails
<1>5. ASSUME NEW n \in 1..(Written - arrived), DataReceived(n) PROVE Framed'
  <2>1. arrived' <= Written'
    BY <1>5 DEF DataReceived, Written, End, Last
  <2>2. receiver' = "parsing"
    BY <1>5 DEF DataReceived
  <2>3. Starved'
    BY <2>2 DEF Starved
  <2> QED
    BY <1>2, <1>5, <2>1, <2>2, <2>3 DEF DataReceived
<1>6. CASE MsgParse
  <2>1. UNCHANGED <<messages, parts, arrived>>
    BY <1>6 DEF MsgParse
  <2>2. Contiguous' /\ Grouped' /\ arrived' <= Written'
    BY <1>0, <2>1 DEF Stream, Contiguous, Grouped, End, Written, Last
  <2>3. ASSUME ~loneHeader' PROVE Reading' /\ Starved'
    <3>1. ~loneHeader
      BY <1>6, <2>3, Zenon DEF MsgParse, Parsed
    <3> QED
      BY <1>0, <1>6, <2>3, <3>1, ParseReads
  <2> QED
    BY <2>2, <2>3 DEF Framed
<1>7. CASE UNCHANGED vars
  BY <1>3, <1>7 DEF vars
<1> QED
  BY <1>1, <1>4, <1>5, <1>6, <1>7 DEF Next

LEMMA FramedAlways == Spec => [](Types /\ Framed)
  BY TypesInit, TypesNext, FramedInit, FramedNext, PTL DEF Spec

(* Wherever the stream is cut (but not right behind a header, see          *)
(* MessagesArriveWhole), what data_received delivers are the messages that *)
(* msg_build divided, whole, in order, with their counters.                *)
THEOREM MessagesAreWhole == Spec => []MessagesArriveWhole
<1>1. Types /\ Framed => MessagesArriveWhole
  <2> SUFFICES ASSUME Types, Framed, ~loneHeader
               PROVE  /\ receiver \notin {"closed", "garbled"}
                      /\ Len(delivered) <= Len(messages)
                      /\ \A i \in 1..Len(delivered) :
                            delivered[i] = [counter |-> messages[i].counter,
                                            payload |-> Token(i)]
    BY DEF MessagesArriveWhole
  <2>1. Reading
    BY DEF Framed
  <2>2. PICK n \in Nat, k \in Nat : At(n, k) /\ Delivered(n)
    BY <2>1 DEF Reading
  <2>3. receiver \notin {"closed", "garbled"}
    BY <2>1 DEF Reading
  <2>4. n <= Len(messages)
    BY <2>2, StreamTypes DEF At, Types
  <2> QED
    BY <2>2, <2>3, <2>4 DEF Delivered
<1> QED
  BY <1>1, FramedAlways, PTL

(* Once all that was written has arrived and the loop of data_received has *)
(* ended, in_buffer, in_msg, div_msg_box keep nothing: every message has   *)
(* been delivered, none waits for the next one to come.                    *)
THEOREM NothingStaysBehind == Spec => []NothingIsKept
<1>1. Types /\ Framed => NothingIsKept
  <2> SUFFICES ASSUME Types, Framed, ~loneHeader, receiver = "idle", arrived = Written
               PROVE  /\ Len(delivered) = Len(messages)
                      /\ parsed = arrived
                      /\ \A c \in Counters : divMsgBox[c] = <<>>
    BY DEF NothingIsKept
  <2>0. TypeOK /\ Stream /\ Reading /\ Starved
    BY DEF Types, Framed, Stream
  <2>1. PICK n \in Nat, k \in Nat : At(n, k) /\ Delivered(n) /\ Boxed(n, k) /\ Position(k)
    BY <2>0 DEF Reading
  <2>2. PICK L : L = Len(parts) /\ L \in Nat /\ DOMAIN parts = 1..L
    BY <2>0, StreamTypes
  <2>3. k <= L
    BY <2>0, <2>1, <2>2, AtBounds
  <2>4. /\ HeaderLen \in Nat /\ HeaderLen > 0 /\ parsed \in Nat /\ arrived \in Nat
        /\ \A i \in DOMAIN parts : /\ parts[i].start \in Nat /\ parts[i].size \in Nat
                                   /\ End(parts[i]) \in Nat /\ End(parts[i]) <= Written
    BY <2>0, ConstantsType, StreamTypes, WrittenIsLast DEF TypeOK
  <2>5. k = L /\ parsed = arrived
    <3>1. CASE inMsg = Fresh /\ parsed = Place(k)
      <4>1. arrived - parsed < HeaderLen
        BY <2>0, <3>1 DEF Starved, Fresh
      <4>2. CASE k < L
        <5>1. k + 1 \in DOMAIN parts
          BY <2>2, <2>3, <4>2
        <5>2. parts[k + 1].start = Place(k)
          <6>1. CASE k = 0
            <7>1. parts # <<>> /\ k + 1 = 1
              BY <2>2, <4>2, <6>1
            <7> QED
              BY <2>0, <6>1, <7>1 DEF Stream, Contiguous, Place
          <6>2. CASE k # 0
            <7>1. k \in DOMAIN parts
              BY <2>2, <2>3, <6>2
            <7> QED
              BY <2>0, <5>1, <6>2, <7>1 DEF Stream, Contiguous, Place
          <6> QED
            BY <6>1, <6>2
        <5>3. parts[k + 1].start + HeaderLen + parts[k + 1].size <= arrived
          BY <2>4, <5>1 DEF End
        <5> QED
          BY <2>4, <3>1, <4>1, <5>1, <5>2, <5>3
      <4>3. CASE k = L
        BY <2>0, <2>2, <3>1, <4>3, WrittenIsLast
      <4> QED
        BY <2>2, <2>3, <4>2, <4>3
    <3>2. CASE /\ inMsg.received > 0
               /\ k + 1 \in DOMAIN parts
               /\ inMsg.received < parts[k + 1].size
               /\ parsed = parts[k + 1].start + HeaderLen + inMsg.received
      <4>1. inMsg.received \in Nat
        BY <2>0, <3>2 DEF TypeOK, Started, Fresh
      <4>2. arrived = parsed
        BY <2>0, <3>2, <4>1 DEF Starved
      <4>3. parts[k + 1].start + HeaderLen + parts[k + 1].size <= arrived
        BY <2>4, <3>2 DEF End
      <4> QED
        BY <2>4, <3>2, <4>1, <4>2, <4>3
    <3> QED
      BY <2>1, <3>1, <3>2 DEF Position
  <2>6. LastOf(n) <= k /\ n \in 0..Len(messages) /\ n = Len(messages) /\ ~(k > LastOf(n))
    <3>1. PICK M : M = Len(messages) /\ M \in Nat
      BY <2>0, StreamTypes
    <3>2. PICK a : a = LastOf(n) /\ a \in Nat
      BY <2>0, <2>1, AtBounds
    <3>3. /\ n \in 0..M /\ a <= k
          /\ k > a => n < M /\ LastOf(n + 1) \in Nat /\ k < LastOf(n + 1)
      BY <2>0, <2>1, <3>1, <3>2, AtBounds
    <3>4. n < M => LastOf(n + 1) \in 0..L /\ a < LastOf(n + 1)
      <4>1. n < M => n + 1 \in 0..M
        BY <3>1, <3>3
      <4> QED
        BY <2>0, <2>2, <3>1, <3>2, <3>3, <4>1, LastOfBounds
    <3>5. ~(n < M)
      <4> SUFFICES ASSUME n < M PROVE FALSE
        OBVIOUS
      <4>1. PICK b : b = LastOf(n + 1) /\ b \in 0..L /\ a < b /\ (k > a => k < b)
        BY <3>3, <3>4
      <4> QED
        BY <2>2, <2>5, <3>2, <3>3, <4>1
    <3> QED
      BY <3>1, <3>2, <3>3, <3>5
  <2>7. \A c \in Counters : divMsgBox[c] = <<>>
    BY <2>1, <2>6 DEF Boxed
  <2> QED
    BY <2>1, <2>5, <2>6, <2>7 DEF Delivered
<1> QED
  BY <1>1, FramedAlways, PTL
====
