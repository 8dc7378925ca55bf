--------------------------- MODULE ClusterFraming ---------------------------
(***************************************************************************)
(* Messages in the byte stream of a cluster connection: msg_build of the   *)
(* sender; InBuffer, msg_parse, get_messages and the reassembly of divided *)
(* messages in data_received of the receiver (common.Handler).             *)
(*                                                                         *)
(* A message, or each part of a divided one, is a header of HeaderLen      *)
(* bytes and a payload.  TCP keeps the bytes but not where one write ends: *)
(* data_received may be called at any cut.  Bytes are known by their place *)
(* in the stream, so that a payload is a sequence of intervals of places.  *)
(***************************************************************************)
EXTENDS Integers, Sequences, SequencesExt

CONSTANTS
    HeaderLen,      \* bytes of a header (20 in the code)
    RequestChunk,   \* Handler.request_chunk at first (5242880 in the code)
    Overheads,      \* the bytes that Fernet adds, 0 without a key
    Counters,       \* message counters
    Sizes,          \* sizes of the data of a message
    MaxMessages     \* bound on the messages

ASSUME FramingAssumption ==
    /\ HeaderLen \in Nat \ {0}
    /\ RequestChunk \in Nat /\ RequestChunk > HeaderLen
    /\ Overheads \subseteq Nat /\ Overheads # {}
    /\ Sizes \subseteq Nat
    /\ MaxMessages \in Nat

VARIABLES
    overhead,     \* the key of both ends: how much my_fernet.encrypt adds
    requestChunk, \* Handler.request_chunk of the sender
    messages,     \* history: the messages sent, and which parts they are
    parts,        \* the parts on the stream: header and place
    arrived,      \* bytes that data_received has been called with
    parsed,       \* bytes taken out of in_buffer
    inMsg,        \* Handler.in_msg
    divMsgBox,    \* Handler.div_msg_box: payload so far, <<>> for no entry
    delivered,    \* what is looked up in the box or dispatched, in order
    receiver,     \* "idle", in the loop of get_messages, or how it ended
    loneHeader    \* history: a read ended behind the header of a payload

vars == <<overhead, requestChunk, messages, parts, arrived, parsed, inMsg,
          divMsgBox, delivered, receiver, loneHeader>>

End(part) == part.start + HeaderLen + part.size
Written   == IF parts = <<>> THEN 0 ELSE End(Last(parts))
Payload(part) == <<part.start + HeaderLen, End(part)>>

Header  == [counter : Counters, total : Nat, divided : BOOLEAN]
Fresh   == [total |-> 0, received |-> 0]
Started == [counter : Counters, total : Nat, divided : BOOLEAN,
            from : Nat, received : Nat]
Joined  == Seq(Nat \X Nat)
Part    == [start : Nat, counter : Counters, size : Nat, divided : BOOLEAN]
Sent    == [counter : Counters, first : Nat \ {0}, last : Nat]

TypeOK ==
    /\ overhead \in Overheads
    /\ requestChunk \in Nat /\ requestChunk > HeaderLen
    /\ messages \in Seq(Sent)
    /\ parts \in Seq(Part)
    /\ arrived \in Nat /\ parsed \in 0..arrived
    /\ inMsg \in Started \cup {Fresh}
    /\ inMsg.received < inMsg.total \/ inMsg = Fresh
    /\ divMsgBox \in [Counters -> Joined]
    /\ delivered \in Seq([counter : Counters, payload : Joined])
    /\ receiver \in {"idle", "parsing", "closed", "garbled"}
    /\ loneHeader \in BOOLEAN

Init ==
    /\ overhead \in Overheads
    /\ requestChunk = RequestChunk
    /\ messages = <<>>
    /\ parts = <<>>
    /\ arrived = 0 /\ parsed = 0
    /\ inMsg = Fresh
    /\ divMsgBox = [c \in Counters |-> <<>>]
    /\ delivered = <<>>
    /\ receiver = "idle"
    /\ loneHeader = FALSE

-----------------------------------------------------------------------------
CeilDiv(a, b) == (a + b - 1) \div b

MsgBuildFlagsFullParts(size) ==
    LET total == size + overhead
        room  == requestChunk - HeaderLen
        n     == CeilDiv(total, room)
    IN
    IF size <= requestChunk THEN <<[size |-> total, divided |-> FALSE]>>
    ELSE [i \in 1..n |-> LET s == IF i < n THEN room ELSE total - (n - 1) * room
                         IN  [size |-> s, divided |-> s = room]]

(* Handler.msg_build: the sizes of the payloads and the flag "d".  Whether *)
(* to divide is decided by the plain size, where by the encrypted one.     *)
MsgBuild(size) ==
    LET total == size + overhead
        room  == requestChunk - HeaderLen
        n     == CeilDiv(total, room)
    IN
    IF size <= requestChunk THEN <<[size |-> total, divided |-> FALSE]>>
    ELSE [i \in 1..n |-> [size    |-> IF i < n THEN room ELSE total - (n - 1) * room,
                          divided |-> i < n]]

(* The pushes of send_request or dispatch; nothing comes between the parts.*)
(* All parts but the last have the size of the first.                      *)
Push(counter, size) ==
    LET built == MsgBuild(size)
        Start(i) == Written + (i - 1) * (HeaderLen + built[1].size)
    IN
    /\ Len(messages) < MaxMessages
    /\ messages' = Append(messages, [counter |-> counter, first |-> Len(parts) + 1,
                                     last |-> Len(parts) + Len(built)])
    /\ parts' = parts \o [i \in 1..Len(built) |->
                    [start |-> Start(i), counter |-> counter,
                     size |-> built[i].size, divided |-> built[i].divided]]
    /\ UNCHANGED <<overhead, requestChunk, arrived, parsed, inMsg, divMsgBox,
                   delivered, receiver, loneHeader>>

(* MemoryError in msg_build (error 3026): nothing is pushed.  The guard is *)
(* a bound: the code would go on halving until no payload fits.            *)
MsgBuildFails ==
    /\ requestChunk \div 2 > HeaderLen
    /\ requestChunk' = requestChunk \div 2
    /\ UNCHANGED <<overhead, messages, parts, arrived, parsed, inMsg, divMsgBox,
                   delivered, receiver, loneHeader>>

-----------------------------------------------------------------------------
(* data_received is called with the next bytes.                            *)
DataReceived(n) ==
    /\ receiver = "idle"
    /\ arrived + n <= Written
    /\ arrived' = arrived + n
    /\ receiver' = "parsing"
    /\ UNCHANGED <<overhead, requestChunk, messages, parts, parsed, inMsg,
                   divMsgBox, delivered, loneHeader>>

(* The headers that begin at a place in the stream.                        *)
HeadersAt(place) ==
    {[counter |-> parts[i].counter, total |-> parts[i].size,
      divided |-> parts[i].divided] :
        i \in {j \in 1..Len(parts) : parts[j].start = place}}

(* InBuffer.get_info_from_header.                                          *)
ReadHeader(h) ==
    [counter |-> h.counter, total |-> h.total, divided |-> h.divided,
     from |-> parsed + HeaderLen, received |-> 0]

ReceiveAllData(msg, place) == [msg EXCEPT !.received = @ + (arrived - place)]

(* InBuffer.receive_data, from the place of the next byte in in_buffer.    *)
ReceiveData(msg, place) ==
    [msg EXCEPT !.received =
        IF @ + (arrived - place) < msg.total THEN @ + (arrived - place)
        ELSE msg.total]

(* Fernet: a token is decrypted as a whole or not at all (error 3025, which*)
(* leaves data_received and closes the transport).                         *)
Token(i) ==
    LET m == messages[i]
    IN  [k \in 1..(m.last - m.first + 1) |-> Payload(parts[m.first + k - 1])]
Decrypts(payload) ==
    overhead > 0 => \E i \in 1..Len(messages) : payload = Token(i)

Deliver(counter, payload) ==
    IF Decrypts(payload)
    THEN /\ delivered' = Append(delivered, [counter |-> counter, payload |-> payload])
         /\ receiver' = "parsing"
    ELSE /\ receiver' = "closed"
         /\ UNCHANGED delivered

CompleteDecryptsFirst(msg) ==
    LET part    == <<msg.from, msg.from + msg.total>>
        payload == Append(divMsgBox[msg.counter], part)
    IN
    IF msg.divided
    THEN /\ divMsgBox' = [divMsgBox EXCEPT ![msg.counter] = payload]
         /\ receiver' = "parsing"
         /\ UNCHANGED delivered
    ELSE /\ IF Decrypts(<<part>>) THEN Deliver(msg.counter, payload)
            ELSE receiver' = "closed" /\ UNCHANGED delivered
         /\ divMsgBox' = [divMsgBox EXCEPT ![msg.counter] = <<>>]

(* The body of the loop of data_received: a part is kept, and a message or *)
(* a last part goes on with the parts that are in the box.                 *)
Complete(msg) ==
    LET payload == Append(divMsgBox[msg.counter], <<msg.from, msg.from + msg.total>>) IN
    IF msg.divided
    THEN /\ divMsgBox' = [divMsgBox EXCEPT ![msg.counter] = payload]
         /\ receiver' = "parsing"
         /\ UNCHANGED delivered
    ELSE /\ Deliver(msg.counter, payload)
         /\ divMsgBox' = [divMsgBox EXCEPT ![msg.counter] = <<>>]

(* msg_parse returned True: get_messages yields the message and goes on, or*)
(* the loop ends with a message that is not complete.                      *)
Parsed(msg) ==
    /\ parsed' = msg.from + msg.received
    /\ IF msg.received = msg.total
       THEN /\ Complete(msg)
            /\ inMsg' = Fresh
            /\ UNCHANGED loneHeader
       ELSE /\ inMsg' = msg
            /\ receiver' = "idle"
            /\ loneHeader' = (loneHeader \/ msg.received = 0)
            /\ UNCHANGED <<divMsgBox, delivered>>

(* msg_parse: a header is looked for when nothing of a payload was received.*)
(* Bytes of a payload that are read as a header may say anything: what the *)
(* receiver does from there on ("garbled") is not modelled.                *)
MsgParse ==
    /\ receiver = "parsing"
    /\ \/ /\ inMsg.received = 0
          /\ arrived - parsed >= HeaderLen
          /\ \/ \E h \in HeadersAt(parsed) :
                   Parsed(ReceiveData(ReadHeader(h), parsed + HeaderLen))
             \/ /\ HeadersAt(parsed) = {}
                /\ receiver' = "garbled"
                /\ UNCHANGED <<parsed, inMsg, divMsgBox, delivered, loneHeader>>
       \/ /\ inMsg.received # 0
          /\ arrived > parsed
          /\ Parsed(ReceiveData(inMsg, parsed))
       \/ /\ IF inMsg.received = 0 THEN arrived - parsed < HeaderLen
                                   ELSE arrived = parsed
          /\ receiver' = "idle"
          /\ UNCHANGED <<parsed, inMsg, divMsgBox, delivered, loneHeader>>
    /\ UNCHANGED <<overhead, requestChunk, messages, parts, arrived>>

Next ==
    \/ \E c \in Counters, s \in Sizes : Push(c, s)
    \/ MsgBuildFails
    \/ \E n \in 1..(Written - arrived) : DataReceived(n)
    \/ MsgParse

Spec == Init /\ [][Next]_vars

-----------------------------------------------------------------------------
(***************************************************************************)
(* Properties.                                                             *)
(***************************************************************************)

(* Wherever the stream is cut, divided or not, encrypted or not: what has  *)
(* been delivered are the messages that were sent, whole, in order and with*)
(* their counters, and nothing fails to decrypt.  (Unless a cut fell right *)
(* behind a header: see HeadersAreHeaders.)                                *)
MessagesArriveWhole ==
    ~loneHeader =>
        /\ receiver \notin {"closed", "garbled"}
        /\ Len(delivered) <= Len(messages)
        /\ \A i \in 1..Len(delivered) :
              delivered[i] = [counter |-> messages[i].counter, payload |-> Token(i)]

(* Nothing stays in in_buffer, in_msg or div_msg_box once all bytes have   *)
(* arrived: the last message does not wait for the next one.               *)
NothingIsKept ==
    ~loneHeader /\ receiver = "idle" /\ arrived = Written =>
        /\ Len(delivered) = Len(messages)
        /\ parsed = arrived
        /\ \A c \in Counters : divMsgBox[c] = <<>>

(* The comments in msg_parse: a header is looked for when a new message has*)
(* been received; while the previous one is not complete there is none.    *)
HeadersAreHeaders == receiver # "garbled"
=============================================================================
