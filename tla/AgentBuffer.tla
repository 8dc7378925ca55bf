---------------------------- MODULE AgentBuffer ----------------------------
(***************************************************************************)
(* The anti-flooding buffer of the agent, client-agent/buffer.c: a ring of *)
(* buflength + 1 places between the thread that reads local events and the *)
(* thread that sends them to the manager.                                  *)
(*                                                                         *)
(* Both threads hold mutex_lock while they touch the ring and the state,   *)
(* so those are one step each.  The bits of the word buff are set under    *)
(* the mutex but cleared by the dispatcher without it: the word is read    *)
(* and written in two steps there, and a bit set in between is a data race.*)
(***************************************************************************)
EXTENDS Integers, Sequences

CONSTANTS
    buflength,      \* agt->buflength, the events that the buffer holds
    warn_level,     \* percentages of buflength
    normal_level,
    MaxEvents       \* bound on the events that come

ASSUME LengthAssumption == buflength \in Nat \ {0}
ASSUME LevelAssumption ==
    /\ warn_level \in 1..100
    /\ normal_level \in 0..(warn_level - 1)

N      == buflength + 1
Places == 0..buflength
States == {"NORMAL", "WARNING", "FULL", "FLOOD"}

VARIABLES
    i, j,          \* where the next event is written and read
    buffer,        \* the events, numbered in the order of their arrival
    offered,       \* history: how many events have come
    state,
    buff,          \* the bits that are set in the word buff
    pc,            \* where dispatch_buffer is
    word,          \* what it has read of buff to clear a bit, {} if nothing
    msg_output,    \* the event that it took last
    sent,          \* the last event that it passed to send_msg
    notice         \* the bit it has sent a notice for last

ring == <<i, buffer, offered>>
vars == <<i, j, buffer, offered, state, buff, pc, word, msg_output, sent, notice>>

-----------------------------------------------------------------------------
(* The macros of agentd.h.  warn, nowarn and normal compare a float with a *)
(* double: where the two are the same fraction, the rounding of that       *)
(* fraction to a float decides.                                            *)

RoundedUp ==
    {5, 7, 9, 10, 14, 15, 17, 18, 20, 23, 27, 28, 30, 31, 33, 34, 36, 37, 40,
     43, 46, 49, 54, 55, 56, 60, 61, 62, 66, 67, 68, 72, 73, 74, 79, 80, 81,
     85, 86, 87, 91, 92, 93, 97, 98, 99}

Exact       == {0, 25, 50, 75, 100}
RoundedDown == (0..100) \ (RoundedUp \cup Exact)

AtLeast(n, level) ==
    \/ 100 * n > level * buflength
    \/ 100 * n = level * buflength /\ level \notin RoundedDown

AtMost(n, level) ==
    \/ 100 * n < level * buflength
    \/ 100 * n = level * buflength /\ level \notin RoundedUp

fullOfLength        == (i + 1) % buflength = j

forward(x) == (x + 1) % N
full       == forward(i) = j
empty      == i = j
Held       == (i - j + N) % N

-----------------------------------------------------------------------------
Init ==
    /\ i = 0
    /\ j = 0
    /\ buffer = [p \in Places |-> 0]
    /\ offered = 0
    /\ state = "NORMAL"
    /\ buff = {}
    /\ pc = "lock"
    /\ word = {}
    /\ msg_output = 0
    /\ sent = 0
    /\ notice = "none"

Bit(s) == CASE s = "NORMAL"  -> "normal"
            [] s = "WARNING" -> "warn"
            [] s = "FULL"    -> "full"
            [] s = "FLOOD"   -> "flood"

RaisedWhenFull(late) ==
    CASE state = "NORMAL" /\ full -> "FULL"
      [] state = "FULL" /\ late -> "FLOOD"
      [] OTHER -> state

(* The level that buffer_append finds reached; late says that the tolerance*)
(* has passed since the buffer was full.                                   *)
Raised(late) ==
    CASE state \in {"NORMAL", "WARNING"} /\ full -> "FULL"
      [] state = "NORMAL" /\ ~full /\ AtLeast(Held, warn_level) -> "WARNING"
      [] state = "FULL" /\ late -> "FLOOD"
      [] OTHER -> state

AppendWithoutSignal(late) ==
    /\ offered < MaxEvents
    /\ offered' = offered + 1
    /\ state' = Raised(late)
    /\ buff' = IF state' = state THEN buff ELSE buff \cup {Bit(state')}
    /\ IF full THEN UNCHANGED <<i, buffer>>
       ELSE /\ buffer' = [buffer EXCEPT ![i] = offered']
            /\ i' = forward(i)
    /\ UNCHANGED <<j, pc, word, msg_output, sent, notice>>

(* buffer_append: an event that finds the buffer full is dropped.          *)
buffer_append(late) ==
    /\ offered < MaxEvents
    /\ offered' = offered + 1
    /\ state' = Raised(late)
    /\ buff' = IF state' = state THEN buff ELSE buff \cup {Bit(state')}
    /\ IF full
       THEN UNCHANGED <<i, buffer, pc>>
       ELSE /\ buffer' = [buffer EXCEPT ![i] = offered']
            /\ i' = forward(i)
            /\ pc' = IF pc = "waiting" THEN "lock" ELSE pc
    /\ UNCHANGED <<j, word, msg_output, sent, notice>>

-----------------------------------------------------------------------------
(* dispatch_buffer.                                                        *)

WaitForEvents ==
    /\ pc = "lock"
    /\ empty
    /\ pc' = "waiting"
    /\ UNCHANGED <<ring, j, state, buff, word, msg_output, sent, notice>>

LoweredButFlood ==
    CASE state \in {"WARNING", "FULL"} /\ AtMost(Held, normal_level) -> "NORMAL"
      [] state = "FULL" /\ ~AtMost(Held, normal_level)
            /\ AtMost(Held, warn_level) -> "WARNING"
      [] OTHER -> state

(* The level that the dispatcher finds the buffer to be under, before it   *)
(* removes an event.                                                       *)
Lowered ==
    CASE state # "NORMAL" /\ AtMost(Held, normal_level) -> "NORMAL"
      [] state \in {"FULL", "FLOOD"} /\ ~AtMost(Held, normal_level)
            /\ AtMost(Held, warn_level) -> "WARNING"
      [] OTHER -> state

(* An event is removed; the bits are looked at after the mutex is released.*)
Take ==
    /\ pc = "lock"
    /\ ~empty
    /\ state' = Lowered
    /\ buff' = IF state' # state /\ state' = "NORMAL"
               THEN buff \cup {"normal"} ELSE buff
    /\ msg_output' = buffer[j]
    /\ j' = forward(j)
    /\ pc' = "warn"
    /\ UNCHANGED <<ring, word, sent, notice>>

AfterButNormal ==
    [warn |-> "full", full |-> "flood", flood |-> "send", normal |-> "send"]

After == [warn |-> "full", full |-> "flood", flood |-> "normal", normal |-> "send"]

(* if (buff.<bit>), with the word read that clearing the bit starts with.  *)
TestBit ==
    /\ pc \in DOMAIN After
    /\ word = {}
    /\ IF pc \in buff
       THEN word' = buff /\ UNCHANGED pc
       ELSE pc' = After[pc] /\ UNCHANGED word
    /\ UNCHANGED <<ring, j, state, buff, msg_output, sent, notice>>

(* What is in the word when both threads have written it: the dispatcher's *)
(* write hides a bit set since it read the word, or the other thread, that *)
(* read it first, restores the bit just cleared.                           *)
Written(read) ==
    {read \ {pc}} \cup (IF buff = read THEN {} ELSE {buff})

(* buff.<bit> = 0, and the notice that it was set.                         *)
ClearBit ==
    /\ word # {}
    /\ buff' \in Written(word)
    /\ word' = {}
    /\ notice' = pc
    /\ pc' = After[pc]
    /\ UNCHANGED <<ring, j, state, msg_output, sent>>

(* send_msg, whether it succeeds or not: the event is freed.               *)
Send ==
    /\ pc = "send"
    /\ sent' = msg_output
    /\ pc' = "lock"
    /\ UNCHANGED <<ring, j, state, buff, word, msg_output, notice>>

dispatch_buffer == WaitForEvents \/ Take \/ TestBit \/ ClearBit \/ Send

Next == (\E late \in BOOLEAN : buffer_append(late)) \/ dispatch_buffer

Spec == Init /\ [][Next]_vars

(* The dispatcher is a thread that never ends: it is scheduled, obtains the*)
(* mutex, that buffer_append holds for a moment, and returns from send_msg.*)
FairSpec == Spec /\ WF_vars(dispatch_buffer)

-----------------------------------------------------------------------------
Bits == {"warn", "full", "flood", "normal"}

(* Types: the indices are places of the ring and the dispatcher is at one  *)
(* of its points, with a bit read only while it clears one.                *)
TypeOK ==
    /\ i \in Places
    /\ j \in Places
    /\ buffer \in [Places -> Nat]
    /\ offered \in Nat
    /\ state \in States
    /\ buff \subseteq Bits
    /\ pc \in {"lock", "waiting", "send"} \cup Bits
    /\ word \subseteq Bits
    /\ word # {} => pc \in word
    /\ msg_output \in Nat
    /\ sent \in Nat
    /\ notice \in Bits \cup {"none"}

(* The events in the ring, from the next to be sent.                       *)
Queue == [k \in 1..Held |-> buffer[(j + k - 1) % N]]

Q == INSTANCE LossyQueue
        WITH Capacity <- buflength, queue <- Queue, out <- msg_output

(* The ring implements a queue that drops an event only when it holds      *)
(* buflength of them: no event is overwritten, sent twice or out of order, *)
(* however the indices wrap around.                                        *)
ImplementsQueue == Q!Spec

(* A single event is under the normal level: what the code needs of its    *)
(* settings to come back to normal (see ReturnsToNormal).                  *)
OneIsNormal == AtMost(1, normal_level)

(* A buffer that has been emptied is back in its normal state, however it  *)
(* was filled: the dispatcher lowers the state before it removes an event, *)
(* and no one does once the buffer is empty.                               *)
ReturnsToNormal == empty => state = "NORMAL"

(* The state is never lower than the events call for: above the normal     *)
(* level by more than the event being added, and with the buffer filled,   *)
(* NORMAL and WARNING say so.                                              *)
NormalMeansRoom == state = "NORMAL" => ~AtLeast(Held - 1, warn_level)

(* An accepted event is passed to send_msg in the end: the dispatcher does *)
(* not sleep while there is something to send.                             *)
EventsAreSent ==
    \A n \in 1..MaxEvents : (\E k \in DOMAIN Queue : Queue[k] = n) ~> (sent = n)

(* The notice that the buffer is back to normal is sent, whatever happens  *)
(* to the word buff: only the dispatcher raises that bit.                  *)
NormalIsNoticed == ("normal" \in buff) ~> (notice = "normal")
=============================================================================
