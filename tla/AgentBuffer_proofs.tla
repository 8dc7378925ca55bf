------------------------- MODULE AgentBuffer_proofs -------------------------
(***************************************************************************)
(* Theorems about the agent's buffer, for every length and every level.    *)
(*                                                                         *)
(* TypeOK is inductive.  With it, the ring implements LossyQueue: Wrap and *)
(* Wrapped say where an index is after a step, HeldIs how many events that *)
(* makes, and Kth which place holds the k-th of them.  ReturnsToNormal     *)
(* needs that one event alone is under the normal level.                   *)
(***************************************************************************)
EXTENDS AgentBuffer, SequenceTheorems, TLAPS

-----------------------------------------------------------------------------
(* Indices of the ring.                                                    *)

LEMMA SizeIsPositive == buflength \in Nat /\ N \in Nat /\ N > 1 /\ N = buflength + 1
BY LengthAssumption DEF N

LEMMA Wrapped ==
    ASSUME NEW x \in Nat, x < 2 * N
    PROVE  x % N = IF x < N THEN x ELSE x - N
<1>1. CASE x < N
    BY <1>1, SizeIsPositive
<1>2. CASE ~(x < N)
    BY <1>2, SizeIsPositive
<1> QED BY <1>1, <1>2

LEMMA Wrap ==
    ASSUME NEW x \in Places
    PROVE  /\ forward(x) \in Places
           /\ forward(x) = IF x = buflength THEN 0 ELSE x + 1
<1>1. x + 1 \in Nat /\ x + 1 < 2 * N
    BY SizeIsPositive DEF Places
<1>2. (x + 1) % N = IF x + 1 < N THEN x + 1 ELSE x + 1 - N
    BY <1>1, Wrapped, SizeIsPositive DEF Places
<1> QED BY <1>2, SizeIsPositive DEF forward, Places

(* What the macros compute of two indices.                                 *)
Distance(a, b) == (a - b + N) % N

LEMMA DistanceIs ==
    ASSUME NEW a \in Places, NEW b \in Places
    PROVE  /\ Distance(a, b) \in Places
           /\ Distance(a, b) = IF a >= b THEN a - b ELSE a - b + N
<1>1. a - b + N \in Nat /\ a - b + N < 2 * N
    BY SizeIsPositive DEF Places
<1>2. PICK x \in Nat : x = a - b + N
    BY <1>1
<1>3. Distance(a, b) = IF x < N THEN x ELSE x - N
    BY <1>1, <1>2, Wrapped DEF Distance
<1> QED BY <1>2, <1>3, SizeIsPositive DEF Places

LEMMA HeldIs ==
    ASSUME i \in Places, j \in Places
    PROVE  /\ Held \in Places
           /\ Held = IF i >= j THEN i - j ELSE i - j + N
           /\ empty <=> Held = 0
           /\ full <=> Held = buflength
<1>1. /\ Held \in Places
      /\ Held = IF i >= j THEN i - j ELSE i - j + N
    BY DistanceIs DEF Held, Distance
<1>2. empty <=> Held = 0
    BY <1>1, SizeIsPositive DEF Places, empty
<1>3. full <=> Held = buflength
    BY <1>1, Wrap, SizeIsPositive DEF Places, full
<1> QED BY <1>1, <1>2, <1>3

(* The k-th event is k - 1 places after the next to be sent.               *)
LEMMA Kth ==
    ASSUME NEW b \in Places, NEW k \in 1..N
    PROVE  /\ (b + k - 1) % N \in Places
           /\ (b + k - 1) % N = IF b + k - 1 < N THEN b + k - 1 ELSE b + k - 1 - N
<1>1. b + k - 1 \in Nat /\ b + k - 1 < 2 * N
    BY SizeIsPositive DEF Places
<1>2. PICK x \in Nat : x = b + k - 1
    BY <1>1
<1>3. (b + k - 1) % N = IF x < N THEN x ELSE x - N
    BY <1>1, <1>2, Wrapped
<1> QED BY <1>2, <1>3, SizeIsPositive DEF Places

-----------------------------------------------------------------------------
(* Types.                                                                  *)

LEMMA RaisedType ==
    ASSUME state \in States, NEW late \in BOOLEAN
    PROVE  Raised(late) \in States
BY DEF Raised, States

LEMMA LoweredType ==
    ASSUME state \in States
    PROVE  Lowered \in States
BY DEF Lowered, States

LEMMA BitType ==
    ASSUME NEW s \in States
    PROVE  Bit(s) \in Bits
BY DEF Bit, States, Bits

LEMMA InitTypeOK == Init => TypeOK
BY LengthAssumption DEF Init, TypeOK, Places, States

LEMMA AppendTypeOK ==
    ASSUME TypeOK, NEW late \in BOOLEAN, buffer_append(late)
    PROVE  TypeOK'
<1>1. state' \in States /\ buff' \subseteq Bits
    BY RaisedType, BitType DEF TypeOK, buffer_append
<1>2. offered' \in Nat
    BY DEF TypeOK, buffer_append
<1>3. i' \in Places
    BY Wrap DEF TypeOK, buffer_append
<1>4. buffer' \in [Places -> Nat]
    BY <1>2 DEF TypeOK, buffer_append
<1>5. pc' \in {"lock", "waiting", "send"} \cup Bits /\ word' \subseteq Bits
    BY DEF TypeOK, buffer_append
<1>6. word' # {} => pc' \in word'
    <2>1. pc = "waiting" => word = {}
        BY DEF TypeOK, Bits
    <2> QED BY <2>1 DEF TypeOK, buffer_append
<1>7. j' \in Places /\ msg_output' \in Nat /\ sent' \in Nat
      /\ notice' \in Bits \cup {"none"}
    BY DEF TypeOK, buffer_append
<1> QED BY <1>1, <1>2, <1>3, <1>4, <1>5, <1>6, <1>7 DEF TypeOK

LEMMA DispatchTypeOK ==
    ASSUME TypeOK, dispatch_buffer
    PROVE  TypeOK'
<1>1. CASE WaitForEvents
    <2>1. word = {}
        BY <1>1 DEF WaitForEvents, TypeOK, Bits
    <2> QED BY <1>1, <2>1 DEF WaitForEvents, TypeOK, ring
<1>2. CASE Take
    <2>1. word = {}
        BY <1>2 DEF Take, TypeOK, Bits
    <2>2. state' \in States
        BY <1>2, LoweredType DEF Take, TypeOK
    <2>3. buff' \subseteq Bits
        BY <1>2 DEF Take, TypeOK, Bits
    <2>4. j' \in Places /\ msg_output' \in Nat
        BY <1>2, Wrap DEF Take, TypeOK
    <2>5. pc' \in Bits
        BY <1>2 DEF Take, Bits
    <2> QED BY <1>2, <2>1, <2>2, <2>3, <2>4, <2>5 DEF Take, TypeOK, ring
<1>3. CASE TestBit
    <2>1. After[pc] \in {"send"} \cup Bits
        BY <1>3 DEF TestBit, After, Bits
    <2> QED BY <1>3, <2>1 DEF TestBit, TypeOK, ring
<1>4. CASE ClearBit
    <2>1. pc \in Bits
        BY <1>4 DEF ClearBit, TypeOK
    <2>2. After[pc] \in {"send"} \cup Bits
        BY <2>1 DEF After, Bits
    <2>3. buff' \subseteq Bits
        BY <1>4 DEF ClearBit, Written, TypeOK
    <2> QED BY <1>4, <2>1, <2>2, <2>3 DEF ClearBit, TypeOK, ring
<1>5. CASE Send
    <2>1. word = {}
        BY <1>5 DEF Send, TypeOK, Bits
    <2> QED BY <1>5, <2>1 DEF Send, TypeOK, ring
<1> QED BY <1>1, <1>2, <1>3, <1>4, <1>5 DEF dispatch_buffer

LEMMA NextTypeOK == TypeOK /\ [Next]_vars => TypeOK'
<1> SUFFICES ASSUME TypeOK, [Next]_vars
             PROVE  TypeOK'
    OBVIOUS
<1>1. CASE Next
    BY <1>1, AppendTypeOK, DispatchTypeOK DEF Next
<1>2. CASE UNCHANGED vars
    BY <1>2 DEF vars, TypeOK
<1> QED BY <1>1, <1>2

(* The indices stay in the ring and the dispatcher at its points, whatever *)
(* the length of the buffer and its levels.                                *)
THEOREM TypeCorrect == Spec => []TypeOK
<1>1. Init => TypeOK
    BY InitTypeOK
<1>2. TypeOK /\ [Next]_vars => TypeOK'
    BY NextTypeOK
<1> QED BY <1>1, <1>2, PTL DEF Spec

-----------------------------------------------------------------------------
(* Back to normal.                                                         *)

LEMMA LevelsAreOrdered ==
    /\ warn_level * buflength \in Nat
    /\ normal_level * buflength \in Nat
    /\ normal_level * buflength < warn_level * buflength
<1>1. /\ buflength \in Nat /\ buflength > 0
      /\ warn_level \in Nat /\ normal_level \in Nat
      /\ normal_level < warn_level
    BY LengthAssumption, LevelAssumption
<1> QED BY <1>1

LEMMA AppendReturns ==
    ASSUME TypeOK, ReturnsToNormal, NEW late \in BOOLEAN, buffer_append(late)
    PROVE  ReturnsToNormal'
<1>1. i \in Places /\ j \in Places
    BY DEF TypeOK
<1>2. CASE full
    <2>1. ~empty
        BY <1>1, <1>2, HeldIs, SizeIsPositive
    <2> QED BY <1>2, <2>1 DEF buffer_append, ReturnsToNormal, empty
<1>3. CASE ~full
    <2>1. i' = forward(i) /\ j' = j
        BY <1>3 DEF buffer_append
    <2> QED BY <1>3, <2>1 DEF full, empty, ReturnsToNormal
<1> QED BY <1>2, <1>3

LEMMA TakeReturns ==
    ASSUME OneIsNormal, TypeOK, Take
    PROVE  ReturnsToNormal'
<1>1. i \in Places /\ j \in Places /\ i' = i /\ j' = forward(j) /\ ~empty
    BY DEF TypeOK, Take, ring
<1>2. SUFFICES ASSUME i = forward(j)
               PROVE  state' = "NORMAL"
    BY <1>1 DEF ReturnsToNormal, empty
<1>3. Held = 1
    BY <1>1, <1>2, HeldIs, Wrap, SizeIsPositive DEF Places
<1>4. AtMost(Held, normal_level)
    BY <1>3 DEF OneIsNormal
<1> QED BY <1>4 DEF Take, Lowered

(* Where a single event is under the normal level, a buffer that has been  *)
(* emptied is back in its normal state, for every length and all levels:   *)
(* ReturnsToNormal is inductive by itself.                                 *)
THEOREM ReturnsToNormalAlways ==
    ASSUME OneIsNormal
    PROVE  Spec => []ReturnsToNormal
<1>1. Init => ReturnsToNormal
    BY DEF Init, ReturnsToNormal
<1>2. TypeOK /\ ReturnsToNormal /\ [Next]_vars => ReturnsToNormal'
    <2> SUFFICES ASSUME TypeOK, ReturnsToNormal, [Next]_vars
                 PROVE  ReturnsToNormal'
        OBVIOUS
    <2>1. CASE \E late \in BOOLEAN : buffer_append(late)
        BY <2>1, AppendReturns
    <2>2. CASE Take
        BY <2>2, TakeReturns
    <2>3. CASE WaitForEvents \/ TestBit \/ ClearBit \/ Send
        BY <2>3 DEF WaitForEvents, TestBit, ClearBit, Send, ring,
            ReturnsToNormal, empty
    <2>4. CASE UNCHANGED vars
        BY <2>4 DEF vars, ReturnsToNormal, empty
    <2> QED BY <2>1, <2>2, <2>3, <2>4 DEF Next, dispatch_buffer
<1> QED BY <1>1, <1>2, TypeCorrect, PTL DEF Spec

(* Below a level is below a higher one with less in the buffer.            *)
LEMMA BelowWarning ==
    ASSUME NEW n \in Nat, NEW m \in Int, m < n,
           AtMost(n, normal_level) \/ ~AtLeast(n - 1, warn_level)
    PROVE  ~AtLeast(m, warn_level)
<1>1. 100 * m < 100 * n /\ 100 * m \in Int /\ 100 * n \in Int
      /\ 100 * m <= 100 * (n - 1)
    OBVIOUS
<1>2. CASE AtMost(n, normal_level)
    BY <1>1, <1>2, LevelsAreOrdered DEF AtMost, AtLeast
<1>3. CASE ~AtLeast(n - 1, warn_level)
    BY <1>1, <1>3, LevelsAreOrdered DEF AtLeast
<1> QED BY <1>2, <1>3

LEMMA HeldNext ==
    ASSUME i \in Places, j \in Places
    PROVE  /\ Held = Distance(i, j)
           /\ ~full => Distance(forward(i), j) = Held + 1
           /\ ~empty => Distance(i, forward(j)) = Held - 1
<1>1. Held = Distance(i, j)
    BY DEF Held, Distance
<1>2. ASSUME ~full
      PROVE  Distance(forward(i), j) = Held + 1
    <2>1. forward(i) \in Places /\ forward(i) # j
        BY <1>2, Wrap DEF full
    <2>2. Distance(forward(i), j)
            = IF forward(i) >= j THEN forward(i) - j ELSE forward(i) - j + N
        BY <2>1, DistanceIs
    <2> QED BY <2>1, <2>2, Wrap, HeldIs, SizeIsPositive DEF Places
<1>3. ASSUME ~empty
      PROVE  Distance(i, forward(j)) = Held - 1
    <2>1. forward(j) \in Places /\ i # j
        BY <1>3, Wrap DEF empty
    <2>2. Distance(i, forward(j))
            = IF i >= forward(j) THEN i - forward(j) ELSE i - forward(j) + N
        BY <2>1, DistanceIs
    <2> QED BY <2>1, <2>2, Wrap, HeldIs, SizeIsPositive DEF Places
<1> QED BY <1>1, <1>2, <1>3

LEMMA HeldPrimed == Held' = Distance(i', j')
BY DEF Held, Distance

LEMMA AppendMeansRoom ==
    ASSUME TypeOK, NormalMeansRoom, NEW late \in BOOLEAN, buffer_append(late)
    PROVE  NormalMeansRoom'
<1>1. i \in Places /\ j \in Places /\ j' = j
    BY DEF TypeOK, buffer_append
<1>2. SUFFICES ASSUME state' = "NORMAL"
               PROVE  ~AtLeast(Held' - 1, warn_level)
    BY DEF NormalMeansRoom, AtLeast
<1>3. ~full /\ ~AtLeast(Held, warn_level)
    BY <1>2 DEF buffer_append, Raised
<1>4. Held' = Held + 1
    BY <1>1, <1>3, HeldNext, HeldPrimed DEF buffer_append
<1>5. Held' - 1 = Held
    BY <1>1, <1>4, HeldIs DEF Places
<1> QED BY <1>3, <1>5

LEMMA TakeMeansRoom ==
    ASSUME TypeOK, NormalMeansRoom, Take
    PROVE  NormalMeansRoom'
<1>1. i \in Places /\ j \in Places /\ i' = i /\ j' = forward(j) /\ ~empty
    BY DEF TypeOK, Take, ring
<1>2. SUFFICES ASSUME state' = "NORMAL"
               PROVE  ~AtLeast(Held' - 1, warn_level)
    BY DEF NormalMeansRoom, AtLeast
<1>3. AtMost(Held, normal_level) \/ ~AtLeast(Held - 1, warn_level)
    BY <1>2 DEF Take, Lowered, NormalMeansRoom
<1>4. Held' = Held - 1
    BY <1>1, HeldNext, HeldPrimed
<1>5. Held \in Nat
    BY <1>1, HeldIs, SizeIsPositive DEF Places
<1>6. Held' - 1 \in Int /\ Held' - 1 < Held
    BY <1>4, <1>5
<1> QED BY <1>3, <1>5, <1>6, BelowWarning

(* In the normal state there is room: less than the warning level but for  *)
(* the event added last, for every length and all levels.                  *)
THEOREM NormalMeansRoomAlways == Spec => []NormalMeansRoom
<1>1. Init => NormalMeansRoom
    <2> SUFFICES ASSUME Init
                 PROVE  NormalMeansRoom
        OBVIOUS
    <2>1. i \in Places /\ j \in Places /\ i = j
        BY SizeIsPositive DEF Init, Places
    <2>2. Held - 1 = -1
        BY <2>1, HeldIs DEF empty
    <2>3. ~AtLeast(-1, warn_level)
        BY LevelsAreOrdered DEF AtLeast
    <2> QED BY <2>2, <2>3 DEF NormalMeansRoom
<1>2. TypeOK /\ NormalMeansRoom /\ [Next]_vars => NormalMeansRoom'
    <2> SUFFICES ASSUME TypeOK, NormalMeansRoom, [Next]_vars
                 PROVE  NormalMeansRoom'
        OBVIOUS
    <2>1. CASE \E late \in BOOLEAN : buffer_append(late)
        BY <2>1, AppendMeansRoom
    <2>2. CASE Take
        BY <2>2, TakeMeansRoom
    <2>3. CASE UNCHANGED <<i, j, state>>
        BY <2>3 DEF NormalMeansRoom, Held, AtLeast
    <2>4. CASE WaitForEvents \/ TestBit \/ ClearBit \/ Send
        BY <2>3, <2>4 DEF WaitForEvents, TestBit, ClearBit, Send, ring
    <2>5. CASE UNCHANGED vars
        BY <2>3, <2>5 DEF vars
    <2> QED BY <2>1, <2>2, <2>4, <2>5 DEF Next, dispatch_buffer
<1> QED BY <1>1, <1>2, TypeCorrect, PTL DEF Spec

-----------------------------------------------------------------------------
(* The ring implements the queue.                                          *)

(* The events held by a ring whose next places are a and b.                *)
Contents(a, b, f) == [k \in 1..Distance(a, b) |-> f[(b + k - 1) % N]]

LEMMA ContentsRange ==
    ASSUME NEW a \in Places, NEW b \in Places
    PROVE  Distance(a, b) \in Nat /\ Distance(a, b) <= buflength
<1>1. Distance(a, b) \in Places
    BY DistanceIs
<1> QED BY <1>1, SizeIsPositive DEF Places

LEMMA ContentsIs ==
    ASSUME NEW a \in Places, NEW b \in Places, NEW f \in [Places -> Nat]
    PROVE  /\ Contents(a, b, f) \in Seq(Nat)
           /\ Len(Contents(a, b, f)) = Distance(a, b)
           /\ Distance(a, b) \in Nat
           /\ Distance(a, b) <= buflength
           /\ \A k \in 1..Distance(a, b) :
                  Contents(a, b, f)[k] = f[(b + k - 1) % N]
<1>1. Distance(a, b) \in Nat /\ Distance(a, b) <= buflength
    BY ContentsRange
<1>2. \A k \in 1..Distance(a, b) : f[(b + k - 1) % N] \in Nat
    BY <1>1, Kth, SizeIsPositive
<1>3. Contents(a, b, f) \in [1..Distance(a, b) -> Nat]
    BY <1>2 DEF Contents
<1>4. Contents(a, b, f) \in Seq(Nat) /\ Len(Contents(a, b, f)) = Distance(a, b)
    BY <1>1, <1>3
<1> QED BY <1>1, <1>4 DEF Contents

LEMMA QueueIs ==
    ASSUME TypeOK
    PROVE  /\ Queue \in Seq(Nat)
           /\ Len(Queue) = Distance(i, j)
           /\ \A k \in 1..Distance(i, j) : Queue[k] = buffer[(j + k - 1) % N]
<1>1. i \in Places /\ j \in Places /\ buffer \in [Places -> Nat]
    BY DEF TypeOK
<1>2. Queue = Contents(i, j, buffer)
    BY DEF Queue, Contents, Held, Distance
<1>3. /\ Contents(i, j, buffer) \in Seq(Nat)
      /\ Len(Contents(i, j, buffer)) = Distance(i, j)
      /\ \A k \in 1..Distance(i, j) :
             Contents(i, j, buffer)[k] = buffer[(j + k - 1) % N]
    BY <1>1, ContentsIs
<1> QED BY <1>2, <1>3, Zenon

LEMMA QueueNext ==
    ASSUME NEW a \in Places, NEW b \in Places, NEW f \in [Places -> Nat],
           i' = a, j' = b, buffer' = f
    PROVE  /\ Queue' \in Seq(Nat)
           /\ Len(Queue') = Distance(a, b)
           /\ \A k \in 1..Distance(a, b) : Queue'[k] = f[(b + k - 1) % N]
<1>1. Queue' = Contents(a, b, f)
    BY DEF Queue, Contents, Held, Distance
<1>2. /\ Contents(a, b, f) \in Seq(Nat)
      /\ Len(Contents(a, b, f)) = Distance(a, b)
      /\ \A k \in 1..Distance(a, b) : Contents(a, b, f)[k] = f[(b + k - 1) % N]
    BY ContentsIs
<1> QED BY <1>1, <1>2, Zenon

LEMMA QueueUnchanged ==
    ASSUME UNCHANGED <<i, j, buffer>>
    PROVE  Queue' = Queue
BY DEF Queue, Held

(* The place after the last event is the next to be written.               *)
LEMMA LastPlace ==
    ASSUME NEW a \in Places, NEW b \in Places
    PROVE  /\ (b + Distance(a, b)) % N = a
           /\ \A k \in 1..Distance(a, b) : (b + k - 1) % N # a
<1>1. /\ Distance(a, b) \in Nat /\ Distance(a, b) < N
      /\ Distance(a, b) = IF a >= b THEN a - b ELSE a - b + N
    BY DistanceIs, ContentsRange, SizeIsPositive
<1>2. (b + Distance(a, b)) % N = a
    <2>1. PICK k \in 1..N : k = Distance(a, b) + 1
        BY <1>1, SizeIsPositive
    <2>2. b + k - 1 = b + Distance(a, b)
        BY <1>1, <2>1, SizeIsPositive DEF Places
    <2>3. (b + k - 1) % N = IF b + k - 1 < N THEN b + k - 1 ELSE b + k - 1 - N
        BY <2>1, Kth
    <2>4. (b + k - 1) % N = a
        BY <1>1, <2>2, <2>3, SizeIsPositive DEF Places
    <2> QED BY <2>2, <2>4, Zenon
<1>3. ASSUME NEW k \in 1..Distance(a, b)
      PROVE  (b + k - 1) % N # a
    <2>1. k \in 1..N
        BY <1>1, SizeIsPositive
    <2>2. (b + k - 1) % N = IF b + k - 1 < N THEN b + k - 1 ELSE b + k - 1 - N
        BY <2>1, Kth
    <2> QED BY <1>1, <2>2, SizeIsPositive DEF Places
<1> QED BY <1>2, <1>3

LEMMA AcceptStep ==
    ASSUME TypeOK, NEW late \in BOOLEAN, buffer_append(late), ~full
    PROVE  Q!Accept
<1>1. /\ i \in Places /\ j \in Places /\ buffer \in [Places -> Nat]
      /\ i' = forward(i) /\ j' = j /\ offered' \in Nat
      /\ buffer' = [buffer EXCEPT ![i] = offered']
      /\ buffer' \in [Places -> Nat] /\ forward(i) \in Places
    BY Wrap DEF TypeOK, buffer_append
<1> DEFINE n == Distance(i, j)
<1>2. n \in Nat /\ n <= buflength /\ n # buflength
    BY <1>1, ContentsRange, HeldNext, HeldIs, SizeIsPositive
<1>3. /\ Queue \in Seq(Nat) /\ Len(Queue) = n
      /\ \A k \in 1..n : Queue[k] = buffer[(j + k - 1) % N]
    BY QueueIs, Zenon
<1>4. Distance(i', j') = n + 1
    BY <1>1, HeldNext
<1>5. /\ Queue' \in Seq(Nat) /\ Len(Queue') = n + 1
      /\ \A k \in 1..(n + 1) : Queue'[k] = buffer'[(j + k - 1) % N]
    <2>1. Distance(forward(i), j) = n + 1
        BY <1>1, <1>4
    <2>2. /\ Queue' \in Seq(Nat) /\ Len(Queue') = Distance(forward(i), j)
          /\ \A k \in 1..Distance(forward(i), j) :
                 Queue'[k] = buffer'[(j + k - 1) % N]
        BY <1>1, QueueNext
    <2> HIDE DEF n
    <2> QED BY <2>1, <2>2
<1>6. ASSUME NEW k \in 1..n
      PROVE  Queue'[k] = Queue[k]
    <2>1. (j + k - 1) % N # i
        BY <1>1, LastPlace
    <2>2. k \in 1..N
        BY <1>2, SizeIsPositive
    <2>3. (j + k - 1) % N \in Places
        BY <1>1, <2>2, Kth
    <2>4. buffer'[(j + k - 1) % N] = buffer[(j + k - 1) % N]
        BY <1>1, <2>1, <2>3
    <2>5. k \in 1..(n + 1)
        BY <1>2
    <2> QED BY <1>3, <1>5, <2>4, <2>5
<1>7. Queue'[n + 1] = offered'
    <2>1. (j + n) % N = i
        BY <1>1, LastPlace
    <2> HIDE DEF n
    <2>2. j + (n + 1) - 1 = j + n /\ n + 1 \in 1..(n + 1)
        BY <1>1, <1>2, SizeIsPositive DEF Places
    <2> QED BY <1>1, <1>5, <2>1, <2>2
<1>8. Queue' = Append(Queue, offered')
    <2> HIDE DEF n
    <2> DEFINE s == Append(Queue, offered')
    <2>1. /\ s \in Seq(Nat) /\ Len(s) = n + 1
          /\ \A k \in 1..n : s[k] = Queue[k]
          /\ s[n + 1] = offered'
        BY <1>1, <1>2, <1>3, AppendProperties
    <2>2. \A k \in 1..(n + 1) : k \in 1..n \/ k = n + 1
        BY <1>2
    <2>3. \A k \in 1..Len(Queue') : Queue'[k] = s[k]
        BY <1>5, <1>6, <1>7, <2>1, <2>2
    <2> HIDE DEF s
    <2>4. Queue' = s
        BY <1>5, <2>1, <2>3, SeqEqual
    <2> QED BY <2>4 DEF s
<1>9. Len(Queue) < buflength
    BY <1>2, <1>3, SizeIsPositive
<1>10. offered' = offered + 1 /\ msg_output' = msg_output
    BY DEF buffer_append
<1> HIDE DEF n
<1> QED BY <1>8, <1>9, <1>10 DEF Q!Accept

LEMMA DropStep ==
    ASSUME TypeOK, NEW late \in BOOLEAN, buffer_append(late), full
    PROVE  Q!Drop
<1>1. Len(Queue) = Held /\ Held = buflength
    BY QueueIs, HeldNext, HeldIs DEF TypeOK
<1>2. Queue' = Queue
    BY QueueUnchanged DEF buffer_append
<1> QED BY <1>1, <1>2 DEF Q!Drop, buffer_append

LEMMA TakeStep ==
    ASSUME TypeOK, Take
    PROVE  Q!Leave
<1>1. /\ i \in Places /\ j \in Places /\ buffer \in [Places -> Nat]
      /\ i' = i /\ j' = forward(j) /\ buffer' = buffer /\ forward(j) \in Places
      /\ ~empty /\ msg_output' = buffer[j] /\ offered' = offered
    BY Wrap DEF TypeOK, Take, ring
<1> DEFINE n == Distance(i, j)
<1>2. n \in Nat /\ n <= buflength /\ n # 0
    BY <1>1, ContentsRange, HeldNext, HeldIs, SizeIsPositive
<1>3. /\ Queue \in Seq(Nat) /\ Len(Queue) = n
      /\ \A k \in 1..n : Queue[k] = buffer[(j + k - 1) % N]
    BY QueueIs, Zenon
<1>4. Distance(i', j') = n - 1
    BY <1>1, HeldNext
<1>5. /\ Queue' \in Seq(Nat) /\ Len(Queue') = n - 1
      /\ \A k \in 1..(n - 1) : Queue'[k] = buffer[(forward(j) + k - 1) % N]
    <2>1. Distance(i, forward(j)) = n - 1
        BY <1>1, <1>4
    <2>2. /\ Queue' \in Seq(Nat) /\ Len(Queue') = Distance(i, forward(j))
          /\ \A k \in 1..Distance(i, forward(j)) :
                 Queue'[k] = buffer[(forward(j) + k - 1) % N]
        BY <1>1, QueueNext
    <2> HIDE DEF n
    <2> QED BY <2>1, <2>2
<1>6. ASSUME NEW k \in 1..(n - 1)
      PROVE  Queue'[k] = Queue[k + 1]
    <2>1. k \in 1..N /\ k + 1 \in 1..N /\ k + 1 \in 1..n
        BY <1>2, SizeIsPositive
    <2>2. (forward(j) + k - 1) % N
            = IF forward(j) + k - 1 < N THEN forward(j) + k - 1
              ELSE forward(j) + k - 1 - N
        BY <1>1, <2>1, Kth
    <2>3. (j + (k + 1) - 1) % N
            = IF j + (k + 1) - 1 < N THEN j + (k + 1) - 1
              ELSE j + (k + 1) - 1 - N
        BY <1>1, <2>1, Kth
    <2>4. forward(j) = IF j = buflength THEN 0 ELSE j + 1
        BY <1>1, Wrap
    <2>5. (forward(j) + k - 1) % N = (j + (k + 1) - 1) % N
        <3>1. CASE j = buflength
            <4>1. forward(j) + k - 1 = k - 1 /\ k - 1 < N
                BY <2>1, <2>4, <3>1, SizeIsPositive
            <4>2. (forward(j) + k - 1) % N = k - 1
                BY <2>2, <4>1
            <4>3. j + (k + 1) - 1 = k - 1 + N
                BY <2>1, <3>1, SizeIsPositive
            <4>4. (j + (k + 1) - 1) % N = k - 1
                BY <2>1, <2>3, <4>3, SizeIsPositive
            <4> QED BY <4>2, <4>4, Zenon
        <3>2. CASE j # buflength
            <4>1. forward(j) + k - 1 = j + (k + 1) - 1
                BY <1>1, <2>1, <2>4, <3>2, SizeIsPositive DEF Places
            <4> QED BY <4>1, Zenon
        <3> QED BY <3>1, <3>2
    <2> QED BY <1>3, <1>5, <2>1, <2>5
<1>7. Head(Queue) = buffer[j]
    <2>1. 1 \in 1..N /\ j + 1 - 1 = j /\ j < N
        BY <1>1, SizeIsPositive DEF Places
    <2>2. (j + 1 - 1) % N = j
        BY <1>1, <2>1, Kth
    <2>3. Queue[1] = buffer[j]
        BY <1>2, <1>3, <2>2
    <2> QED BY <1>2, <1>3, <2>3
<1>8. Queue' = Tail(Queue) /\ Queue # <<>>
    <2> HIDE DEF n
    <2>1. Queue # <<>>
        BY <1>2, <1>3
    <2> DEFINE s == Tail(Queue)
    <2>2. /\ s \in Seq(Nat) /\ Len(s) = n - 1
          /\ \A k \in 1..(n - 1) : s[k] = Queue[k + 1]
        BY <1>2, <1>3, <2>1, HeadTailProperties
    <2> HIDE DEF s
    <2>3. Queue' = s
        BY <1>5, <1>6, <2>2, SeqEqual
    <2> QED BY <2>1, <2>3 DEF s
<1> QED BY <1>1, <1>7, <1>8 DEF Q!Leave

LEMMA InitQueue == Init => Q!Init
<1> SUFFICES ASSUME Init
             PROVE  Q!Init
    OBVIOUS
<1>1. i \in Places /\ j \in Places /\ buffer \in [Places -> Nat] /\ i = j
    BY SizeIsPositive DEF Init, Places
<1>2. Held = 0
    BY <1>1, HeldIs DEF empty
<1>3. Queue \in Seq(Nat) /\ Len(Queue) = 0
    BY <1>1, <1>2, QueueIs, HeldNext, InitTypeOK
<1>4. Queue = <<>>
    BY <1>3
<1> QED BY <1>4 DEF Init, Q!Init

(* The ring implements a queue that drops an event only when buflength of  *)
(* them are held: for every length no event is overwritten, sent twice or  *)
(* out of order.                                                           *)
THEOREM RingIsQueue == Spec => ImplementsQueue
<1>1. Init => Q!Init
    BY InitQueue
<1>2. TypeOK /\ [Next]_vars => [Q!Next]_Q!vars
    <2> SUFFICES ASSUME TypeOK, [Next]_vars
                 PROVE  [Q!Next]_Q!vars
        OBVIOUS
    <2>1. CASE \E late \in BOOLEAN : buffer_append(late)
        BY <2>1, AcceptStep, DropStep DEF Q!Next
    <2>2. CASE Take
        BY <2>2, TakeStep DEF Q!Next
    <2>3. CASE UNCHANGED <<i, j, buffer, offered, msg_output>>
        BY <2>3, QueueUnchanged DEF Q!vars
    <2>4. CASE WaitForEvents \/ TestBit \/ ClearBit \/ Send
        BY <2>3, <2>4 DEF WaitForEvents, TestBit, ClearBit, Send, ring
    <2>5. CASE UNCHANGED vars
        BY <2>3, <2>5 DEF vars
    <2> QED BY <2>1, <2>2, <2>4, <2>5 DEF Next, dispatch_buffer
<1> QED BY <1>1, <1>2, TypeCorrect, PTL DEF Spec, ImplementsQueue, Q!Spec
=============================================================================
