----------------------------- MODULE RemoteCalls -----------------------------
(***************************************************************************)
(* What a connection of the cluster promises its callers: a request is     *)
(* served at most once, its caller gets the answer only after it was       *)
(* served, or gives up, after which it may still be served.  A request     *)
(* that was refused is never served.                                       *)
(***************************************************************************)
EXTENDS Naturals

CONSTANT Calls

VARIABLES
    caller,   \* what each request's caller knows of it
    served    \* how often each request has been served

vars == <<caller, served>>

TypeOK ==
    /\ caller \in [Calls -> {"new", "open", "refused", "answered", "gave up"}]
    /\ served \in [Calls -> Nat]

Init ==
    /\ caller = [x \in Calls |-> "new"]
    /\ served = [x \in Calls |-> 0]

Turn(x, from, to) ==
    /\ caller[x] = from
    /\ caller' = [caller EXCEPT ![x] = to]
    /\ UNCHANGED served

Open(x)   == Turn(x, "new", "open")
Refuse(x) == Turn(x, "new", "refused")
GiveUp(x) == Turn(x, "open", "gave up")
Answer(x) == served[x] = 1 /\ Turn(x, "open", "answered")

Serve(x) ==
    /\ caller[x] \in {"open", "gave up"}
    /\ served[x] = 0
    /\ served' = [served EXCEPT ![x] = 1]
    /\ UNCHANGED caller

Next == \E x \in Calls : Open(x) \/ Refuse(x) \/ Serve(x) \/ Answer(x) \/ GiveUp(x)

Spec == Init /\ [][Next]_vars
=============================================================================
