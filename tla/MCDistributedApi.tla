--------------------------- MODULE MCDistributedApi ---------------------------
(***************************************************************************)
(* Requests that the master forwards for a worker, to another or to the    *)
(* same one, that it executes itself, and that its own API sends.          *)
(***************************************************************************)
EXTENDS DistributedApi

CONSTANTS w1, w2

MCRoutes == {[from |-> w1, to |-> w2], [from |-> w1, to |-> Master],
             [from |-> w2, to |-> w2], [from |-> Master, to |-> w2]}
=============================================================================
