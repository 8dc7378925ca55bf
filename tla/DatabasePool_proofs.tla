------------------------ MODULE DatabasePool_proofs ------------------------
(***************************************************************************)
(* Proofs about the pool of databases: nodes are counted right, and so they*)
(* are not destroyed under a thread; a database has one connection; a      *)
(* transaction is marked.                                                  *)
(*                                                                         *)
(* The invariants need each other: the counter says that a node without    *)
(* users may be destroyed, that a thread's node is in the pool says that   *)
(* what it opens is, and a destroyed node must be closed for its memory to *)
(* be used again.                                                          *)
(***************************************************************************)
EXTENDS DatabasePool, FiniteSetTheorems, TLAPS

Users(f, x) == {t \in Threads : f[t] = x}

Inv ==
    /\ TypeOK
    /\ RefcountIsUsers
    /\ UsersHaveTheirNode
    /\ OneConnection
    /\ TransactionsAreMarked

(* The two halves of Inv: the state of the pool, and what has no part in   *)
(* the argument.                                                           *)
Core ==
    /\ pool \in [Names -> Nodes \cup {None}]
    /\ refcount \in [Nodes -> Nat]
    /\ db \subseteq Nodes /\ transaction \subseteq Nodes /\ active \subseteq Nodes
    /\ pc \in [Threads -> Purposes \cup {"idle", "unlink"}]
    /\ node \in [Threads -> Nodes \cup {None}]
    /\ name \in [Threads -> Names \cup {None}]
    /\ \A t \in Threads : node[t] # None <=> pc[t] \in Purposes
    /\ \A t \in Threads : name[t] # None <=> pc[t] # "idle"
    /\ RefcountIsUsers /\ UsersHaveTheirNode
    /\ OneConnection /\ TransactionsAreMarked

Rest ==
    /\ file \subseteq Names
    /\ pass \in Passes
    /\ walking \in BOOLEAN
    /\ keys \subseteq Names
    /\ closed \in Nat
    /\ running \in BOOLEAN
    /\ looping \subseteq Threads
    /\ queries \in 0..MaxQueries

LEMMA Halves == Inv <=> Core /\ Rest
BY DEF Inv, TypeOK, Core, Rest

(* A thread that had no node and now has x is one more user of x.          *)
LEMMA OneMoreUser ==
  ASSUME NEW f, NEW t \in Threads, NEW x \in Nodes,
         f \in [Threads -> Nodes \cup {None}], f[t] = None
  PROVE  LET g == [f EXCEPT ![t] = x] IN
         /\ Cardinality(Users(g, x)) = Cardinality(Users(f, x)) + 1
         /\ \A y \in Nodes \ {x} : Users(g, y) = Users(f, y)
<1> DEFINE g == [f EXCEPT ![t] = x]
<1>1. x # None
  BY NoneAssumption
<1>2. IsFiniteSet(Threads)
  BY ThreadsAssumption, FS_AddElement DEF Threads
<1>3. IsFiniteSet(Users(f, x))
  BY <1>2, FS_Subset DEF Users
<1>4. t \notin Users(f, x)
  BY <1>1 DEF Users
<1>5. Users(g, x) = Users(f, x) \cup {t}
  BY DEF Users
<1>6. Cardinality(Users(g, x)) = Cardinality(Users(f, x)) + 1
  BY <1>3, <1>4, <1>5, FS_AddElement
<1>7. ASSUME NEW y \in Nodes \ {x}
      PROVE  Users(g, y) = Users(f, y)
  <2>1. y # None
    BY NoneAssumption
  <2>. QED  BY <2>1 DEF Users
<1>. QED  BY <1>6, <1>7

(* A thread that gives up its node x is one user of x less.                *)
LEMMA OneUserLess ==
  ASSUME NEW f, NEW t \in Threads, NEW x \in Nodes,
         f \in [Threads -> Nodes \cup {None}], f[t] = x
  PROVE  LET g == [f EXCEPT ![t] = None] IN
         /\ Cardinality(Users(g, x)) = Cardinality(Users(f, x)) - 1
         /\ Cardinality(Users(f, x)) \in Nat \ {0}
         /\ \A y \in Nodes \ {x} : Users(g, y) = Users(f, y)
<1> DEFINE g == [f EXCEPT ![t] = None]
<1>1. x # None
  BY NoneAssumption
<1>2. IsFiniteSet(Threads)
  BY ThreadsAssumption, FS_AddElement DEF Threads
<1>3. IsFiniteSet(Users(f, x))
  BY <1>2, FS_Subset DEF Users
<1>4. t \in Users(f, x)
  BY DEF Users
<1>5. Users(g, x) = Users(f, x) \ {t}
  BY <1>1 DEF Users
<1>6. Cardinality(Users(g, x)) = Cardinality(Users(f, x)) - 1
  BY <1>3, <1>4, <1>5, FS_RemoveElement
<1>7. Cardinality(Users(f, x)) \in Nat \ {0}
  BY <1>3, <1>4, FS_CardinalityType, FS_EmptySet
<1>8. ASSUME NEW y \in Nodes \ {x}
      PROVE  Users(g, y) = Users(f, y)
  <2>1. y # None
    BY NoneAssumption
  <2>. QED  BY <2>1 DEF Users
<1>. QED  BY <1>6, <1>7, <1>8

-----------------------------------------------------------------------------
LEMMA InvInit == Init => Inv
<1> SUFFICES ASSUME Init PROVE Inv
  OBVIOUS
<1>1. TypeOK
  <2>1. /\ pc \in [Threads -> Purposes \cup {"idle", "unlink"}]
        /\ node \in [Threads -> Nodes \cup {None}]
        /\ name \in [Threads -> Names \cup {None}]
        /\ \A t \in Threads : node[t] # None <=> pc[t] \in Purposes
        /\ \A t \in Threads : name[t] # None <=> pc[t] # "idle"
    BY DEF Init, Purposes
  <2>2. /\ pool \in [Names -> Nodes \cup {None}]
        /\ refcount \in [Nodes -> Nat]
    BY DEF Init
  <2>3. db \subseteq Nodes /\ transaction \subseteq Nodes /\ active \subseteq Nodes
    BY DEF Init
  <2>4. file \subseteq Names /\ keys \subseteq Names /\ looping \subseteq Threads
    BY DEF Init
  <2>5. pass \in Passes /\ closed \in Nat /\ queries \in 0..MaxQueries
    BY LimitAssumption DEF Init, Passes
  <2>6. walking \in BOOLEAN /\ running \in BOOLEAN
    BY Zenon DEF Init
  <2>. QED  BY <2>1, <2>2, <2>3, <2>4, <2>5, <2>6 DEF TypeOK
<1>2. RefcountIsUsers
  <2> SUFFICES ASSUME NEW x \in Nodes
               PROVE  refcount[x] = Cardinality({t \in Threads : node[t] = x})
    BY DEF RefcountIsUsers
  <2>1. {t \in Threads : node[t] = x} = {}
    BY NoneAssumption DEF Init
  <2>. QED  BY <2>1, FS_EmptySet DEF Init
<1>3. UsersHaveTheirNode
  BY DEF Init, UsersHaveTheirNode
<1>4. OneConnection
  BY DEF Init, OneConnection, InPool
<1>5. TransactionsAreMarked
  BY DEF Init, TransactionsAreMarked
<1>. QED  BY <1>1, <1>2, <1>3, <1>4, <1>5 DEF Inv

(* A thread without a node obtains one that the pool has.                  *)
LEMMA GetKeepsInv ==
  ASSUME Inv, NEW t \in Threads, NEW n \in Names, NEW purpose \in Purposes,
         node[t] = None, wdb_pool_get(t, n, purpose)
  PROVE  Core'
<1> DEFINE x == pool[n]
<1>0. /\ x \in Nodes
      /\ x # None
      /\ refcount' = [refcount EXCEPT ![x] = @ + 1]
      /\ node' = [node EXCEPT ![t] = x]
      /\ name' = [name EXCEPT ![t] = n]
      /\ pc' = [pc EXCEPT ![t] = purpose]
      /\ UNCHANGED <<pool, db, transaction, active>>
  BY NoneAssumption DEF Inv, TypeOK, wdb_pool_get, Refer, content
<1> HIDE DEF x
<1>1. /\ pool' \in [Names -> Nodes \cup {None}]
      /\ refcount' \in [Nodes -> Nat]
      /\ pc' \in [Threads -> Purposes \cup {"idle", "unlink"}]
      /\ node' \in [Threads -> Nodes \cup {None}]
      /\ name' \in [Threads -> Names \cup {None}]
  <2>1. pool' \in [Names -> Nodes \cup {None}] /\ refcount' \in [Nodes -> Nat]
    <3>1. pool \in [Names -> Nodes \cup {None}] /\ refcount \in [Nodes -> Nat]
      BY DEF Inv, TypeOK
    <3>2. refcount[x] + 1 \in Nat
      BY <3>1, <1>0
    <3>3. pool' = pool
      BY <1>0
    <3>. QED  BY <3>1, <3>2, <3>3, <1>0
  <2>2. pc' \in [Threads -> Purposes \cup {"idle", "unlink"}]
    BY <1>0, Zenon DEF Inv, TypeOK
  <2>3. node' \in [Threads -> Nodes \cup {None}] /\ name' \in [Threads -> Names \cup {None}]
    BY <1>0 DEF Inv, TypeOK
  <2>. QED  BY <2>1, <2>2, <2>3
<1>2. /\ \A s \in Threads : node'[s] # None <=> pc'[s] \in Purposes
      /\ \A s \in Threads : name'[s] # None <=> pc'[s] # "idle"
  BY <1>0, NoneAssumption DEF Inv, TypeOK, Purposes
<1>3. RefcountIsUsers'
  <2> SUFFICES ASSUME NEW y \in Nodes
               PROVE  refcount'[y] = Cardinality(Users(node', y))
    BY DEF RefcountIsUsers, Users
  <2>1. refcount[y] = Cardinality(Users(node, y)) /\ refcount[x] = Cardinality(Users(node, x))
    BY <1>0 DEF Inv, RefcountIsUsers, Users
  <2>2. node \in [Threads -> Nodes \cup {None}] /\ refcount \in [Nodes -> Nat]
    BY DEF Inv, TypeOK
  <2>3. CASE y = x
    BY <2>1, <2>2, <2>3, <1>0, OneMoreUser
  <2>4. CASE y # x
    <3>1. Users(node', y) = Users(node, y)
      BY <2>2, <2>4, <1>0, OneMoreUser
    <3>. QED  BY <3>1, <2>1, <2>2, <2>4, <1>0
  <2>. QED  BY <2>3, <2>4
<1>4. UsersHaveTheirNode'
  BY <1>0 DEF Inv, UsersHaveTheirNode, TypeOK, x
<1>5. OneConnection'
  BY <1>0 DEF Inv, OneConnection, Live, InPool
<1>6. TransactionsAreMarked'
  BY <1>0 DEF Inv, TransactionsAreMarked
<1>7. db' \subseteq Nodes /\ transaction' \subseteq Nodes /\ active' \subseteq Nodes
  BY <1>0 DEF Inv, TypeOK
<1>. QED  BY <1>1, <1>2, <1>3, <1>4, <1>5, <1>6, <1>7 DEF Core

(* What a thread does to its node before it leaves it.                     *)
LEMMA WorkKeepsInv ==
  ASSUME Inv, NEW t \in Threads, NEW next \in {"leave", "leave and unlink"},
         pc[t] \in Purposes,
         UNCHANGED <<tree, node, name>>, LeavesAs(t, next),
         db' \subseteq db \cup {node[t]}, transaction' \subseteq Nodes,
         active' \subseteq transaction' \cap db'
  PROVE  Core'
<1>1. /\ node[t] \in Nodes
      /\ node[t] # None
      /\ node[t] \in Live
  <2>1. node[t] \in Nodes /\ node[t] # None
    BY DEF Inv, TypeOK
  <2>2. pool[name[t]] = node[t]
    BY <2>1 DEF Inv, UsersHaveTheirNode
  <2>3. name[t] \in Names
    BY DEF Inv, TypeOK, Purposes
  <2>. QED  BY <2>1, <2>2, <2>3 DEF Live, InPool
<1>2. /\ pool' \in [Names -> Nodes \cup {None}]
      /\ refcount' \in [Nodes -> Nat]
      /\ db' \subseteq Nodes /\ transaction' \subseteq Nodes /\ active' \subseteq Nodes
      /\ node' \in [Threads -> Nodes \cup {None}]
      /\ name' \in [Threads -> Names \cup {None}]
  BY <1>1 DEF Inv, TypeOK, tree
<1>3. /\ pc' \in [Threads -> Purposes \cup {"idle", "unlink"}]
      /\ \A s \in Threads : node'[s] # None <=> pc'[s] \in Purposes
      /\ \A s \in Threads : name'[s] # None <=> pc'[s] # "idle"
  BY DEF Inv, TypeOK, LeavesAs, Purposes
<1>4. RefcountIsUsers' /\ UsersHaveTheirNode'
  BY DEF Inv, RefcountIsUsers, UsersHaveTheirNode, tree
<1>5. OneConnection'
  BY <1>1 DEF Inv, OneConnection, Live, InPool, tree
<1>6. TransactionsAreMarked'
  BY DEF TransactionsAreMarked
<1>. QED  BY <1>2, <1>3, <1>4, <1>5, <1>6 DEF Core

(* A commit or a close leaves no transaction unmarked.                     *)
LEMMA CommittedIsMarked ==
  ASSUME Inv, NEW x, Committed(x)
  PROVE  transaction' \subseteq Nodes /\ active' \subseteq transaction' \cap (db \ {x})
BY DEF Inv, TypeOK, TransactionsAreMarked, Committed

LEMMA ClosedIsMarked ==
  ASSUME Inv, NEW x, NEW commit \in BOOLEAN, Closed(x, commit)
  PROVE  /\ transaction' \subseteq Nodes
         /\ db' \subseteq db
         /\ active' \subseteq transaction' \cap db'
<1>1. CASE commit
  BY <1>1, CommittedIsMarked DEF Closed
<1>2. CASE ~commit
  BY <1>2 DEF Inv, TypeOK, TransactionsAreMarked, Closed
<1>. QED  BY <1>1, <1>2

-----------------------------------------------------------------------------
(* Step by step: first what has no part in the argument.                   *)
LEMMA RestStep == Inv /\ [Next]_vars => Rest'
<1> SUFFICES ASSUME Inv, [Next]_vars PROVE Rest'
  OBVIOUS
<1>1. Rest
  BY DEF Inv, TypeOK, Rest
<1>2. ASSUME NEW t \in Workers, NEW n \in Names, Receive(t, n) \/ ReceiveRemove(t, n)
      PROVE  Rest'
  <2>1. /\ queries < MaxQueries
        /\ queries' = queries + 1
        /\ UNCHANGED <<file, pass, walking, keys, closed, running, looping>>
    BY <1>2, Zenon DEF Receive, ReceiveRemove, gc, process
  <2>2. queries' \in 0..MaxQueries
    <3>1. queries \in 0..MaxQueries
      BY <1>1 DEF Rest
    <3>. QED  BY <2>1, <3>1, LimitAssumption
  <2>. QED  BY <1>1, <2>1, <2>2 DEF Rest
<1>3. ASSUME NEW t \in Threads,
             Leave(t) \/ OpenFails(t) \/ FileIsMissing(t) \/ Remove(t) \/ Unlink(t) \/ LeaveLoop(t)
      PROVE  Rest'
  <2>1. /\ file' \subseteq file
        /\ looping' \subseteq looping
        /\ UNCHANGED <<pass, walking, keys, closed, running, queries>>
    BY <1>3 DEF Leave, OpenFails, FileIsMissing, Remove, Unlink, LeaveLoop, content, gc, process
  <2>. QED  BY <1>1, <2>1 DEF Rest
<1>4. ASSUME NEW t \in Workers, Query(t) \/ Close(t) \/ Restore(t)
      PROVE  Rest'
  <2>1. name[t] \in Names
    BY <1>4 DEF Query, Close, Restore, Inv, TypeOK, Threads
  <2>2. /\ file' \subseteq file \cup {name[t]}
        /\ UNCHANGED <<pass, walking, keys, closed, running, looping, queries>>
    BY <1>4 DEF Query, Close, Restore, Opened, gc, process
  <2>. QED  BY <1>1, <2>1, <2>2 DEF Rest
<1>5. CASE EndWalk \/ wdb_pool_clean
  <2>1. pass' \in NextPasses(pass) /\ pass \in {"commit", "check", "close"}
    BY <1>5 DEF EndWalk, wdb_pool_clean
  <2>2. pass' \in Passes
    BY <2>1 DEF NextPasses, Passes
  <2>3. /\ keys' \in {keys, {}}
        /\ walking' \in BOOLEAN
        /\ closed' \in {closed, 0}
        /\ UNCHANGED <<file, running, looping, queries>>
    BY <1>5 DEF EndWalk, wdb_pool_clean, process
  <2>. QED  BY <1>1, <2>2, <2>3 DEF Rest
<1>6. CASE wdb_pool_keys \/ Visit \/ CommitOld \/ CommitLater \/ Vacuum \/ CloseAll
  <2>1. /\ keys' \subseteq keys \cup InPool
        /\ walking' \in {walking, TRUE}
        /\ UNCHANGED <<file, pass, closed, running, looping, queries>>
    BY <1>6 DEF wdb_pool_keys, Visit, CommitOld, CommitLater, Vacuum, CloseAll, gc, process
  <2>. QED  BY <1>1, <2>1 DEF Rest, InPool
<1>7. CASE CloseOld
  <2>1. /\ closed' = closed + 1 \/ closed' = closed
        /\ UNCHANGED <<file, pass, walking, keys, running, looping, queries>>
    BY <1>7, Zenon DEF CloseOld, content, process
  <2>. QED  BY <1>1, <2>1 DEF Rest
<1>8. CASE Join \/ Stop
  <2>1. /\ pass' \in {pass, "close all"}
        /\ running' \in {running, FALSE}
        /\ UNCHANGED <<file, walking, keys, closed, looping, queries>>
    BY <1>8 DEF Join, Stop, gc, process
  <2>. QED  BY <1>1, <2>1 DEF Rest, Passes
<1>9. CASE UNCHANGED vars
  BY <1>1, <1>9 DEF Rest, vars, gc, process
<1>10. ASSUME NEW t \in Workers, Work(t) PROVE Rest'
  BY <1>3, <1>4, <1>10 DEF Work, Threads
<1>11. CASE Collect
  BY <1>3, <1>5, <1>6, <1>7, <1>8, <1>11 DEF Collect, Threads
<1>. QED  BY <1>2, <1>8, <1>9, <1>10, <1>11 DEF Next

(* A node in use or open is live: a new node is neither.                   *)
LEMMA NewNode ==
  ASSUME Inv, NEW t \in Threads, NEW n \in Names, NEW x \in Nodes \ Live,
         node[t] = None, pool[n] = None,
         pool' = [pool EXCEPT ![n] = x], wdb_init(x),
         refcount' = [refcount EXCEPT ![x] = 1],
         node' = [node EXCEPT ![t] = x], name' = [name EXCEPT ![t] = n],
         pc' = [pc EXCEPT ![t] = "query"]
  PROVE  Core'
<1>1. x # None /\ n # None
  BY NoneAssumption
<1>2. /\ pool \in [Names -> Nodes \cup {None}]
      /\ refcount \in [Nodes -> Nat]
      /\ node \in [Threads -> Nodes \cup {None}]
      /\ name \in [Threads -> Names \cup {None}]
      /\ \A s \in Threads : node[s] # None <=> pc[s] \in Purposes
      /\ \A s \in Threads : name[s] # None <=> pc[s] # "idle"
  BY DEF Inv, TypeOK
<1>3. \A s \in Threads : node[s] # None => name[s] \in Names /\ pool[name[s]] = node[s]
  BY <1>2 DEF Inv, UsersHaveTheirNode, Purposes
<1>4. Users(node, x) = {}
  BY <1>1, <1>3 DEF Users, Live, InPool
<1>5. x \notin db
  BY DEF Inv, OneConnection
<1>6. /\ pool' \in [Names -> Nodes \cup {None}]
      /\ refcount' \in [Nodes -> Nat]
      /\ node' \in [Threads -> Nodes \cup {None}]
      /\ name' \in [Threads -> Names \cup {None}]
  BY <1>2
<1>7. pc' \in [Threads -> Purposes \cup {"idle", "unlink"}]
  BY DEF Inv, TypeOK, Purposes
<1>8. /\ \A s \in Threads : node'[s] # None <=> pc'[s] \in Purposes
      /\ \A s \in Threads : name'[s] # None <=> pc'[s] # "idle"
  BY <1>1, <1>2 DEF Purposes, Inv, TypeOK
<1>9. RefcountIsUsers'
  <2> SUFFICES ASSUME NEW y \in Nodes
               PROVE  refcount'[y] = Cardinality(Users(node', y))
    BY DEF RefcountIsUsers, Users
  <2>1. CASE y = x
    <3>1. Cardinality(Users(node', x)) = Cardinality(Users(node, x)) + 1
      BY <1>2, OneMoreUser
    <3>2. Cardinality(Users(node', x)) = 1
      BY <3>1, <1>4, FS_EmptySet
    <3>. QED  BY <2>1, <3>2, <1>2
  <2>2. CASE y # x
    <3>1. Users(node', y) = Users(node, y)
      <4>1. y \in Nodes \ {x} /\ node \in [Threads -> Nodes \cup {None}]
        BY <2>2, <1>2
      <4>. QED  BY <4>1, OneMoreUser
    <3>2. refcount[y] = Cardinality(Users(node, y))
      BY DEF Inv, RefcountIsUsers, Users
    <3>. QED  BY <2>2, <3>1, <3>2, <1>2
  <2>. QED  BY <2>1, <2>2
<1>10. UsersHaveTheirNode'
  <2> SUFFICES ASSUME NEW s \in Threads, node'[s] # None
               PROVE  pool'[name'[s]] = node'[s]
    BY DEF UsersHaveTheirNode
  <2>1. CASE s = t
    BY <2>1, <1>2
  <2>2. CASE s # t
    <3>1. node[s] # None /\ node'[s] = node[s] /\ name'[s] = name[s]
      BY <2>2, <1>2
    <3>2. name[s] \in Names /\ pool[name[s]] = node[s]
      BY <3>1, <1>3
    <3>3. name[s] # n
      BY <3>1, <3>2
    <3>. QED  BY <3>1, <3>2, <3>3, <1>2
  <2>. QED  BY <2>1, <2>2
<1>11. OneConnection'
  <2>1. \A m \in Names : m # n => pool'[m] = pool[m]
    BY <1>2
  <2>2. pool'[n] = x
    BY <1>2
  <2>3. \A m \in InPool : pool[m] # x
    BY DEF Live
  <2>4. InPool' = InPool \cup {n}
    BY <1>1, <1>2, <2>1, <2>2 DEF InPool
  <2>5. db' \subseteq Live
    BY DEF Inv, OneConnection, wdb_init
  <2>6. Live \subseteq Live'
    BY <2>1, <2>4 DEF Live, InPool
  <2>7. \A m, k \in InPool' : pool'[m] = pool'[k] => m = k
    BY <2>1, <2>2, <2>3, <2>4 DEF Inv, OneConnection, InPool
  <2>. QED  BY <2>5, <2>6, <2>7 DEF OneConnection
<1>12. /\ db' \subseteq Nodes /\ transaction' \subseteq Nodes /\ active' \subseteq Nodes
       /\ TransactionsAreMarked'
  BY DEF Inv, TypeOK, TransactionsAreMarked, wdb_init
<1>. QED  BY <1>6, <1>7, <1>8, <1>9, <1>10, <1>11, <1>12 DEF Core

LEMMA ReceiveStep ==
  ASSUME Inv, NEW t \in Workers, NEW n \in Names,
         Receive(t, n) \/ ReceiveRemove(t, n)
  PROVE  Core'
<1>1. t \in Threads /\ pc[t] = "idle" /\ node[t] = None
  BY DEF Receive, ReceiveRemove, Inv, TypeOK, Threads, Purposes
<1>2. CASE wdb_pool_get(t, n, "query") \/ wdb_pool_get(t, n, "remove")
  BY <1>1, <1>2, GetKeepsInv DEF Purposes
<1>3. CASE Receive(t, n) /\ ~wdb_pool_get(t, n, "query")
  <2>1. PICK x \in Nodes \ Live :
           /\ pool' = [pool EXCEPT ![n] = x]
           /\ wdb_init(x)
           /\ refcount' = [refcount EXCEPT ![x] = 1]
           /\ node' = [node EXCEPT ![t] = x]
           /\ name' = [name EXCEPT ![t] = n]
           /\ pc' = [pc EXCEPT ![t] = "query"]
    BY <1>3 DEF Receive, wdb_pool_get_or_create
  <2>2. pool[n] = None
    BY <1>3 DEF Receive, wdb_pool_get_or_create
  <2>. QED  BY <1>1, <2>1, <2>2, NewNode
<1>4. CASE ReceiveRemove(t, n) /\ ~wdb_pool_get(t, n, "remove")
  <2>1. /\ pc' = [pc EXCEPT ![t] = "unlink"]
        /\ name' = [name EXCEPT ![t] = n]
        /\ UNCHANGED <<pool, refcount, db, transaction, active, node>>
    BY <1>4, Zenon DEF ReceiveRemove, tree, content
  <2>2. /\ pc' \in [Threads -> Purposes \cup {"idle", "unlink"}]
        /\ name' \in [Threads -> Names \cup {None}]
    BY <2>1 DEF Inv, TypeOK
  <2>3. /\ \A s \in Threads : node'[s] # None <=> pc'[s] \in Purposes
        /\ \A s \in Threads : name'[s] # None <=> pc'[s] # "idle"
    BY <2>1, <1>1, NoneAssumption DEF Inv, TypeOK, Purposes
  <2>4. RefcountIsUsers' /\ UsersHaveTheirNode'
    BY <1>1, <2>1 DEF Inv, TypeOK, RefcountIsUsers, UsersHaveTheirNode
  <2>5. OneConnection' /\ TransactionsAreMarked'
    BY <2>1 DEF Inv, OneConnection, TransactionsAreMarked, Live, InPool
  <2>. QED  BY <2>1, <2>2, <2>3, <2>4, <2>5 DEF Inv, TypeOK, Core
<1>. QED  BY <1>2, <1>3, <1>4

LEMMA LeaveStep ==
  ASSUME Inv, NEW t \in Threads, Leave(t)
  PROVE  Core'
<1> DEFINE x == node[t]
<1>0. /\ pc[t] \in {"leave", "leave and unlink"}
      /\ refcount' = [refcount EXCEPT ![x] = @ - 1]
      /\ node' = [node EXCEPT ![t] = None]
      /\ \/ /\ pc[t] = "leave"
            /\ pc' = [pc EXCEPT ![t] = "idle"]
            /\ name' = [name EXCEPT ![t] = None]
         \/ /\ pc[t] # "leave"
            /\ pc' = [pc EXCEPT ![t] = "unlink"]
            /\ name' = name
      /\ UNCHANGED <<pool, db, transaction, active>>
  BY DEF Leave, Returns, content
<1>1. x \in Nodes /\ x # None
  BY <1>0 DEF Inv, TypeOK, Purposes
<1>2. /\ node \in [Threads -> Nodes \cup {None}]
      /\ refcount \in [Nodes -> Nat]
  BY DEF Inv, TypeOK
<1> HIDE DEF x
<1>3. \A y \in Nodes : refcount[y] = Cardinality(Users(node, y))
  BY DEF Inv, RefcountIsUsers, Users
<1>4. /\ Cardinality(Users(node', x)) = Cardinality(Users(node, x)) - 1
      /\ Cardinality(Users(node, x)) \in Nat \ {0}
      /\ \A y \in Nodes \ {x} : Users(node', y) = Users(node, y)
  <2>1. node[t] = x
    BY DEF x
  <2>2. node' = [node EXCEPT ![t] = None]
    BY <1>0
  <2>3. node \in [Threads -> Nodes \cup {None}]
    BY <1>2
  <2>4. LET g == [node EXCEPT ![t] = None] IN
        /\ Cardinality(Users(g, x)) = Cardinality(Users(node, x)) - 1
        /\ Cardinality(Users(node, x)) \in Nat \ {0}
        /\ \A y \in Nodes \ {x} : Users(g, y) = Users(node, y)
    BY <1>1, <2>1, <2>3, OneUserLess, Zenon
  <2>. QED  BY <2>2, <2>4, Zenon
<1>5. refcount' \in [Nodes -> Nat]
  <2>1. refcount[x] - 1 \in Nat
    BY <1>1, <1>3, <1>4
  <2>. QED  BY <1>0, <1>2, <2>1
<1>6. RefcountIsUsers'
  <2> SUFFICES ASSUME NEW y \in Nodes
               PROVE  refcount'[y] = Cardinality(Users(node', y))
    BY DEF RefcountIsUsers, Users
  <2>1. CASE y = x
    BY <2>1, <1>0, <1>1, <1>2, <1>3, <1>4
  <2>2. CASE y # x
    BY <2>2, <1>0, <1>1, <1>2, <1>3, <1>4
  <2>. QED  BY <2>1, <2>2
<1>7. /\ pc' \in [Threads -> Purposes \cup {"idle", "unlink"}]
      /\ node' \in [Threads -> Nodes \cup {None}]
      /\ name' \in [Threads -> Names \cup {None}]
  BY <1>0, <1>2 DEF Inv, TypeOK
<1>8. /\ \A s \in Threads : node'[s] # None <=> pc'[s] \in Purposes
      /\ \A s \in Threads : name'[s] # None <=> pc'[s] # "idle"
  BY <1>0 DEF Inv, TypeOK, Purposes
<1>9. UsersHaveTheirNode'
  BY <1>0, <1>2, <1>7 DEF Inv, TypeOK, UsersHaveTheirNode
<1>10. OneConnection' /\ TransactionsAreMarked'
  BY <1>0 DEF Inv, OneConnection, TransactionsAreMarked, Live, InPool
<1>. QED  BY <1>0, <1>5, <1>6, <1>7, <1>8, <1>9, <1>10 DEF Inv, TypeOK, Core

(* Work on a node, by a thread that has its mutex.                         *)
LEMMA NodeStep ==
  ASSUME Inv, NEW t \in Threads,
         \/ OpenFails(t) \/ Query(t) \/ Close(t)
         \/ Restore(t) \/ FileIsMissing(t) \/ Remove(t)
  PROVE  Core'
<1>1. pc[t] \in Purposes /\ UNCHANGED <<tree, node, name>> /\ node[t] \in Nodes
  <2>1. pc[t] \in Purposes /\ UNCHANGED <<tree, node, name>>
    BY DEF OpenFails, Query, Close, Restore, FileIsMissing, Remove, Purposes
  <2>. QED  BY <2>1 DEF Inv, TypeOK
<1>2. /\ db \subseteq Nodes /\ transaction \subseteq Nodes
      /\ active \subseteq transaction \cap db
  BY DEF Inv, TypeOK, TransactionsAreMarked
<1>3. \E next \in {"leave", "leave and unlink"} :
         /\ LeavesAs(t, next)
         /\ db' \subseteq db \cup {node[t]}
         /\ transaction' \subseteq Nodes
         /\ active' \subseteq transaction' \cap db'
  <2>1. CASE OpenFails(t)
    BY <2>1, <1>2 DEF OpenFails, content
  <2>2. CASE FileIsMissing(t)
    BY <2>2, ClosedIsMarked DEF FileIsMissing
  <2>3. CASE Remove(t)
    BY <2>3, ClosedIsMarked DEF Remove
  <2>4. CASE Query(t)
    <3>1. CASE Begun(node[t])
      BY <2>4, <3>1, <1>1, <1>2 DEF Query, Begun
    <3>2. CASE Committed(node[t])
      BY <2>4, <3>2, CommittedIsMarked DEF Query
    <3>3. CASE UNCHANGED <<transaction, active>>
      BY <2>4, <3>3, <1>2 DEF Query
    <3>. QED  BY <2>4, <3>1, <3>2, <3>3 DEF Query
  <2>5. CASE Close(t)
    BY <2>5, ClosedIsMarked DEF Close
  <2>6. CASE Restore(t)
    BY <2>6, ClosedIsMarked DEF Restore
  <2>. QED  BY <2>1, <2>2, <2>3, <2>4, <2>5, <2>6
<1>. QED  BY <1>1, <1>3, WorkKeepsInv

(* Steps that touch neither the pool nor a thread's node.                  *)
LEMMA NothingMoves ==
  ASSUME Inv, UNCHANGED <<pool, refcount, db, transaction, active, pc, node, name>>
  PROVE  Core'
<1>1. Core
  BY Halves
<1>. QED
  BY <1>1 DEF Core, RefcountIsUsers, UsersHaveTheirNode, OneConnection,
              TransactionsAreMarked, Live, InPool

LEMMA UnlinkStep ==
  ASSUME Inv, NEW t \in Threads, Unlink(t)
  PROVE  Core'
<1>0. /\ pc[t] = "unlink"
      /\ pc' = [pc EXCEPT ![t] = "idle"]
      /\ name' = [name EXCEPT ![t] = None]
      /\ UNCHANGED <<pool, refcount, db, transaction, active, node>>
  BY DEF Unlink, LeavesAs, tree, content
<1>1. node[t] = None
  BY <1>0 DEF Inv, TypeOK, Purposes
<1>2. /\ pc' \in [Threads -> Purposes \cup {"idle", "unlink"}]
      /\ name' \in [Threads -> Names \cup {None}]
  BY <1>0 DEF Inv, TypeOK
<1>3. /\ \A s \in Threads : node'[s] # None <=> pc'[s] \in Purposes
      /\ \A s \in Threads : name'[s] # None <=> pc'[s] # "idle"
  BY <1>0 DEF Inv, TypeOK, Purposes
<1>4. RefcountIsUsers' /\ UsersHaveTheirNode'
  <2>1. RefcountIsUsers'
    BY <1>0 DEF Inv, RefcountIsUsers
  <2>2. name \in [Threads -> Names \cup {None}]
    BY DEF Inv, TypeOK
  <2>3. \A s \in Threads : node[s] # None => name'[s] = name[s]
    BY <1>0, <1>1, <2>2
  <2>. QED  BY <1>0, <2>1, <2>3 DEF Inv, UsersHaveTheirNode
<1>5. OneConnection' /\ TransactionsAreMarked'
  BY <1>0 DEF Inv, OneConnection, TransactionsAreMarked, Live, InPool
<1>. QED  BY <1>0, <1>2, <1>3, <1>4, <1>5 DEF Inv, TypeOK, Core

(* run_gc destroys nodes that nobody uses and that are closed.             *)
LEMMA CleanStep ==
  ASSUME Inv, wdb_pool_clean
  PROVE  Core'
<1>0. /\ pool' = [n \in Names |-> IF n \in Cleaned THEN None ELSE pool[n]]
      /\ UNCHANGED <<refcount, db, transaction, active, pc, node, name>>
  BY DEF wdb_pool_clean, content, thread
<1>1. pool \in [Names -> Nodes \cup {None}] /\ Cleaned \subseteq Names
  BY DEF Inv, TypeOK, Cleaned, InPool
<1>2. pool' \in [Names -> Nodes \cup {None}]
  BY <1>0, <1>1
<1>3. InPool' = InPool \ Cleaned /\ \A n \in InPool' : pool'[n] = pool[n]
  BY <1>0 DEF InPool
<1>4. UsersHaveTheirNode'
  <2> SUFFICES ASSUME NEW s \in Threads, node[s] # None
               PROVE  pool'[name[s]] = node[s]
    BY <1>0 DEF UsersHaveTheirNode
  <2>1. /\ pool[name[s]] = node[s]
        /\ name[s] \in Names
        /\ node[s] \in Nodes
    BY DEF Inv, TypeOK, UsersHaveTheirNode, Purposes
  <2>2. refcount[node[s]] # 0
    <3>1. s \in Users(node, node[s])
      BY DEF Users
    <3>2. IsFiniteSet(Threads)
      BY ThreadsAssumption, FS_AddElement DEF Threads
    <3>3. IsFiniteSet(Users(node, node[s]))
      BY <3>2, FS_Subset DEF Users
    <3>4. Cardinality(Users(node, node[s])) # 0
      BY <3>1, <3>3, FS_EmptySet
    <3>. QED  BY <2>1, <3>4 DEF Inv, RefcountIsUsers, Users
  <2>3. name[s] \notin Cleaned
    BY <2>1, <2>2 DEF Cleaned
  <2>. QED  BY <1>0, <2>1, <2>3
<1>5. OneConnection'
  <2>1. db' \subseteq Live'
    <3> SUFFICES ASSUME NEW x \in db PROVE x \in Live'
      BY <1>0
    <3>1. PICK n \in InPool : x = pool[n]
      BY DEF Inv, OneConnection, Live
    <3>2. n \notin Cleaned
      BY <3>1 DEF Cleaned
    <3>. QED  BY <1>3, <3>1, <3>2 DEF Live
  <2>2. \A m, n \in InPool' : pool'[m] = pool'[n] => m = n
    BY <1>3 DEF Inv, OneConnection
  <2>. QED  BY <2>1, <2>2 DEF OneConnection
<1>6. RefcountIsUsers' /\ TransactionsAreMarked'
  BY <1>0 DEF Inv, RefcountIsUsers, TransactionsAreMarked
<1>. QED  BY <1>0, <1>2, <1>4, <1>5, <1>6 DEF Inv, TypeOK, Core

LEMMA CollectStep == Inv /\ Collect => Core'
<1> SUFFICES ASSUME Inv, Collect PROVE Core'
  OBVIOUS
<1>1. GC \in Threads
  BY DEF Threads
<1>2. CASE wdb_pool_keys \/ EndWalk \/ Join \/ LeaveLoop(GC)
  <2>1. UNCHANGED <<pool, refcount, db, transaction, active, pc, node, name>>
    BY <1>2, Zenon DEF wdb_pool_keys, EndWalk, Join, LeaveLoop, tree, content, thread
  <2>. QED  BY <2>1, NothingMoves
<1>3. CASE Visit
  <2>1. PICK n \in keys : wdb_pool_get(GC, n, pass)
    BY <1>3 DEF Visit
  <2>2. n \in Names /\ node[GC] = None
    BY <1>1, <1>3 DEF Visit, Inv, TypeOK, Purposes, Passes
  <2>3. pass \in Purposes
    BY <1>3 DEF Visit, Inv, TypeOK, Purposes, Passes
  <2>. QED  BY <1>1, <2>1, <2>2, <2>3, GetKeepsInv
<1>4. CASE CommitOld \/ CommitLater \/ Vacuum \/ CloseOld \/ CloseAll
  <2>1. /\ pc[GC] \in Purposes
        /\ UNCHANGED <<tree, node, name>>
        /\ LeavesAs(GC, "leave")
    BY <1>4 DEF CommitOld, CommitLater, Vacuum, CloseOld, CloseAll, Purposes, Passes
  <2>2. /\ db \subseteq Nodes /\ transaction \subseteq Nodes
        /\ active \subseteq transaction \cap db
    BY DEF Inv, TypeOK, TransactionsAreMarked
  <2>3. \/ Committed(node[GC]) /\ db' = db
        \/ Closed(node[GC], TRUE)
        \/ UNCHANGED <<db, transaction, active>>
    BY <1>4, Zenon DEF CommitOld, CommitLater, Vacuum, CloseOld, CloseAll, content
  <2>4. /\ db' \subseteq db \cup {node[GC]}
        /\ transaction' \subseteq Nodes
        /\ active' \subseteq transaction' \cap db'
    BY <2>2, <2>3, CommittedIsMarked, ClosedIsMarked
  <2>. QED  BY <1>1, <2>1, <2>4, WorkKeepsInv
<1>5. CASE wdb_pool_clean
  BY <1>5, CleanStep
<1>6. CASE Leave(GC)
  BY <1>1, <1>6, LeaveStep
<1>. QED  BY <1>2, <1>3, <1>4, <1>5, <1>6 DEF Collect

LEMMA InvStep == Inv /\ [Next]_vars => Inv'
<1> SUFFICES ASSUME Inv, [Next]_vars PROVE Inv'
  OBVIOUS
<1>1. Core'
  <2>1. ASSUME NEW t \in Workers, NEW n \in Names, Receive(t, n) \/ ReceiveRemove(t, n)
        PROVE  Core'
    BY <2>1, ReceiveStep
  <2>2. ASSUME NEW t \in Workers, Work(t)
        PROVE  Core'
    <3>1. t \in Threads
      BY DEF Threads
    <3>2. CASE LeaveLoop(t)
      BY <3>2, NothingMoves DEF LeaveLoop, tree, content, thread
    <3>. QED  BY <2>2, <3>1, <3>2, LeaveStep, NodeStep, UnlinkStep DEF Work
  <2>3. CASE UNCHANGED vars
    BY <2>3, NothingMoves DEF vars, tree, content, thread
  <2>4. CASE Stop
    BY <2>4, NothingMoves DEF Stop, tree, content, thread
  <2>. QED  BY <2>1, <2>2, <2>3, <2>4, CollectStep DEF Next
<1>2. Rest'
  BY RestStep
<1>3. Core' /\ Rest' => Inv'
  BY DEF Inv, TypeOK, Core, Rest
<1>. QED  BY <1>1, <1>2, <1>3

LEMMA InvAlways == Spec => []Inv
BY InvInit, InvStep, PTL DEF Spec

-----------------------------------------------------------------------------
(* The types hold, with a node exactly for the threads past the pool's     *)
(* mutex, for any number of workers, names and places for nodes.           *)
THEOREM TypeCorrect == Spec => []TypeOK
<1>1. Inv => TypeOK
  BY DEF Inv
<1>. QED  BY <1>1, InvAlways, PTL

(* The counter of a node is always the number of threads that refer to it. *)
THEOREM RefcountIsAlwaysUsers == Spec => []RefcountIsUsers
<1>1. Inv => RefcountIsUsers
  BY DEF Inv
<1>. QED  BY <1>1, InvAlways, PTL

(* wdb_pool_clean never destroys the node of a thread: what the thread has *)
(* is what the pool has under the name that it asked for.                  *)
THEOREM UsersAlwaysHaveTheirNode == Spec => []UsersHaveTheirNode
<1>1. Inv => UsersHaveTheirNode
  BY DEF Inv
<1>. QED  BY <1>1, InvAlways, PTL

(* No database is ever opened a second time, or destroyed open.            *)
THEOREM OneConnectionAlways == Spec => []OneConnection
<1>1. Inv => OneConnection
  BY DEF Inv
<1>. QED  BY <1>1, InvAlways, PTL

(* No transaction is ever in SQLite without the flag that run_gc reads.    *)
THEOREM TransactionsAreAlwaysMarked == Spec => []TransactionsAreMarked
<1>1. Inv => TransactionsAreMarked
  BY DEF Inv
<1>. QED  BY <1>1, InvAlways, PTL
=============================================================================
