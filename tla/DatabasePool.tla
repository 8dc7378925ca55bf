---------------------------- MODULE DatabasePool ----------------------------
(***************************************************************************)
(* The databases that bongosec-db keeps open, one per agent and the global *)
(* one: wdb_pool.c and what its threads do with them in wdb.c, wdb_global.c*)
(* and wdb_parser.c.  Workers serve queries (run_backup counts as one, for *)
(* the global database); one thread, run_gc, commits transactions, vacuums *)
(* and closes databases beyond open_db_limit; the main thread closes all   *)
(* when these have ended, and has GC's part then.                          *)
(*                                                                         *)
(* Every function of the pool holds the pool's mutex: one step.  What a    *)
(* thread does to a node from the moment that it has the node's mutex to   *)
(* wdb_pool_leave, that releases it, is one step as well.  The steps of    *)
(* wdb_pool_leave, the removal of files and the walks over the keys        *)
(* interleave.                                                             *)
(***************************************************************************)
EXTENDS Naturals, FiniteSets

CONSTANTS
    Names,           \* databases
    WDB_GLOB_NAME,   \* the global one of them
    Nodes,           \* where a node may be allocated
    Workers,
    GC,              \* the thread of run_gc
    None,
    open_db_limit,
    MaxQueries       \* bound on the commands that workers receive

ASSUME ThreadsAssumption == GC \notin Workers /\ IsFiniteSet(Workers)
ASSUME NoneAssumption    == None \notin Names \cup Nodes
ASSUME LimitAssumption   == open_db_limit \in Nat /\ MaxQueries \in Nat

Threads == Workers \cup {GC}

VARIABLES
    pool,            \* wdb_pool.nodes: the node of a name, or None
    refcount,
    db,              \* the nodes whose database is open
    transaction,     \* the nodes whose flag is set
    active,          \* the nodes with a transaction in SQLite
    file,            \* the names whose file exists
    pc, node, name,  \* per thread: where it is, its node and its name
    pass,            \* the function that run_gc, or main at the end, is in
    walking,         \* whether it has the keys of the pool
    keys,            \* the ones it has left to visit
    closed,          \* how many databases wdb_close_old has closed
    running,
    looping,         \* the threads that have not left their loop
    queries

tree    == <<pool, refcount>>
content == <<db, transaction, active>>
thread  == <<pc, node, name>>
gc      == <<pass, walking, keys, closed>>
process == <<running, looping>>
vars    == <<tree, content, file, thread, gc, process, queries>>

InPool == {n \in Names : pool[n] # None}
Live   == {pool[n] : n \in InPool}

Init ==
    /\ pool = [n \in Names |-> None]
    /\ refcount = [x \in Nodes |-> 0]
    /\ db = {}
    /\ transaction = {}
    /\ active = {}
    /\ file \in SUBSET Names
    /\ pc = [t \in Threads |-> "idle"]
    /\ node = [t \in Threads |-> None]
    /\ name = [t \in Threads |-> None]
    /\ pass = "commit"
    /\ walking = FALSE
    /\ keys = {}
    /\ closed = 0
    /\ running = TRUE
    /\ looping = Threads
    /\ queries = 0

-----------------------------------------------------------------------------
(* wdb_pool.c                                                              *)

(* The thread counts itself in, and waits for the mutex of the node.       *)
Refer(t, n, x, purpose) ==
    /\ refcount' = [refcount EXCEPT ![x] = @ + 1]
    /\ node' = [node EXCEPT ![t] = x]
    /\ name' = [name EXCEPT ![t] = n]
    /\ pc' = [pc EXCEPT ![t] = purpose]

wdb_pool_get(t, n, purpose) ==
    /\ pool[n] # None
    /\ Refer(t, n, pool[n], purpose)
    /\ UNCHANGED <<pool, content>>

(* A new node is zeroed memory.                                            *)
wdb_init(x) ==
    /\ db' = db \ {x}
    /\ transaction' = transaction \ {x}
    /\ active' = active \ {x}

wdb_pool_get_or_create(t, n) ==
    \/ wdb_pool_get(t, n, "query")
    \/ /\ pool[n] = None
       /\ \E x \in Nodes \ Live :
             /\ pool' = [pool EXCEPT ![n] = x]
             /\ wdb_init(x)
             /\ refcount' = [refcount EXCEPT ![x] = 1]
             /\ node' = [node EXCEPT ![t] = x]
             /\ name' = [name EXCEPT ![t] = n]
             /\ pc' = [pc EXCEPT ![t] = "query"]

Returns(t) ==
    IF pc[t] = "leave"
    THEN /\ pc' = [pc EXCEPT ![t] = "idle"]
         /\ name' = [name EXCEPT ![t] = None]
    ELSE /\ pc' = [pc EXCEPT ![t] = "unlink"]
         /\ UNCHANGED name

LeaveUncounted(t) ==
    /\ pc[t] \in {"leave", "leave and unlink"}
    /\ node' = [node EXCEPT ![t] = None]
    /\ Returns(t)
    /\ UNCHANGED <<tree, content, file, gc, process, queries>>

(* The second half of wdb_pool_leave: the thread counts itself out.        *)
(* (It still writes node->last; see the README.)                           *)
Leave(t) ==
    /\ pc[t] \in {"leave", "leave and unlink"}
    /\ refcount' = [refcount EXCEPT ![node[t]] = @ - 1]
    /\ node' = [node EXCEPT ![t] = None]
    /\ Returns(t)
    /\ UNCHANGED <<pool, content, file, gc, process, queries>>

CleanedWhenClosed == {n \in InPool : pool[n] \notin db}

CleanedWhenUnused == {n \in InPool : refcount[pool[n]] = 0}

(* The nodes that wdb_pool_clean destroys.                                 *)
Cleaned == {n \in InPool : refcount[pool[n]] = 0 /\ pool[n] \notin db}

-----------------------------------------------------------------------------
(* Transactions and connections, with the mutex of the node x held.        *)

(* wdb_begin2, as every query that writes calls it: a flag that is set     *)
(* already is believed.                                                    *)
Begun(x) ==
    /\ transaction' = transaction \cup {x}
    /\ active' = IF x \in transaction THEN active ELSE active \cup {x}

CommitUnmarked(x) ==
    /\ transaction' = transaction \ {x}
    /\ UNCHANGED active

(* wdb_commit2: without a transaction in SQLite the commit fails and the   *)
(* flag stays.                                                             *)
Committed(x) ==
    /\ transaction' = IF x \in active THEN transaction \ {x} ELSE transaction
    /\ active' = active \ {x}

(* wdb_close: without commit the transaction is rolled back and its flag   *)
(* stays.                                                                  *)
Closed(x, commit) ==
    /\ IF commit THEN Committed(x)
       ELSE UNCHANGED transaction /\ active' = active \ {x}
    /\ db' = db \ {x}

-----------------------------------------------------------------------------
(* Workers: wdb_parse.                                                     *)

(* A command for a database.  The look-up of an agent in the global one,   *)
(* that wdb_parse does and leaves before, is a command of its own here.    *)
Receive(t, n) ==
    /\ t \in looping
    /\ pc[t] = "idle"
    /\ queries < MaxQueries
    /\ queries' = queries + 1
    /\ wdb_pool_get_or_create(t, n)
    /\ UNCHANGED <<file, gc, process>>

(* "bongosecdb remove": the database of an agent, open or not.             *)
ReceiveRemove(t, n) ==
    /\ t \in looping
    /\ pc[t] = "idle"
    /\ n # WDB_GLOB_NAME
    /\ queries < MaxQueries
    /\ queries' = queries + 1
    /\ \/ wdb_pool_get(t, n, "remove")
       \/ /\ pool[n] = None
          /\ pc' = [pc EXCEPT ![t] = "unlink"]
          /\ name' = [name EXCEPT ![t] = n]
          /\ UNCHANGED <<tree, content, node>>
    /\ UNCHANGED <<file, gc, process>>

LeavesAs(t, next) == pc' = [pc EXCEPT ![t] = next]

(* wdb_open_agent2 or wdb_open_global fails: the node stays, closed.       *)
OpenFails(t) ==
    /\ pc[t] = "query"
    /\ node[t] \notin db
    /\ LeavesAs(t, "leave")
    /\ UNCHANGED <<tree, content, file, node, name, gc, process, queries>>

(* wdb_open_agent2 creates a file that is not there.                       *)
Opened(t) ==
    IF node[t] \in db THEN UNCHANGED file ELSE file' = file \cup {name[t]}

(* The commands that end with the database open: writing, begin, commit and*)
(* others.                                                                 *)
Query(t) ==
    LET x == node[t] IN
    /\ pc[t] = "query"
    /\ Opened(t)
    /\ db' = db \cup {x}
    /\ Begun(x) \/ Committed(x) \/ UNCHANGED <<transaction, active>>
    /\ LeavesAs(t, "leave")
    /\ UNCHANGED <<tree, node, name, gc, process, queries>>

(* close and remove of an agent's database.                                *)
Close(t) ==
    /\ pc[t] = "query"
    /\ name[t] # WDB_GLOB_NAME
    /\ Opened(t)
    /\ \/ Closed(node[t], TRUE) /\ LeavesAs(t, "leave")
       \/ Closed(node[t], FALSE) /\ LeavesAs(t, "leave and unlink")
    /\ UNCHANGED <<tree, node, name, gc, process, queries>>

(* wdb_global_restore_backup: the file is replaced, or gone if the backup  *)
(* cannot be renamed.                                                      *)
Restore(t) ==
    /\ pc[t] = "query"
    /\ name[t] = WDB_GLOB_NAME
    /\ Closed(node[t], TRUE)
    /\ file' \in {file \cup {name[t]}, file \ {name[t]}}
    /\ LeavesAs(t, "leave")
    /\ UNCHANGED <<tree, node, name, gc, process, queries>>

(* A command fails, and the file is not there: the database is closed.     *)
FileIsMissing(t) ==
    /\ pc[t] = "query"
    /\ node[t] \in db
    /\ name[t] \notin file
    /\ Closed(node[t], FALSE)
    /\ LeavesAs(t, "leave")
    /\ UNCHANGED <<tree, file, node, name, gc, process, queries>>

(* wdb_remove_multiple_agents.                                             *)
Remove(t) ==
    /\ pc[t] = "remove"
    /\ Closed(node[t], FALSE)
    /\ LeavesAs(t, "leave and unlink")
    /\ UNCHANGED <<tree, file, node, name, gc, process, queries>>

(* wdb_remove_database, after the node was left.                           *)
Unlink(t) ==
    /\ pc[t] = "unlink"
    /\ file' = file \ {name[t]}
    /\ LeavesAs(t, "idle")
    /\ name' = [name EXCEPT ![t] = None]
    /\ UNCHANGED <<tree, content, node, gc, process, queries>>

(* The loop of a thread ends; that of run_gc does between two rounds.      *)
LeaveLoop(t) ==
    /\ t \in looping
    /\ ~running
    /\ pc[t] = "idle"
    /\ t = GC => pass = "commit" /\ ~walking
    /\ looping' = looping \ {t}
    /\ UNCHANGED <<tree, content, file, thread, gc, running, queries>>

Work(t) ==
    \/ Leave(t) \/ OpenFails(t) \/ Query(t) \/ Close(t) \/ Restore(t)
    \/ FileIsMissing(t) \/ Remove(t) \/ Unlink(t) \/ LeaveLoop(t)

-----------------------------------------------------------------------------
(* run_gc: wdb_commit_old, wdb_check_fragmentation and wdb_close_old, each *)
(* with the keys that the pool has when it starts, and wdb_pool_clean; then*)
(* wdb_close_all.                                                          *)

wdb_pool_keys ==
    /\ pc[GC] = "idle"
    /\ ~walking
    /\ pass = "commit" => GC \in looping
    /\ walking' = TRUE
    /\ keys' = InPool
    /\ UNCHANGED <<tree, content, file, thread, pass, closed, process, queries>>

(* wdb_pool_size counts the nodes whose database is closed as well.        *)
Excess == Cardinality(InPool) > open_db_limit + closed

(* Only GC takes names out of the pool: a key is still there when its turn *)
(* comes.                                                                  *)
Visit ==
    /\ pc[GC] = "idle"
    /\ walking
    /\ pass = "close" => Excess
    /\ \E n \in keys :
          /\ keys' = keys \ {n}
          /\ wdb_pool_get(GC, n, pass)
    /\ UNCHANGED <<file, pass, walking, closed, process, queries>>

(* The transaction is old enough, or not yet.                              *)
CommitOld ==
    /\ pc[GC] = "commit"
    /\ Committed(node[GC])
    /\ LeavesAs(GC, "leave")
    /\ UNCHANGED <<tree, db, file, node, name, gc, process, queries>>

CommitLater ==
    /\ pc[GC] = "commit"
    /\ LeavesAs(GC, "leave")
    /\ UNCHANGED <<tree, content, file, node, name, gc, process, queries>>

(* wdb_check_fragmentation: a fragmented database is committed, then       *)
(* vacuumed.                                                               *)
Vacuum ==
    /\ pc[GC] = "check"
    /\ \/ node[GC] \in db /\ Committed(node[GC])
       \/ UNCHANGED <<transaction, active>>
    /\ LeavesAs(GC, "leave")
    /\ UNCHANGED <<tree, db, file, node, name, gc, process, queries>>

CloseOldUnreferred ==
    /\ pc[GC] = "close"
    /\ IF node[GC] \in db /\ refcount[node[GC]] = 0 /\ name[GC] # WDB_GLOB_NAME
       THEN Closed(node[GC], TRUE) /\ closed' = closed + 1
       ELSE UNCHANGED <<content, closed>>
    /\ LeavesAs(GC, "leave")
    /\ UNCHANGED <<tree, file, node, name, pass, walking, keys, process, queries>>

(* A database that no other thread refers to at this moment, but never the *)
(* global one.                                                             *)
CloseOld ==
    /\ pc[GC] = "close"
    /\ IF node[GC] \in db /\ refcount[node[GC]] = 1 /\ name[GC] # WDB_GLOB_NAME
       THEN Closed(node[GC], TRUE) /\ closed' = closed + 1
       ELSE UNCHANGED <<content, closed>>
    /\ LeavesAs(GC, "leave")
    /\ UNCHANGED <<tree, file, node, name, pass, walking, keys, process, queries>>

CloseAll ==
    /\ pc[GC] = "close all"
    /\ IF node[GC] \in db THEN Closed(node[GC], TRUE) ELSE UNCHANGED content
    /\ LeavesAs(GC, "leave")
    /\ UNCHANGED <<tree, file, node, name, gc, process, queries>>

NextPassesCommitOnce(p) ==
    CASE p = "commit"    -> {"check", "close"}
      [] p = "check"     -> {"close"}
      [] p = "close"     -> {"check"}

(* What comes after a walk: run_gc checks the fragmentation from time to   *)
(* time.  (After wdb_close_all the process ends.)                          *)
NextPasses(p) ==
    CASE p = "commit"    -> {"check", "close"}
      [] p = "check"     -> {"close"}
      [] p = "close"     -> {"commit"}

EndWalk ==
    /\ pc[GC] = "idle"
    /\ walking
    /\ keys = {}
    /\ pass \in {"commit", "check"}
    /\ walking' = FALSE
    /\ pass' \in NextPasses(pass)
    /\ UNCHANGED <<tree, content, file, thread, keys, closed, process, queries>>

wdb_pool_clean ==
    /\ pc[GC] = "idle"
    /\ walking
    /\ pass = "close"
    /\ keys = {} \/ ~Excess
    /\ pool' = [n \in Names |-> IF n \in Cleaned THEN None ELSE pool[n]]
    /\ keys' = {}
    /\ closed' = 0
    /\ pass' \in NextPasses(pass)
    /\ walking' = FALSE
    /\ UNCHANGED <<refcount, content, file, thread, process, queries>>

(* main has joined all threads.                                            *)
Join ==
    /\ looping = {}
    /\ pass = "commit"
    /\ pass' = "close all"
    /\ UNCHANGED <<tree, content, file, thread, walking, keys, closed, process, queries>>

Collect ==
    \/ wdb_pool_keys \/ Visit \/ EndWalk \/ wdb_pool_clean \/ Leave(GC)
    \/ CommitOld \/ CommitLater \/ Vacuum \/ CloseOld \/ CloseAll
    \/ LeaveLoop(GC) \/ Join

-----------------------------------------------------------------------------
(* A signal ends the process.                                              *)
Stop ==
    /\ running
    /\ running' = FALSE
    /\ UNCHANGED <<tree, content, file, thread, gc, looping, queries>>

Next ==
    \/ Stop
    \/ \E t \in Workers :
          \/ \E n \in Names : Receive(t, n) \/ ReceiveRemove(t, n)
          \/ Work(t)
    \/ Collect

Spec == Init /\ [][Next]_vars

(* Threads are scheduled; the time that a transaction may last goes by:    *)
(* run_gc cannot find it too young for ever.                               *)
FairSpec ==
    /\ Spec
    /\ \A t \in Workers : WF_vars(Work(t))
    /\ WF_vars(Collect)
    /\ \A x \in Nodes : SF_vars(CommitOld /\ node[GC] = x)

-----------------------------------------------------------------------------
Passes   == {"commit", "check", "close", "close all"}
Purposes == {"query", "remove", "leave", "leave and unlink", "commit", "check", "close", "close all"}

(* Types: a thread has a node exactly while it is past the pool's mutex.   *)
TypeOK ==
    /\ pool \in [Names -> Nodes \cup {None}]
    /\ refcount \in [Nodes -> Nat]
    /\ db \subseteq Nodes
    /\ transaction \subseteq Nodes
    /\ active \subseteq Nodes
    /\ file \subseteq Names
    /\ pc \in [Threads -> Purposes \cup {"idle", "unlink"}]
    /\ node \in [Threads -> Nodes \cup {None}]
    /\ name \in [Threads -> Names \cup {None}]
    /\ \A t \in Threads : node[t] # None <=> pc[t] \in Purposes
    /\ \A t \in Threads : name[t] # None <=> pc[t] # "idle"
    /\ pass \in Passes
    /\ walking \in BOOLEAN
    /\ keys \subseteq Names
    /\ closed \in Nat
    /\ running \in BOOLEAN
    /\ looping \subseteq Threads
    /\ queries \in 0..MaxQueries

(* The counter of a node is the number of threads that refer to it, whether*)
(* they hold its mutex, wait for it or have released it.                   *)
RefcountIsUsers ==
    \A x \in Nodes : refcount[x] = Cardinality({t \in Threads : node[t] = x})

(* A node is not destroyed while a thread waits for it or works on it, and *)
(* it is the node that the pool has for the name the thread asked for.     *)
UsersHaveTheirNode ==
    \A t \in Threads : node[t] # None => pool[name[t]] = node[t]

(* An open database is in the pool, under one name: no second connection is*)
(* opened beside it, and none is lost open.                                *)
OneConnection ==
    /\ db \subseteq Live
    /\ \A m, n \in InPool : pool[m] = pool[n] => m = n

(* SQLite's transaction never outlives the flag that says that there is    *)
(* something to commit, nor its connection: what run_gc commits before it  *)
(* closes a database is all there is.                                      *)
TransactionsAreMarked == active \subseteq transaction \cap db

(* A transaction ends, without a command that ends it, also if the process *)
(* is told to stop.                                                        *)
TransactionsEnd == \A x \in Nodes : x \in active ~> x \notin active

(* When commands stop coming, no more databases stay open than the limit   *)
(* says, the global one included, and the closed ones leave the pool.      *)
PoolShrinks == <>[](~running \/ Cardinality(InPool) <= open_db_limit)
=============================================================================
