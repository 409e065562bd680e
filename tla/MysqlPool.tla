----------------------------- MODULE MysqlPool -----------------------------
(***************************************************************************)
(* Database_Component/MysqlPool.h: a pool of database connections; a       *)
(* connection goes back to it when the last shared_ptr goes, and one that  *)
(* the server has closed is reconnected when it is handed out.             *)
(*                                                                         *)
(* A member of Clients is one getConnection and the end of the shared_ptr  *)
(* it returned; clients call once initialize has succeeded, as the test    *)
(* does.  getConnection talks to the server with mtx_ held, so mtx_ is a   *)
(* variable; a critical section that calls nothing is one action.  The     *)
(* connector library and the server are external.                          *)
(***************************************************************************)
EXTENDS Integers, Sequences, FiniteSets, CondVar

CONSTANTS Clients,
          poolSize,          \* the argument of initialize
          ConnectMayFail,    \* whether connect, or setSchema, may fail in initialize
          ReconnectMayFail,  \* whether reconnect may fail in getConnection
          MaxConnections     \* bound: initialize is not retried beyond it

Nobody == "nobody"

ASSUME MysqlPoolAssumption ==
    /\ IsFiniteSet(Clients) /\ Nobody \notin Clients
    /\ poolSize \in Nat /\ MaxConnections \in Nat
    /\ ConnectMayFail \in BOOLEAN /\ ReconnectMayFail \in BOOLEAN

VARIABLES initialized_,
          pool_,    \* the connections in the pool, in order
          opened,   \* how many were opened: connections are numbered
          leaked,   \* those whose setSchema threw: nothing points at them
          closed,   \* those the server has closed
          mtx_,     \* the client that holds the mutex, or Nobody
          pc,       \* where each client is
          conn      \* of each client: the connection it holds, or Nothing

vars == <<initialized_, pool_, opened, leaked, closed, mtx_, pc, conn>>

Nothing == 0

(* asleep: blocked in cv_.  awake: left cv_.  checking: holds mtx_ and a   *)
(* connection.  using: has it.  unwinding: getConnection throws, the       *)
(* deleter of sp runs.  thrown: it has thrown.                             *)
Points == {"idle", "asleep", "awake", "checking", "using", "unwinding",
           "thrown", "done"}

Init == /\ initialized_ = FALSE
        /\ pool_ = <<>>
        /\ opened = 0
        /\ leaked = {}
        /\ closed = {}
        /\ mtx_ = Nobody
        /\ pc = [c \in Clients |-> "idle"]
        /\ conn = [c \in Clients |-> Nothing]
-----------------------------------------------------------------------------
(* initialize opens one connection after the other and leaves those it has *)
(* pushed in the pool when it throws: because the next one cannot be       *)
(* opened, or because it was and its setSchema throws.  Only rawConn       *)
(* pointed at that one; it stays open.                                     *)
initialize ==
    /\ ~initialized_
    /\ opened + poolSize <= MaxConnections
    /\ \E n \in 0 .. poolSize :
          /\ n < poolSize => ConnectMayFail
          /\ pool_' = pool_ \o [i \in 1 .. n |-> opened + i]
          /\ initialized_' = (n = poolSize)
          /\ \/ opened' = opened + n /\ UNCHANGED leaked
             \/ /\ n < poolSize
                /\ opened' = opened + n + 1
                /\ leaked' = leaked \cup {opened'}
    /\ UNCHANGED <<closed, mtx_, pc, conn>>

(* getConnection, up to the wait or to the first use of the connection. *)
getConnection(c) ==
    /\ pc[c] \in {"idle", "awake"}
    /\ initialized_ /\ mtx_ = Nobody
    /\ \/ /\ pool_ # <<>>
          /\ conn' = [conn EXCEPT ![c] = Head(pool_)]
          /\ pool_' = Tail(pool_)
          /\ pc' = Move(pc, c, "checking")
          /\ mtx_' = c
       \/ /\ pool_ = <<>>
          /\ pc' = Move(pc, c, "asleep")
          /\ UNCHANGED <<conn, pool_, mtx_>>
    /\ UNCHANGED <<initialized_, opened, leaked, closed>>

(* isClosed, and reconnect when it says so: the connection is returned.    *)
HandOut(c) == /\ pc[c] = "checking"
              /\ closed' = closed \ {conn[c]}
              /\ mtx_' = Nobody
              /\ pc' = Move(pc, c, "using")
              /\ UNCHANGED <<initialized_, pool_, opened, leaked, conn>>

(* reconnect throws, or the setSchema after it does: the locals are        *)
(* destroyed, sp before lock.                                              *)
ReconnectFails(c) == /\ pc[c] = "checking"
                     /\ ReconnectMayFail /\ conn[c] \in closed
                     /\ closed' \in {closed, closed \ {conn[c]}}
                     /\ pc' = Move(pc, c, "unwinding")
                     /\ UNCHANGED <<initialized_, pool_, opened, leaked, mtx_, conn>>

(* Seeded fault: the deleter does not notify. *)
DeleterSilent(c) ==
    /\ pc[c] \in {"using", "unwinding"}
    /\ mtx_ = Nobody
    /\ pool_' = Append(pool_, conn[c])
    /\ conn' = [conn EXCEPT ![c] = Nothing]
    /\ pc' = Move(pc, c, IF pc[c] = "using" THEN "done" ELSE "thrown")
    /\ UNCHANGED <<initialized_, opened, leaked, closed, mtx_>>

(* Seeded fault: a connection the server has closed is dropped. *)
DeleterDropsClosed(c) ==
    /\ pc[c] \in {"using", "unwinding"}
    /\ mtx_ = Nobody
    /\ pool_' = IF conn[c] \in closed THEN pool_ ELSE Append(pool_, conn[c])
    /\ conn' = [conn EXCEPT ![c] = Nothing]
    /\ pc' \in NotifyOne(Move(pc, c, IF pc[c] = "using" THEN "done" ELSE "thrown"),
                         "asleep", "awake")
    /\ UNCHANGED <<initialized_, opened, leaked, closed, mtx_>>

(* The deleter takes mtx_, also when getConnection that runs it holds it.  *)
Deleter(c) ==
    /\ pc[c] \in {"using", "unwinding"}
    /\ mtx_ = Nobody
    /\ pool_' = Append(pool_, conn[c])
    /\ conn' = [conn EXCEPT ![c] = Nothing]
    /\ pc' \in NotifyOne(Move(pc, c, IF pc[c] = "using" THEN "done" ELSE "thrown"),
                         "asleep", "awake")
    /\ UNCHANGED <<initialized_, opened, leaked, closed, mtx_>>

(* External: the server closes a connection, in the pool or in use. *)
ServerCloses(k) == /\ k \in 1 .. opened
                   /\ closed' = closed \cup {k}
                   /\ UNCHANGED <<initialized_, pool_, opened, leaked, mtx_, pc, conn>>

SpuriousWakeup(c) == /\ pc[c] = "asleep"
                     /\ pc' = Move(pc, c, "awake")
                     /\ UNCHANGED <<initialized_, pool_, opened, leaked, closed, mtx_, conn>>

Client(c) == getConnection(c) \/ HandOut(c) \/ ReconnectFails(c) \/ Deleter(c)

Next == \/ initialize
        \/ \E c \in Clients : Client(c) \/ SpuriousWakeup(c)
        \/ \E k \in 1 .. MaxConnections : ServerCloses(k)

Spec == Init /\ [][Next]_vars

(* A client that can go on does: it gets mtx_ when it is free, the server  *)
(* answers, and it lets go of its connection.                              *)
Fairness == \A c \in Clients : WF_vars(pc[c] # "idle" /\ Client(c))

FairSpec == Spec /\ Fairness
-----------------------------------------------------------------------------
TypeOK == /\ initialized_ \in BOOLEAN
          /\ opened \in 0 .. MaxConnections
          /\ pool_ \in Seq(1 .. opened)
          /\ leaked \subseteq 1 .. opened /\ closed \subseteq 1 .. opened
          /\ mtx_ \in Clients \cup {Nobody}
          /\ pc \in [Clients -> Points]
          /\ conn \in [Clients -> 0 .. opened]
          /\ \A c \in Clients :
                /\ conn[c] # Nothing <=> pc[c] \in {"checking", "using", "unwinding"}
                /\ mtx_ = c <=> pc[c] \in {"checking", "unwinding"}

(* No connection is given to two clients, and the only ones that are in    *)
(* nobody's hands are those whose setSchema threw in initialize: whatever  *)
(* the server closes and whichever attempt opened it, any other one is in  *)
(* the pool or with a client.                                              *)
EveryConnectionInOnePlace ==
    /\ TypeOK
    /\ \A k \in 1 .. opened :
          Cardinality({ i \in DOMAIN pool_ : pool_[i] = k })
              + Cardinality({ c \in Clients : conn[c] = k }) = IF k \in leaked THEN 0 ELSE 1

(* No lost wake-up: while a client sleeps, every connection in the pool    *)
(* has a client on its way out of cv_.                                     *)
NoStrandedConnection ==
    At(pc, "asleep") # {} => Cardinality(At(pc, "awake")) >= Len(pool_)

(* While every reconnect succeeds, every client that waits gets a          *)
(* connection and gives it back.                                           *)
EveryClientServed ==
    [](At(pc, "unwinding") = {}) => \A c \in Clients : pc[c] = "asleep" ~> pc[c] = "done"

(* Line 71: the deleter puts the connection back into the pool by itself,  *)
(* also when it runs because the reconnect of lines 79-85 has failed.      *)
FailedReconnectReturnsConnection ==
    \A c \in Clients : pc[c] = "unwinding" ~> pc[c] = "thrown"
=============================================================================
