---------------------------- MODULE Connections ----------------------------
(* The WebSocket endpoints (app/websockets/): the sockets that follow a     *)
(* server, the background task that follows its log, the limit on sockets   *)
(* (app/core/concurrency.py) and the pooled database connection a socket    *)
(* keeps for its whole life (app/core/database.py).                         *)
(*                                                                          *)
(* ConnectionManager asks minecraft_server_manager.get_server for the       *)
(* process to follow.  MinecraftServerManager has no such method: the       *)
(* AttributeError is caught and logged wherever it is met, so a log task    *)
(* ends as soon as it runs and no status, log line or command is ever sent. *)
EXTENDS Naturals, FiniteSets

CONSTANTS
    Sockets,   \* client connections
    Servers,   \* the servers they follow
    None,      \* no server, no task
    Limit,     \* MAX_CONCURRENT_WEBSOCKETS
    PoolSize   \* DB_POOL_SIZE + DB_MAX_OVERFLOW

ASSUME ConnectionsAssumption ==
    /\ IsFiniteSet(Sockets)
    /\ {Limit, PoolSize} \subseteq Nat \ {0}
    /\ None \notin Servers \cup {"waiting", "ended"}

VARIABLES
    pc,        \* socket -> how far its handler is
    target,    \* socket -> the server of its URL
    active,    \* server -> active_connections[server], {} when there is no key
    logTask,   \* server -> server_log_tasks[server]
    inUse,     \* the semaphore's _in_use
    pool,      \* the sockets whose session holds a pooled connection
    monitor    \* whether _status_monitor_task runs

vars == <<pc, target, active, logTask, inUse, pool, monitor>>

(* "noticed" is a socket of /notifications, which no server's set contains. *)
Stages == {"idle", "known", "accepting", "open", "closing", "noticed"}

(* The sockets that have a slot of the semaphore.                           *)
Holding == {s \in Sockets : pc[s] \in {"accepting", "open", "closing"}}

(* Types and ranges of the state.                                           *)
TypeOK ==
    /\ pc \in [Sockets -> Stages]
    /\ target \in [Sockets -> Servers \cup {None}]
    /\ active \in [Servers -> SUBSET Sockets]
    /\ logTask \in [Servers -> {None, "waiting", "ended"}]
    /\ inUse \in 0 .. Limit
    /\ pool \in SUBSET Sockets
    /\ monitor \in BOOLEAN

Init ==
    /\ pc = [s \in Sockets |-> "idle"]
    /\ target = [s \in Sockets |-> None]
    /\ active = [v \in Servers |-> {}]
    /\ logTask = [v \in Servers |-> None]
    /\ inUse = 0
    /\ pool = {}
    /\ monitor = FALSE

(* The token is valid: the query checks a connection out, which is kept     *)
(* until the handler returns.  With the pool empty the query fails after    *)
(* its timeout and the socket is closed; the event loop is blocked until    *)
(* then (HealthChecks, Blocks).                                             *)
Authenticate(s, v) ==
    /\ pc[s] = "idle"
    /\ Cardinality(pool) < PoolSize
    /\ pool' = pool \cup {s}
    /\ pc' = [pc EXCEPT ![s] = "known"]
    /\ target' = [target EXCEPT ![s] = v]
    /\ UNCHANGED <<active, logTask, inUse, monitor>>

(* get_db closes the session when the handler has returned.                 *)
Returned(s) ==
    /\ pc' = [pc EXCEPT ![s] = "idle"]
    /\ target' = [target EXCEPT ![s] = None]
    /\ pool' = pool \ {s}

(* The server does not exist, or the limit is reached.                      *)
Refuse(s) ==
    /\ pc[s] = "known"
    /\ Returned(s)
    /\ UNCHANGED <<active, logTask, inUse, monitor>>

(* connect: below the limit the semaphore is taken without waiting; accept  *)
(* then suspends.                                                           *)
Acquire(s) ==
    /\ pc[s] = "known"
    /\ inUse < Limit
    /\ inUse' = inUse + 1
    /\ pc' = [pc EXCEPT ![s] = "accepting"]
    /\ UNCHANGED <<target, active, logTask, pool, monitor>>

(* accept fails: the slot is given back and the handler raises.             *)
AcceptFails(s) ==
    /\ pc[s] = "accepting"
    /\ inUse' = inUse - 1
    /\ Returned(s)
    /\ UNCHANGED <<active, logTask, monitor>>

(* accept succeeds: the socket joins the set of its server, and the first   *)
(* one starts the log task.                                                 *)
Accepted(s) ==
    LET v == target[s] IN
    /\ pc[s] = "accepting"
    /\ pc' = [pc EXCEPT ![s] = "open"]
    /\ active' = [active EXCEPT ![v] = @ \cup {s}]
    /\ logTask' = [logTask EXCEPT ![v] = IF @ = None THEN "waiting" ELSE @]
    /\ UNCHANGED <<target, inUse, pool, monitor>>

(* The log task gets the event loop: it fails to find the server's process  *)
(* and ends, but its entry stays.                                           *)
StreamServerLogs(v) ==
    /\ logTask[v] = "waiting"
    /\ logTask' = [logTask EXCEPT ![v] = "ended"]
    /\ UNCHANGED <<pc, target, active, inUse, pool, monitor>>

Last(s) == active[target[s]] = {s}

(* Mutant: the task keeps its entry when the last socket leaves.            *)
Forget_KeepsTask(s) ==
    /\ active' = [active EXCEPT ![target[s]] = @ \ {s}]
    /\ UNCHANGED logTask

(* The books of disconnect: the socket leaves the set, and the last one     *)
(* takes the server's entries with it.                                      *)
Forget(s) ==
    LET v == target[s] IN
    /\ active' = [active EXCEPT ![v] = @ \ {s}]
    /\ logTask' = [logTask EXCEPT ![v] = IF Last(s) THEN None ELSE @]

(* The client leaves, or sends what is not JSON, and no task has to be      *)
(* cancelled.                                                               *)
Disconnect(s) ==
    /\ pc[s] = "open"
    /\ Last(s) => logTask[target[s]] = "ended"
    /\ Forget(s)
    /\ inUse' = inUse - 1
    /\ Returned(s)
    /\ UNCHANGED monitor

(* Mutant: disconnect gives the slot back before it waits.                  *)
DisconnectCancels_Releases(s) ==
    /\ pc[s] = "open"
    /\ Last(s)
    /\ logTask[target[s]] = "waiting"
    /\ Forget(s)
    /\ inUse' = inUse - 1
    /\ pc' = [pc EXCEPT ![s] = "closing"]
    /\ UNCHANGED <<target, pool, monitor>>

(* The last socket leaves before the task has run: it is cancelled, and     *)
(* disconnect waits for it with the books already closed.                   *)
DisconnectCancels(s) ==
    /\ pc[s] = "open"
    /\ Last(s)
    /\ logTask[target[s]] = "waiting"
    /\ Forget(s)
    /\ pc' = [pc EXCEPT ![s] = "closing"]
    /\ UNCHANGED <<target, inUse, pool, monitor>>

(* The cancelled task has ended: the slot is given back.                    *)
TaskCancelled(s) ==
    /\ pc[s] = "closing"
    /\ inUse' = inUse - 1
    /\ Returned(s)
    /\ UNCHANGED <<active, logTask, monitor>>

(* The notifications endpoint: no server, no limit.                         *)
Notifications(s) ==
    /\ pc[s] = "idle"
    /\ Cardinality(pool) < PoolSize
    /\ pool' = pool \cup {s}
    /\ pc' = [pc EXCEPT ![s] = "noticed"]
    /\ UNCHANGED <<target, active, logTask, inUse, monitor>>

NotificationsEnd(s) ==
    /\ pc[s] = "noticed"
    /\ Returned(s)
    /\ UNCHANGED <<active, logTask, inUse, monitor>>

StartMonitoring ==
    /\ ~monitor
    /\ monitor' = TRUE
    /\ UNCHANGED <<pc, target, active, logTask, inUse, pool>>

StopMonitoring ==
    /\ monitor
    /\ monitor' = FALSE
    /\ UNCHANGED <<pc, target, active, logTask, inUse, pool>>

(* What the clients and the event loop do while the API serves.             *)
SocketNext ==
    \/ \E s \in Sockets, v \in Servers : Authenticate(s, v)
    \/ \E s \in Sockets :
          \/ Refuse(s)
          \/ Acquire(s)
          \/ AcceptFails(s)
          \/ Accepted(s)
          \/ Disconnect(s)
          \/ DisconnectCancels(s)
          \/ TaskCancelled(s)
          \/ Notifications(s)
          \/ NotificationsEnd(s)
    \/ \E v \in Servers : StreamServerLogs(v)

Next ==
    \/ SocketNext
    \/ StartMonitoring
    \/ StopMonitoring

Spec == Init /\ [][Next]_vars

-----------------------------------------------------------------------------
(* Every slot of the semaphore is owned by exactly one socket, and every    *)
(* connection of the pool by one that is served, also while a disconnect    *)
(* waits and a new socket has opened the same server's books again.         *)
(* (connect, disconnect and get_db: a slot that is lost or given back twice *)
(* would starve the endpoint or lift its limit for good.)                   *)
ResourcesOwned ==
    /\ inUse = Cardinality(Holding)
    /\ pool = {s \in Sockets : pc[s] # "idle"}

(* The books of a server are those of its open sockets, and it has a log    *)
(* task exactly while it has one, whatever a disconnect that still waits    *)
(* for the old task has left behind.  (connect starts a task only if there  *)
(* is no entry; disconnect pops it before it waits.)                        *)
BooksMatch ==
    \A v \in Servers :
        /\ active[v] = {s \in Sockets : pc[s] = "open" /\ target[s] = v}
        /\ (logTask[v] = None) <=> (active[v] = {})
=============================================================================
