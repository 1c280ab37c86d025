-------------------------- MODULE AuditTrailProofs --------------------------
(* The application as requests and probes see it, for any requests,         *)
(* sockets, servers, probes, connections and limits, and with every failure *)
(* that the models know: the books of the WebSocket endpoints balance, the  *)
(* status of the services tells which of them run, no answer about them is  *)
(* too old or too late, the rows of the audit log say what was done, and    *)
(* answers come after their rows.                                           *)
EXTENDS AuditTrail, FiniteSetTheorems, TLAPS

-----------------------------------------------------------------------------
(* Connections, Lifespan and HealthChecks                                   *)

(* A socket that follows a server knows which one; the slots are within the *)
(* limit because a socket enters only below it.                             *)
IInv ==
    /\ TypeOK
    /\ ResourcesOwned
    /\ BooksMatch
    /\ \A s \in Sockets :
          pc[s] \in {"known", "accepting", "open", "closing"} => target[s] \in Servers

(* What the socket s adds to a count of sockets, and takes from it.         *)
LEMMA SlotTaken ==
    ASSUME NEW S, IsFiniteSet(S), NEW s, s \notin S
    PROVE  Cardinality(S \cup {s}) = Cardinality(S) + 1
BY FS_AddElement

LEMMA SlotGiven ==
    ASSUME NEW S, IsFiniteSet(S), NEW s \in S
    PROVE  /\ Cardinality(S \ {s}) = Cardinality(S) - 1
           /\ Cardinality(S) \in Nat
           /\ Cardinality(S) > 0
<1>1. Cardinality(S \ {s}) = Cardinality(S) - 1
  BY FS_RemoveElement
<1>2. Cardinality(S) \in Nat /\ Cardinality(S \ {s}) \in Nat
  BY FS_CardinalityType, FS_RemoveElement
<1> QED
  BY <1>1, <1>2

(* The sockets that hold a slot are finitely many.                          *)
LEMMA HoldingFinite == IsFiniteSet(Holding)
BY FS_Subset, ConnectionsAssumption DEF Holding

LEMMA InitIInv == Init => IInv
<1> SUFFICES ASSUME Init PROVE IInv
  OBVIOUS
<1> USE DEF Init
<1>1. Holding = {}
  BY DEF Holding
<1>2. inUse = Cardinality(Holding)
  BY <1>1, FS_EmptySet
<1>3. TypeOK
  <2>1. 0 \in 0 .. Limit
    BY ConnectionsAssumption
  <2> QED
    BY <2>1 DEF TypeOK, Stages
<1>4. ResourcesOwned
  BY <1>2 DEF ResourcesOwned
<1>5. BooksMatch
  BY DEF BooksMatch
<1> QED
  BY <1>3, <1>4, <1>5 DEF IInv

(* A step that moves one socket and neither joins nor leaves a set.         *)
LEMMA Moves ==
    ASSUME IInv, NEW s \in Sockets, NEW t \in Servers \cup {None}, NEW p \in Stages,
           p # "open", pc[s] # "open",
           pc' = [pc EXCEPT ![s] = p], target' = [target EXCEPT ![s] = t],
           pool' = IF p = "idle" THEN pool \ {s} ELSE pool \cup {s},
           inUse' \in 0 .. Limit, inUse' = Cardinality(Holding'),
           p \in {"known", "accepting", "closing"} => t \in Servers,
           UNCHANGED <<active, logTask, monitor>>
    PROVE  IInv'
<1> USE DEF IInv, TypeOK
<1>1. TypeOK'
  BY DEF Stages
<1>2. ResourcesOwned'
  <2>1. pool' = {x \in Sockets : pc'[x] # "idle"}
    BY DEF ResourcesOwned
  <2> QED
    BY <2>1 DEF ResourcesOwned
<1>3. BooksMatch'
  <2> SUFFICES ASSUME NEW v \in Servers
               PROVE  /\ active[v] = {x \in Sockets : pc'[x] = "open" /\ target'[x] = v}
                      /\ (logTask[v] = None) <=> (active[v] = {})
    BY DEF BooksMatch
  <2>1. {x \in Sockets : pc'[x] = "open" /\ target'[x] = v}
            = {x \in Sockets : pc[x] = "open" /\ target[x] = v}
    OBVIOUS
  <2> QED
    BY <2>1 DEF BooksMatch
<1>4. \A x \in Sockets :
          pc'[x] \in {"known", "accepting", "open", "closing"} => target'[x] \in Servers
  OBVIOUS
<1> QED
  BY <1>1, <1>2, <1>3, <1>4

(* The slots after a socket came to hold one, or ceased to.                 *)
LEMMA Gains ==
    ASSUME IInv, NEW s \in Sockets, NEW p \in Stages, pc' = [pc EXCEPT ![s] = p],
           p \in {"accepting", "open", "closing"},
           pc[s] \notin {"accepting", "open", "closing"}
    PROVE  Cardinality(Holding') = inUse + 1
<1>1. Holding' = Holding \cup {s} /\ s \notin Holding
  BY DEF Holding, IInv, TypeOK
<1> QED
  BY <1>1, HoldingFinite, SlotTaken DEF IInv, ResourcesOwned

LEMMA Loses ==
    ASSUME IInv, NEW s \in Sockets, NEW p \in Stages, pc' = [pc EXCEPT ![s] = p],
           p \notin {"accepting", "open", "closing"},
           pc[s] \in {"accepting", "open", "closing"}
    PROVE  Cardinality(Holding') = inUse - 1 /\ inUse - 1 \in 0 .. Limit
<1>1. Holding' = Holding \ {s} /\ s \in Holding
  BY DEF Holding, IInv, TypeOK
<1>2. inUse = Cardinality(Holding) /\ inUse \in 0 .. Limit /\ Limit \in Nat
  BY ConnectionsAssumption DEF IInv, ResourcesOwned, TypeOK
<1> QED
  BY <1>1, <1>2, HoldingFinite, SlotGiven

LEMMA Keeps ==
    ASSUME IInv, NEW s \in Sockets, NEW p \in Stages, pc' = [pc EXCEPT ![s] = p],
           (p \in {"accepting", "open", "closing"})
               <=> (pc[s] \in {"accepting", "open", "closing"})
    PROVE  Cardinality(Holding') = inUse
<1>1. Holding' = Holding
  BY DEF Holding, IInv, TypeOK
<1> QED
  BY <1>1 DEF IInv, ResourcesOwned

LEMMA NextIInv == IInv /\ [Next]_vars => IInv'
<1> SUFFICES ASSUME IInv, [Next]_vars PROVE IInv'
  OBVIOUS
<1>t. TypeOK /\ Limit \in Nat
  BY ConnectionsAssumption DEF IInv
<1>1. ASSUME NEW s \in Sockets, NEW v \in Servers, Authenticate(s, v) PROVE IInv'
  <2>1. inUse' = Cardinality(Holding')
    BY <1>1, Keeps DEF Authenticate, Stages
  <2> QED
    BY <1>1, <1>t, <2>1, Moves DEF Authenticate, Stages, TypeOK
<1>2. ASSUME NEW s \in Sockets, Refuse(s) PROVE IInv'
  <2>1. inUse' = Cardinality(Holding')
    BY <1>2, Keeps DEF Refuse, Returned, Stages
  <2> QED
    BY <1>2, <1>t, <2>1, Moves DEF Refuse, Returned, Stages, TypeOK
<1>3. ASSUME NEW s \in Sockets, Acquire(s) PROVE IInv'
  <2>1. inUse' = Cardinality(Holding')
    BY <1>3, Gains DEF Acquire, Stages
  <2>2. inUse' \in 0 .. Limit
    BY <1>3, <1>t DEF Acquire, TypeOK
  <2>3. target' = [target EXCEPT ![s] = target[s]] /\ pool' = pool \cup {s} /\ target[s] \in Servers
    BY <1>3, <1>t DEF Acquire, TypeOK, IInv, ResourcesOwned
  <2> QED
    BY <1>3, <1>t, <2>1, <2>2, <2>3, Moves DEF Acquire, Stages
<1>4. ASSUME NEW s \in Sockets, AcceptFails(s) PROVE IInv'
  <2>1. Cardinality(Holding') = inUse - 1 /\ inUse - 1 \in 0 .. Limit
    BY <1>4, Loses DEF AcceptFails, Returned, Stages
  <2> QED
    BY <1>4, <1>t, <2>1, Moves DEF AcceptFails, Returned, Stages
<1>5. ASSUME NEW s \in Sockets, TaskCancelled(s) PROVE IInv'
  <2>1. Cardinality(Holding') = inUse - 1 /\ inUse - 1 \in 0 .. Limit
    BY <1>5, Loses DEF TaskCancelled, Returned, Stages
  <2> QED
    BY <1>5, <1>t, <2>1, Moves DEF TaskCancelled, Returned, Stages
<1>6. ASSUME NEW s \in Sockets, Notifications(s) PROVE IInv'
  <2>1. inUse' = Cardinality(Holding')
    BY <1>6, Keeps DEF Notifications, Stages
  <2>2. target' = [target EXCEPT ![s] = target[s]] /\ target[s] \in Servers \cup {None}
    BY <1>6, <1>t DEF Notifications, TypeOK
  <2> QED
    BY <1>6, <1>t, <2>1, <2>2, Moves DEF Notifications, Stages, TypeOK
<1>7. ASSUME NEW s \in Sockets, NotificationsEnd(s) PROVE IInv'
  <2>1. inUse' = Cardinality(Holding')
    BY <1>7, Keeps DEF NotificationsEnd, Returned, Stages
  <2> QED
    BY <1>7, <1>t, <2>1, Moves DEF NotificationsEnd, Returned, Stages, TypeOK
<1>8. ASSUME NEW s \in Sockets, Accepted(s) PROVE IInv'
  <2> DEFINE v == target[s]
  <2>0. v \in Servers /\ pc[s] = "accepting"
    BY <1>8 DEF IInv, Accepted
  <2>1. inUse' = Cardinality(Holding')
    BY <1>8, Keeps DEF Accepted, Stages
  <2>2. TypeOK'
    BY <1>8, <1>t, <2>0 DEF Accepted, TypeOK, Stages
  <2>3. pool' = {x \in Sockets : pc'[x] # "idle"}
    BY <1>8, <1>t DEF Accepted, IInv, ResourcesOwned, TypeOK
  <2>4. ASSUME NEW w \in Servers
        PROVE  /\ active'[w] = {x \in Sockets : pc'[x] = "open" /\ target'[x] = w}
               /\ (logTask'[w] = None) <=> (active'[w] = {})
    <3>1. active'[w] = IF w = v THEN active[w] \cup {s} ELSE active[w]
      BY <1>8, <1>t, <2>0 DEF Accepted, TypeOK
    <3>2. logTask'[w] = IF w = v /\ logTask[w] = None THEN "waiting" ELSE logTask[w]
      BY <1>8, <1>t, <2>0 DEF Accepted, TypeOK
    <3>3. {x \in Sockets : pc'[x] = "open" /\ target'[x] = w}
            = IF w = v THEN {x \in Sockets : pc[x] = "open" /\ target[x] = w} \cup {s}
              ELSE {x \in Sockets : pc[x] = "open" /\ target[x] = w}
      BY <1>8, <1>t, <2>0 DEF Accepted, TypeOK
    <3>4. None # "waiting"
      BY ConnectionsAssumption
    <3> QED
      BY <3>1, <3>2, <3>3, <3>4 DEF IInv, BooksMatch
  <2>5. \A x \in Sockets :
            pc'[x] \in {"known", "accepting", "open", "closing"} => target'[x] \in Servers
    BY <1>8, <1>t, <2>0 DEF Accepted, IInv, TypeOK
  <2> QED
    BY <2>1, <2>2, <2>3, <2>4, <2>5 DEF IInv, ResourcesOwned, BooksMatch
<1>9. ASSUME NEW s \in Sockets, pc[s] = "open", Forget(s), UNCHANGED monitor,
             NEW p \in {"idle", "closing"}, pc' = [pc EXCEPT ![s] = p],
             \/ target' = target
             \/ p = "idle" /\ target' = [target EXCEPT ![s] = None],
             pool' = IF p = "idle" THEN pool \ {s} ELSE pool,
             inUse' \in 0 .. Limit, inUse' = Cardinality(Holding')
      PROVE  IInv'
  <2> DEFINE v == target[s]
  <2>0. v \in Servers
    BY <1>9 DEF IInv
  <2>2. TypeOK'
    BY <1>9, <1>t, <2>0 DEF Forget, TypeOK, Stages
  <2>3. pool' = {x \in Sockets : pc'[x] # "idle"}
    BY <1>9, <1>t DEF IInv, ResourcesOwned, TypeOK
  <2>4. ASSUME NEW w \in Servers
        PROVE  /\ active'[w] = {x \in Sockets : pc'[x] = "open" /\ target'[x] = w}
               /\ (logTask'[w] = None) <=> (active'[w] = {})
    <3>1. active'[w] = IF w = v THEN active[w] \ {s} ELSE active[w]
      BY <1>9, <1>t, <2>0 DEF Forget, TypeOK
    <3>2. logTask'[w] = IF w = v /\ active[w] = {s} THEN None ELSE logTask[w]
      BY <1>9, <1>t, <2>0 DEF Forget, Last, TypeOK
    <3>3. {x \in Sockets : pc'[x] = "open" /\ target'[x] = w}
            = {x \in Sockets : pc[x] = "open" /\ target[x] = w} \ {s}
      BY <1>9, <1>t, <2>0 DEF TypeOK
    <3>4. s \in active[w] <=> w = v
      BY <1>9, <2>0 DEF IInv, BooksMatch
    <3> QED
      BY <3>1, <3>2, <3>3, <3>4 DEF IInv, BooksMatch
  <2>5. \A x \in Sockets :
            pc'[x] \in {"known", "accepting", "open", "closing"} => target'[x] \in Servers
    BY <1>9, <1>t, <2>0 DEF IInv, TypeOK
  <2> QED
    BY <1>9, <2>2, <2>3, <2>4, <2>5 DEF IInv, ResourcesOwned, BooksMatch
<1>10. ASSUME NEW s \in Sockets, Disconnect(s) PROVE IInv'
  <2>1. Cardinality(Holding') = inUse - 1 /\ inUse - 1 \in 0 .. Limit
    BY <1>10, Loses DEF Disconnect, Returned, Stages
  <2> QED
    BY <1>9, <1>10, <2>1 DEF Disconnect, Returned
<1>11. ASSUME NEW s \in Sockets, DisconnectCancels(s) PROVE IInv'
  <2>1. inUse' = Cardinality(Holding') /\ inUse' \in 0 .. Limit
    BY <1>11, <1>t, Keeps DEF DisconnectCancels, Stages, TypeOK
  <2> QED
    BY <1>9, <1>11, <2>1 DEF DisconnectCancels
<1>12. ASSUME Holding' = Holding, UNCHANGED <<pc, target, active, inUse, pool>>,
              TypeOK', \A v \in Servers : (logTask'[v] = None) <=> (logTask[v] = None)
       PROVE  IInv'
  BY <1>12 DEF IInv, ResourcesOwned, BooksMatch
<1>13. ASSUME NEW v \in Servers, StreamServerLogs(v) PROVE IInv'
  <2>1. \A w \in Servers : (logTask'[w] = None) <=> (logTask[w] = None)
    BY <1>13, <1>t, ConnectionsAssumption DEF StreamServerLogs, TypeOK
  <2> QED
    BY <1>12, <1>13, <1>t, <2>1 DEF StreamServerLogs, TypeOK, Holding
<1>14. CASE StartMonitoring \/ StopMonitoring
  BY <1>12, <1>14, <1>t DEF StartMonitoring, StopMonitoring, TypeOK, Holding
<1>15. CASE UNCHANGED vars
  BY <1>12, <1>15, <1>t DEF vars, TypeOK, Holding
<1> QED
  BY <1>1, <1>2, <1>3, <1>4, <1>5, <1>6, <1>7, <1>8, <1>10, <1>11, <1>13, <1>14, <1>15
     DEF Next, SocketNext

(* Starting and stopping the services touches only the monitor.             *)
LEMMA LifespanKeepsSockets ==
    ASSUME LifespanNext
    PROVE  UNCHANGED socketVars /\ monitor' \in {monitor, TRUE, FALSE}
BY DEF LifespanNext, Launch, NoService, InitializeDatabase, DatabaseFails, MigrateVisibility,
   InitializeIntegration, InitializeBackups, InitializeWebsockets, InitializeVersions,
   BeginShutdown, StopManager, StopBackups, StopWebsockets, StopVersions, StartMonitoring,
   StopMonitoring, socketVars

LEMMA MonitorAlone ==
    ASSUME IInv, UNCHANGED socketVars, monitor' \in {monitor, TRUE, FALSE} PROVE IInv'
BY DEF IInv, TypeOK, ResourcesOwned, BooksMatch, Holding, socketVars

(* All sockets go with the process.                                         *)
LEMMA DeathKeepsSockets ==
    ASSUME ProcessDies PROVE IInv'
<1>1. Holding' = {}
  BY DEF ProcessDies, Holding
<1>2. inUse' = Cardinality(Holding') /\ inUse' \in 0 .. Limit
  BY <1>1, FS_EmptySet, ConnectionsAssumption DEF ProcessDies
<1> QED
  BY <1>2 DEF ProcessDies, NoService, IInv, TypeOK, Stages, ResourcesOwned, BooksMatch

LEMMA AppKeepsSockets == IInv /\ [AppNext]_appVars => IInv'
<1> SUFFICES ASSUME IInv, [AppNext]_appVars PROVE IInv'
  OBVIOUS
<1>1. CASE Serves
  BY <1>1, NextIInv DEF Serves, Next
<1>2. CASE ServicesStep
  BY <1>2, LifespanKeepsSockets, MonitorAlone DEF ServicesStep
<1>3. CASE Dies
  BY <1>3, DeathKeepsSockets DEF Dies
<1>4. CASE UNCHANGED vars
  BY <1>4, NextIInv
<1>5. CASE \/ \E q \in Probes, k \in Kinds : Ask(q, k)
           \/ ReadsCache \/ BeginsChecks \/ AllReported \/ TimesOut \/ Tick
           \/ \E time \in 1 .. MaxStalled : Blocks(time)
           \/ \E c \in Critical, works \in BOOLEAN : CheckEnds(c, works)
  <2>1. UNCHANGED vars
    BY <1>5 DEF Ask, ReadsCache, BeginsChecks, AllReported, TimesOut, Tick, CheckEnds,
       Blocks, Concludes
  <2> QED BY <2>1, <1>4
<1> QED BY <1>1, <1>2, <1>3, <1>4, <1>5 DEF AppNext, appVars

LEMMA SocketsHold == AppSpec => []IInv
<1>1. AppInit => IInv
  BY InitIInv DEF AppInit
<1> QED
  BY <1>1, AppKeepsSockets, PTL DEF AppSpec

(* The sockets never hold more slots than the limit, and every variable of  *)
(* Connections keeps its range, also when the process dies.                 *)
THEOREM ConnectionsTypeCorrect == AppSpec => []TypeOK
<1>1. IInv => TypeOK
  BY DEF IInv
<1> QED
  BY <1>1, SocketsHold, PTL

(* Every slot and every pooled connection of a socket is owned by one that  *)
(* is served.  (connect, disconnect, get_db.)                               *)
THEOREM EverySlotOwned == AppSpec => []ResourcesOwned
<1>1. IInv => ResourcesOwned
  BY DEF IInv
<1> QED
  BY <1>1, SocketsHold, PTL

(* The books of a server are those of its open sockets.  (connect,          *)
(* disconnect.)                                                             *)
THEOREM EveryBookMatches == AppSpec => []BooksMatch
<1>1. IInv => BooksMatch
  BY DEF IInv
<1> QED
  BY <1>1, SocketsHold, PTL

-----------------------------------------------------------------------------
Loops == {"backups", "websockets", "versions"}

(* The services whose start, and whose stop, has been tried.                *)
StopPhases == {"stopManager", "stopBackups", "stopWebsockets", "stopVersions", "ended"}
Tried ==
    {x \in Optional :
        \/ phase \in {"serving"} \cup StopPhases
        \/ x = "integration" /\ phase \in {"backups", "websockets", "versions"}
        \/ x = "backups" /\ phase \in {"websockets", "versions"}
        \/ x = "websockets" /\ phase = "versions"}
Halted ==
    {x \in Loops \cup {"manager"} :
        \/ phase = "ended"
        \/ x = "manager" /\ phase \in {"stopBackups", "stopWebsockets", "stopVersions"}
        \/ x = "backups" /\ phase \in {"stopWebsockets", "stopVersions"}
        \/ x = "websockets" /\ phase = "stopVersions"}

(* ServicesAccounted, said of every phase.  In the phase "ended" the status *)
(* of the process is empty if it was killed, so only Running counts.        *)
Accounted ==
    /\ phase \in Phases
    /\ loops \subseteq {"backups", "versions"}
    /\ monitor \in BOOLEAN /\ held \in BOOLEAN
    /\ errors \subseteq Halted
    /\ phase = "ended" => Running = errors \ {"manager"}
    /\ phase # "ended" =>
          /\ failed \subseteq Tried
          /\ ready = {x \in {"database"} : phase # "database"} \cup (Tried \ failed)
          /\ \A x \in Loops :
                x \in Running <=> IF x \in Halted THEN x \in errors ELSE x \in ready
          /\ held <=> "backups" \in Running

LEMMA AccountedSuffices ==
    ASSUME Accounted PROVE ServicesAccounted
<1>1. CASE phase = "serving"
  <2>1. Tried = Optional BY <1>1 DEF Tried
  <2>2. Halted = {} BY <1>1 DEF Halted, StopPhases
  <2>3. ready = {"database"} \cup (Optional \ failed)
    BY <1>1, <2>1 DEF Accounted
  <2>4. Running \subseteq Loops BY DEF Accounted, Running, Loops
  <2>5. Running = ready \ {"database", "integration"}
    BY <1>1, <2>2, <2>3, <2>4 DEF Accounted, Optional, Loops
  <2> QED BY <1>1, <2>3, <2>5 DEF Accounted, ServicesAccounted
<1>2. CASE phase # "serving"
  BY <1>2 DEF Accounted, ServicesAccounted
<1> QED BY <1>1, <1>2

LEMMA AccountedInit ==
    ASSUME AppInit PROVE Accounted
BY DEF AppInit, Init, LifespanInit, Accounted, Running, Phases, Halted, Following

(* Sockets and probes leave the services alone.                             *)
LEMMA OthersKeepServices ==
    ASSUME Serves \/ UNCHANGED <<vars, lifespanVars>>
    PROVE UNCHANGED <<phase, ready, failed, errors, held, loops, monitor>>
<1>1. CASE Serves
  <2>1. SocketNext => monitor' = monitor
    BY DEF SocketNext, Authenticate, Refuse, Acquire, AcceptFails, Accepted, Disconnect,
       DisconnectCancels, TaskCancelled, Notifications, NotificationsEnd, StreamServerLogs
  <2> QED BY <1>1, <2>1 DEF Serves, lifespanVars, statusVars
<1>2. CASE UNCHANGED <<vars, lifespanVars>>
  BY <1>2 DEF vars, lifespanVars, statusVars
<1> QED BY <1>1, <1>2

LEMMA AccountedKept ==
    ASSUME Accounted, UNCHANGED <<phase, ready, failed, errors, held, loops, monitor>>
    PROVE Accounted'
BY DEF Accounted, Running, Halted, Tried

LEMMA LifespanKeeps ==
    ASSUME Accounted, LifespanNext PROVE Accounted'
<1> USE DEF Accounted, Running, Phases, Halted, Tried, Loops, StopPhases, Optional, Following,
        Proceed, Started, FailsToStart, FailsToStop, Stopped, statusVars
<1>1. CASE Launch BY <1>1 DEF Launch, NoService
<1>2. CASE InitializeDatabase BY <1>2 DEF InitializeDatabase
<1>3. CASE DatabaseFails BY <1>3 DEF DatabaseFails
<1>4. CASE MigrateVisibility BY <1>4 DEF MigrateVisibility
<1>5. CASE InitializeIntegration BY <1>5 DEF InitializeIntegration
<1>6. CASE InitializeBackups
  <2>1. CASE Started("backups") BY <1>6, <2>1 DEF InitializeBackups
  <2>2. CASE FailsToStart("backups") /\ UNCHANGED <<held, loops>>
    BY <1>6, <2>2 DEF InitializeBackups
  <2> QED BY <1>6, <2>1, <2>2 DEF InitializeBackups
<1>7. CASE InitializeWebsockets
  <2>1. CASE Started("websockets") /\ StartMonitoring
    BY <1>7, <2>1 DEF InitializeWebsockets, StartMonitoring
  <2>2. CASE FailsToStart("websockets") /\ UNCHANGED monitor
    BY <1>7, <2>2 DEF InitializeWebsockets
  <2> QED BY <1>7, <2>1, <2>2 DEF InitializeWebsockets
<1>8. CASE InitializeVersions BY <1>8 DEF InitializeVersions
<1>9. CASE BeginShutdown BY <1>9 DEF BeginShutdown
<1>10. CASE StopManager BY <1>10 DEF StopManager
<1>11. CASE StopBackups BY <1>11 DEF StopBackups
<1>12. CASE StopWebsockets
  <2>1. CASE "websockets" \in ready /\ Stopped /\ StopMonitoring
    BY <1>12, <2>1 DEF StopWebsockets, StopMonitoring
  <2>2. CASE "websockets" \in ready /\ FailsToStop("websockets") /\ UNCHANGED monitor
    BY <1>12, <2>2 DEF StopWebsockets
  <2>3. CASE "websockets" \notin ready /\ Stopped /\ UNCHANGED monitor
    BY <1>12, <2>3 DEF StopWebsockets
  <2> QED BY <1>12, <2>1, <2>2, <2>3 DEF StopWebsockets
<1>13. CASE StopVersions
  <2>1. phase = "stopVersions" /\ phase' = "ended" /\ monitor' = monitor /\ held' = held
    BY <1>13 DEF StopVersions
  <2>2. \A x \in {"backups", "websockets"} : x \in Running' <=> x \in errors'
    BY <1>13, <2>1 DEF StopVersions
  <2>3. "versions" \in Running' <=> "versions" \in errors'
    BY <1>13, <2>1 DEF StopVersions
  <2>4. loops' \subseteq {"backups", "versions"} /\ errors' \subseteq Loops \cup {"manager"}
    BY <1>13, <2>1 DEF StopVersions
  <2>5. Running' = errors' \ {"manager"}
    <3>1. Running' \subseteq Loops BY <2>4
    <3> HIDE DEF Running
    <3> QED BY <2>2, <2>3, <2>4, <3>1
  <2> QED BY <2>1, <2>4, <2>5
<1> QED BY <1>1, <1>2, <1>3, <1>4, <1>5, <1>6, <1>7, <1>8, <1>9, <1>10, <1>11, <1>12, <1>13
        DEF LifespanNext

LEMMA DeathKeeps ==
    ASSUME ProcessDies PROVE Accounted'
BY DEF ProcessDies, NoService, Accounted, Running, Phases, Halted

LEMMA AccountedStep ==
    ASSUME Accounted, [AppNext]_appVars PROVE Accounted'
<1>1. CASE ServicesStep BY <1>1, LifespanKeeps DEF ServicesStep
<1>2. CASE Dies BY <1>2, DeathKeeps DEF Dies
<1>3. CASE Serves BY <1>3, OthersKeepServices, AccountedKept
<1>4. CASE UNCHANGED appVars
  BY <1>4, OthersKeepServices, AccountedKept DEF appVars
<1>5. CASE \/ \E q \in Probes, k \in Kinds : Ask(q, k)
           \/ ReadsCache \/ BeginsChecks \/ AllReported \/ TimesOut \/ Tick
           \/ \E time \in 1 .. MaxStalled : Blocks(time)
           \/ \E c \in Critical, works \in BOOLEAN : CheckEnds(c, works)
  <2>1. UNCHANGED <<vars, lifespanVars>>
    BY <1>5 DEF Ask, ReadsCache, BeginsChecks, AllReported, TimesOut, Tick, CheckEnds,
       Blocks, Concludes
  <2> QED BY <2>1, OthersKeepServices, AccountedKept
<1> QED BY <1>1, <1>2, <1>3, <1>4, <1>5 DEF AppNext

(* Whichever services fail to start or to stop, whatever the sockets and    *)
(* probes do and whenever the process is killed, the status of the services *)
(* is that of those that run.  (_initialize_services, _cleanup_services.)   *)
THEOREM ServicesAlwaysAccounted == AppSpec => []ServicesAccounted
<1> QED BY AccountedInit, AccountedStep, AccountedSuffices, PTL DEF AppSpec

-----------------------------------------------------------------------------
(* A run of the checks has not taken longer than the request for which it   *)
(* is made has waited, nor longer than it may, the time apart for which the *)
(* event loop was blocked.                                                  *)
Queued ==
    /\ queue \in Seq(Probes)
    /\ \A i \in 1 .. Len(queue) : kind[queue[i]] # None
    /\ \A i, j \in 1 .. Len(queue) : queue[i] = queue[j] => i = j

EvaluationInTime ==
    evaluation # None =>
        /\ evaluation \in Evaluations
        /\ queue # <<>>
        /\ evaluation.elapsed <= TimeLimit
        /\ evaluation.elapsed <= waited[Head(queue)]
        /\ evaluation.stalled <= stalled[Head(queue)]

Entries == [failing : SUBSET Components, span : Nat, stalled : 0 .. MaxStalled, age : Nat]

FreshInv ==
    /\ kind \in [Probes -> Kinds \cup {None}]
    /\ waited \in [Probes -> Nat]
    /\ stalled \in [Probes -> 0 .. MaxStalled]
    /\ Queued
    /\ EvaluationInTime
    /\ cache # None => cache \in Entries /\ cache.span <= TimeLimit
    /\ AnswersFresh

LEMMA TimeLimitType == TimeLimit \in Nat /\ CacheTTL \in Nat /\ MaxStalled \in Nat
<1>1. \A x, y \in Nat : Min({x, y}) \in Nat BY DEF Min
<1> QED BY <1>1, HealthAssumption DEF TimeLimit

LEMMA NotRunningType == NotRunning \subseteq Components
BY DEF NotRunning, Components, Optional

LEMMA FreshInit == AppInit => FreshInv
BY HealthAssumption DEF AppInit, FreshInv, Queued, EvaluationInTime, AnswersFresh

(* What no step of a probe changes.                                         *)
LEMMA FreshKept ==
    ASSUME FreshInv, UNCHANGED <<queue, kind, waited, stalled, evaluation, cache>>, AnswersFresh'
    PROVE FreshInv'
BY DEF FreshInv, Queued, EvaluationInTime

LEMMA AskKeeps ==
    ASSUME FreshInv, NEW q \in Probes, NEW k \in Kinds, Ask(q, k)
    PROVE FreshInv'
<1>1. CASE UsesCache(k) /\ Cached
  <2>1. answer' = [kind |-> k, code |-> StatusCode(k, cache.failing),
                   age |-> cache.age + cache.span + cache.stalled,
                   stalled |-> cache.stalled, waited |-> 0]
    BY <1>1 DEF Ask, Answers
  <2>2. UNCHANGED <<queue, kind, waited, stalled, evaluation, cache>> BY <1>1 DEF Ask
  <2>3. cache.age + cache.span + cache.stalled <= CacheTTL + TimeLimit + cache.stalled
    BY <1>1, TimeLimitType DEF Cached, FreshInv, Entries
  <2>4. AnswersFresh' BY <1>1, <2>1, <2>3 DEF AnswersFresh, UsesCache
  <2> QED BY <2>2, <2>4, FreshKept
<1>2. CASE ~(UsesCache(k) /\ Cached)
  <2>1. /\ queue' = Append(queue, q) /\ kind' = [kind EXCEPT ![q] = k]
        /\ kind[q] = None /\ answer' = None /\ UNCHANGED <<waited, stalled, evaluation, cache>>
    BY <1>2 DEF Ask, Silent
  <2>2. k # None BY HealthAssumption
  <2>3. kind' \in [Probes -> Kinds \cup {None}] BY <2>1 DEF FreshInv
  <2>4. Queued'
    <3>1. queue' \in Seq(Probes) /\ Len(queue') = Len(queue) + 1 BY <2>1 DEF FreshInv, Queued
    <3>2. \A i \in 1 .. Len(queue) : queue'[i] = queue[i] /\ queue[i] \in Probes /\ queue[i] # q
      BY <2>1 DEF FreshInv, Queued
    <3>3. queue'[Len(queue) + 1] = q BY <2>1 DEF FreshInv, Queued
    <3>4. \A i \in 1 .. Len(queue') : kind'[queue'[i]] # None
      BY <2>1, <2>2, <3>1, <3>2, <3>3 DEF FreshInv, Queued
    <3>5. \A i, j \in 1 .. Len(queue') : queue'[i] = queue'[j] => i = j
      <4>1. Len(queue) \in Nat /\ \A i, j \in 1 .. Len(queue) : queue[i] = queue[j] => i = j
        BY DEF FreshInv, Queued
      <4>2. \A i \in 1 .. Len(queue') : i \in 1 .. Len(queue) \/ i = Len(queue) + 1
        BY <3>1, <4>1
      <4> QED BY <3>2, <3>3, <4>1, <4>2
    <3> QED BY <3>1, <3>4, <3>5 DEF Queued
  <2>5. EvaluationInTime'
    <3>1. queue # <<>> => queue' # <<>> /\ Head(queue') = Head(queue)
      BY <2>1 DEF FreshInv, Queued
    <3> QED BY <2>1, <3>1 DEF FreshInv, EvaluationInTime
  <2>6. AnswersFresh' BY <2>1 DEF AnswersFresh
  <2> QED BY <2>1, <2>3, <2>4, <2>5, <2>6 DEF FreshInv
<1> QED BY <1>1, <1>2

(* The request that leaves is the first of the queue, and no other.         *)
LEMMA LeavesKeeps ==
    ASSUME FreshInv, queue # <<>>, NEW failing, NEW ended \in Nat, NEW span \in Nat,
           NEW blocked \in 0 .. MaxStalled,
           Leaves(Head(queue), failing, ended, span, blocked), evaluation' = None,
           cache' # None => cache' \in Entries /\ cache'.span <= TimeLimit,
           IF UsesCache(kind[Head(queue)])
           THEN ended + span <= CacheTTL + TimeLimit
           ELSE ended = 0 /\ span <= waited[Head(queue)] /\ blocked <= stalled[Head(queue)]
    PROVE FreshInv'
<1> DEFINE q == Head(queue)
<1>1. q \in Probes /\ q = queue[1] BY DEF FreshInv, Queued
<1>2. /\ queue' = Tail(queue)
      /\ answer' = [kind |-> kind[q], code |-> StatusCode(kind[q], failing),
                    age |-> ended + span + blocked, stalled |-> blocked,
                    waited |-> waited[q] + stalled[q]]
      /\ kind' = [kind EXCEPT ![q] = None] /\ waited' = [waited EXCEPT ![q] = 0]
      /\ stalled' = [stalled EXCEPT ![q] = 0]
  BY DEF Leaves, Answers
<1>3. /\ kind' \in [Probes -> Kinds \cup {None}] /\ waited' \in [Probes -> Nat]
      /\ stalled' \in [Probes -> 0 .. MaxStalled]
  BY <1>1, <1>2, TimeLimitType DEF FreshInv
<1>4. Queued'
  <2>1. queue' \in Seq(Probes) /\ Len(queue') = Len(queue) - 1 BY <1>2 DEF FreshInv, Queued
  <2>2. \A i \in 1 .. Len(queue') :
            /\ i + 1 \in 1 .. Len(queue)
            /\ queue'[i] = queue[i + 1] /\ queue[i + 1] \in Probes
    BY <1>2 DEF FreshInv, Queued
  <2>3. \A i \in 1 .. Len(queue') : queue'[i] # q
    <3>1. /\ Len(queue) \in Nat /\ 1 \in 1 .. Len(queue)
          /\ \A i, j \in 1 .. Len(queue) : queue[i] = queue[j] => i = j
      BY DEF FreshInv, Queued
    <3>2. \A i \in 1 .. Len(queue') : i + 1 # 1 BY <2>1, <3>1
    <3> QED BY ONLY <1>1, <2>2, <3>1, <3>2
  <2>4. \A i \in 1 .. Len(queue') : kind'[queue'[i]] # None
    BY <1>2, <2>2, <2>3 DEF FreshInv, Queued
  <2>5. \A i, j \in 1 .. Len(queue') : queue'[i] = queue'[j] => i = j
    <3>1. \A i, j \in 1 .. Len(queue') : queue[i + 1] = queue[j + 1] => i + 1 = j + 1
      BY <2>2 DEF FreshInv, Queued
    <3> QED BY <2>2, <3>1
  <2> QED BY <2>1, <2>4, <2>5 DEF Queued
<1>5. AnswersFresh'
  <2>1. waited[q] \in Nat /\ stalled[q] \in Nat BY <1>1, TimeLimitType DEF FreshInv
  <2>2. IF UsesCache(kind[q]) THEN ended + span + blocked <= CacheTTL + TimeLimit + blocked
        ELSE ended + span + blocked <= waited[q] + stalled[q]
    BY <2>1, TimeLimitType
  <2> QED BY <1>2, <2>2 DEF AnswersFresh, UsesCache
<1> QED BY <1>3, <1>4, <1>5 DEF FreshInv, EvaluationInTime

LEMMA ConcludesKeeps ==
    ASSUME FreshInv, evaluation # None, NEW failing \in SUBSET Components, Concludes(failing)
    PROVE FreshInv'
<1>1. /\ queue # <<>> /\ evaluation.elapsed \in Nat
      /\ evaluation.elapsed <= TimeLimit /\ evaluation.elapsed <= waited[Head(queue)]
      /\ evaluation.stalled \in Nat /\ evaluation.stalled <= stalled[Head(queue)]
  BY DEF FreshInv, EvaluationInTime, Evaluations
<1>2. /\ cache' = [failing |-> failing, span |-> evaluation.elapsed,
                   stalled |-> evaluation.stalled, age |-> 0]
      /\ evaluation' = None
      /\ Leaves(Head(queue), failing, 0, evaluation.elapsed, evaluation.stalled)
  BY DEF Concludes
<1>3. 0 + evaluation.elapsed <= CacheTTL + TimeLimit BY <1>1, TimeLimitType
<1>4. evaluation.stalled \in 0 .. MaxStalled
  <2>1. Head(queue) \in Probes BY <1>1 DEF FreshInv, Queued
  <2>2. stalled[Head(queue)] \in 0 .. MaxStalled BY <2>1 DEF FreshInv
  <2> QED BY <1>1, <2>2, TimeLimitType
<1>5. cache' \in Entries /\ cache'.span <= TimeLimit BY <1>1, <1>2, <1>4 DEF Entries
<1> QED BY <1>1, <1>2, <1>3, <1>4, <1>5, LeavesKeeps

LEMMA ReadsCacheKeeps ==
    ASSUME FreshInv, ReadsCache PROVE FreshInv'
<1>1. /\ queue # <<>> /\ evaluation = None /\ UsesCache(kind[Head(queue)])
      /\ Cached /\ Leaves(Head(queue), cache.failing, cache.age, cache.span, cache.stalled)
      /\ UNCHANGED <<evaluation, cache>>
  BY DEF ReadsCache
<1>2. /\ cache.age + cache.span <= CacheTTL + TimeLimit
      /\ cache.age \in Nat /\ cache.span \in Nat /\ cache.stalled \in 0 .. MaxStalled
  BY <1>1, TimeLimitType DEF Cached, FreshInv, Entries
<1>3. cache' # None => cache' \in Entries /\ cache'.span <= TimeLimit
  BY <1>1 DEF FreshInv
<1> QED BY <1>1, <1>2, <1>3, LeavesKeeps

(* The entry of the cache grows older, and nothing else of it changes.      *)
LEMMA AgedKeeps ==
    ASSUME FreshInv, NEW time \in Nat, Aged(time)
    PROVE /\ cache' # None => cache' \in Entries /\ cache'.span <= TimeLimit
          /\ cache' # None => cache'.age <= CacheTTL + 1
<1>1. \A x, y \in Nat : Min({x, y}) \in Nat /\ Min({x, y}) <= y BY DEF Min
<1>2. CASE cache # None
  <2>1. cache' = [cache EXCEPT !.age = Min({cache.age + time, CacheTTL + 1})]
    BY <1>2 DEF Aged
  <2>2. cache \in Entries /\ cache.age + time \in Nat /\ CacheTTL + 1 \in Nat
    BY <1>2, TimeLimitType DEF FreshInv, Entries
  <2>3. /\ Min({cache.age + time, CacheTTL + 1}) \in Nat
        /\ Min({cache.age + time, CacheTTL + 1}) <= CacheTTL + 1
    BY <1>1, <2>2
  <2>4. cache' \in Entries /\ cache'.span = cache.span /\ cache'.age <= CacheTTL + 1
    BY <2>1, <2>2, <2>3 DEF Entries
  <2> QED BY <1>2, <2>4 DEF FreshInv
<1>3. CASE cache = None BY <1>3 DEF Aged
<1> QED BY <1>2, <1>3

LEMMA TickKeeps ==
    ASSUME FreshInv, Tick PROVE FreshInv'
<1>1. /\ UNCHANGED <<queue, kind, stalled>> /\ answer' = None
      /\ waited' = [q \in Probes |-> IF kind[q] = None THEN 0 ELSE waited[q] + 1]
  BY DEF Tick, Silent
<1>2. waited' \in [Probes -> Nat] BY <1>1 DEF FreshInv
<1>3. Queued' BY <1>1 DEF FreshInv, Queued
<1>4. EvaluationInTime'
  <2>1. CASE evaluation = None BY <2>1 DEF Tick, EvaluationInTime
  <2>2. CASE evaluation # None
    <3>1. /\ queue # <<>> /\ evaluation.elapsed \in Nat /\ evaluation.stalled \in Nat
          /\ evaluation \in Evaluations
      BY <2>2 DEF FreshInv, EvaluationInTime, Evaluations
    <3>2. ~(evaluation.elapsed + evaluation.stalled >= TimeLimit)
      BY <2>2, <3>1 DEF Tick, Urgent, Clock
    <3>3. evaluation' = [evaluation EXCEPT !.elapsed = @ + 1] BY <2>2 DEF Tick
    <3>4. /\ evaluation' \in Evaluations
          /\ evaluation'.elapsed = evaluation.elapsed + 1
          /\ evaluation'.stalled = evaluation.stalled
      BY <3>1, <3>3 DEF Evaluations
    <3>5. Head(queue) \in Probes /\ kind[Head(queue)] # None
      BY <3>1 DEF FreshInv, Queued
    <3>6. waited'[Head(queue)] = waited[Head(queue)] + 1 BY <1>1, <3>5
    <3>7. /\ waited[Head(queue)] \in Nat /\ evaluation.elapsed <= waited[Head(queue)]
          /\ evaluation.stalled <= stalled[Head(queue)]
      BY <2>2, <3>5 DEF FreshInv, EvaluationInTime
    <3>8. evaluation.elapsed + 1 <= TimeLimit BY <3>1, <3>2, TimeLimitType
    <3> QED BY <1>1, <3>1, <3>4, <3>6, <3>7, <3>8 DEF EvaluationInTime
  <2> QED BY <2>1, <2>2
<1>5. cache' # None => cache' \in Entries /\ cache'.span <= TimeLimit
  BY AgedKeeps DEF Tick
<1>6. AnswersFresh' BY <1>1 DEF AnswersFresh
<1> QED BY <1>1, <1>2, <1>3, <1>4, <1>5, <1>6 DEF FreshInv

(* Blocked time counts for the request and for the run of its checks.       *)
LEMMA BlocksKeeps ==
    ASSUME FreshInv, NEW time \in 1 .. MaxStalled, Blocks(time) PROVE FreshInv'
<1>0. time \in Nat BY TimeLimitType
<1>1. /\ UNCHANGED <<queue, kind, waited>> /\ answer' = None
      /\ stalled' = [q \in Probes |-> IF kind[q] = None THEN 0 ELSE stalled[q] + time]
      /\ \A q \in Probes : stalled[q] + time <= MaxStalled
  BY DEF Blocks, Silent
<1>2. stalled' \in [Probes -> 0 .. MaxStalled]
  <2>1. ASSUME NEW q \in Probes
        PROVE (IF kind[q] = None THEN 0 ELSE stalled[q] + time) \in 0 .. MaxStalled
    <3>1. stalled[q] \in 0 .. MaxStalled /\ stalled[q] + time <= MaxStalled
      BY <1>1 DEF FreshInv
    <3> QED BY <1>0, <3>1, TimeLimitType
  <2> QED BY <1>1, <2>1
<1>3. Queued' BY <1>1 DEF FreshInv, Queued
<1>4. EvaluationInTime'
  <2>1. CASE evaluation = None BY <2>1 DEF Blocks, EvaluationInTime
  <2>2. CASE evaluation # None
    <3>1. /\ queue # <<>> /\ evaluation.stalled \in Nat /\ evaluation \in Evaluations
          /\ evaluation.elapsed <= TimeLimit /\ evaluation.elapsed <= waited[Head(queue)]
          /\ evaluation.stalled <= stalled[Head(queue)]
      BY <2>2 DEF FreshInv, EvaluationInTime, Evaluations
    <3>2. evaluation' = [evaluation EXCEPT !.stalled = @ + time] BY <2>2 DEF Blocks
    <3>3. /\ evaluation' \in Evaluations
          /\ evaluation'.elapsed = evaluation.elapsed
          /\ evaluation'.stalled = evaluation.stalled + time
      BY <1>0, <3>1, <3>2 DEF Evaluations
    <3>4. Head(queue) \in Probes /\ kind[Head(queue)] # None
      BY <3>1 DEF FreshInv, Queued
    <3>5. /\ stalled'[Head(queue)] = stalled[Head(queue)] + time
          /\ stalled[Head(queue)] \in Nat
      BY <1>1, <3>4, TimeLimitType DEF FreshInv
    <3>6. evaluation'.stalled <= stalled'[Head(queue)] BY <1>0, <3>1, <3>3, <3>5
    <3> QED BY <1>1, <3>1, <3>3, <3>6 DEF EvaluationInTime
  <2> QED BY <2>1, <2>2
<1>5. cache' # None => cache' \in Entries /\ cache'.span <= TimeLimit
  BY <1>0, AgedKeeps DEF Blocks
<1>6. AnswersFresh' BY <1>1 DEF AnswersFresh
<1> QED BY <1>1, <1>2, <1>3, <1>4, <1>5, <1>6 DEF FreshInv

LEMMA FreshStep ==
    ASSUME FreshInv, [AppNext]_appVars PROVE FreshInv'
<1>1. CASE \E q \in Probes, k \in Kinds : Ask(q, k) BY <1>1, AskKeeps
<1>2. CASE ReadsCache BY <1>2, ReadsCacheKeeps
<1>3. CASE BeginsChecks
  <2>1. /\ evaluation' = [running |-> Critical, failing |-> NotRunning, elapsed |-> 0,
                          stalled |-> 0]
        /\ queue # <<>> /\ answer' = None /\ UNCHANGED <<queue, kind, waited, stalled, cache>>
    BY <1>3 DEF BeginsChecks, Silent
  <2>2. waited[Head(queue)] \in Nat /\ stalled[Head(queue)] \in Nat
    BY <2>1, TimeLimitType DEF FreshInv, Queued
  <2>3. EvaluationInTime'
    BY <2>1, <2>2, TimeLimitType, NotRunningType DEF EvaluationInTime, Evaluations
  <2> QED BY <2>1, <2>3 DEF FreshInv, Queued, AnswersFresh
<1>4. CASE AllReported
  <2>1. evaluation # None /\ Concludes(evaluation.failing) BY <1>4 DEF AllReported
  <2>2. evaluation.failing \in SUBSET Components
    BY <2>1 DEF FreshInv, EvaluationInTime, Evaluations
  <2> QED BY <2>1, <2>2, ConcludesKeeps
<1>5. CASE TimesOut
  <2>1. evaluation # None BY <1>5 DEF TimesOut
  <2>2. evaluation.failing \cup evaluation.running \in SUBSET Components
    BY <2>1 DEF FreshInv, EvaluationInTime, Evaluations, Components
  <2>3. CASE Concludes(evaluation.failing \cup evaluation.running)
    BY <2>1, <2>2, <2>3, ConcludesKeeps
  <2>4. CASE Concludes(Components) BY <2>1, <2>4, ConcludesKeeps
  <2> QED BY <1>5, <2>3, <2>4 DEF TimesOut
<1>6. CASE Tick BY <1>6, TickKeeps
<1>7. ASSUME NEW c \in Critical, NEW works \in BOOLEAN, CheckEnds(c, works) PROVE FreshInv'
  <2>1. /\ evaluation # None /\ answer' = None
        /\ UNCHANGED <<queue, kind, waited, stalled, cache>>
        /\ evaluation' = [evaluation EXCEPT !.running = @ \ {c},
                               !.failing = IF works THEN @ ELSE @ \cup {c}]
    BY <1>7 DEF CheckEnds, Silent
  <2>2. /\ evaluation' \in Evaluations /\ evaluation'.elapsed = evaluation.elapsed
        /\ evaluation'.stalled = evaluation.stalled
    BY <2>1 DEF FreshInv, EvaluationInTime, Evaluations, Components
  <2>3. EvaluationInTime' BY <2>1, <2>2 DEF FreshInv, EvaluationInTime
  <2> QED BY <2>1, <2>3 DEF FreshInv, Queued, AnswersFresh
<1>8. CASE \E time \in 1 .. MaxStalled : Blocks(time) BY <1>8, BlocksKeeps
<1>9. CASE Serves
  <2>1. UNCHANGED <<queue, kind, waited, stalled, evaluation, cache>> /\ answer' = None
    BY <1>9 DEF Serves, healthVars, Silent
  <2> QED BY <2>1, FreshKept DEF AnswersFresh
<1>10. CASE ServicesStep
  <2>1. /\ UNCHANGED <<queue, kind, waited, stalled, evaluation>> /\ answer' = None
        /\ cache' \in {None, cache}
    BY <1>10 DEF ServicesStep, Silent
  <2> QED BY <2>1 DEF FreshInv, Queued, EvaluationInTime, AnswersFresh
<1>11. CASE Dies
  <2>1. /\ queue' = <<>> /\ kind' = [q \in Probes |-> None]
        /\ waited' = [q \in Probes |-> 0] /\ stalled' = [q \in Probes |-> 0]
        /\ evaluation' = None /\ cache' = None /\ answer' = None
    BY <1>11 DEF Dies, Silent
  <2> QED BY <2>1, TimeLimitType DEF FreshInv, Queued, EvaluationInTime, AnswersFresh
<1>12. CASE UNCHANGED appVars
  BY <1>12, FreshKept DEF appVars, healthVars, FreshInv, AnswersFresh
<1> QED
  BY <1>1, <1>2, <1>3, <1>4, <1>5, <1>6, <1>7, <1>8, <1>9, <1>10, <1>11, <1>12
  DEF AppNext

(* However requests wait for the lock and for the checks, and whatever      *)
(* fails or hangs: an answer from the cache is at most as old as its time   *)
(* to live and one evaluation allow, and one that must be live was found    *)
(* while the request waited, whenever and for how long handlers block the   *)
(* event loop.  (readiness, _run_all.)                                      *)
THEOREM AnswersAlwaysFresh == AppSpec => []AnswersFresh
<1>1. FreshInv => AnswersFresh BY DEF FreshInv
<1> QED BY <1>1, FreshInit, FreshStep, PTL DEF AppSpec

-----------------------------------------------------------------------------
C == Cardinality(Probes)
Elapsed == IF evaluation = None THEN 0 ELSE evaluation.elapsed

(* What a request at this place of the queue may wait for those before it.  *)
Budget(i) == TimeLimit * (C - i)

(* Of the requests there can be, those behind one in the queue have not     *)
(* delayed it.                                                              *)
TimeInv ==
    /\ FreshInv
    /\ \A q \in Probes : kind[q] = None => waited[q] = 0
    /\ \A q \in Probes : kind[q] # None => \E i \in 1 .. Len(queue) : queue[i] = q
    /\ \A i \in 1 .. Len(queue) : waited[queue[i]] <= Budget(i) + Elapsed

LEMMA Multiples ==
    ASSUME NEW n \in Nat, NEW k \in Nat
    PROVE n * k \in Nat /\ n * (k + 1) = n * k + n
OBVIOUS

LEMMA ProbesCounted == C \in Nat
BY FS_CardinalityType, HealthAssumption DEF C

LEMMA BudgetType ==
    ASSUME NEW i \in Nat, i <= C
    PROVE /\ Budget(i) \in Nat
          /\ i + 1 <= C => Budget(i) = Budget(i + 1) + TimeLimit
<1>1. C - i \in Nat BY ProbesCounted
<1>2. TimeLimit * (C - i) \in Nat BY <1>1, TimeLimitType, Multiples
<1>3. ASSUME i + 1 <= C
      PROVE TimeLimit * (C - i) = TimeLimit * (C - (i + 1)) + TimeLimit
  <2> DEFINE k == C - (i + 1)
  <2>1. k \in Nat /\ C - i = k + 1 BY <1>3, ProbesCounted
  <2>2. TimeLimit * (k + 1) = TimeLimit * k + TimeLimit BY <2>1, TimeLimitType, Multiples
  <2> QED BY <2>1, <2>2
<1> QED BY <1>2, <1>3 DEF Budget

(* A probe is in the queue once.                                            *)
LEMMA QueueBounded ==
    ASSUME NEW s \in Seq(Probes), \A i, j \in 1 .. Len(s) : s[i] = s[j] => i = j
    PROVE Len(s) \in Nat /\ Len(s) <= C
<1>1. Len(s) \in Nat /\ s \in [1 .. Len(s) -> Probes] OBVIOUS
<1>2. IsFiniteSet(1 .. Len(s)) /\ Cardinality(1 .. Len(s)) = Len(s)
  BY <1>1, FS_Interval
<1>3. ~(C < Len(s))
  <2>1. ASSUME C < Len(s) PROVE FALSE
    <3>1. \E i, j \in 1 .. Len(s) : i # j /\ s[i] = s[j]
      BY <1>1, <1>2, <2>1, HealthAssumption, FS_PigeonHole DEF C
    <3> QED BY <3>1
  <2> QED BY <2>1
<1> QED BY <1>1, <1>3, ProbesCounted

LEMMA PlacesBounded ==
    ASSUME Queued, NEW i \in 1 .. Len(queue)
    PROVE i \in Nat /\ 1 <= i /\ i <= C
<1>1. Len(queue) \in Nat /\ Len(queue) <= C BY QueueBounded DEF Queued
<1> QED BY <1>1, ProbesCounted

LEMMA ElapsedBounded ==
    ASSUME FreshInv PROVE Elapsed \in Nat /\ Elapsed <= TimeLimit
BY TimeLimitType DEF FreshInv, EvaluationInTime, Evaluations, Elapsed

LEMMA TimeSuffices ==
    ASSUME TimeInv PROVE AnsweredInTime
<1> SUFFICES ASSUME NEW q \in Probes PROVE waited[q] <= TimeLimit * C
  BY DEF AnsweredInTime, C
<1>0. Budget(0) = TimeLimit * C /\ TimeLimit * C \in Nat
  BY ProbesCounted, TimeLimitType, Multiples DEF Budget
<1>1. CASE kind[q] = None BY <1>0, <1>1 DEF TimeInv
<1>2. CASE kind[q] # None
  <2>1. PICK i \in 1 .. Len(queue) : queue[i] = q BY <1>2 DEF TimeInv
  <2>2. i \in Nat /\ 1 <= i /\ i <= C BY PlacesBounded DEF TimeInv, FreshInv
  <2>3. waited[q] <= Budget(i) + Elapsed /\ waited[q] \in Nat
    BY <2>1 DEF TimeInv, FreshInv
  <2>4. Elapsed \in Nat /\ Elapsed <= TimeLimit BY ElapsedBounded DEF TimeInv
  <2>5. Budget(i) \in Nat /\ Budget(i) + TimeLimit <= Budget(0)
    <3> DEFINE k == C - i
    <3>1. k \in Nat /\ C = k + 1 + (i - 1) /\ i - 1 \in Nat BY <2>2, ProbesCounted
    <3>2. TimeLimit * C = TimeLimit * (k + 1) + TimeLimit * (i - 1)
      BY <3>1, TimeLimitType
    <3>3. TimeLimit * (i - 1) \in Nat BY <3>1, TimeLimitType, Multiples
    <3>4. TimeLimit * (k + 1) = TimeLimit * k + TimeLimit /\ TimeLimit * k \in Nat
      BY <3>1, TimeLimitType, Multiples
    <3>5. Budget(i) = TimeLimit * k BY DEF Budget
    <3> QED BY <1>0, <3>2, <3>3, <3>4, <3>5, TimeLimitType
  <2> QED BY <1>0, <2>3, <2>4, <2>5, TimeLimitType
<1> QED BY <1>1, <1>2

LEMMA TimeInit == AppInit => TimeInv
<1> SUFFICES ASSUME AppInit PROVE TimeInv OBVIOUS
<1>1. /\ queue = <<>> /\ kind = [q \in Probes |-> None] /\ waited = [q \in Probes |-> 0]
  BY DEF AppInit
<1> QED BY <1>1, FreshInit DEF TimeInv

(* What the probes wait for changes neither their waiting nor their order.  *)
LEMMA TimeKept ==
    ASSUME TimeInv, FreshInv', UNCHANGED <<queue, kind, waited>>, Elapsed' = Elapsed
    PROVE TimeInv'
BY DEF TimeInv, Budget, C

LEMMA AskInTime ==
    ASSUME TimeInv, FreshInv', NEW q \in Probes, NEW k \in Kinds, Ask(q, k)
    PROVE TimeInv'
<1>1. UNCHANGED <<waited, evaluation>> /\ Elapsed' = Elapsed BY DEF Ask, Elapsed
<1>2. CASE UsesCache(k) /\ Cached
  <2>1. UNCHANGED <<queue, kind, waited>> BY <1>2 DEF Ask
  <2> QED BY <1>1, <2>1, TimeKept
<1>3. CASE ~(UsesCache(k) /\ Cached)
  <2>1. queue' = Append(queue, q) /\ kind' = [kind EXCEPT ![q] = k] /\ kind[q] = None
    BY <1>3 DEF Ask
  <2>2. queue \in Seq(Probes) /\ Len(queue) \in Nat BY DEF TimeInv, FreshInv, Queued
  <2>3. /\ Len(queue') = Len(queue) + 1 /\ queue'[Len(queue) + 1] = q
        /\ \A i \in 1 .. Len(queue) : queue'[i] = queue[i]
    BY <2>1, <2>2
  <2>4. \A i \in 1 .. Len(queue') : i \in 1 .. Len(queue) \/ i = Len(queue) + 1
    BY <2>2, <2>3
  <2>5. \A p \in Probes : kind'[p] = None => waited'[p] = 0
    BY <1>1, <2>1, HealthAssumption DEF TimeInv, FreshInv
  <2>6. \A p \in Probes : kind'[p] # None => \E i \in 1 .. Len(queue') : queue'[i] = p
    <3> SUFFICES ASSUME NEW p \in Probes, kind'[p] # None
                 PROVE \E i \in 1 .. Len(queue') : queue'[i] = p
      OBVIOUS
    <3>1. CASE p = q
      <4>1. Len(queue) + 1 \in 1 .. Len(queue') BY <2>2, <2>3
      <4> QED BY <2>3, <3>1, <4>1
    <3>2. CASE p # q
      <4>1. kind[p] # None BY <2>1, <3>2 DEF TimeInv, FreshInv
      <4>2. PICK i \in 1 .. Len(queue) : queue[i] = p BY <4>1 DEF TimeInv
      <4>3. i \in 1 .. Len(queue') BY <2>2, <2>3
      <4> QED BY <2>3, <4>2, <4>3
    <3> QED BY <3>1, <3>2
  <2>7. \A i \in 1 .. Len(queue') : waited'[queue'[i]] <= Budget(i) + Elapsed
    <3> SUFFICES ASSUME NEW i \in 1 .. Len(queue')
                 PROVE waited[queue'[i]] <= Budget(i) + Elapsed
      BY <1>1
    <3>1. CASE i \in 1 .. Len(queue) BY <2>3, <3>1 DEF TimeInv
    <3>2. CASE i = Len(queue) + 1
      <4>1. queue'[i] = q /\ waited[q] = 0 BY <2>1, <2>3, <3>2 DEF TimeInv
      <4>2. Len(queue') <= C BY QueueBounded DEF FreshInv, Queued
      <4>3. i \in Nat /\ i <= C BY <2>2, <2>3, <3>2, <4>2, ProbesCounted
      <4>4. Budget(i) \in Nat BY <4>3, BudgetType
      <4>5. Elapsed \in Nat BY ElapsedBounded DEF TimeInv
      <4> QED BY <4>1, <4>4, <4>5
    <3> QED BY <2>4, <3>1, <3>2
  <2> QED BY <1>1, <2>5, <2>6, <2>7 DEF TimeInv, Budget, C
<1> QED BY <1>2, <1>3

(* Those behind the head move up, and it has taken one evaluation at most.  *)
LEMMA LeavesInTime ==
    ASSUME TimeInv, FreshInv', queue # <<>>, NEW failing, NEW ended, NEW span, NEW blocked,
           Leaves(Head(queue), failing, ended, span, blocked), evaluation' = None
    PROVE TimeInv'
<1> DEFINE q == Head(queue)
<1>1. queue \in Seq(Probes) /\ Len(queue) \in Nat /\ q = queue[1] /\ q \in Probes
  BY DEF TimeInv, FreshInv, Queued
<1>2. /\ queue' = Tail(queue) /\ kind' = [kind EXCEPT ![q] = None]
      /\ waited' = [waited EXCEPT ![q] = 0]
  BY DEF Leaves
<1>3. /\ Len(queue') = Len(queue) - 1
      /\ \A i \in 1 .. Len(queue') :
            /\ i + 1 \in 1 .. Len(queue)
            /\ queue'[i] = queue[i + 1] /\ queue[i + 1] \in Probes
  BY <1>1, <1>2
<1>4. \A p \in Probes : kind'[p] = None => waited'[p] = 0
  BY <1>2 DEF TimeInv, FreshInv
<1>5. \A p \in Probes : kind'[p] # None => \E i \in 1 .. Len(queue') : queue'[i] = p
  <2> SUFFICES ASSUME NEW p \in Probes, kind'[p] # None
               PROVE \E i \in 1 .. Len(queue') : queue'[i] = p
    OBVIOUS
  <2>1. p # q /\ kind[p] # None BY <1>1, <1>2 DEF TimeInv, FreshInv
  <2>2. PICK i \in 1 .. Len(queue) : queue[i] = p BY <2>1 DEF TimeInv
  <2>3. i # 1 BY <1>1, <2>1, <2>2
  <2>4. i - 1 \in 1 .. Len(queue') /\ (i - 1) + 1 = i BY <1>1, <1>3, <2>3
  <2>5. queue'[i - 1] = p BY <1>3, <2>2, <2>4
  <2> QED BY <2>4, <2>5
<1>6. Elapsed' = 0 BY DEF Elapsed
<1>7. \A i \in 1 .. Len(queue') : waited'[queue'[i]] <= Budget(i) + 0
  <2> SUFFICES ASSUME NEW i \in 1 .. Len(queue') PROVE waited'[queue'[i]] <= Budget(i) + 0
    OBVIOUS
  <2>1. i + 1 \in 1 .. Len(queue) /\ queue'[i] = queue[i + 1] /\ queue[i + 1] \in Probes
    BY <1>3
  <2>2. i \in Nat /\ i + 1 <= C
    <3>1. i \in Nat BY <1>1, <1>3
    <3>2. i + 1 <= C BY <2>1, PlacesBounded DEF TimeInv, FreshInv
    <3> QED BY <3>1, <3>2
  <2>3. Budget(i) \in Nat /\ Budget(i + 1) \in Nat /\ Budget(i) = Budget(i + 1) + TimeLimit
    BY <2>2, BudgetType, ProbesCounted
  <2>4. waited[queue[i + 1]] <= Budget(i + 1) + Elapsed /\ waited[queue[i + 1]] \in Nat
    BY <2>1 DEF TimeInv, FreshInv
  <2>5. Elapsed \in Nat /\ Elapsed <= TimeLimit BY ElapsedBounded DEF TimeInv
  <2>6. waited'[queue'[i]] \in {0, waited[queue[i + 1]]}
    BY <1>2, <2>1 DEF TimeInv, FreshInv
  <2> QED BY <2>3, <2>4, <2>5, <2>6, TimeLimitType
<1> QED BY <1>4, <1>5, <1>6, <1>7 DEF TimeInv, Budget, C

(* Time passes for a request only while the checks take time.               *)
LEMMA TickInTime ==
    ASSUME TimeInv, FreshInv', Tick PROVE TimeInv'
<1>1. /\ UNCHANGED <<queue, kind>> /\ ~Urgent
      /\ waited' = [q \in Probes |-> IF kind[q] = None THEN 0 ELSE waited[q] + 1]
  BY DEF Tick
<1>2. \A i \in 1 .. Len(queue) : waited'[queue'[i]] <= Budget(i) + Elapsed'
  <2> SUFFICES ASSUME NEW i \in 1 .. Len(queue)
               PROVE waited'[queue[i]] <= Budget(i) + Elapsed'
    BY <1>1
  <2>1. queue[i] \in Probes /\ kind[queue[i]] # None /\ queue # <<>>
    BY DEF TimeInv, FreshInv, Queued
  <2>2. waited'[queue[i]] = waited[queue[i]] + 1 BY <1>1, <2>1
  <2>3. evaluation # None BY <1>1, <2>1 DEF Urgent
  <2>4. evaluation \in Evaluations
    BY <2>3 DEF TimeInv, FreshInv, EvaluationInTime
  <2>5. evaluation' = [evaluation EXCEPT !.elapsed = @ + 1] BY <2>3 DEF Tick
  <2>6. evaluation' # None /\ evaluation'.elapsed = evaluation.elapsed + 1
    <3>1. evaluation' # None BY <2>4, <2>5, NoneIsNoEvaluation DEF Evaluations
    <3> QED BY <2>4, <2>5, <3>1 DEF Evaluations
  <2>7. Elapsed' = Elapsed + 1 BY <2>3, <2>6 DEF Elapsed
  <2>8. waited[queue[i]] <= Budget(i) + Elapsed /\ waited[queue[i]] \in Nat
    BY <2>1 DEF TimeInv, FreshInv
  <2>9. Elapsed \in Nat BY ElapsedBounded DEF TimeInv
  <2>10. Budget(i) \in Nat BY PlacesBounded, BudgetType DEF TimeInv, FreshInv
  <2> QED BY <2>2, <2>7, <2>8, <2>9, <2>10
<1> QED BY <1>1, <1>2 DEF TimeInv, Budget, C

LEMMA TimeStep ==
    ASSUME TimeInv, [AppNext]_appVars PROVE TimeInv'
<1>0. FreshInv' BY FreshStep DEF TimeInv
<1>1. CASE \E q \in Probes, k \in Kinds : Ask(q, k) BY <1>0, <1>1, AskInTime
<1>2. CASE ReadsCache
  <2>1. /\ queue # <<>> /\ evaluation' = None
        /\ Leaves(Head(queue), cache.failing, cache.age, cache.span, cache.stalled)
    BY <1>2 DEF ReadsCache
  <2> QED BY <1>0, <2>1, LeavesInTime
<1>3. CASE \E failing : evaluation # None /\ Concludes(failing)
  <2>1. PICK failing : evaluation # None /\ Concludes(failing) BY <1>3
  <2>2. /\ evaluation' = None
        /\ Leaves(Head(queue), failing, 0, evaluation.elapsed, evaluation.stalled)
    BY <2>1 DEF Concludes
  <2>3. queue # <<>> BY <2>1 DEF TimeInv, FreshInv, EvaluationInTime
  <2> QED BY <1>0, <2>2, <2>3, LeavesInTime
<1>4. CASE AllReported \/ TimesOut BY <1>3, <1>4 DEF AllReported, TimesOut
<1>5. CASE BeginsChecks
  <2>1. UNCHANGED <<queue, kind, waited>> /\ evaluation = None
    BY <1>5 DEF BeginsChecks
  <2>2. Elapsed' = Elapsed BY <1>5 DEF BeginsChecks, Elapsed
  <2> QED BY <1>0, <2>1, <2>2, TimeKept
<1>6. CASE Tick BY <1>0, <1>6, TickInTime
<1>7. ASSUME NEW e \in Evaluations, evaluation # None, evaluation' = e,
             e.elapsed = evaluation.elapsed, UNCHANGED <<queue, kind, waited>>
      PROVE TimeInv'
  <2>1. Elapsed' = Elapsed BY <1>7, NoneIsNoEvaluation DEF Elapsed
  <2> QED BY <1>0, <1>7, <2>1, TimeKept
<1>8. CASE \/ Serves \/ ServicesStep \/ UNCHANGED appVars
  <2>1. UNCHANGED <<queue, kind, waited, evaluation>>
    BY <1>8 DEF Serves, ServicesStep, appVars, healthVars
  <2>2. Elapsed' = Elapsed BY <2>1 DEF Elapsed
  <2> QED BY <1>0, <2>1, <2>2, TimeKept
<1>10. ASSUME NEW c \in Critical, NEW works \in BOOLEAN, CheckEnds(c, works) PROVE TimeInv'
  <2> DEFINE e == [evaluation EXCEPT !.running = @ \ {c},
                                     !.failing = IF works THEN @ ELSE @ \cup {c}]
  <2>1. evaluation # None /\ UNCHANGED <<queue, kind, waited>> /\ evaluation' = e
    BY <1>10 DEF CheckEnds
  <2>2. e \in Evaluations /\ e.elapsed = evaluation.elapsed
    BY <2>1 DEF TimeInv, FreshInv, EvaluationInTime, Evaluations, Components
  <2> QED BY <1>7, <2>1, <2>2
<1>11. ASSUME NEW time \in 1 .. MaxStalled, Blocks(time) PROVE TimeInv'
  <2>1. UNCHANGED <<queue, kind, waited>> BY <1>11 DEF Blocks
  <2>2. CASE evaluation = None
    <3>1. Elapsed' = Elapsed BY <1>11, <2>2 DEF Blocks, Elapsed
    <3> QED BY <1>0, <2>1, <3>1, TimeKept
  <2>3. CASE evaluation # None
    <3> DEFINE e == [evaluation EXCEPT !.stalled = @ + time]
    <3>1. evaluation' = e BY <1>11, <2>3 DEF Blocks
    <3>2. time \in Nat BY TimeLimitType
    <3>3. evaluation \in Evaluations BY <2>3 DEF TimeInv, FreshInv, EvaluationInTime
    <3>4. e \in Evaluations /\ e.elapsed = evaluation.elapsed
      BY ONLY <3>2, <3>3 DEF Evaluations
    <3> HIDE DEF e
    <3> QED BY <1>7, <2>1, <2>3, <3>1, <3>4
  <2> QED BY <2>2, <2>3
<1>9. CASE Dies
  <2>1. /\ queue' = <<>> /\ kind' = [q \in Probes |-> None]
        /\ waited' = [q \in Probes |-> 0]
    BY <1>9 DEF Dies
  <2> QED BY <1>0, <2>1 DEF TimeInv
<1> QED
  BY <1>1, <1>2, <1>4, <1>5, <1>6, <1>8, <1>9, <1>10, <1>11 DEF AppNext

(* A probe is answered, or its process dies, before it has waited for more  *)
(* than one evaluation per probe and the time for which handlers blocked    *)
(* the event loop, even if a check hangs or gets no connection.  (_run_all.) *)
THEOREM AnswersAlwaysInTime == AppSpec => []AnsweredInTime
BY TimeInit, TimeStep, TimeSuffices, PTL DEF AppSpec

-----------------------------------------------------------------------------
(* AuditTrail                                                               *)

(* What an event says of a change.                                          *)
Truthful(e) ==
    IF e.says = "success" THEN e.of \in changed
    ELSE e.of \in changed => call[e.of].op \in WorksOn

ToBeLogged(r) ==
    /\ call[r].outcome = "ok"
    /\ call[r].op \in TellsSuccess \/ ShouldAudit(call[r].op)

(* What is known of a request at each of its stages.                        *)
Honest(r) ==
    /\ \A e \in events[r] : e.of = r /\ Truthful(e)
    /\ call[r].stage \in {"new", "called"} => r \notin changed /\ events[r] = {}
    /\ call[r].stage = "changed" => r \in changed /\ events[r] = {}
    /\ call[r].stage = "returned" =>
          /\ call[r].outcome = "ok" => r \in changed
          /\ call[r].outcome # "ok" /\ r \in changed => call[r].op \in WorksOn
          /\ call[r].outcome = "ok" /\ call[r].op \in TellsSuccess
                => Told(r, "success", "handler") \in events[r]
    /\ call[r].stage \in {"flushed", "answered"} /\ ToBeLogged(r) => Succeeded(r)

TrailInv ==
    /\ call \in [Requests -> [stage : InFlight \cup {"new", "answered", "gone"},
                              op : Ops \cup {None}, outcome : Outcomes \cup {None}]]
    /\ events \in [Requests -> SUBSET Event]
    /\ \A e \in audit_logs : e.of \in Requests /\ call[e.of].stage \notin {"new", "called"}
    /\ LogTellsTruth
    /\ \A r \in Requests : Honest(r)

LEMMA InvSuffices == TrailInv => LogTellsTruth /\ AnswersAreLogged
BY DEF TrailInv, AnswersAreLogged, Honest, ToBeLogged

LEMMA TrailInvInit == TrailInit => TrailInv
BY DEF TrailInit, TrailInv, InFlight, Ops, Outcomes, Event, LogTellsTruth, Honest, ToBeLogged

(* A request after it came to another stage.                                *)
LEMMA Coming ==
    ASSUME TrailInv, NEW r \in Requests,
           NEW stage \in InFlight \cup {"answered", "gone"}, NEW outcome \in Outcomes \cup {None},
           Comes(r, stage, outcome)
    PROVE  /\ call' \in [Requests -> [stage : InFlight \cup {"new", "answered", "gone"},
                                      op : Ops \cup {None}, outcome : Outcomes \cup {None}]]
           /\ call'[r].stage = stage /\ call'[r].outcome = outcome /\ call'[r].op = call[r].op
           /\ \A x \in Requests \ {r} : call'[x] = call[x]
BY DEF Comes, TrailInv

(* A step of one request leaves the others, and the rows, as they were: the  *)
(* request does not come back to its beginning, and changes nothing of which *)
(* a row tells.                                                              *)
LEMMA OneRequest ==
    ASSUME TrailInv, NEW r \in Requests,
           call' \in [Requests -> [stage : InFlight \cup {"new", "answered", "gone"},
                                   op : Ops \cup {None}, outcome : Outcomes \cup {None}]],
           \A x \in Requests \ {r} : call'[x] = call[x],
           events' \in [Requests -> SUBSET Event],
           \A x \in Requests \ {r} : events'[x] = events[x],
           \A x \in Requests \ {r} : x \in changed' <=> x \in changed,
           audit_logs \subseteq audit_logs',
           \/ call[r].stage \in {"new", "called"} /\ audit_logs' = audit_logs
           \/ /\ call'[r].op = call[r].op
              /\ call'[r].stage \notin {"new", "called"}
              /\ r \in changed' <=> r \in changed
              /\ \A e \in audit_logs' \ audit_logs : e.of = r /\ Truthful(e)',
           Honest(r)'
    PROVE  TrailInv'
<1>1. ASSUME NEW x \in Requests, x # r PROVE Honest(x)'
  <2>1. Succeeded(x) => Succeeded(x)'
    BY DEF Succeeded
  <2>2. \A e \in events[x] : e.of = x /\ Truthful(e)
    BY DEF TrailInv, Honest
  <2>3. \A e \in events'[x] : e.of = x /\ Truthful(e)'
    BY <1>1, <2>2 DEF Truthful
  <2> QED
    BY <1>1, <2>1, <2>3 DEF TrailInv, Honest, ToBeLogged
<1>2. ASSUME NEW e \in audit_logs
      PROVE  e.of \in Requests /\ call'[e.of].stage \notin {"new", "called"} /\ Truthful(e)'
  <2>1. e.of \in Requests /\ call[e.of].stage \notin {"new", "called"} /\ Truthful(e)
    BY DEF TrailInv, LogTellsTruth, Truthful
  <2> QED
    BY <2>1 DEF Truthful
<1>3. ASSUME NEW e \in audit_logs', e \notin audit_logs
      PROVE  e.of \in Requests /\ call'[e.of].stage \notin {"new", "called"} /\ Truthful(e)'
  BY <1>3
<1>4. \A e \in audit_logs' : e.of \in Requests /\ call'[e.of].stage \notin {"new", "called"}
  BY <1>2, <1>3
<1>5. LogTellsTruth'
  BY <1>2, <1>3 DEF LogTellsTruth, Truthful
<1> QED
  BY <1>1, <1>4, <1>5 DEF TrailInv

LEMMA Telling ==
    ASSUME TrailInv, NEW r \in Requests, NEW says \in {"success", "failure"}, 
           Tells(r, Told(r, says, "handler"))
    PROVE  /\ events' \in [Requests -> SUBSET Event]
           /\ events'[r] = events[r] \cup {Told(r, says, "handler")}
           /\ \A x \in Requests \ {r} : events'[x] = events[x]
<1>1. Told(r, says, "handler") \in Event
  BY DEF Told, Event
<1> QED
  BY <1>1 DEF Tells, TrailInv

LEMMA DispatchKeeps ==
    ASSUME TrailInv, NEW r \in Requests, NEW o \in Calls, Dispatch(r, o)
    PROVE  TrailInv'
<1>1. PICK new \in [stage : {"called", "returned"}, op : Ops, outcome : {None, "raised"}] :
        /\ call' = [call EXCEPT ![r] = new]
        /\ new.stage = "returned" => new.outcome = "raised"
  <2>1. o \in Ops
    BY AuditAssumption
  <2> QED
    BY <2>1 DEF Dispatch
<1>2. call[r].stage = "new" /\ UNCHANGED <<events, changed, audit_logs>>
  BY DEF Dispatch
<1>3. r \notin changed /\ events[r] = {}
  BY <1>2 DEF TrailInv, Honest
<1>4. call' \in [Requests -> [stage : InFlight \cup {"new", "answered", "gone"},
                              op : Ops \cup {None}, outcome : Outcomes \cup {None}]]
  BY <1>1 DEF TrailInv, InFlight, Outcomes
<1>5. call'[r] = new /\ \A x \in Requests \ {r} : call'[x] = call[x]
  BY <1>1 DEF TrailInv
<1>6. Honest(r)'
  BY <1>1, <1>2, <1>3, <1>5 DEF Honest
<1>7. events \in [Requests -> SUBSET Event]
  BY DEF TrailInv
<1> QED
  BY <1>2, <1>4, <1>5, <1>6, <1>7, OneRequest

LEMMA DeclineKeeps ==
    ASSUME TrailInv, NEW r \in Requests, NEW outcome \in {"error", "raised"}, Decline(r, outcome)
    PROVE  TrailInv'
<1>1. /\ call[r].stage = "called" /\ Comes(r, "returned", outcome)
      /\ UNCHANGED <<changed, audit_logs>>
  BY DEF Decline
<1>2. "returned" \in InFlight \cup {"answered", "gone"} /\ outcome \in Outcomes \cup {None}
  BY DEF InFlight, Outcomes
<1>3. /\ call' \in [Requests -> [stage : InFlight \cup {"new", "answered", "gone"},
                                 op : Ops \cup {None}, outcome : Outcomes \cup {None}]]
      /\ call'[r].stage = "returned" /\ call'[r].outcome = outcome
      /\ \A x \in Requests \ {r} : call'[x] = call[x]
  BY <1>1, <1>2, Coming
<1>4. r \notin changed /\ events[r] = {}
  BY <1>1 DEF TrailInv, Honest
<1>5. /\ events' \in [Requests -> SUBSET Event]
      /\ events'[r] \subseteq {Told(r, "failure", "handler")}
      /\ \A x \in Requests \ {r} : events'[x] = events[x]
  <2>1. CASE Tells(r, Told(r, "failure", "handler"))
    BY <1>4, <2>1, Telling
  <2>2. CASE UNCHANGED events
    BY <1>4, <2>2 DEF TrailInv
  <2> QED
    BY <2>1, <2>2 DEF Decline
<1>6. Honest(r)'
  <2>1. \A e \in events'[r] : e.of = r /\ e.says = "failure"
    BY <1>5 DEF Told
  <2> QED
    BY <1>1, <1>3, <1>4, <2>1 DEF Honest, Truthful
<1> QED
  BY <1>1, <1>3, <1>5, <1>6, OneRequest

LEMMA CommitKeeps ==
    ASSUME TrailInv, NEW r \in Requests, Commit(r)
    PROVE  TrailInv'
<1>1. /\ call[r].stage = "called" /\ Comes(r, "changed", None)
      /\ changed' = changed \cup {r} /\ UNCHANGED <<events, audit_logs>>
  BY DEF Commit
<1>2. "changed" \in InFlight \cup {"answered", "gone"} /\ None \in Outcomes \cup {None}
  BY DEF InFlight
<1>3. /\ call' \in [Requests -> [stage : InFlight \cup {"new", "answered", "gone"},
                                 op : Ops \cup {None}, outcome : Outcomes \cup {None}]]
      /\ call'[r].stage = "changed"
      /\ \A x \in Requests \ {r} : call'[x] = call[x]
  BY <1>1, <1>2, Coming
<1>4. events[r] = {} /\ events \in [Requests -> SUBSET Event]
  BY <1>1 DEF TrailInv, Honest
<1>5. Honest(r)'
  BY <1>1, <1>3, <1>4 DEF Honest
<1> QED
  BY <1>1, <1>3, <1>4, <1>5, OneRequest

LEMMA SucceedKeeps ==
    ASSUME TrailInv, NEW r \in Requests, Succeed(r)
    PROVE  TrailInv'
<1>1. /\ call[r].stage = "changed" /\ Comes(r, "returned", "ok")
      /\ UNCHANGED <<changed, audit_logs>>
  BY DEF Succeed
<1>2. "returned" \in InFlight \cup {"answered", "gone"} /\ "ok" \in Outcomes \cup {None}
  BY DEF InFlight, Outcomes
<1>3. /\ call' \in [Requests -> [stage : InFlight \cup {"new", "answered", "gone"},
                                 op : Ops \cup {None}, outcome : Outcomes \cup {None}]]
      /\ call'[r].stage = "returned" /\ call'[r].outcome = "ok" /\ call'[r].op = call[r].op
      /\ \A x \in Requests \ {r} : call'[x] = call[x]
  BY <1>1, <1>2, Coming
<1>4. r \in changed /\ events[r] = {}
  BY <1>1 DEF TrailInv, Honest
<1>5. /\ events' \in [Requests -> SUBSET Event]
      /\ events'[r] \subseteq {Told(r, "success", "handler")}
      /\ call[r].op \in TellsSuccess => Told(r, "success", "handler") \in events'[r]
      /\ \A x \in Requests \ {r} : events'[x] = events[x]
  <2>1. CASE call[r].op \in TellsSuccess
    BY <1>4, <2>1, Telling DEF Succeed
  <2>2. CASE call[r].op \notin TellsSuccess
    BY <1>4, <2>2 DEF Succeed, TrailInv
  <2> QED
    BY <2>1, <2>2
<1>6. Honest(r)'
  <2>1. \A e \in events'[r] : e.of = r /\ e.says = "success"
    BY <1>5 DEF Told
  <2> QED
    BY <1>1, <1>3, <1>4, <1>5, <2>1 DEF Honest, Truthful, Told
<1> QED
  BY <1>1, <1>3, <1>5, <1>6, OneRequest

LEMMA FailLateKeeps ==
    ASSUME TrailInv, NEW r \in Requests, NEW outcome \in {"error", "raised"}, FailLate(r, outcome)
    PROVE  TrailInv'
<1>1. /\ call[r].stage = "changed" /\ Comes(r, "returned", outcome)
      /\ call[r].op \in WorksOn /\ UNCHANGED <<events, changed, audit_logs>>
  BY DEF FailLate
<1>2. "returned" \in InFlight \cup {"answered", "gone"} /\ outcome \in Outcomes \cup {None}
  BY DEF InFlight, Outcomes
<1>3. /\ call' \in [Requests -> [stage : InFlight \cup {"new", "answered", "gone"},
                                 op : Ops \cup {None}, outcome : Outcomes \cup {None}]]
      /\ call'[r].stage = "returned" /\ call'[r].outcome = outcome /\ call'[r].op = call[r].op
      /\ \A x \in Requests \ {r} : call'[x] = call[x]
  BY <1>1, <1>2, Coming
<1>4. events[r] = {} /\ events \in [Requests -> SUBSET Event]
  BY <1>1 DEF TrailInv, Honest
<1>5. Honest(r)'
  BY <1>1, <1>3, <1>4 DEF Honest
<1> QED
  BY <1>1, <1>3, <1>4, <1>5, OneRequest

(* The event of the middleware is as true as those of the handler, and with *)
(* it a change that is to be logged has one.                                *)
LEMMA AddedIsTrue ==
    ASSUME TrailInv, NEW r \in Requests, call[r].stage = "returned"
    PROVE  /\ Added(r) \subseteq Event
           /\ \A e \in Added(r) : e.of = r /\ Truthful(e)
           /\ ToBeLogged(r) => \E e \in events[r] \cup Added(r) : e.of = r /\ e.says = "success"
<1>1. Honest(r)
  BY DEF TrailInv
<1>2. Added(r) \subseteq Event
  BY DEF Added, Told, Event
<1>3. \A e \in Added(r) : e.of = r /\ Truthful(e)
  BY <1>1 DEF Added, Told, Truthful, Honest
<1>4. ASSUME ToBeLogged(r)
      PROVE  \E e \in events[r] \cup Added(r) : e.of = r /\ e.says = "success"
  <2>1. CASE call[r].op \in TellsSuccess
    BY <1>1, <1>4, <2>1 DEF Honest, ToBeLogged, Told
  <2>2. CASE call[r].op \notin TellsSuccess
    <3>1. ShouldAudit(call[r].op) /\ call[r].outcome = "ok"
      BY <1>4, <2>2 DEF ToBeLogged
    <3>2. Told(r, "success", "middleware") \in Added(r)
      BY <3>1, Zenon DEF Added
    <3> QED
      BY <3>2 DEF Told
  <2> QED
    BY <2>1, <2>2
<1> QED
  BY <1>2, <1>3, <1>4

LEMMA FlushKeeps ==
    ASSUME TrailInv, NEW r \in Requests, Flush(r)
    PROVE  TrailInv'
<1>1. PICK stage \in {"flushed", "unlogged"} :
        /\ Comes(r, stage, call[r].outcome)
        /\ stage = "flushed" => audit_logs' = audit_logs \cup events'[r]
        /\ stage = "unlogged" => audit_logs' = audit_logs
  BY DEF Flush
<1>2. /\ call[r].stage = "returned" /\ UNCHANGED changed
      /\ events' = [events EXCEPT ![r] = @ \cup Added(r)]
  BY DEF Flush
<1>3. stage \in InFlight \cup {"answered", "gone"} /\ call[r].outcome \in Outcomes \cup {None}
  BY DEF InFlight, TrailInv
<1>4. /\ call' \in [Requests -> [stage : InFlight \cup {"new", "answered", "gone"},
                                 op : Ops \cup {None}, outcome : Outcomes \cup {None}]]
      /\ call'[r].stage = stage /\ call'[r].outcome = call[r].outcome
      /\ call'[r].op = call[r].op
      /\ \A x \in Requests \ {r} : call'[x] = call[x]
  BY <1>1, <1>3, Coming
<1>5. /\ events' \in [Requests -> SUBSET Event] /\ events'[r] = events[r] \cup Added(r)
      /\ \A x \in Requests \ {r} : events'[x] = events[x]
  BY <1>2, AddedIsTrue DEF TrailInv
<1>6. \A e \in events'[r] : e.of = r /\ Truthful(e)'
  <2>1. \A e \in events'[r] : e.of = r /\ Truthful(e)
    BY <1>2, <1>5, AddedIsTrue DEF TrailInv, Honest
  <2> QED
    BY <1>2, <1>4, <2>1 DEF Truthful
<1>7. stage = "flushed" /\ ToBeLogged(r)' => Succeeded(r)'
  <2>1. ToBeLogged(r)' => ToBeLogged(r)
    BY <1>4 DEF ToBeLogged
  <2> QED
    BY <1>1, <1>2, <1>5, <2>1, AddedIsTrue DEF Succeeded
<1>8. Honest(r)'
  BY <1>4, <1>6, <1>7 DEF Honest
<1>9. /\ audit_logs \subseteq audit_logs'
      /\ \A e \in audit_logs' \ audit_logs : e.of = r /\ Truthful(e)'
  BY <1>1, <1>6
<1> QED
  BY <1>2, <1>4, <1>5, <1>8, <1>9, OneRequest

LEMMA RespondKeeps ==
    ASSUME TrailInv, NEW r \in Requests, Respond(r)
    PROVE  TrailInv'
<1>1. PICK stage \in {"answered", "gone"} :
        /\ Comes(r, stage, call[r].outcome)
        /\ stage = "answered" => call[r].stage = "flushed"
  BY DEF Respond
<1>2. call[r].stage \in {"flushed", "unlogged"} /\ UNCHANGED <<events, changed, audit_logs>>
  BY DEF Respond
<1>3. stage \in InFlight \cup {"answered", "gone"} /\ call[r].outcome \in Outcomes \cup {None}
  BY DEF TrailInv
<1>4. /\ call' \in [Requests -> [stage : InFlight \cup {"new", "answered", "gone"},
                                 op : Ops \cup {None}, outcome : Outcomes \cup {None}]]
      /\ call'[r].stage = stage /\ call'[r].outcome = call[r].outcome
      /\ call'[r].op = call[r].op
      /\ \A x \in Requests \ {r} : call'[x] = call[x]
  BY <1>1, <1>3, Coming
<1>5. Honest(r) /\ events \in [Requests -> SUBSET Event]
  BY DEF TrailInv
<1>6. Honest(r)'
  BY <1>1, <1>2, <1>4, <1>5 DEF Honest, Truthful, ToBeLogged, Succeeded
<1> QED
  BY <1>2, <1>4, <1>5, <1>6, OneRequest

(* The end of the process: what is not flushed is gone, with its request.   *)
LEMMA EndsKeeps ==
    ASSUME TrailInv, Ends
    PROVE  TrailInv'
<1>1. /\ call' \in [Requests -> [stage : InFlight \cup {"new", "answered", "gone"},
                                 op : Ops \cup {None}, outcome : Outcomes \cup {None}]]
      /\ \A r \in Requests : /\ call'[r].op = call[r].op
                             /\ call'[r].outcome = call[r].outcome
                             /\ \/ call'[r].stage = "gone"
                                \/ call[r].stage \notin InFlight /\ call'[r].stage = call[r].stage
  BY DEF Ends, TrailInv
<1>2. /\ events' \in [Requests -> SUBSET Event] /\ \A r \in Requests : events'[r] = {}
      /\ UNCHANGED <<changed, audit_logs>>
  BY DEF Ends
<1>3. LogTellsTruth'
  BY <1>1, <1>2 DEF TrailInv, LogTellsTruth
<1>4. ASSUME NEW r \in Requests PROVE Honest(r)'
  BY <1>1, <1>2 DEF TrailInv, Honest, Truthful, ToBeLogged, Succeeded, InFlight
<1>5. \A e \in audit_logs' : e.of \in Requests /\ call'[e.of].stage \notin {"new", "called"}
  BY <1>1, <1>2 DEF TrailInv
<1> QED
  BY <1>1, <1>2, <1>3, <1>4, <1>5 DEF TrailInv

LEMMA StandsStill ==
    ASSUME TrailInv, UNCHANGED trailVars PROVE TrailInv'
BY DEF TrailInv, trailVars, LogTellsTruth, Honest, Truthful, ToBeLogged, Succeeded

LEMMA TrailInvKept == TrailInv /\ [TrailNext]_<<appVars, trailVars>> => TrailInv'
<1> SUFFICES ASSUME TrailInv, [TrailNext]_<<appVars, trailVars>> PROVE TrailInv'
  OBVIOUS
<1>1. CASE RequestStep
  BY <1>1, DispatchKeeps, DeclineKeeps, CommitKeeps, SucceedKeeps, FailLateKeeps, FlushKeeps,
     RespondKeeps DEF RequestStep
<1>2. CASE ProcessStep
  BY <1>2, EndsKeeps, StandsStill DEF ProcessStep
<1>3. CASE UNCHANGED trailVars
  BY <1>3, StandsStill
<1> QED
  BY <1>1, <1>2, <1>3 DEF TrailNext

-----------------------------------------------------------------------------
(* Whatever requests, sockets and probes do to the connections they share,  *)
(* whichever flushes fail and whenever the process dies: a row tells of a   *)
(* success only if the change was committed, and of a failure of a          *)
(* committed change only if its handler failed afterwards.  (Fire after     *)
(* commit in the handlers, flush_events.)                                   *)
THEOREM LogAlwaysTellsTruth == TrailSpec => []LogTellsTruth
<1>1. TrailInit => TrailInv
  BY TrailInvInit
<1> QED
  BY <1>1, TrailInvKept, InvSuffices, PTL DEF TrailSpec

(* A client with an answer finds its change in the log, unless the flush    *)
(* failed.  (AuditMiddleware.dispatch flushes before it returns.)           *)
THEOREM AnswersAlwaysLogged == TrailSpec => []AnswersAreLogged
<1>1. TrailInit => TrailInv
  BY TrailInvInit
<1> QED
  BY <1>1, TrailInvKept, InvSuffices, PTL DEF TrailSpec

(* The process with its requests is the process of HealthChecks: what is    *)
(* proved of that one, of its sockets, services and probes, is true of it.  *)
(* (Requests only take connections; AuditMiddleware lets probes pass.)      *)
THEOREM TrailImplementsApp == TrailSpec => AppSpec
<1>1. TrailInit => AppInit
  BY DEF TrailInit
<1>2. [TrailNext]_<<appVars, trailVars>> => [AppNext]_appVars
  BY DEF TrailNext, ProcessStep, RequestStep
<1> QED
  BY <1>1, <1>2, PTL DEF TrailSpec, AppSpec

-----------------------------------------------------------------------------
(* Types                                                                     *)

LEMMA LifespanTyped ==
    ASSUME LifespanTypeOK, Accounted, LifespanNext \/ ProcessDies
    PROVE  LifespanTypeOK'
<1>1. Accounted'
  BY LifespanKeeps, DeathKeeps
<1>2. phase' \in Phases /\ held' \in BOOLEAN /\ loops' \subseteq {"backups", "versions"}
      /\ errors' \subseteq Services
  BY <1>1 DEF Accounted, Halted, Loops, Services, Optional
<1>3. ready' \subseteq Services \ {"manager"} /\ failed' \subseteq Optional
  <2>1. ready' \subseteq ready \cup {"database"} \cup Optional
        /\ failed' \subseteq failed \cup Optional
    BY DEF ProcessDies, NoService, LifespanNext, Launch, InitializeDatabase, DatabaseFails,
       MigrateVisibility, InitializeIntegration, InitializeBackups, InitializeWebsockets,
       InitializeVersions, BeginShutdown, StopManager, StopBackups, StopWebsockets,
       StopVersions, Started, FailsToStart, FailsToStop, Stopped, statusVars, Optional
  <2> QED
    BY <2>1 DEF LifespanTypeOK, Services, Optional
<1> QED
  BY <1>2, <1>3 DEF LifespanTypeOK

Replies ==
    [kind : Kinds, code : {200, 503}, age : Nat, stalled : 0 .. MaxStalled, waited : Nat]

(* What the invariants of the probes leave to be said.                       *)
ProbesTyped ==
    /\ LifespanTypeOK
    /\ present \in Scenarios
    /\ cache # None => cache.age <= CacheTTL + 1
    /\ answer \in {None} \cup Replies

LEMMA AnswerTyped ==
    ASSUME NEW k \in Kinds, NEW failing, NEW ended \in Nat, NEW span \in Nat,
           NEW blocked \in 0 .. MaxStalled, NEW time \in Nat,
           Answers(k, failing, ended, span, blocked, time)
    PROVE  answer' \in Replies
<1>1. ended + span + blocked \in Nat
  BY TimeLimitType
<1> QED
  BY <1>1 DEF Answers, StatusCode, Replies

LEMMA TimesType ==
    ASSUME TimeInv
    PROVE  /\ \A q \in Probes : waited[q] \in Times
           /\ 0 \in Times
<1>1. TimeLimit \in Nat /\ Cardinality(Probes) \in Nat
  BY TimeLimitType, ProbesCounted DEF C
<1>2. TimeLimit * Cardinality(Probes) \in Nat
  BY <1>1, Multiples
<1>3. \A q \in Probes : waited[q] \in Nat /\ waited[q] <= TimeLimit * Cardinality(Probes)
  BY TimeSuffices DEF AnsweredInTime, TimeInv, FreshInv
<1> QED
  BY <1>2, <1>3 DEF Times

LEMMA ProbesStep ==
    ASSUME ProbesTyped, TimeInv, Accounted, [AppNext]_appVars
    PROVE  ProbesTyped'
<1>1. CacheTTL \in Nat /\ TimeLimit \in Nat /\ \A x, y \in Nat : Min({x, y}) \in {x, y}
  <2>1. ASSUME NEW x \in Nat, NEW y \in Nat PROVE Min({x, y}) \in {x, y}
    BY DEF Min
  <2> QED
    BY <2>1, TimeLimitType
<1>2. FreshInv /\ \A q \in Probes : waited[q] \in Times
  BY TimesType DEF TimeInv
<1>3. ASSUME queue # <<>>, NEW failing, NEW ended \in Nat, NEW span \in Nat,
             NEW blocked \in 0 .. MaxStalled, Leaves(Head(queue), failing, ended, span, blocked)
      PROVE  answer' \in Replies
  <2>1. /\ Head(queue) \in Probes /\ kind[Head(queue)] \in Kinds
        /\ waited[Head(queue)] + stalled[Head(queue)] \in Nat
    BY <1>2, <1>3, TimeLimitType DEF FreshInv, Queued
  <2> QED
    BY <1>2, <1>3, <2>1, AnswerTyped DEF Leaves
<1>4. ASSUME NEW q \in Probes, NEW k \in Kinds, Ask(q, k) PROVE ProbesTyped'
  <2>1. UNCHANGED <<lifespanVars, present, cache>>
    BY <1>4 DEF Ask
  <2>2. answer' \in {None} \cup Replies
    <3>1. CASE UsesCache(k) /\ Cached
      <4>1. cache.age \in Nat /\ cache.span \in Nat /\ cache.stalled \in 0 .. MaxStalled
        BY <1>2, <3>1 DEF FreshInv, Cached, Entries
      <4> QED
        BY <1>4, <3>1, <4>1, AnswerTyped DEF Ask
    <3>2. CASE ~(UsesCache(k) /\ Cached)
      BY <1>4, <3>2 DEF Ask, Silent
    <3> QED
      BY <3>1, <3>2
  <2> QED
    BY <2>1, <2>2 DEF ProbesTyped, LifespanTypeOK, lifespanVars, statusVars
<1>5. CASE ReadsCache
  <2>1. /\ UNCHANGED <<lifespanVars, present, cache>>
        /\ queue # <<>>
        /\ Leaves(Head(queue), cache.failing, cache.age, cache.span, cache.stalled)
        /\ cache # None
    BY <1>5 DEF ReadsCache, Cached
  <2>2. cache.age \in Nat /\ cache.span \in Nat /\ cache.stalled \in 0 .. MaxStalled
    BY <1>2, <2>1 DEF FreshInv, Entries
  <2> QED
    BY <1>3, <2>1, <2>2 DEF ProbesTyped, LifespanTypeOK, lifespanVars, statusVars
<1>6. ASSUME NEW failing, evaluation # None, Concludes(failing) PROVE ProbesTyped'
  <2>1. /\ queue # <<>> /\ evaluation.elapsed \in Nat
        /\ evaluation.stalled \in Nat /\ evaluation.stalled <= stalled[Head(queue)]
        /\ stalled[Head(queue)] \in 0 .. MaxStalled
    BY <1>2, <1>6 DEF FreshInv, EvaluationInTime, Evaluations, Queued
  <2>2. /\ UNCHANGED <<lifespanVars, present>> /\ cache'.age = 0
        /\ Leaves(Head(queue), failing, 0, evaluation.elapsed, evaluation.stalled)
    BY <1>6 DEF Concludes
  <2>3. evaluation.stalled \in 0 .. MaxStalled
    BY <2>1, TimeLimitType
  <2> QED
    BY <1>1, <1>3, <2>1, <2>2, <2>3 DEF ProbesTyped, LifespanTypeOK, lifespanVars, statusVars
<1>7. CASE AllReported \/ TimesOut
  BY <1>6, <1>7 DEF AllReported, TimesOut
<1>8. CASE Tick \/ \E time \in 1 .. MaxStalled : Blocks(time)
  <2>1. PICK time \in Nat : Aged(time)
    BY <1>8, TimeLimitType DEF Tick, Blocks
  <2>2. UNCHANGED <<lifespanVars, present>> /\ answer' = None
    BY <1>8 DEF Tick, Blocks, Silent
  <2>3. cache' # None => cache'.age <= CacheTTL + 1
    BY <1>2, <2>1, AgedKeeps
  <2> QED
    BY <2>2, <2>3 DEF ProbesTyped, LifespanTypeOK, lifespanVars, statusVars
<1>9. CASE \/ BeginsChecks \/ Serves
           \/ \E c \in Critical, works \in BOOLEAN : CheckEnds(c, works)
  <2>1. UNCHANGED <<lifespanVars, present, cache>> /\ answer' = None
    BY <1>9 DEF BeginsChecks, Serves, CheckEnds, Silent, healthVars
  <2> QED
    BY <2>1 DEF ProbesTyped, LifespanTypeOK, lifespanVars, statusVars
<1>10. CASE ServicesStep \/ Dies
  <2>1. LifespanTypeOK'
    BY <1>10, LifespanTyped DEF ServicesStep, Dies, ProbesTyped
  <2>2. UNCHANGED present /\ cache' \in {None, cache} /\ answer' = None
    BY <1>10 DEF ServicesStep, Dies, Silent
  <2> QED
    BY <2>1, <2>2 DEF ProbesTyped
<1>11. CASE UNCHANGED appVars
  BY <1>11 DEF ProbesTyped, LifespanTypeOK, Times, TimeLimit, appVars, healthVars, lifespanVars,
     statusVars
<1> QED
  BY <1>4, <1>5, <1>7, <1>8, <1>9, <1>10, <1>11 DEF AppNext

(* What the services are, what a probe waits for and how long, and what the  *)
(* cache and an answer say keep their types and ranges; a run of the checks  *)
(* takes no longer than its limit.  (ServiceStatus, HealthCheckService.)     *)
THEOREM ProbesTypeCorrect == AppSpec => []HealthTypeOK
<1> DEFINE AllInv == ProbesTyped /\ TimeInv /\ Accounted
<1>1. AppInit => AllInv
  <2>1. AppInit => ProbesTyped
    BY DEF AppInit, LifespanInit, ProbesTyped, LifespanTypeOK, Phases, Services, Optional, Following
  <2> QED
    BY <2>1, TimeInit, AccountedInit
<1>2. AllInv /\ [AppNext]_appVars => AllInv'
  BY ProbesStep, TimeStep, AccountedStep
<1>3. AllInv => HealthTypeOK
  <2> SUFFICES ASSUME AllInv PROVE HealthTypeOK
    OBVIOUS
  <2>1. /\ queue \in Seq(Probes) /\ kind \in [Probes -> Kinds \cup {None}]
        /\ evaluation # None => evaluation \in Evaluations /\ evaluation.elapsed <= TimeLimit
        /\ stalled \in [Probes -> 0 .. MaxStalled]
    BY DEF TimeInv, FreshInv, Queued, EvaluationInTime
  <2>2. waited \in [Probes -> Times]
    BY TimesType DEF TimeInv, FreshInv
  <2>3. ASSUME cache # None
        PROVE  cache \in [failing : SUBSET Components, span : 0 .. TimeLimit,
                          stalled : 0 .. MaxStalled, age : 0 .. CacheTTL + 1]
    <3>1. /\ cache \in Entries
          /\ cache.span <= TimeLimit /\ cache.age <= CacheTTL + 1
      BY <2>3 DEF TimeInv, FreshInv, ProbesTyped
    <3> QED
      BY <3>1, TimeLimitType DEF Entries
  <2> QED
    BY <2>1, <2>2, <2>3 DEF HealthTypeOK, ProbesTyped, Replies
<1> HIDE DEF AllInv
<1> QED
  BY <1>1, <1>2, <1>3, PTL DEF AppSpec

-----------------------------------------------------------------------------
(* The connections that sockets, probes and requests share                   *)

(* Only requests in flight hold a connection, and together with the sockets  *)
(* and the detailed probes never more than there are.                        *)
PoolShared ==
    /\ session \subseteq {r \in Requests : call[r].stage \in InFlight}
    /\ TakenByOthers + Cardinality(session) <= PoolSize

LEMMA OneMore ==
    ASSUME NEW S, IsFiniteSet(S), NEW x, NEW T \in SUBSET (S \cup {x})
    PROVE  IsFiniteSet(T) /\ Cardinality(T) \in Nat /\ Cardinality(T) <= Cardinality(S) + 1
<1>1. /\ IsFiniteSet(S \cup {x}) /\ Cardinality(S) \in Nat
      /\ Cardinality(S \cup {x}) = IF x \in S THEN Cardinality(S) ELSE Cardinality(S) + 1
  BY FS_AddElement, FS_CardinalityType
<1>2. IsFiniteSet(T) /\ Cardinality(T) <= Cardinality(S \cup {x}) /\ Cardinality(T) \in Nat
  BY <1>1, FS_Subset, FS_CardinalityType
<1> QED
  BY <1>1, <1>2

Details == {q \in Probes : kind[q] = "detail"}

LEMMA TakenType ==
    ASSUME TypeOK
    PROVE  /\ IsFiniteSet(pool) /\ Cardinality(pool) \in Nat
           /\ IsFiniteSet(Details) /\ Cardinality(Details) \in Nat
           /\ TakenByOthers = Cardinality(pool) + Cardinality(Details)
<1>1. pool \subseteq Sockets /\ Details \subseteq Probes
  BY DEF TypeOK, Details
<1>2. IsFiniteSet(pool) /\ IsFiniteSet(Details)
  BY <1>1, FS_Subset, ConnectionsAssumption, HealthAssumption
<1> QED
  BY <1>2, FS_CardinalityType DEF TakenByOthers, Details

(* A step takes one connection at most.                                      *)
LEMMA TakenByOne ==
    ASSUME TypeOK, FreshInv, [AppNext]_appVars
    PROVE  TakenByOthers' \in Nat /\ TakenByOthers' <= TakenByOthers + 1
<1>1. ASSUME NEW S, IsFiniteSet(S), NEW T \in SUBSET S
      PROVE  IsFiniteSet(T) /\ Cardinality(T) \in Nat /\ Cardinality(T) <= Cardinality(S)
  BY <1>1, FS_Subset, FS_CardinalityType
<1>2. TakenByOthers' = Cardinality(pool') + Cardinality(Details')
  BY DEF TakenByOthers, Details
<1>3. \/ pool' \subseteq pool /\ Details' \subseteq Details
      \/ Details' \subseteq Details /\ \E s \in Sockets : pool' \subseteq pool \cup {s}
      \/ pool' \subseteq pool /\ \E q \in Probes : Details' \subseteq Details \cup {q}
  <2>1. CASE Serves
    <3>1. UNCHANGED kind
      BY <2>1 DEF Serves, healthVars
    <3>2. pool' \subseteq pool \/ \E s \in Sockets : pool' \subseteq pool \cup {s}
      BY <2>1 DEF Serves, SocketNext, Authenticate, Refuse, Acquire, AcceptFails, Accepted,
         Disconnect, DisconnectCancels, TaskCancelled, Notifications, NotificationsEnd,
         StreamServerLogs, Returned
    <3> QED
      BY <3>1, <3>2 DEF Details
  <2>2. ASSUME NEW q \in Probes, NEW k \in Kinds, Ask(q, k)
        PROVE  pool' = pool /\ Details' \subseteq Details \cup {q}
    <3>1. pool' = pool /\ kind' \in {kind, [kind EXCEPT ![q] = k]}
      BY <2>2 DEF Ask, vars
    <3> QED
      BY <3>1 DEF Details, FreshInv
  <2>3. ASSUME queue # <<>>, NEW failing, NEW ended, NEW span, NEW blocked,
               Leaves(Head(queue), failing, ended, span, blocked)
        PROVE  Details' \subseteq Details
    <3>1. Head(queue) \in Probes /\ kind' = [kind EXCEPT ![Head(queue)] = None] /\ None # "detail"
      BY <2>3, HealthAssumption DEF Leaves, FreshInv, Queued, AllKinds
    <3> QED
      BY <3>1 DEF Details, FreshInv
  <2>4. CASE ReadsCache \/ AllReported \/ TimesOut
    <3>1. pool' = pool
      BY <2>4 DEF ReadsCache, AllReported, TimesOut, Concludes, vars
    <3>2. queue # <<>>
      BY <2>4 DEF ReadsCache, AllReported, TimesOut, FreshInv, EvaluationInTime
    <3> QED
      BY <2>3, <2>4, <3>1, <3>2 DEF ReadsCache, AllReported, TimesOut, Concludes
  <2>5. CASE \/ BeginsChecks \/ Tick \/ UNCHANGED appVars
             \/ \E time \in 1 .. MaxStalled : Blocks(time)
             \/ \E c \in Critical, works \in BOOLEAN : CheckEnds(c, works)
    <3>1. UNCHANGED <<pool, kind>>
      BY <2>5 DEF BeginsChecks, Tick, Blocks, CheckEnds, appVars, healthVars, vars
    <3> QED
      BY <3>1 DEF Details
  <2>6. CASE ServicesStep
    <3>1. UNCHANGED <<pool, kind>>
      BY <2>6, LifespanKeepsSockets DEF ServicesStep, socketVars
    <3> QED
      BY <3>1 DEF Details
  <2>7. CASE Dies
    <3>1. pool' = {} /\ kind' = [q \in Probes |-> None] /\ None # "detail"
      BY <2>7, HealthAssumption DEF Dies, ProcessDies, AllKinds
    <3> QED
      BY <3>1 DEF Details
  <2> QED
    BY <2>1, <2>2, <2>4, <2>5, <2>6, <2>7 DEF AppNext
<1> QED
  <2> HIDE DEF Details
  <2>1. CASE pool' \subseteq pool /\ Details' \subseteq Details
    BY <1>1, <1>2, <2>1, TakenType
  <2>2. CASE Details' \subseteq Details /\ \E s \in Sockets : pool' \subseteq pool \cup {s}
    BY <1>1, <1>2, <2>2, TakenType, OneMore
  <2>3. CASE pool' \subseteq pool /\ \E q \in Probes : Details' \subseteq Details \cup {q}
    BY <1>1, <1>2, <2>3, TakenType, OneMore
  <2> QED
    BY <1>3, <2>1, <2>2, <2>3

LEMMA SessionType ==
    ASSUME PoolShared
    PROVE  /\ session \subseteq Requests /\ IsFiniteSet(session) /\ Cardinality(session) \in Nat
           /\ PoolSize \in Nat
<1>1. session \subseteq Requests
  BY DEF PoolShared
<1> QED
  BY <1>1, FS_Subset, FS_CardinalityType, AuditAssumption, ConnectionsAssumption

LEMMA SessionTyped ==
    ASSUME TrailInv, PoolShared, NEW r \in Requests,
           NEW stage \in InFlight \cup {"answered", "gone"}, NEW outcome \in Outcomes \cup {None},
           Comes(r, stage, outcome), session' \subseteq session,
           stage \notin InFlight => r \notin session'
    PROVE  session' \subseteq {x \in Requests : call'[x].stage \in InFlight}
BY Coming DEF PoolShared

(* A request takes a connection when it is dispatched, and only then.        *)
LEMMA RequestShares ==
    ASSUME TrailInv, TypeOK, PoolShared, RequestStep
    PROVE  PoolShared'
<1>1. TakenByOthers' = TakenByOthers /\ TakenByOthers \in Nat
  <2>1. UNCHANGED <<pool, kind>>
    BY DEF RequestStep, appVars, vars, healthVars
  <2> QED
    BY <2>1, TakenType DEF TakenByOthers
<1>2. ASSUME NEW r \in Requests,
             \/ \E outcome \in {"error", "raised"} : Decline(r, outcome) \/ FailLate(r, outcome)
             \/ Commit(r) \/ Succeed(r) \/ Flush(r) \/ Respond(r)
      PROVE  /\ session' \subseteq session
             /\ session' \subseteq {x \in Requests : call'[x].stage \in InFlight}
  <2>1. call[r].outcome \in Outcomes \cup {None}
    BY DEF TrailInv
  <2>2. /\ {"ok", "error", "raised", None} \subseteq Outcomes \cup {None}
        /\ {"called", "changed", "returned", "flushed", "unlogged"} \subseteq InFlight
    BY DEF Outcomes, InFlight
  <2>3. CASE \E outcome \in {"error", "raised"} : Decline(r, outcome) \/ FailLate(r, outcome)
    BY <2>2, <2>3, SessionTyped DEF Decline, FailLate
  <2>4. CASE Commit(r) \/ Succeed(r)
    BY <2>2, <2>4, SessionTyped DEF Commit, Succeed
  <2>5. CASE Flush(r)
    BY <2>1, <2>2, <2>5, SessionTyped DEF Flush
  <2>6. CASE Respond(r)
    BY <2>1, <2>2, <2>6, SessionTyped DEF Respond
  <2> QED
    BY <1>2, <2>3, <2>4, <2>5, <2>6
<1>3. ASSUME NEW r \in Requests, NEW o \in Calls, Dispatch(r, o)
      PROVE  PoolShared'
  <2>1. o \in Ops /\ {"called", "returned"} \subseteq InFlight
    BY AuditAssumption DEF InFlight
  <2>2. \A x \in Requests : call[x].stage \in InFlight => call'[x].stage \in InFlight
    BY <1>3, <2>1 DEF Dispatch, TrailInv
  <2>3. CASE ConnectionLeft
    <3>1. session' = session \cup {r} /\ call'[r].stage = "called"
      BY <1>3, <2>3 DEF Dispatch, TrailInv
    <3>2. TakenByOthers + Cardinality(session) < PoolSize
      BY <2>3 DEF ConnectionLeft
    <3>3. Cardinality(session') \in Nat /\ Cardinality(session') <= Cardinality(session) + 1
      BY <3>1, SessionType, OneMore
    <3>4. TakenByOthers' + Cardinality(session') <= PoolSize
      BY <1>1, <3>2, <3>3, SessionType
    <3> QED
      BY <2>1, <2>2, <3>1, <3>4 DEF PoolShared
  <2>4. CASE ~ConnectionLeft
    BY <1>1, <1>3, <2>2, <2>4 DEF Dispatch, PoolShared
  <2> QED
    BY <2>3, <2>4
<1>4. ASSUME session' \subseteq session,
             session' \subseteq {x \in Requests : call'[x].stage \in InFlight}
      PROVE  PoolShared'
  <2>1. Cardinality(session') \in Nat /\ Cardinality(session') <= Cardinality(session)
    BY <1>4, SessionType, FS_Subset, FS_CardinalityType
  <2>2. TakenByOthers + Cardinality(session) <= PoolSize
    BY DEF PoolShared
  <2>3. TakenByOthers' + Cardinality(session') <= PoolSize
    BY <1>1, <2>1, <2>2, SessionType
  <2> QED
    BY <1>4, <2>3 DEF PoolShared
<1> QED
  BY <1>2, <1>3, <1>4 DEF RequestStep

(* Sockets and probes take what the requests have left.                      *)
LEMMA ProcessShares ==
    ASSUME TrailInv, TypeOK, FreshInv, PoolShared, ProcessStep
    PROVE  PoolShared'
<1>1. /\ TakenByOthers \in Nat /\ TakenByOthers' \in Nat
      /\ TakenByOthers' <= TakenByOthers + 1
  BY TakenType, TakenByOne DEF ProcessStep
<1>2. TakenByOthers + Cardinality(session) <= PoolSize
  BY DEF PoolShared
<1>3. TakenByOthers' > TakenByOthers => TakenByOthers + Cardinality(session) < PoolSize
  BY DEF ProcessStep, ConnectionLeft
<1>4. TakenByOthers' + Cardinality(session) <= PoolSize
  BY <1>1, <1>2, <1>3, SessionType
<1>5. CASE Ends
  <2>1. session' = {}
    BY <1>5 DEF Ends
  <2>2. Cardinality(session') = 0
    BY <2>1, FS_EmptySet
  <2> QED
    BY <1>1, <1>4, <2>1, <2>2, SessionType DEF PoolShared
<1>6. CASE UNCHANGED trailVars
  BY <1>4, <1>6 DEF PoolShared, trailVars
<1> QED
  BY <1>5, <1>6 DEF ProcessStep

LEMMA PoolSharedInit == TrailInit => PoolShared
<1> SUFFICES ASSUME TrailInit PROVE PoolShared
  OBVIOUS
<1>1. session = {} /\ pool = {} /\ \A q \in Probes : kind[q] = None
  BY DEF TrailInit, AppInit, Init
<1>2. Details = {}
  BY <1>1, HealthAssumption DEF Details, AllKinds
<1>3. TakenByOthers + Cardinality(session) = 0
  BY <1>1, <1>2, FS_EmptySet DEF TakenByOthers, Details
<1> QED
  BY <1>1, <1>3, ConnectionsAssumption DEF PoolShared

(* A request holds a connection of the pool only while it is in flight,      *)
(* however it ends, and sockets, probes and requests never hold more of them *)
(* than DB_POOL_SIZE and DB_MAX_OVERFLOW allow.  (get_db and its callers.)   *)
THEOREM PoolNeverExceeded == TrailSpec => []PoolShared
<1>1. TrailInv /\ TypeOK /\ FreshInv /\ PoolShared /\ [TrailNext]_<<appVars, trailVars>> => PoolShared'
  <2> SUFFICES ASSUME TrailInv, TypeOK, FreshInv, PoolShared, [TrailNext]_<<appVars, trailVars>>
               PROVE  PoolShared'
    OBVIOUS
  <2>1. CASE UNCHANGED <<appVars, trailVars>>
    BY <2>1 DEF PoolShared, TakenByOthers, appVars, vars, healthVars, trailVars
  <2> QED
    BY <2>1, RequestShares, ProcessShares DEF TrailNext
<1>2. TrailSpec => []TrailInv
  BY TrailInvInit, TrailInvKept, PTL DEF TrailSpec
<1>3. AppSpec => []FreshInv
  BY FreshInit, FreshStep, PTL DEF AppSpec
<1> QED
  BY <1>1, <1>2, <1>3, TrailImplementsApp, ConnectionsTypeCorrect, PoolSharedInit, PTL
     DEF TrailSpec

(* What is typed apart from TrailInv and PoolShared.                         *)
RowsTyped == changed \subseteq Requests /\ audit_logs \subseteq Event

(* Rows are events of the request that is flushed.                           *)
LEMMA RowsStep ==
    ASSUME TrailInv, TrailInv', RowsTyped, [TrailNext]_<<appVars, trailVars>>
    PROVE  RowsTyped'
<1>1. ASSUME NEW r \in Requests, NEW o \in Calls, Dispatch(r, o)
      PROVE  RowsTyped'
  BY <1>1 DEF Dispatch, RowsTyped, Event
<1>2. ASSUME NEW r \in Requests, NEW outcome, Decline(r, outcome) \/ FailLate(r, outcome)
      PROVE  RowsTyped'
  BY <1>2 DEF Decline, FailLate, RowsTyped, Event
<1>3. ASSUME NEW r \in Requests, Commit(r) \/ Succeed(r) \/ Respond(r)
      PROVE  RowsTyped'
  BY <1>3 DEF Commit, Succeed, Respond, RowsTyped, Event
<1>4. ASSUME NEW r \in Requests, Flush(r)
      PROVE  RowsTyped'
  <2>1. events'[r] \subseteq Event
    BY DEF TrailInv, Event
  <2>2. changed' = changed /\ audit_logs' \subseteq audit_logs \cup events'[r]
    BY <1>4 DEF Flush
  <2> QED
    BY <2>1, <2>2 DEF RowsTyped, Event
<1>5. CASE ProcessStep \/ UNCHANGED <<appVars, trailVars>>
  BY <1>5 DEF ProcessStep, Ends, trailVars, RowsTyped, Event
<1> QED
  BY <1>1, <1>2, <1>3, <1>4, <1>5 DEF TrailNext, RequestStep

(* Every variable of the audit trail keeps its range: requests, sessions,    *)
(* pending events, committed changes and the rows of audit_logs.             *)
THEOREM TrailTypeCorrect == TrailSpec => []TrailTypeOK
<1>1. TrailInit => RowsTyped
  BY DEF TrailInit, RowsTyped
<1>2. TrailInv /\ PoolShared /\ RowsTyped => TrailTypeOK
  BY DEF TrailInv, PoolShared, RowsTyped, TrailTypeOK
<1>3. TrailInv /\ TrailInv' /\ RowsTyped /\ [TrailNext]_<<appVars, trailVars>> => RowsTyped'
  BY RowsStep
<1>4. TrailSpec => []TrailInv
  BY TrailInvInit, TrailInvKept, PTL DEF TrailSpec
<1> QED
  BY <1>1, <1>2, <1>3, <1>4, PoolNeverExceeded, PTL DEF TrailSpec
=============================================================================
