-------------------------- MODULE ServerLifecycle --------------------------
(***************************************************************************)
(* The life of a Minecraft server under MinecraftServerManager              *)
(* (app/servers/application/minecraft): HTTP start, stop and restart        *)
(* requests, the per-server monitor task, the cleanup of a server's         *)
(* resources, the PID files that let an API restart re-attach to the        *)
(* daemons, and the status column of the database, which worker threads     *)
(* write.                                                                   *)
(*                                                                          *)
(* The API is one asyncio event loop: an action is the code between two     *)
(* points at which a coroutine really suspends.  A ServerProcess object is  *)
(* created with a fresh daemon and carries its PID, and a PID is not used   *)
(* twice here, so within one life of the API the object is named by the     *)
(* PID: status[p] and mon[p] are fields of the object of daemon p.          *)
(***************************************************************************)
EXTENDS Naturals, FiniteSets

CONSTANTS
    Servers,       \* rows of the servers table
    Pids,          \* the daemons that can be spawned; a PID is never reused
    Requests,      \* slots for concurrent HTTP requests
    Allowed,       \* the operations each slot issues: [Requests -> SUBSET Ops]
    Boot,          \* the lifespan startup task
    None,          \* absence of a server, PID or operation
    MaxBoots,      \* bound: API starts after the first one
    Faults,        \* the failures that may happen, a subset of FaultKinds
    KeepServers,   \* settings.KEEP_SERVERS_ON_SHUTDOWN
    AutoSync       \* settings.AUTO_SYNC_ON_STARTUP

Ops == {"start", "stop", "restart"}
FaultKinds == {"pidwrite", "dbwrite", "fork", "signal", "crash"}

\* Tasks that call stop_server or start_server: a request, or the stop task
\* that shutdown_all creates for a server, named by that server.
Tasks == Requests \cup Servers
Cleaners == Pids \cup Tasks
Writers == Cleaners \cup {Boot}

ASSUME ConstAssumption ==
    /\ None \notin Pids \cup Servers \cup Requests \cup Ops
    /\ Boot \notin Pids \cup Servers \cup Requests
    /\ Pids \cap Servers = {} /\ Pids \cap Requests = {} /\ Servers \cap Requests = {}
    /\ Allowed \in [Requests -> SUBSET Ops]
    /\ MaxBoots \in Nat
    /\ Faults \subseteq FaultKinds
    /\ KeepServers \in BOOLEAN /\ AutoSync \in BOOLEAN

VARIABLES
    api,        \* the API process: "up", "stopping", "down", "restoring", "syncing"
    boots,      \* API starts so far
    todo,       \* server directories discover_and_restore_processes has yet to scan
    os,         \* each daemon: "unborn", "alive" or "dead"
    owner,      \* the server a daemon was spawned for
    processes,  \* manager.processes: server -> the PID naming its entry, or None
    status,     \* ServerProcess.status
    mon,        \* ServerProcess.monitor_task
    clean,      \* _cleanup_server_process calls in progress
    req,        \* start/stop/restart calls in progress
    pidfile,    \* {server_dir}/server.pid on disk
    db,         \* the servers.status column
    writes      \* status updates in worker threads, not yet committed

apiVars == <<api, boots, todo>>
osVars == <<os, owner>>
vars == <<apiVars, osVars, processes, status, mon, clean, req, pidfile, db, writes>>

Status == {"stopped", "starting", "running", "stopping", "error"}
MonPc == {"none", "startup", "watch", "restored",
          "wRunning", "wError", "wStopped", "done"}
ReqPc == {"idle", "prep", "verify", "wStarting", "wStopping", "term", "kill",
          "cleaning", "wStopped", "rPoll"}
NoTask == [pc |-> "idle", op |-> None, srv |-> None, pid |-> None]
NoClean == [st |-> "idle", srv |-> None]
Task == [pc: ReqPc, op: Ops \cup {None}, srv: Servers \cup {None}, pid: Pids \cup {None}]
Cleanup == [st: {"idle", "ready", "wait"}, srv: Servers \cup {None}]
Updates == UNION {[S -> Status] : S \in SUBSET Servers}

TypeOK ==
    /\ api \in {"up", "stopping", "down", "restoring", "syncing"}
    /\ boots \in 0..MaxBoots
    /\ todo \subseteq Servers
    /\ os \in [Pids -> {"unborn", "alive", "dead"}]
    /\ owner \in [Pids -> Servers \cup {None}]
    /\ processes \in [Servers -> Pids \cup {None}]
    /\ status \in [Pids -> Status]
    /\ mon \in [Pids -> MonPc]
    /\ clean \in [Cleaners -> Cleanup]
    /\ req \in [Tasks -> Task]
    /\ pidfile \in [Servers -> Pids \cup {None}]
    /\ db \in [Servers -> Status]
    /\ writes \subseteq [by: Writers, upd: Updates]

Init ==
    /\ api = "up" /\ boots = 0 /\ todo = {}
    /\ os = [p \in Pids |-> "unborn"]
    /\ owner = [p \in Pids |-> None]
    /\ processes = [s \in Servers |-> None]
    /\ status = [p \in Pids |-> "stopped"]
    /\ mon = [p \in Pids |-> "none"]
    /\ clean = [c \in Cleaners |-> NoClean]
    /\ req = [r \in Tasks |-> NoTask]
    /\ pidfile = [s \in Servers |-> None]
    /\ db = [s \in Servers |-> "stopped"]
    /\ writes = {}

-----------------------------------------------------------------------------
(* The database: _notify_status_change hands the update to a worker thread   *)
(* and suspends its caller until the thread is done.  Every caller ignores   *)
(* the result.                                                               *)

Notify(by, s, st) == writes' = writes \cup {[by |-> by, upd |-> [x \in {s} |-> st]]}
Waiting(by) == \E w \in writes : w.by = by

Apply(upd, column) ==
    [s \in Servers |-> IF s \in DOMAIN upd THEN upd[s] ELSE column[s]]

\* A worker thread commits its transaction (with_transaction); threads of
\* different callers finish in any order.
WriteCommits(w) ==
    /\ w \in writes
    /\ db' = Apply(w.upd, db)
    /\ writes' = writes \ {w}
    /\ UNCHANGED <<apiVars, osVars, processes, status, mon, clean, req, pidfile>>

\* All retries of a transaction fail, or the session of a cancelled caller is
\* closed under its worker thread.
WriteFails(w) ==
    /\ "dbwrite" \in Faults
    /\ w \in writes
    /\ writes' = writes \ {w}
    /\ UNCHANGED <<apiVars, osVars, processes, status, mon, clean, req, pidfile, db>>

\* What the interrupted writes of a dying API process leave in the column.
SomeCommitted ==
    db' \in {d \in [Servers -> Status] :
               \A s \in Servers :
                 \/ d[s] = db[s]
                 \/ \E w \in writes : s \in DOMAIN w.upd /\ d[s] = w.upd[s]}

-----------------------------------------------------------------------------
(* The manager's view of a server, as the routers read it.                   *)

ServerStatus(s) == IF processes[s] = None THEN "stopped" ELSE status[processes[s]]

Goto(r, pc) == req' = [req EXCEPT ![r].pc = pc]
Finish(r) == req' = [req EXCEPT ![r] = NoTask]

\* A cleanup or a cancelled task runs in the next iterations of the loop,
\* before anything a later request waits a timer or a subprocess for.
NoPromptWork(s) == \A c \in Cleaners : clean[c].srv # s

-----------------------------------------------------------------------------
(* start_server                                                              *)

\* The router's status check and the manager's `server.id in self.processes`,
\* with no suspension between them.
Startable(s) == ServerStatus(s) \in {"stopped", "error"} /\ processes[s] = None

BeginStart(r, s) ==
    /\ api = "up" /\ req[r].pc = "idle" /\ "start" \in Allowed[r]
    /\ Startable(s)
    /\ req' = [req EXCEPT ![r] = [pc |-> "prep", op |-> "start", srv |-> s, pid |-> None]]
    /\ UNCHANGED <<apiVars, osVars, processes, status, mon, clean, pidfile, db, writes>>

\* A pre-flight check or the creation of the daemon fails: False.
StartRefused(r) ==
    /\ req[r].pc = "prep"
    /\ Finish(r)
    /\ UNCHANGED <<apiVars, osVars, processes, status, mon, clean, pidfile, db, writes>>

\* The double fork; the checks before it suspend, the manager does not look at
\* `processes` again.
Spawn(r, p) ==
    /\ req[r].pc = "prep" /\ os[p] = "unborn"
    /\ NoPromptWork(req[r].srv)
    /\ os' = [os EXCEPT ![p] = "alive"]
    /\ owner' = [owner EXCEPT ![p] = req[r].srv]
    /\ req' = [req EXCEPT ![r].pc = "verify", ![r].pid = p]
    /\ UNCHANGED <<apiVars, processes, status, mon, clean, pidfile, db, writes>>

\* thread.join(10.0) gives up on a fork that succeeds later: the fallback
\* cannot spawn (start_new_session and setsid exclude each other), so
\* start_server returns False and the daemon runs on.
ForkTimesOut(r, p) ==
    /\ "fork" \in Faults
    /\ req[r].pc = "prep" /\ os[p] = "unborn"
    /\ os' = [os EXCEPT ![p] = "alive"]
    /\ owner' = [owner EXCEPT ![p] = req[r].srv]
    /\ Finish(r)
    /\ UNCHANGED <<apiVars, processes, status, mon, clean, pidfile, db, writes>>

\* One of the liveness checks of the first 300 ms fails: False.
StartDied(r) ==
    /\ req[r].pc = "verify" /\ os[req[r].pid] = "dead"
    /\ Finish(r)
    /\ UNCHANGED <<apiVars, osVars, processes, status, mon, clean, pidfile, db, writes>>

\* The last check passes: PID file, entry, monitor task, then the first await
\* of the status callback.  A PID file that cannot be written is tolerated.
Register(r) ==
    LET s == req[r].srv
        p == req[r].pid
    IN  /\ req[r].pc = "verify" /\ os[p] = "alive"
        /\ \/ pidfile' = [pidfile EXCEPT ![s] = p]
           \/ "pidwrite" \in Faults /\ pidfile' = [pidfile EXCEPT ![s] = None]
        /\ processes' = [processes EXCEPT ![s] = p]
        /\ status' = [status EXCEPT ![p] = "starting"]
        /\ mon' = [mon EXCEPT ![p] = "startup"]
        /\ Notify(r, s, "starting")
        /\ Goto(r, "wStarting")
        /\ UNCHANGED <<apiVars, osVars, clean, db>>

StartReturns(r) ==
    /\ req[r].pc = "wStarting" /\ ~Waiting(r)
    /\ Finish(r)
    /\ UNCHANGED <<apiVars, osVars, processes, status, mon, clean, pidfile, db, writes>>

-----------------------------------------------------------------------------
(* stop_server and restart_server                                            *)

\* stop_server up to its first await: the entry is captured and marked.
EnterStop(r, op, s) ==
    LET p == processes[s]
    IN  /\ p # None
        /\ status' = [status EXCEPT ![p] = "stopping"]
        /\ req' = [req EXCEPT ![r] = [pc |-> "wStopping", op |-> op, srv |-> s, pid |-> p]]
        /\ Notify(r, s, "stopping")

BeginStop(r, s) ==
    /\ api = "up" /\ req[r].pc = "idle" /\ "stop" \in Allowed[r]
    /\ ServerStatus(s) # "stopped"
    /\ EnterStop(r, "stop", s)
    /\ UNCHANGED <<apiVars, osVars, processes, mon, clean, pidfile, db>>

\* A restart of a server that is not running is a start; otherwise it stops
\* the server first.
BeginRestart(r, s) ==
    /\ api = "up" /\ req[r].pc = "idle" /\ "restart" \in Allowed[r]
    /\ UNCHANGED <<apiVars, osVars, processes, mon, clean, pidfile, db>>
    /\ \/ /\ Startable(s)
          /\ req' = [req EXCEPT ![r] =
                       [pc |-> "prep", op |-> "restart", srv |-> s, pid |-> None]]
          /\ UNCHANGED <<status, writes>>
       \/ /\ ServerStatus(s) \notin {"stopped", "error"}
          /\ EnterStop(r, "restart", s)

BeginCleanup(r) ==
    /\ clean' = [clean EXCEPT ![r] = [st |-> "ready", srv |-> req[r].srv]]
    /\ Goto(r, "cleaning")

\* stop_server is over: a stop request returns, a restart starts polling.
StopDone(r) == IF req[r].op = "restart" THEN Goto(r, "rPoll") ELSE Finish(r)

\* _stop_daemon_process: SIGTERM, unless the daemon is already gone.
StopSignals(r) ==
    /\ req[r].pc = "wStopping" /\ ~Waiting(r) /\ os[req[r].pid] = "alive"
    /\ Goto(r, "term")
    /\ UNCHANGED <<apiVars, osVars, processes, status, mon, clean, pidfile, db, writes>>

\* Mutant: no poll after SIGKILL.
StopSeesDead_NoLastPoll(r) ==
    /\ \/ req[r].pc = "wStopping" /\ ~Waiting(r)
       \/ req[r].pc = "term"
    /\ os[req[r].pid] = "dead"
    /\ BeginCleanup(r)
    /\ UNCHANGED <<apiVars, osVars, processes, status, mon, pidfile, db, writes>>

\* The captured daemon is found dead, at once or by one of the polls.
StopSeesDead(r) ==
    /\ \/ req[r].pc = "wStopping" /\ ~Waiting(r)
       \/ req[r].pc \in {"term", "kill"}
    /\ os[req[r].pid] = "dead"
    /\ BeginCleanup(r)
    /\ UNCHANGED <<apiVars, osVars, processes, status, mon, pidfile, db, writes>>

\* Five polls found it alive: SIGKILL.
StopEscalates(r) ==
    /\ req[r].pc = "term" /\ os[req[r].pid] = "alive"
    /\ Goto(r, "kill")
    /\ UNCHANGED <<apiVars, osVars, processes, status, mon, clean, pidfile, db, writes>>

\* Mutant: cleanup although the daemon is alive.
StopGivesUp_CleansUp(r) ==
    /\ "signal" \in Faults
    /\ req[r].pc \in {"term", "kill"} /\ os[req[r].pid] = "alive"
    /\ BeginCleanup(r)
    /\ UNCHANGED <<apiVars, osVars, processes, status, mon, pidfile, db, writes>>

\* Alive after SIGKILL, or the signal is refused: False, and the entry stays.
StopGivesUp(r) ==
    /\ "signal" \in Faults
    /\ req[r].pc \in {"term", "kill"} /\ os[req[r].pid] = "alive"
    /\ StopDone(r)
    /\ UNCHANGED <<apiVars, osVars, processes, status, mon, clean, pidfile, db, writes>>

StopCleaned(r) ==
    /\ req[r].pc = "cleaning" /\ clean[r].st = "idle"
    /\ Notify(r, req[r].srv, "stopped")
    /\ Goto(r, "wStopped")
    /\ UNCHANGED <<apiVars, osVars, processes, status, mon, clean, pidfile, db>>

StopReturns(r) ==
    /\ req[r].pc = "wStopped" /\ ~Waiting(r)
    /\ StopDone(r)
    /\ UNCHANGED <<apiVars, osVars, processes, status, mon, clean, pidfile, db, writes>>

\* The poll of the restart ends, by the status or after 30 s, and start_server
\* is called either way.
RestartProceeds(r) ==
    /\ req[r].pc = "rPoll"
    /\ IF processes[req[r].srv] = None
         THEN req' = [req EXCEPT ![r].pc = "prep", ![r].pid = None]
         ELSE Finish(r)
    /\ UNCHANGED <<apiVars, osVars, processes, status, mon, clean, pidfile, db, writes>>

-----------------------------------------------------------------------------
(* The monitor task of a daemon, and the cleanup it schedules                *)

\* The monitor records a status on its object and awaits the callback.
MonitorReports(p, st, pc) ==
    /\ status' = [status EXCEPT ![p] = st]
    /\ Notify(p, owner[p], st)
    /\ mon' = [mon EXCEPT ![p] = pc]
    /\ UNCHANGED <<apiVars, osVars, processes, clean, req, pidfile, db>>

\* Mutant: status and place exchanged.
MonitorSeesDeath_Swapped(p) ==
    /\ mon[p] = "startup" /\ os[p] = "dead"
    /\ MonitorReports(p, "wError", "error")

MonitorSeesDeath(p) ==
    /\ mon[p] = "startup" /\ os[p] = "dead"
    /\ MonitorReports(p, "error", "wError")

\* A startup pattern is found in server.log, or 45 s have passed.
MonitorSeesStartup(p) ==
    /\ mon[p] = "startup" /\ os[p] = "alive"
    /\ MonitorReports(p, "running", "wRunning")

MonitorResumes(p) ==
    /\ mon[p] = "wRunning" /\ ~Waiting(p)
    /\ mon' = [mon EXCEPT ![p] = "watch"]
    /\ UNCHANGED <<apiVars, osVars, processes, status, clean, req, pidfile, db, writes>>

\* Mutant: the daemon is taken for dead without a look.
MonitorSeesStop_Blind(p) ==
    /\ mon[p] = "watch" /\ processes[owner[p]] # None
    /\ MonitorReports(p, "stopped", "wStopped")

\* `while server_id in self.processes`: the test is on the server, not on p.
MonitorSeesStop(p) ==
    /\ mon[p] = "watch" /\ processes[owner[p]] # None /\ os[p] = "dead"
    /\ MonitorReports(p, "stopped", "wStopped")

MonitorExits(p) ==
    /\ mon[p] = "watch" /\ processes[owner[p]] = None
    /\ mon' = [mon EXCEPT ![p] = "done"]
    /\ UNCHANGED <<apiVars, osVars, processes, status, clean, req, pidfile, db, writes>>

\* _monitor_restored_process loops without that test.
RestoredMonitorSeesStop(p) ==
    /\ mon[p] = "restored" /\ os[p] = "dead"
    /\ MonitorReports(p, "stopped", "wStopped")

\* Mutant: no cleanup.
MonitorSchedulesCleanup_Forgets(p) ==
    /\ mon[p] \in {"wError", "wStopped"} /\ ~Waiting(p)
    /\ mon' = [mon EXCEPT ![p] = "done"]
    /\ UNCHANGED <<apiVars, osVars, processes, status, clean, req, pidfile, db, writes>>

\* A started daemon's monitor creates the cleanup as a task; a restored one's
\* runs it itself, and the cancellation it aims at itself is swallowed.
MonitorSchedulesCleanup(p) ==
    /\ mon[p] \in {"wError", "wStopped"} /\ ~Waiting(p)
    /\ mon' = [mon EXCEPT ![p] = "done"]
    /\ clean' = [clean EXCEPT ![p] = [st |-> "ready", srv |-> owner[p]]]
    /\ UNCHANGED <<apiVars, osVars, processes, status, req, pidfile, db, writes>>

\* _cleanup_server_process looks the entry up by server id, cancels the tasks
\* of whatever object it finds and awaits them.  A database write that the
\* cancelled monitor was awaiting goes on in its thread.
CleanupCancels(c) ==
    LET p == processes[clean[c].srv]
    IN  /\ clean[c].st = "ready"
        /\ IF p = None
             THEN clean' = [clean EXCEPT ![c] = NoClean] /\ UNCHANGED mon
             ELSE /\ clean' = [clean EXCEPT ![c].st = "wait"]
                  /\ mon' = [mon EXCEPT ![p] = "done"]
        /\ UNCHANGED <<apiVars, osVars, processes, status, req, pidfile, db, writes>>

\* Mutant: the PID file stays.
CleanupDeletes_KeepsFile(c) ==
    /\ clean[c].st = "wait"
    /\ processes' = [processes EXCEPT ![clean[c].srv] = None]
    /\ clean' = [clean EXCEPT ![c] = NoClean]
    /\ UNCHANGED <<apiVars, osVars, status, mon, req, pidfile, db, writes>>

\* After the wait, the PID file and the entry go, whoever they belong to now.
CleanupDeletes(c) ==
    /\ clean[c].st = "wait"
    /\ pidfile' = [pidfile EXCEPT ![clean[c].srv] = None]
    /\ processes' = [processes EXCEPT ![clean[c].srv] = None]
    /\ clean' = [clean EXCEPT ![c] = NoClean]
    /\ UNCHANGED <<apiVars, osVars, status, mon, req, db, writes>>

-----------------------------------------------------------------------------
(* The API process: crash, shutdown, start                                   *)

\* The memory of the process is gone; the detached daemons and the disk are not.
ProcessEnds ==
    /\ api' = "down"
    /\ processes' = [s \in Servers |-> None]
    /\ status' = [p \in Pids |-> "stopped"]
    /\ mon' = [p \in Pids |-> "none"]
    /\ clean' = [c \in Cleaners |-> NoClean]
    /\ req' = [r \in Tasks |-> NoTask]
    /\ todo' = Servers
    /\ SomeCommitted /\ writes' = {}
    /\ UNCHANGED <<boots, osVars>>

Crash ==
    /\ "crash" \in Faults /\ api # "down" /\ boots < MaxBoots
    /\ ProcessEnds /\ UNCHANGED pidfile

\* A cancelled cleanup swallows the cancellation and removes the PID file.
CleanupsFinish ==
    pidfile' = [s \in Servers |->
                  IF \E c \in Cleaners : clean[c].st = "wait" /\ clean[c].srv = s
                    THEN None ELSE pidfile[s]]

\* shutdown_all keeping the servers: entries dropped, PID files left.
ShutdownKeep ==
    /\ KeepServers /\ api = "up" /\ boots < MaxBoots
    /\ \A r \in Tasks : req[r].pc = "idle"
    /\ ProcessEnds /\ CleanupsFinish

\* shutdown_all stopping them: one stop_server task per entry ...  It leaves
\* nothing for a next start to find, and needs none.
ShutdownStop ==
    LET running == {s \in Servers : processes[s] # None}
    IN  /\ ~KeepServers /\ api = "up"
        /\ \A r \in Tasks : req[r].pc = "idle"
        /\ api' = "stopping"
        /\ status' = [p \in Pids |->
                        IF \E s \in running : processes[s] = p THEN "stopping" ELSE status[p]]
        /\ req' = [r \in Tasks |->
                     IF r \in running
                       THEN [pc |-> "wStopping", op |-> "stop", srv |-> r, pid |-> processes[r]]
                       ELSE req[r]]
        /\ writes' = writes \cup
                       {[by |-> s, upd |-> [x \in {s} |-> "stopping"]] : s \in running}
        /\ UNCHANGED <<boots, todo, osVars, processes, mon, clean, pidfile, db>>

\* Mutant: the stop tasks are not awaited.
ShutdownDone_NoGather ==
    /\ api = "stopping"
    /\ ProcessEnds /\ CleanupsFinish

\* ... and the gather that waits for all of them.
ShutdownDone ==
    /\ api = "stopping"
    /\ \A r \in Tasks : req[r].pc = "idle"
    /\ ProcessEnds /\ CleanupsFinish

\* The lifespan starts: discover_and_restore_processes lists the directories.
BootStarts ==
    /\ api = "down" /\ boots < MaxBoots
    /\ boots' = boots + 1
    /\ api' = "restoring"
    /\ todo' = IF AutoSync THEN Servers ELSE {}
    /\ UNCHANGED <<osVars, processes, status, mon, clean, req, pidfile, db, writes>>

\* One directory: a live daemon is adopted as running and the database told;
\* the file of a dead one is removed.
RestoreServer(s) ==
    LET p == pidfile[s]
    IN  /\ api = "restoring" /\ s \in todo /\ ~Waiting(Boot)
        /\ todo' = todo \ {s}
        /\ IF p # None /\ os[p] = "alive"
             THEN /\ processes' = [processes EXCEPT ![s] = p]
                  /\ status' = [status EXCEPT ![p] = "running"]
                  /\ mon' = [mon EXCEPT ![p] = "restored"]
                  /\ Notify(Boot, s, "running")
                  /\ UNCHANGED pidfile
             ELSE /\ pidfile' = [pidfile EXCEPT ![s] = None]
                  /\ UNCHANGED <<processes, status, mon, writes>>
        /\ UNCHANGED <<api, boots, osVars, clean, req, db>>

\* What sync_server_states_async corrects, given the tracked servers.
Corrections ==
    LET tracked == {s \in Servers : processes[s] # None}
        up == {s \in tracked : db[s] \in {"stopped", "error"}}
        down == {s \in Servers \ tracked : db[s] \in {"starting", "running", "stopping"}}
    IN  [s \in up \cup down |-> IF s \in up THEN "running" ELSE "stopped"]

\* One transaction with all corrections.
SyncStates ==
    /\ api = "restoring" /\ todo = {} /\ ~Waiting(Boot)
    /\ api' = "syncing"
    /\ writes' = writes \cup {[by |-> Boot, upd |-> Corrections]}
    /\ UNCHANGED <<boots, todo, osVars, processes, status, mon, clean, req, pidfile, db>>

BootDone ==
    /\ api = "syncing" /\ ~Waiting(Boot)
    /\ api' = "up"
    /\ UNCHANGED <<boots, todo, osVars, processes, status, mon, clean, req, pidfile, db, writes>>

\* A daemon ends: by itself or from a signal sent to it.
Die(p) ==
    /\ os[p] = "alive"
    /\ os' = [os EXCEPT ![p] = "dead"]
    /\ UNCHANGED <<apiVars, owner, processes, status, mon, clean, req, pidfile, db, writes>>

-----------------------------------------------------------------------------
StartStep(r) ==
    \/ \E s \in Servers : BeginStart(r, s)
    \/ StartRefused(r)
    \/ \E p \in Pids : Spawn(r, p) \/ ForkTimesOut(r, p)
    \/ StartDied(r)
    \/ Register(r)
    \/ StartReturns(r)

StopStep(r) ==
    \/ StopSignals(r) \/ StopSeesDead(r) \/ StopEscalates(r) \/ StopGivesUp(r)
    \/ StopCleaned(r) \/ StopReturns(r)
    \/ RestartProceeds(r)

MonitorStep(p) ==
    \/ MonitorSeesDeath(p) \/ MonitorSeesStartup(p) \/ MonitorResumes(p)
    \/ MonitorSeesStop(p) \/ MonitorExits(p) \/ RestoredMonitorSeesStop(p)
    \/ MonitorSchedulesCleanup(p)

CleanupStep(c) == CleanupCancels(c) \/ CleanupDeletes(c)

BootStep ==
    \/ BootStarts \/ SyncStates \/ BootDone
    \/ \E s \in Servers : RestoreServer(s)

Next ==
    \/ \E r \in Requests : StartStep(r)
    \/ \E r \in Requests, s \in Servers : BeginStop(r, s) \/ BeginRestart(r, s)
    \/ \E r \in Tasks : StopStep(r)
    \/ \E p \in Pids : MonitorStep(p) \/ Die(p)
    \/ \E c \in Cleaners : CleanupStep(c)
    \/ \E w \in writes : WriteCommits(w) \/ WriteFails(w)
    \/ BootStep
    \/ Crash \/ ShutdownKeep \/ ShutdownStop \/ ShutdownDone

Spec == Init /\ [][Next]_vars
-----------------------------------------------------------------------------
(* Fairness: the event loop runs every ready task and fires every timer, a    *)
(* worker thread ends, and a daemon sent SIGKILL dies.                        *)

DiesOfSigkill(p) == Die(p) /\ \E r \in Tasks : req[r].pc = "kill" /\ req[r].pid = p
WriteEnds(by) == \E w \in writes : w.by = by /\ (WriteCommits(w) \/ WriteFails(w))

Fairness ==
    /\ \A r \in Requests : WF_vars(StartStep(r) /\ req[r].pc # "idle")
    /\ \A r \in Tasks : WF_vars(StopStep(r))
    /\ \A p \in Pids : WF_vars(MonitorStep(p)) /\ WF_vars(DiesOfSigkill(p))
    /\ \A c \in Cleaners : WF_vars(CleanupStep(c))
    /\ \A by \in Writers : WF_vars(WriteEnds(by))
    /\ WF_vars(BootStep) /\ WF_vars(ShutdownDone)

FairSpec == Spec /\ Fairness

-----------------------------------------------------------------------------
(* Properties.                                                               *)

Active == {"startup", "watch", "restored", "wRunning", "wError", "wStopped"}
LiveDaemons(s) == {p \in Pids : os[p] = "alive" /\ owner[p] = s}

\* The PID file of a server and its entry in manager.processes change together:
\* outside the scan of an API start they name the same daemon or are both
\* absent, whatever requests, cleanups and monitors overlap.  So a restart of
\* the API finds exactly the servers that were tracked.
PidFileMirrorsEntry ==
    AutoSync /\ "pidwrite" \notin Faults =>
      \A s \in Servers :
        IF s \in todo THEN processes[s] = None ELSE pidfile[s] = processes[s]

\* An entry is never left without a task that will remove it when the daemon is
\* gone: its own monitor runs, or a cleanup of the server is under way.  An
\* unwatched entry would refuse every later start of the server.
EntryWatched ==
    \A s \in Servers :
      processes[s] # None =>
        \/ mon[processes[s]] \in Active
        \/ \E c \in Cleaners : clean[c].srv = s

\* One request at a time and no failure: a server never has two live daemons on
\* its world directory, across stops, restarts, monitors and API restarts.
OneDaemonPerServer == \A s \in Servers : Cardinality(LiveDaemons(s)) <= 1

\* One request at a time: the manager's table is a registry that adopts only
\* running daemons of servers without entry and forgets only dead ones, and
\* does forget them.
Registry == INSTANCE DaemonRegistry WITH
    entry <- processes, live <- {p \in Pids : os[p] = "alive"}, serving <- api # "down"
ImplementsRegistry == Registry!Spec

\* With KEEP_SERVERS_ON_SHUTDOWN off, the API is gone only when every daemon it
\* tracks is, whatever requests, monitors and cleanups came before.
ShutdownStopsServers ==
    [][api = "stopping" /\ api' = "down" =>
         \A s \in Servers : processes[s] # None => os[processes[s]] = "dead"]_vars

\* A request that was accepted returns: stop escalates to SIGKILL, restart
\* stops polling, start fails or registers.
RequestsReturn == \A r \in Tasks : req[r].pc # "idle" ~> req[r].pc = "idle"
=============================================================================
