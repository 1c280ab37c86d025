----------------------- MODULE ServerLifecycleProofs -----------------------
(* Theorems about ServerLifecycle for every set of servers, daemons and      *)
(* requests, every choice of faults and settings.                            *)
EXTENDS ServerLifecycle, FiniteSetTheorems, TLAPS

-----------------------------------------------------------------------------
(* The strengthening.                                                        *)

\* Running requests know their server; a start that verifies a daemon owns it.
RequestsWired ==
    \A r \in Tasks :
      /\ req[r].pc # "idle" => req[r].srv \in Servers
      /\ req[r].pc = "verify" =>
           req[r].pid \in Pids /\ owner[req[r].pid] = req[r].srv /\ os[req[r].pid] # "unborn"

\* A monitor belongs to a spawned daemon of a server.
MonitorsWired ==
    \A p \in Pids : mon[p] # "none" => owner[p] \in Servers /\ os[p] # "unborn"

\* A PID file and an entry name a daemon spawned for their own server.
FilesWired ==
    \A s \in Servers :
      pidfile[s] # None => owner[pidfile[s]] = s /\ os[pidfile[s]] # "unborn"

EntriesWired ==
    \A s \in Servers :
      processes[s] # None => owner[processes[s]] = s /\ os[processes[s]] # "unborn"

\* A cleanup in progress has a server, a finished one has none.
CleanupsWired ==
    \A c \in Cleaners : IF clean[c].st = "idle" THEN clean[c].srv = None
                                                ELSE clean[c].srv \in Servers

Wired == RequestsWired /\ MonitorsWired /\ FilesWired /\ EntriesWired /\ CleanupsWired

-----------------------------------------------------------------------------
LEMMA SingletonUpdate ==
    ASSUME NEW s \in Servers, NEW st \in Status
    PROVE  [x \in {s} |-> st] \in Updates
<1>1. [x \in {s} |-> st] \in [{s} -> Status]
  OBVIOUS
<1>2. {s} \in SUBSET Servers
  OBVIOUS
<1>3. QED
  BY <1>1, <1>2 DEF Updates

\* _notify_status_change adds one well-typed pending write.
LEMMA NotifyType ==
    ASSUME TypeOK, NEW by \in Writers, NEW s \in Servers, NEW st \in Status,
           Notify(by, s, st)
    PROVE  writes' \subseteq [by: Writers, upd: Updates]
<1> DEFINE new == [by |-> by, upd |-> [x \in {s} |-> st]]
<1>1. new \in [by: Writers, upd: Updates]
  BY SingletonUpdate
<1>2. writes' = writes \cup {new}
  BY DEF Notify
<1> HIDE DEF new
<1>3. QED
  BY <1>1, <1>2 DEF TypeOK

LEMMA Membership ==
    /\ \A p \in Pids : p \in Cleaners /\ p \in Writers /\ p # None
    /\ \A r \in Tasks : r \in Cleaners /\ r \in Writers
    /\ \A r \in Requests : r \in Tasks
    /\ \A s \in Servers : s \in Tasks /\ s # None
    /\ Boot \in Writers
BY ConstAssumption DEF Cleaners, Writers, Tasks

LEMMA ConstantTypes ==
    /\ NoTask \in Task /\ NoTask.pc = "idle"
    /\ NoClean \in Cleanup /\ NoClean.st = "idle" /\ NoClean.srv = None
BY DEF NoTask, NoClean, Task, Cleanup, ReqPc

LEMMA InitInvariant == Init => TypeOK /\ Wired
BY ConstAssumption, ConstantTypes
   DEF Init, TypeOK, Wired, RequestsWired, MonitorsWired, FilesWired, EntriesWired,
       CleanupsWired, MonPc, Status, Updates

-----------------------------------------------------------------------------
(* How the building blocks of the actions treat requests.                    *)

LEMMA TaskFields ==
    ASSUME NEW t \in Task, NEW pc \in ReqPc
    PROVE  /\ [t EXCEPT !.pc = pc] \in Task
           /\ [t EXCEPT !.pc = pc].pc = pc
           /\ [t EXCEPT !.pc = pc].srv = t.srv
           /\ [t EXCEPT !.pc = pc].pid = t.pid
BY DEF Task

\* A request that moves on, without verifying, stays well typed and wired.
LEMMA GotoKeeps ==
    ASSUME TypeOK, RequestsWired, NEW r \in Tasks, NEW pc \in ReqPc \ {"idle", "verify"},
           Goto(r, pc), req[r].pc # "idle", UNCHANGED osVars
    PROVE  req' \in [Tasks -> Task] /\ RequestsWired'
<1> DEFINE t == [req[r] EXCEPT !.pc = pc]
<1>1. req[r] \in Task
  BY DEF TypeOK
<1>2. t \in Task /\ t.pc = pc /\ t.srv = req[r].srv
  BY <1>1, TaskFields
<1>3. req' = [req EXCEPT ![r] = t]
  BY DEF Goto
<1> HIDE DEF t
<1>4. QED
  BY <1>2, <1>3 DEF TypeOK, RequestsWired, osVars

LEMMA FinishKeeps ==
    ASSUME TypeOK, RequestsWired, NEW r \in Tasks, Finish(r), UNCHANGED osVars
    PROVE  req' \in [Tasks -> Task] /\ RequestsWired'
BY ConstantTypes DEF Finish, TypeOK, RequestsWired, osVars

LEMMA StopDoneKeeps ==
    ASSUME TypeOK, RequestsWired, NEW r \in Tasks, StopDone(r), req[r].pc # "idle",
           UNCHANGED osVars
    PROVE  req' \in [Tasks -> Task] /\ RequestsWired'
<1>1. "rPoll" \in ReqPc \ {"idle", "verify"}
  BY DEF ReqPc
<1>2. QED
  BY <1>1, GotoKeeps, FinishKeeps DEF StopDone

LEMMA EnterStopKeeps ==
    ASSUME TypeOK, RequestsWired, NEW r \in Tasks, NEW op \in Ops, NEW s \in Servers,
           EnterStop(r, op, s), UNCHANGED osVars
    PROVE  /\ req' \in [Tasks -> Task] /\ RequestsWired'
           /\ status' \in [Pids -> Status]
           /\ writes' \subseteq [by: Writers, upd: Updates]
<1> DEFINE t == [pc |-> "wStopping", op |-> op, srv |-> s, pid |-> processes[s]]
<1>1. t \in Task /\ t.pc = "wStopping" /\ t.srv = s
  BY DEF TypeOK, Task, ReqPc
<1>2. req' = [req EXCEPT ![r] = t]
  BY DEF EnterStop
<1> HIDE DEF t
<1>3. req' \in [Tasks -> Task] /\ RequestsWired'
  BY <1>1, <1>2 DEF TypeOK, RequestsWired, osVars
<1>4. "stopping" \in Status
  BY DEF Status
<1>5. status' \in [Pids -> Status]
  BY <1>4 DEF EnterStop, TypeOK
<1>6. writes' \subseteq [by: Writers, upd: Updates]
  BY <1>4, NotifyType, Membership DEF EnterStop
<1>7. QED
  BY <1>3, <1>5, <1>6

\* Entering the pre-flight checks of a start.
LEMMA PrepKeeps ==
    ASSUME TypeOK, RequestsWired, NEW r \in Tasks, NEW op \in Ops, NEW s \in Servers,
           req' = [req EXCEPT ![r] = [pc |-> "prep", op |-> op, srv |-> s, pid |-> None]],
           UNCHANGED osVars
    PROVE  req' \in [Tasks -> Task] /\ RequestsWired'
<1> DEFINE t == [pc |-> "prep", op |-> op, srv |-> s, pid |-> None]
<1>1. t \in Task /\ t.pc = "prep" /\ t.srv = s
  BY DEF Task, ReqPc
<1> HIDE DEF t
<1>2. QED
  BY <1>1 DEF TypeOK, RequestsWired, osVars, t

-----------------------------------------------------------------------------
(* Every step keeps the types and the wiring.                                *)

\* The steps that only move a request.
LEMMA RequestMoves ==
    ASSUME TypeOK, Wired, NEW r \in Tasks,
           \/ StartRefused(r) \/ StartDied(r) \/ StartReturns(r) \/ StopSignals(r)
           \/ StopEscalates(r) \/ StopGivesUp(r) \/ StopReturns(r) \/ RestartProceeds(r)
    PROVE  TypeOK' /\ Wired'
<1>1. UNCHANGED <<apiVars, osVars, processes, status, mon, clean, pidfile, db, writes>>
  BY DEF StartRefused, StartDied, StartReturns, StopSignals, StopEscalates, StopGivesUp,
         StopReturns, RestartProceeds
<1>2. req' \in [Tasks -> Task] /\ RequestsWired'
  <2>1. CASE StartRefused(r) \/ StartDied(r) \/ StartReturns(r)
    BY <2>1, FinishKeeps DEF StartRefused, StartDied, StartReturns, Wired
  <2>2. CASE StopSignals(r) \/ StopEscalates(r)
    <3>1. {"term", "kill"} \subseteq ReqPc \ {"idle", "verify"}
      BY DEF ReqPc
    <3>2. req[r].pc # "idle" /\ (Goto(r, "term") \/ Goto(r, "kill"))
      BY <2>2 DEF StopSignals, StopEscalates
    <3>3. QED
      BY <1>1, <3>1, <3>2, GotoKeeps DEF Wired
  <2>3. CASE StopGivesUp(r) \/ StopReturns(r)
    <3>1. req[r].pc # "idle" /\ StopDone(r)
      BY <2>3 DEF StopGivesUp, StopReturns
    <3>2. QED
      BY <1>1, <3>1, StopDoneKeeps DEF Wired
  <2>4. CASE RestartProceeds(r)
    <3>1. CASE Finish(r)
      BY <1>1, <3>1, FinishKeeps DEF Wired
    <3>2. CASE req' = [req EXCEPT ![r].pc = "prep", ![r].pid = None]
      <4> DEFINE t == [req[r] EXCEPT !.pc = "prep", !.pid = None]
      <4>1. t \in Task /\ t.pc = "prep" /\ t.srv = req[r].srv
        BY DEF TypeOK, Task, ReqPc
      <4>2. req' = [req EXCEPT ![r] = t]
        BY <3>2
      <4>3. req[r].pc = "rPoll"
        BY <2>4 DEF RestartProceeds
      <4> HIDE DEF t
      <4>4. QED
        BY <1>1, <4>1, <4>2, <4>3 DEF TypeOK, Wired, RequestsWired, osVars
    <3>3. QED
      BY <2>4, <3>1, <3>2 DEF RestartProceeds
  <2>5. QED
    BY <2>1, <2>2, <2>3, <2>4
<1>3. QED
  BY <1>1, <1>2 DEF TypeOK, Wired, MonitorsWired, FilesWired, EntriesWired, CleanupsWired,
                    apiVars, osVars

\* A request is accepted.
LEMMA RequestBegins ==
    ASSUME TypeOK, Wired, NEW r \in Requests, NEW s \in Servers,
           BeginStart(r, s) \/ BeginStop(r, s) \/ BeginRestart(r, s)
    PROVE  TypeOK' /\ Wired'
<1>1. UNCHANGED <<apiVars, osVars, processes, mon, clean, pidfile, db>>
  BY DEF BeginStart, BeginStop, BeginRestart
<1>2. /\ req' \in [Tasks -> Task] /\ RequestsWired'
      /\ status' \in [Pids -> Status] /\ writes' \subseteq [by: Writers, upd: Updates]
  <2>1. r \in Tasks /\ {"start", "stop", "restart"} \subseteq Ops
    BY Membership DEF Ops
  <2>2. \/ \E op \in Ops : EnterStop(r, op, s)
        \/ \E op \in Ops :
             /\ req' = [req EXCEPT ![r] = [pc |-> "prep", op |-> op, srv |-> s, pid |-> None]]
             /\ UNCHANGED <<status, writes>>
    BY <2>1 DEF BeginStart, BeginStop, BeginRestart
  <2>3. CASE \E op \in Ops : EnterStop(r, op, s)
    BY <1>1, <2>1, <2>3, EnterStopKeeps DEF Wired
  <2>4. QED
    BY <1>1, <2>1, <2>2, <2>3, PrepKeeps DEF Wired, TypeOK
<1>3. QED
  BY <1>1, <1>2 DEF TypeOK, Wired, MonitorsWired, FilesWired, EntriesWired, CleanupsWired,
                    apiVars, osVars

\* A daemon is forked.
LEMMA DaemonForks ==
    ASSUME TypeOK, Wired, NEW r \in Requests, NEW p \in Pids,
           Spawn(r, p) \/ ForkTimesOut(r, p)
    PROVE  TypeOK' /\ Wired'
<1>1. /\ r \in Tasks /\ req[r].pc = "prep" /\ os[p] = "unborn"
      /\ os' = [os EXCEPT ![p] = "alive"]
      /\ owner' = [owner EXCEPT ![p] = req[r].srv]
      /\ UNCHANGED <<apiVars, processes, status, mon, clean, pidfile, db, writes>>
  BY Membership DEF Spawn, ForkTimesOut
<1>2. req[r] \in Task /\ req[r].srv \in Servers
  BY <1>1 DEF TypeOK, Wired, RequestsWired
<1>3. req' \in [Tasks -> Task] /\ RequestsWired'
  <2>1. CASE Spawn(r, p)
    <3> DEFINE t == [req[r] EXCEPT !.pc = "verify", !.pid = p]
    <3>1. t \in Task /\ t.pc = "verify" /\ t.srv = req[r].srv /\ t.pid = p
      BY <1>2 DEF Task, ReqPc
    <3>2. req' = [req EXCEPT ![r] = t]
      BY <2>1 DEF Spawn
    <3> HIDE DEF t
    <3>3. QED
      BY <1>1, <1>2, <3>1, <3>2 DEF TypeOK, Wired, RequestsWired
  <2>2. CASE ForkTimesOut(r, p)
    <3>1. req' = [req EXCEPT ![r] = NoTask]
      BY <2>2 DEF ForkTimesOut, Finish
    <3>2. QED
      BY <1>1, <3>1, ConstantTypes DEF TypeOK, Wired, RequestsWired
  <2>3. QED
    BY <2>1, <2>2
<1>4. MonitorsWired' /\ FilesWired' /\ EntriesWired' /\ CleanupsWired'
  BY <1>1 DEF TypeOK, Wired, MonitorsWired, FilesWired, EntriesWired, CleanupsWired
<1>5. QED
  BY <1>1, <1>2, <1>3, <1>4 DEF TypeOK, Wired, apiVars

\* A daemon is registered.
LEMMA DaemonRegisters ==
    ASSUME TypeOK, Wired, NEW r \in Tasks, Register(r)
    PROVE  TypeOK' /\ Wired'
<1> DEFINE s == req[r].srv
           p == req[r].pid
<1>1. s \in Servers /\ p \in Pids /\ owner[p] = s /\ os[p] # "unborn" /\ req[r].pc = "verify"
  BY DEF Register, Wired, RequestsWired
<1>2. /\ pidfile' \in {[pidfile EXCEPT ![s] = p], [pidfile EXCEPT ![s] = None]}
      /\ processes' = [processes EXCEPT ![s] = p]
      /\ status' = [status EXCEPT ![p] = "starting"]
      /\ mon' = [mon EXCEPT ![p] = "startup"]
      /\ Notify(r, s, "starting")
      /\ Goto(r, "wStarting")
      /\ UNCHANGED <<apiVars, osVars, clean, db>>
  BY DEF Register
<1> HIDE DEF s, p
<1>3. req' \in [Tasks -> Task] /\ RequestsWired'
  <2>1. "wStarting" \in ReqPc \ {"idle", "verify"}
    BY DEF ReqPc
  <2>2. QED
    BY <1>1, <1>2, <2>1, GotoKeeps DEF Wired
<1>4. writes' \subseteq [by: Writers, upd: Updates]
  BY <1>1, <1>2, NotifyType, Membership DEF Status
<1>5. TypeOK'
  BY <1>1, <1>2, <1>3, <1>4 DEF TypeOK, apiVars, osVars, Status, MonPc
<1>6. MonitorsWired' /\ FilesWired' /\ EntriesWired' /\ CleanupsWired'
  BY <1>1, <1>2 DEF TypeOK, Wired, MonitorsWired, FilesWired, EntriesWired, CleanupsWired, osVars
<1>7. QED
  BY <1>3, <1>5, <1>6 DEF Wired

\* A stop finds the daemon dead, or is through with its cleanup.
LEMMA StopAdvances ==
    ASSUME TypeOK, Wired, NEW r \in Tasks, StopSeesDead(r) \/ StopCleaned(r)
    PROVE  TypeOK' /\ Wired'
<1>1. UNCHANGED <<apiVars, osVars, processes, status, mon, pidfile, db>>
  BY DEF StopSeesDead, StopCleaned
<1>2. req[r].pc # "idle" /\ req[r].srv \in Servers /\ r \in Cleaners /\ r \in Writers
  BY Membership DEF StopSeesDead, StopCleaned, Wired, RequestsWired
<1>3. {"cleaning", "wStopped"} \subseteq ReqPc \ {"idle", "verify"}
  BY DEF ReqPc
<1>4. req' \in [Tasks -> Task] /\ RequestsWired'
  BY <1>1, <1>2, <1>3, GotoKeeps DEF StopSeesDead, StopCleaned, BeginCleanup, Wired
<1>5. CASE StopSeesDead(r)
  <2>1. clean' \in [Cleaners -> Cleanup] /\ CleanupsWired'
    BY <1>2, <1>5 DEF StopSeesDead, BeginCleanup, TypeOK, Cleanup, Wired, CleanupsWired
  <2>2. QED
    BY <1>1, <1>4, <1>5, <2>1
       DEF StopSeesDead, TypeOK, Wired, MonitorsWired, FilesWired, EntriesWired, apiVars, osVars
<1>6. CASE StopCleaned(r)
  <2>1. writes' \subseteq [by: Writers, upd: Updates]
    BY <1>2, <1>6, NotifyType DEF StopCleaned, Status
  <2>2. QED
    BY <1>1, <1>4, <1>6, <2>1
       DEF StopCleaned, TypeOK, Wired, MonitorsWired, FilesWired, EntriesWired, CleanupsWired,
           apiVars, osVars
<1>7. QED
  BY <1>5, <1>6

\* A monitor acts.
LEMMA MonitorActs ==
    ASSUME TypeOK, Wired, NEW p \in Pids, MonitorStep(p)
    PROVE  TypeOK' /\ Wired'
<1>1. mon[p] # "none" /\ owner[p] \in Servers /\ os[p] # "unborn" /\ p \in Writers /\ p \in Cleaners
  BY Membership
     DEF MonitorStep, MonitorSeesDeath, MonitorSeesStartup, MonitorResumes, MonitorSeesStop,
         MonitorExits, RestoredMonitorSeesStop, MonitorSchedulesCleanup, Wired, MonitorsWired
<1>2. ASSUME NEW st \in Status, NEW pc \in MonPc, MonitorReports(p, st, pc)
      PROVE  TypeOK' /\ Wired'
  <2>1. writes' \subseteq [by: Writers, upd: Updates]
    BY <1>1, <1>2, NotifyType DEF MonitorReports
  <2>2. QED
    BY <1>1, <1>2, <2>1
       DEF MonitorReports, TypeOK, Wired, RequestsWired, MonitorsWired, FilesWired, EntriesWired,
           CleanupsWired, apiVars, osVars
<1>3. CASE MonitorSeesDeath(p) \/ MonitorSeesStartup(p) \/ MonitorSeesStop(p)
           \/ RestoredMonitorSeesStop(p)
  BY <1>2, <1>3 DEF MonitorSeesDeath, MonitorSeesStartup, MonitorSeesStop,
                    RestoredMonitorSeesStop, Status, MonPc
<1>4. CASE MonitorResumes(p) \/ MonitorExits(p)
  BY <1>1, <1>4
     DEF MonitorResumes, MonitorExits, TypeOK, Wired, RequestsWired, MonitorsWired, FilesWired,
         EntriesWired, CleanupsWired, MonPc, apiVars, osVars
<1>5. CASE MonitorSchedulesCleanup(p)
  BY <1>1, <1>5
     DEF MonitorSchedulesCleanup, TypeOK, Wired, RequestsWired, MonitorsWired, FilesWired,
         EntriesWired, CleanupsWired, Cleanup, MonPc, apiVars, osVars
<1>6. QED
  BY <1>3, <1>4, <1>5 DEF MonitorStep

\* A cleanup acts.
LEMMA CleanupActs ==
    ASSUME TypeOK, Wired, NEW c \in Cleaners, CleanupStep(c)
    PROVE  TypeOK' /\ Wired'
<1> DEFINE s == clean[c].srv
<1>1. s \in Servers /\ clean[c] \in Cleanup
  BY DEF CleanupStep, CleanupCancels, CleanupDeletes, TypeOK, Wired, CleanupsWired
<1>2. CASE CleanupCancels(c)
  <2>1. /\ mon' \in {mon, [mon EXCEPT ![processes[s]] = "done"]}
        /\ clean' \in {[clean EXCEPT ![c] = NoClean], [clean EXCEPT ![c].st = "wait"]}
        /\ processes[s] = None => UNCHANGED mon
        /\ UNCHANGED <<apiVars, osVars, processes, status, req, pidfile, db, writes>>
    BY <1>2 DEF CleanupCancels
  <2>2. clean' \in [Cleaners -> Cleanup] /\ CleanupsWired'
    BY <1>1, <2>1, ConstantTypes DEF TypeOK, Cleanup, Wired, CleanupsWired
  <2>3. processes[s] # None => processes[s] \in Pids /\ owner[processes[s]] \in Servers
                               /\ os[processes[s]] # "unborn"
    BY <1>1 DEF TypeOK, Wired, EntriesWired
  <2>4. mon' \in [Pids -> MonPc] /\ MonitorsWired'
    BY <1>1, <2>1, <2>3 DEF TypeOK, Wired, MonitorsWired, MonPc, osVars
  <2>5. QED
    BY <2>1, <2>2, <2>4
       DEF TypeOK, Wired, RequestsWired, FilesWired, EntriesWired, apiVars, osVars
<1>3. CASE CleanupDeletes(c)
  <2>1. clean' \in [Cleaners -> Cleanup] /\ CleanupsWired'
    BY <1>3, ConstantTypes DEF CleanupDeletes, TypeOK, Wired, CleanupsWired
  <2>2. QED
    BY <1>1, <1>3, <2>1
       DEF CleanupDeletes, TypeOK, Wired, RequestsWired, MonitorsWired, FilesWired, EntriesWired,
           apiVars, osVars
<1>4. QED
  BY <1>2, <1>3 DEF CleanupStep

\* A worker thread ends.
LEMMA WriteEnding ==
    ASSUME TypeOK, Wired, NEW w \in writes, WriteCommits(w) \/ WriteFails(w)
    PROVE  TypeOK' /\ Wired'
<1>1. PICK S \in SUBSET Servers : w.upd \in [S -> Status]
  BY DEF TypeOK, Updates
<1>2. Apply(w.upd, db) \in [Servers -> Status]
  BY <1>1 DEF Apply, TypeOK
<1>3. db' \in [Servers -> Status] /\ writes' \subseteq [by: Writers, upd: Updates]
  BY <1>2 DEF WriteCommits, WriteFails, TypeOK
<1>4. UNCHANGED <<apiVars, osVars, processes, status, mon, clean, req, pidfile>>
  BY DEF WriteCommits, WriteFails
<1>5. QED
  BY <1>3, <1>4 DEF TypeOK, Wired, RequestsWired, MonitorsWired, FilesWired, EntriesWired,
                    CleanupsWired, apiVars, osVars

\* The API process ends: only the disk and the daemons are left.
LEMMA ApiEnds ==
    ASSUME TypeOK, Wired, Crash \/ ShutdownKeep \/ ShutdownDone
    PROVE  TypeOK' /\ Wired'
<1>1. ProcessEnds /\ (UNCHANGED pidfile \/ CleanupsFinish)
  BY DEF Crash, ShutdownKeep, ShutdownDone
<1>2. pidfile' \in [Servers -> Pids \cup {None}] /\ FilesWired'
  BY <1>1 DEF ProcessEnds, CleanupsFinish, TypeOK, Wired, FilesWired, osVars
<1>3. db' \in [Servers -> Status] /\ writes' \subseteq [by: Writers, upd: Updates]
  BY <1>1 DEF ProcessEnds, SomeCommitted
<1>4. TypeOK'
  BY <1>1, <1>2, <1>3, ConstantTypes DEF ProcessEnds, TypeOK, osVars, Status, MonPc
<1>5. RequestsWired' /\ MonitorsWired' /\ EntriesWired' /\ CleanupsWired'
  BY <1>1, ConstantTypes
     DEF ProcessEnds, RequestsWired, MonitorsWired, EntriesWired, CleanupsWired
<1>6. QED
  BY <1>2, <1>4, <1>5 DEF Wired

\* shutdown_all creates its stop tasks.
LEMMA StopTasksStart ==
    ASSUME TypeOK, Wired, ShutdownStop
    PROVE  TypeOK' /\ Wired'
<1> DEFINE running == {s \in Servers : processes[s] # None}
           upd(s) == [x \in {s} |-> "stopping"]
           new == {[by |-> s, upd |-> upd(s)] : s \in running}
           begin(r) == [pc |-> "wStopping", op |-> "stop", srv |-> r, pid |-> processes[r]]
<1>1. new \subseteq [by: Writers, upd: Updates]
  <2>1. \A s \in running : upd(s) \in Updates
    BY SingletonUpdate DEF Status
  <2>2. running \subseteq Writers
    BY Membership
  <2> HIDE DEF running, upd
  <2>3. QED
    BY <2>1, <2>2
<1>2. \A r \in running : begin(r) \in Task /\ begin(r).srv \in Servers
                         /\ begin(r).pc = "wStopping"
  BY DEF TypeOK, Task, ReqPc, Ops
<1>3. /\ api' = "stopping"
      /\ status' \in [Pids -> Status]
      /\ req' = [r \in Tasks |-> IF r \in running THEN begin(r) ELSE req[r]]
      /\ writes' = writes \cup new
      /\ UNCHANGED <<boots, todo, osVars, processes, mon, clean, pidfile, db>>
  BY DEF ShutdownStop, TypeOK, Status
<1> HIDE DEF running, upd, new, begin
<1>4. req' \in [Tasks -> Task] /\ RequestsWired'
  BY <1>2, <1>3 DEF TypeOK, Wired, RequestsWired, osVars
<1>5. QED
  BY <1>1, <1>3, <1>4 DEF TypeOK, Wired, MonitorsWired, FilesWired, EntriesWired, CleanupsWired,
                          osVars

\* One directory is scanned.
LEMMA ServerRestored ==
    ASSUME TypeOK, Wired, NEW s \in Servers, RestoreServer(s)
    PROVE  TypeOK' /\ Wired'
<1> DEFINE p == pidfile[s]
<1>1. api' = api /\ UNCHANGED <<boots, osVars, clean, req, db>> /\ todo' \subseteq Servers
  BY DEF RestoreServer, TypeOK
<1>2. p # None => p \in Pids /\ owner[p] = s /\ os[p] # "unborn"
  BY DEF TypeOK, Wired, FilesWired
<1>3. \/ /\ p # None
         /\ processes' = [processes EXCEPT ![s] = p]
         /\ status' = [status EXCEPT ![p] = "running"]
         /\ mon' = [mon EXCEPT ![p] = "restored"]
         /\ Notify(Boot, s, "running")
         /\ UNCHANGED pidfile
      \/ /\ pidfile' = [pidfile EXCEPT ![s] = None]
         /\ UNCHANGED <<processes, status, mon, writes>>
  BY DEF RestoreServer
<1> HIDE DEF p
<1>4. writes' \subseteq [by: Writers, upd: Updates]
  BY <1>3, NotifyType, Membership DEF TypeOK, Status
<1>5. TypeOK'
  BY <1>1, <1>2, <1>3, <1>4 DEF TypeOK, osVars, Status, MonPc
<1>6. MonitorsWired' /\ FilesWired' /\ EntriesWired'
  BY <1>1, <1>2, <1>3 DEF TypeOK, Wired, MonitorsWired, FilesWired, EntriesWired, osVars
<1>7. RequestsWired' /\ CleanupsWired'
  BY <1>1 DEF Wired, RequestsWired, CleanupsWired, osVars
<1>8. QED
  BY <1>5, <1>6, <1>7 DEF Wired

\* The start of the API before and after the scan.
LEMMA BootAdvances ==
    ASSUME TypeOK, Wired, BootStarts \/ SyncStates \/ BootDone
    PROVE  TypeOK' /\ Wired'
<1>1. UNCHANGED <<osVars, processes, status, mon, clean, req, pidfile, db>>
  BY DEF BootStarts, SyncStates, BootDone
<1>2. Corrections \in Updates
  <2> DEFINE tracked == {s \in Servers : processes[s] # None}
             up == {s \in tracked : db[s] \in {"stopped", "error"}}
             down == {s \in Servers \ tracked : db[s] \in {"starting", "running", "stopping"}}
  <2>1. up \cup down \in SUBSET Servers
    OBVIOUS
  <2>2. Corrections \in [up \cup down -> Status]
    BY DEF Corrections, Status
  <2> HIDE DEF up, down
  <2>3. QED
    BY <2>1, <2>2 DEF Updates
<1>3. writes' \subseteq [by: Writers, upd: Updates]
  BY <1>2, Membership DEF BootStarts, SyncStates, BootDone, TypeOK
<1>4. api' \in {"up", "restoring", "syncing"} /\ todo' \subseteq Servers
  BY DEF BootStarts, SyncStates, BootDone, TypeOK
<1>5. boots' \in 0..MaxBoots
  BY ConstAssumption DEF BootStarts, SyncStates, BootDone, TypeOK
<1>6. QED
  BY <1>1, <1>3, <1>4, <1>5 DEF TypeOK, Wired, RequestsWired, MonitorsWired, FilesWired,
                                EntriesWired, CleanupsWired, osVars

LEMMA DaemonDies ==
    ASSUME TypeOK, Wired, NEW p \in Pids, Die(p)
    PROVE  TypeOK' /\ Wired'
BY DEF Die, TypeOK, Wired, RequestsWired, MonitorsWired, FilesWired, EntriesWired, CleanupsWired,
       apiVars

LEMMA TypeStep == TypeOK /\ Wired /\ [Next]_vars => TypeOK' /\ Wired'
<1> SUFFICES ASSUME TypeOK, Wired, [Next]_vars PROVE TypeOK' /\ Wired'
  OBVIOUS
<1>1. CASE UNCHANGED vars
  BY <1>1 DEF vars, apiVars, osVars, TypeOK, Wired, RequestsWired, MonitorsWired, FilesWired,
              EntriesWired, CleanupsWired
<1>2. ASSUME NEW r \in Requests, StartStep(r) PROVE TypeOK' /\ Wired'
  BY <1>2, RequestBegins, RequestMoves, DaemonForks, DaemonRegisters, Membership DEF StartStep
<1>3. ASSUME NEW r \in Requests, NEW s \in Servers, BeginStop(r, s) \/ BeginRestart(r, s)
      PROVE  TypeOK' /\ Wired'
  BY <1>3, RequestBegins
<1>4. ASSUME NEW r \in Tasks, StopStep(r) PROVE TypeOK' /\ Wired'
  BY <1>4, RequestMoves, StopAdvances DEF StopStep
<1>5. ASSUME NEW p \in Pids, MonitorStep(p) \/ Die(p) PROVE TypeOK' /\ Wired'
  BY <1>5, MonitorActs, DaemonDies
<1>6. ASSUME NEW c \in Cleaners, CleanupStep(c) PROVE TypeOK' /\ Wired'
  BY <1>6, CleanupActs
<1>7. ASSUME NEW w \in writes, WriteCommits(w) \/ WriteFails(w) PROVE TypeOK' /\ Wired'
  BY <1>7, WriteEnding
<1>8. CASE BootStep
  BY <1>8, BootAdvances, ServerRestored DEF BootStep
<1>9. CASE Crash \/ ShutdownKeep \/ ShutdownStop \/ ShutdownDone
  BY <1>9, ApiEnds, StopTasksStart
<1>10. QED
  BY <1>1, <1>2, <1>3, <1>4, <1>5, <1>6, <1>7, <1>8, <1>9 DEF Next

\* Every variable keeps its type, and requests, monitors, cleanups, entries and
\* PID files always name a daemon spawned for the server they are about.
THEOREM TypeCorrect == Spec => [](TypeOK /\ Wired)
<1>1. Init => TypeOK /\ Wired
  BY InitInvariant
<1>2. (TypeOK /\ Wired) /\ [Next]_vars => (TypeOK /\ Wired)'
  BY TypeStep
<1>3. QED
  BY <1>1, <1>2, PTL DEF Spec

-----------------------------------------------------------------------------
(* PID files and entries.                                                    *)

\* Requests run only while the API serves, and directories wait for their scan
\* only while it does not.
Phases ==
    /\ api \in {"up", "stopping", "syncing"} => todo = {}
    /\ api = "down" => todo = Servers
    /\ api \in {"down", "restoring", "syncing"} => \A r \in Tasks : req[r].pc = "idle"

\* The steps that touch an entry, a PID file or the list of directories.
TableStep ==
    \/ \E r \in Tasks : Register(r)
    \/ \E c \in Cleaners : CleanupDeletes(c)
    \/ \E s \in Servers : RestoreServer(s)
    \/ BootStarts \/ Crash \/ ShutdownKeep \/ ShutdownDone

LEMMA OtherStepsKeepTables ==
    ASSUME [Next]_vars
    PROVE  TableStep \/ UNCHANGED <<processes, pidfile, todo>>
BY Membership
   DEF Next, vars, apiVars, TableStep, StartStep, StopStep, MonitorStep, CleanupStep, BootStep,
       BeginStart, StartRefused, Spawn, ForkTimesOut, StartDied, StartReturns, BeginStop,
       BeginRestart, StopSignals, StopSeesDead, StopEscalates, StopGivesUp, StopCleaned,
       StopReturns, RestartProceeds, MonitorSeesDeath, MonitorSeesStartup, MonitorResumes,
       MonitorSeesStop, MonitorExits, RestoredMonitorSeesStop, MonitorSchedulesCleanup,
       MonitorReports, CleanupCancels, WriteCommits, WriteFails, ShutdownStop, SyncStates,
       BootDone, Die

\* A request in progress means that the API serves.
LEMMA RequestsServed ==
    ASSUME TypeOK, Phases, NEW r \in Tasks, req[r].pc # "idle"
    PROVE  api \in {"up", "stopping"} /\ todo = {}
BY DEF TypeOK, Phases

LEMMA PhasesStep ==
    ASSUME TypeOK, Phases, [Next]_vars
    PROVE  Phases'
<1>1. CASE \/ Crash \/ ShutdownKeep \/ ShutdownDone
  BY <1>1, ConstantTypes DEF Crash, ShutdownKeep, ShutdownDone, ProcessEnds, Phases
<1>2. CASE ShutdownStop
  BY <1>2 DEF ShutdownStop, Phases
<1>3. CASE BootStep
  BY <1>3 DEF BootStep, BootStarts, SyncStates, BootDone, RestoreServer, Phases
<1>4. CASE UNCHANGED <<apiVars, req>>
  BY <1>4 DEF apiVars, Phases
<1>5. CASE UNCHANGED apiVars /\ api = "up"
  BY <1>5 DEF apiVars, Phases
<1>6. CASE UNCHANGED apiVars /\ \E r \in Tasks : req[r].pc # "idle"
  BY <1>6, RequestsServed DEF apiVars, Phases
<1>7. ASSUME NEW r \in Requests, StartStep(r)
      PROVE  UNCHANGED apiVars /\ (api = "up" \/ \E t \in Tasks : req[t].pc # "idle")
  BY <1>7, Membership DEF StartStep, BeginStart, StartRefused, Spawn, ForkTimesOut, StartDied,
                          Register, StartReturns
<1>8. ASSUME NEW r \in Tasks, StopStep(r)
      PROVE  UNCHANGED apiVars /\ \E t \in Tasks : req[t].pc # "idle"
  BY <1>8 DEF StopStep, StopSignals, StopSeesDead, StopEscalates, StopGivesUp, StopCleaned,
              StopReturns, RestartProceeds
<1>9. ASSUME NEW r \in Requests, NEW s \in Servers, BeginStop(r, s) \/ BeginRestart(r, s)
      PROVE  UNCHANGED apiVars /\ api = "up"
  BY <1>9 DEF BeginStop, BeginRestart
<1>10. ASSUME NEW p \in Pids, MonitorStep(p) \/ Die(p) PROVE UNCHANGED <<apiVars, req>>
  BY <1>10 DEF MonitorStep, MonitorSeesDeath, MonitorSeesStartup, MonitorResumes,
               MonitorSeesStop, MonitorExits, RestoredMonitorSeesStop, MonitorSchedulesCleanup,
               MonitorReports, Die
<1>11. ASSUME NEW c \in Cleaners, CleanupStep(c) PROVE UNCHANGED <<apiVars, req>>
  BY <1>11 DEF CleanupStep, CleanupCancels, CleanupDeletes
<1>12. ASSUME NEW w \in writes, WriteCommits(w) \/ WriteFails(w) PROVE UNCHANGED <<apiVars, req>>
  BY <1>12 DEF WriteCommits, WriteFails
<1>13. CASE UNCHANGED vars
  BY <1>4, <1>13 DEF vars
<1>14. QED
  BY <1>1, <1>2, <1>3, <1>4, <1>5, <1>6, <1>7, <1>8, <1>9, <1>10, <1>11, <1>12, <1>13 DEF Next

LEMMA MirrorStep ==
    ASSUME TypeOK, Wired, Phases, PidFileMirrorsEntry, [Next]_vars
    PROVE  PidFileMirrorsEntry'
<1> SUFFICES ASSUME AutoSync, "pidwrite" \notin Faults
             PROVE  \A s \in Servers :
                      IF s \in todo' THEN processes'[s] = None ELSE pidfile'[s] = processes'[s]
  BY DEF PidFileMirrorsEntry
<1>1. \A s \in Servers : IF s \in todo THEN processes[s] = None ELSE pidfile[s] = processes[s]
  BY DEF PidFileMirrorsEntry
<1>2. ASSUME NEW r \in Tasks, Register(r)
      PROVE  \A s \in Servers :
               IF s \in todo' THEN processes'[s] = None ELSE pidfile'[s] = processes'[s]
  <2>1. todo = {} /\ todo' = todo
    BY <1>2, RequestsServed DEF Register, apiVars
  <2>2. \E s, p : pidfile' = [pidfile EXCEPT ![s] = p] /\ processes' = [processes EXCEPT ![s] = p]
    BY <1>2 DEF Register
  <2>3. QED
    BY <1>1, <2>1, <2>2 DEF TypeOK
<1>3. ASSUME NEW c \in Cleaners, CleanupDeletes(c)
      PROVE  \A s \in Servers :
               IF s \in todo' THEN processes'[s] = None ELSE pidfile'[s] = processes'[s]
  BY <1>1, <1>3 DEF CleanupDeletes, apiVars, TypeOK
<1>4. ASSUME NEW s \in Servers, RestoreServer(s)
      PROVE  \A t \in Servers :
               IF t \in todo' THEN processes'[t] = None ELSE pidfile'[t] = processes'[t]
  BY <1>1, <1>4 DEF RestoreServer, TypeOK
<1>5. CASE BootStarts
  BY <1>1, <1>5 DEF BootStarts, Phases
<1>6. CASE Crash \/ ShutdownKeep \/ ShutdownDone
  BY <1>6 DEF Crash, ShutdownKeep, ShutdownDone, ProcessEnds
<1>7. CASE UNCHANGED <<processes, pidfile, todo>>
  BY <1>1, <1>7
<1>8. QED
  BY <1>2, <1>3, <1>4, <1>5, <1>6, <1>7, OtherStepsKeepTables DEF TableStep

\* With PID files that can be written and the startup scan on, the file of every
\* server scanned names exactly the daemon the manager tracks: whatever starts,
\* stops, restarts, cleanups, crashes and shutdowns overlap, a restarted API finds
\* what was tracked and nothing else.
THEOREM PidFilesMirror == Spec => []PidFileMirrorsEntry
<1>1. Init => Phases /\ PidFileMirrorsEntry
  BY ConstantTypes DEF Init, Phases, PidFileMirrorsEntry
<1>2. TypeOK /\ Wired /\ Phases /\ PidFileMirrorsEntry /\ [Next]_vars
        => Phases' /\ PidFileMirrorsEntry'
  BY PhasesStep, MirrorStep
<1>3. QED
  BY <1>1, <1>2, TypeCorrect, PTL DEF Spec

-----------------------------------------------------------------------------
(* Watched entries.                                                          *)

\* A cleanup works for the server of the monitor or of the stop that asked for it.
CleanersBound ==
    /\ \A p \in Pids : clean[p].srv # None => clean[p].srv = owner[p] /\ os[p] # "unborn"
    /\ \A r \in Tasks :
         clean[r].srv # None => req[r].pc = "cleaning" /\ clean[r].srv = req[r].srv

WatchInv == TypeOK /\ Wired /\ CleanersBound /\ EntryWatched

LEMMA PidsAreNotTasks == Pids \cap Tasks = {} /\ None \notin Cleaners
BY ConstAssumption DEF Tasks, Cleaners

\* Requests do not touch entries, monitors or other cleanups, except to register
\* and to ask for a cleanup.
LEMMA WatchRequest ==
    ASSUME WatchInv, NEW r \in Tasks,
           \/ StartRefused(r) \/ StartDied(r) \/ StartReturns(r) \/ StopSignals(r)
           \/ StopEscalates(r) \/ StopGivesUp(r) \/ StopReturns(r) \/ RestartProceeds(r)
           \/ StopCleaned(r)
    PROVE  CleanersBound' /\ EntryWatched'
<1>1. UNCHANGED <<osVars, processes, mon, clean>>
  BY DEF StartRefused, StartDied, StartReturns, StopSignals, StopEscalates, StopGivesUp,
         StopReturns, RestartProceeds, StopCleaned
<1>2. \A t \in Tasks \ {r} : req'[t] = req[t]
  BY DEF StartRefused, StartDied, StartReturns, StopSignals, StopEscalates, StopGivesUp,
         StopReturns, RestartProceeds, StopCleaned, StopDone, Goto, Finish, WatchInv, TypeOK
<1>3. clean[r].srv = None
  <2>1. CASE req[r].pc # "cleaning"
    BY <2>1 DEF WatchInv, CleanersBound
  <2>2. CASE StopCleaned(r)
    BY <2>2, Membership DEF StopCleaned, WatchInv, Wired, CleanupsWired
  <2>3. QED
    BY <2>1, <2>2 DEF StartRefused, StartDied, StartReturns, StopSignals, StopEscalates,
                      StopGivesUp, StopReturns, RestartProceeds
<1>4. QED
  BY <1>1, <1>2, <1>3 DEF WatchInv, CleanersBound, EntryWatched, osVars

LEMMA WatchBegin ==
    ASSUME WatchInv, NEW r \in Requests, NEW s \in Servers,
           BeginStart(r, s) \/ BeginStop(r, s) \/ BeginRestart(r, s)
    PROVE  CleanersBound' /\ EntryWatched'
<1>1. UNCHANGED <<osVars, processes, mon, clean>> /\ req[r].pc = "idle" /\ r \in Tasks
  BY Membership DEF BeginStart, BeginStop, BeginRestart
<1>2. \A t \in Tasks \ {r} : req'[t] = req[t]
  BY DEF BeginStart, BeginStop, BeginRestart, EnterStop, WatchInv, TypeOK
<1>3. QED
  BY <1>1, <1>2 DEF WatchInv, CleanersBound, EntryWatched, osVars

LEMMA WatchFork ==
    ASSUME WatchInv, NEW r \in Requests, NEW p \in Pids, Spawn(r, p) \/ ForkTimesOut(r, p)
    PROVE  CleanersBound' /\ EntryWatched'
<1>1. /\ r \in Tasks /\ req[r].pc = "prep" /\ os[p] = "unborn"
      /\ os' = [os EXCEPT ![p] = "alive"]
      /\ owner' = [owner EXCEPT ![p] = req[r].srv]
      /\ UNCHANGED <<processes, mon, clean>>
  BY Membership DEF Spawn, ForkTimesOut
<1>2. \A t \in Tasks \ {r} : req'[t] = req[t]
  BY DEF Spawn, ForkTimesOut, Finish, WatchInv, TypeOK
<1>3. QED
  BY <1>1, <1>2 DEF WatchInv, CleanersBound, EntryWatched, TypeOK

LEMMA WatchRegister ==
    ASSUME WatchInv, NEW r \in Tasks, Register(r)
    PROVE  CleanersBound' /\ EntryWatched'
<1> DEFINE s == req[r].srv
           p == req[r].pid
<1>1. s \in Servers /\ p \in Pids
  BY DEF Register, WatchInv, Wired, RequestsWired
<1>2. /\ processes' = [processes EXCEPT ![s] = p]
      /\ mon' = [mon EXCEPT ![p] = "startup"]
      /\ UNCHANGED <<osVars, clean>> /\ req[r].pc = "verify"
  BY DEF Register
<1>3. \A t \in Tasks \ {r} : req'[t] = req[t]
  BY DEF Register, Goto, WatchInv, TypeOK
<1> HIDE DEF s, p
<1>4. CleanersBound'
  BY <1>2, <1>3 DEF WatchInv, CleanersBound, osVars
<1>5. EntryWatched'
  BY <1>1, <1>2 DEF WatchInv, EntryWatched, TypeOK, Active
<1>6. QED
  BY <1>4, <1>5

LEMMA WatchStopCleanup ==
    ASSUME WatchInv, NEW r \in Tasks, StopSeesDead(r)
    PROVE  CleanersBound' /\ EntryWatched'
<1>1. /\ UNCHANGED <<osVars, processes, mon>>
      /\ clean' = [clean EXCEPT ![r] = [st |-> "ready", srv |-> req[r].srv]]
      /\ req' = [req EXCEPT ![r].pc = "cleaning"]
      /\ req[r].pc # "cleaning"
  BY DEF StopSeesDead, BeginCleanup, Goto
<1>2. clean[r].srv = None
  BY <1>1 DEF WatchInv, CleanersBound
<1>3. r \in Cleaners /\ r \notin Pids
  BY Membership, PidsAreNotTasks
<1>4. CleanersBound'
  BY <1>1, <1>3, Membership DEF WatchInv, CleanersBound, TypeOK, Task, osVars
<1>5. \A c \in Cleaners : clean[c].srv # None => clean'[c].srv = clean[c].srv
  BY <1>1, <1>2 DEF WatchInv, TypeOK
<1>6. EntryWatched'
  BY <1>1, <1>5, ConstAssumption DEF WatchInv, EntryWatched
<1>7. QED
  BY <1>4, <1>6

\* A monitor ends only after its entry has gone or with a cleanup on its way.
LEMMA WatchMonitor ==
    ASSUME WatchInv, NEW p \in Pids, MonitorStep(p)
    PROVE  CleanersBound' /\ EntryWatched'
<1>1. UNCHANGED <<osVars, processes, req>>
  BY DEF MonitorStep, MonitorSeesDeath, MonitorSeesStartup, MonitorResumes, MonitorSeesStop,
         MonitorExits, RestoredMonitorSeesStop, MonitorSchedulesCleanup, MonitorReports
<1>2. CASE MonitorSchedulesCleanup(p)
  <2>1. /\ mon' = [mon EXCEPT ![p] = "done"]
        /\ clean' = [clean EXCEPT ![p] = [st |-> "ready", srv |-> owner[p]]]
        /\ mon[p] # "none"
    BY <1>2 DEF MonitorSchedulesCleanup
  <2>2. owner[p] \in Servers /\ os[p] # "unborn" /\ p \in Cleaners /\ p \notin Tasks
    BY <2>1, Membership, PidsAreNotTasks DEF WatchInv, Wired, MonitorsWired
  <2>3. CleanersBound'
    BY <1>1, <2>1, <2>2, Membership DEF WatchInv, CleanersBound, TypeOK, osVars
  <2>4. \A c \in Cleaners : clean[c].srv # None => clean'[c].srv = clean[c].srv
    BY <2>1, <2>2 DEF WatchInv, CleanersBound, TypeOK
  <2>5. clean'[p].srv = owner[p]
    BY <2>1, <2>2 DEF WatchInv, TypeOK
  <2>6. EntryWatched'
    BY <1>1, <2>1, <2>2, <2>4, <2>5, ConstAssumption
       DEF WatchInv, EntryWatched, TypeOK, Wired, EntriesWired
  <2>7. QED
    BY <2>3, <2>6
<1>3. CASE MonitorExits(p)
  <2>1. processes[owner[p]] = None /\ mon' = [mon EXCEPT ![p] = "done"] /\ UNCHANGED clean
    BY <1>3 DEF MonitorExits
  <2>2. \A s \in Servers : processes[s] # None => processes[s] # p
    BY <2>1 DEF WatchInv, Wired, EntriesWired
  <2>3. QED
    BY <1>1, <2>1, <2>2 DEF WatchInv, CleanersBound, EntryWatched, TypeOK, osVars
<1>4. ASSUME NEW pc \in Active, mon' = [mon EXCEPT ![p] = pc], UNCHANGED clean
      PROVE  CleanersBound' /\ EntryWatched'
  BY <1>1, <1>4 DEF WatchInv, CleanersBound, EntryWatched, TypeOK, osVars
<1>5. QED
  BY <1>2, <1>3, <1>4
     DEF MonitorStep, MonitorSeesDeath, MonitorSeesStartup, MonitorResumes, MonitorSeesStop,
         RestoredMonitorSeesStop, MonitorReports, Active

LEMMA WatchCleanup ==
    ASSUME WatchInv, NEW c \in Cleaners, CleanupStep(c)
    PROVE  CleanersBound' /\ EntryWatched'
<1> DEFINE s == clean[c].srv
<1>1. s \in Servers /\ clean[c] \in Cleanup /\ UNCHANGED <<osVars, req>>
  BY DEF CleanupStep, CleanupCancels, CleanupDeletes, WatchInv, TypeOK, Wired, CleanupsWired
<1>2. CASE CleanupCancels(c) /\ processes[s] # None
  <2>1. /\ mon' = [mon EXCEPT ![processes[s]] = "done"]
        /\ clean' = [clean EXCEPT ![c].st = "wait"]
        /\ UNCHANGED processes
    BY <1>2 DEF CleanupCancels
  <2>2. \A x \in Cleaners : clean'[x].srv = clean[x].srv
    BY <1>1, <2>1 DEF WatchInv, TypeOK, Cleanup
  <2>3. \A t \in Servers : processes[t] # None /\ processes[t] = processes[s] => t = s
    BY <1>1 DEF WatchInv, Wired, EntriesWired
  <2>4. CleanersBound'
    BY <1>1, <2>2, Membership DEF WatchInv, CleanersBound, osVars
  <2>5. \A t \in Servers : processes[t] # None /\ t # s => mon'[processes[t]] = mon[processes[t]]
    BY <1>1, <2>1, <2>3 DEF WatchInv, TypeOK
  <2>6. EntryWatched'
    BY <1>1, <2>1, <2>2, <2>5 DEF WatchInv, EntryWatched
  <2>7. QED
    BY <2>4, <2>6
<1>3. CASE \/ CleanupCancels(c) /\ processes[s] = None
           \/ CleanupDeletes(c)
  <2>1. /\ clean' = [clean EXCEPT ![c] = NoClean] /\ UNCHANGED mon
        /\ processes' = [processes EXCEPT ![s] = None]
    BY <1>1, <1>3 DEF CleanupCancels, CleanupDeletes, WatchInv, TypeOK
  <2>2. CleanersBound'
    BY <1>1, <2>1, ConstantTypes, Membership DEF WatchInv, CleanersBound, TypeOK, osVars
  <2>3. \A x \in Cleaners : clean[x].srv # s => clean'[x].srv = clean[x].srv
    BY <2>1 DEF WatchInv, TypeOK
  <2>4. EntryWatched'
    BY <1>1, <2>1, <2>3 DEF WatchInv, EntryWatched, TypeOK
  <2>5. QED
    BY <2>2, <2>4
<1>4. QED
  BY <1>2, <1>3 DEF CleanupStep

LEMMA WatchApi ==
    ASSUME WatchInv, BootStep \/ Crash \/ ShutdownKeep \/ ShutdownStop \/ ShutdownDone
    PROVE  CleanersBound' /\ EntryWatched'
<1>1. CASE Crash \/ ShutdownKeep \/ ShutdownDone
  BY <1>1, ConstantTypes, Membership
     DEF Crash, ShutdownKeep, ShutdownDone, ProcessEnds, CleanersBound, EntryWatched
<1>2. CASE ShutdownStop
  <2>1. UNCHANGED <<osVars, processes, mon, clean>>
    BY <1>2 DEF ShutdownStop
  <2>2. \A r \in Tasks : req[r].pc = "cleaning" => req'[r] = req[r]
    BY <1>2 DEF ShutdownStop
  <2>3. QED
    BY <2>1, <2>2 DEF WatchInv, CleanersBound, EntryWatched, osVars
<1>3. ASSUME NEW s \in Servers, RestoreServer(s) PROVE CleanersBound' /\ EntryWatched'
  <2>1. CleanersBound'
    BY <1>3 DEF RestoreServer, WatchInv, CleanersBound, osVars
  <2>2. EntryWatched'
    BY <1>3 DEF RestoreServer, WatchInv, EntryWatched, TypeOK, Active
  <2>3. QED
    BY <2>1, <2>2
<1>4. CASE BootStarts \/ SyncStates \/ BootDone
  BY <1>4 DEF BootStarts, SyncStates, BootDone, WatchInv, CleanersBound, EntryWatched, osVars
<1>5. QED
  BY <1>1, <1>2, <1>3, <1>4 DEF BootStep

LEMMA WatchStep ==
    ASSUME WatchInv, [Next]_vars
    PROVE  CleanersBound' /\ EntryWatched'
<1>1. CASE UNCHANGED vars
  BY <1>1 DEF vars, osVars, WatchInv, CleanersBound, EntryWatched
<1>2. ASSUME NEW r \in Requests, StartStep(r) PROVE CleanersBound' /\ EntryWatched'
  BY <1>2, WatchBegin, WatchRequest, WatchFork, WatchRegister, Membership DEF StartStep
<1>3. ASSUME NEW r \in Requests, NEW s \in Servers, BeginStop(r, s) \/ BeginRestart(r, s)
      PROVE  CleanersBound' /\ EntryWatched'
  BY <1>3, WatchBegin
<1>4. ASSUME NEW r \in Tasks, StopStep(r) PROVE CleanersBound' /\ EntryWatched'
  BY <1>4, WatchRequest, WatchStopCleanup DEF StopStep
<1>5. ASSUME NEW p \in Pids, Die(p) PROVE CleanersBound' /\ EntryWatched'
  <2>1. /\ \A q \in Pids : os[q] # "unborn" => os'[q] # "unborn"
        /\ UNCHANGED <<owner, processes, mon, clean, req>>
    BY <1>5 DEF Die, WatchInv, TypeOK
  <2>2. QED
    BY <2>1 DEF WatchInv, CleanersBound, EntryWatched
<1>6. ASSUME NEW p \in Pids, MonitorStep(p) PROVE CleanersBound' /\ EntryWatched'
  BY <1>6, WatchMonitor
<1>7. ASSUME NEW c \in Cleaners, CleanupStep(c) PROVE CleanersBound' /\ EntryWatched'
  BY <1>7, WatchCleanup
<1>8. ASSUME NEW w \in writes, WriteCommits(w) \/ WriteFails(w)
      PROVE  CleanersBound' /\ EntryWatched'
  BY <1>8 DEF WriteCommits, WriteFails, WatchInv, CleanersBound, EntryWatched, osVars
<1>9. CASE BootStep \/ Crash \/ ShutdownKeep \/ ShutdownStop \/ ShutdownDone
  BY <1>9, WatchApi
<1>10. QED
  BY <1>1, <1>2, <1>3, <1>4, <1>5, <1>6, <1>7, <1>8, <1>9 DEF Next

\* No entry of manager.processes is ever without a task that will remove it once
\* its daemon is gone, whatever requests, cleanups, crashes and shutdowns overlap.
THEOREM EntriesWatched == Spec => []EntryWatched
<1>1. Init => CleanersBound /\ EntryWatched
  BY ConstantTypes, Membership DEF Init, CleanersBound, EntryWatched, NoClean
<1>2. TypeOK /\ Wired /\ CleanersBound /\ EntryWatched /\ [Next]_vars
        => CleanersBound' /\ EntryWatched'
  BY WatchStep DEF WatchInv
<1>3. QED
  BY <1>1, <1>2, TypeCorrect, PTL DEF Spec

-----------------------------------------------------------------------------
(* Shutting down.                                                            *)

\* The stop task that a shutdown creates for a server is about that server, and
\* it has none before; once the shutdown stops servers, no request is left.
TasksApart ==
    /\ \A s \in Servers : req[s].pc # "idle" => api = "stopping" /\ req[s].srv = s
    /\ api = "stopping" => \A r \in Requests : req[r].pc = "idle"

\* A task that is under way moves on, keeping its server, or ends.
Moves(r) ==
    /\ req[r].pc # "idle" /\ api' = api
    /\ \A t \in Tasks \ {r} : req'[t] = req[t]
    /\ req'[r].pc = "idle" \/ req'[r].srv = req[r].srv

LEMMA GotoMoves ==
    ASSUME TypeOK, NEW r \in Tasks, NEW pc \in ReqPc, Goto(r, pc), req[r].pc # "idle", api' = api
    PROVE  Moves(r)
<1> DEFINE t == [req[r] EXCEPT !.pc = pc]
<1>1. t.srv = req[r].srv
  BY TaskFields DEF TypeOK
<1>2. req' = [req EXCEPT ![r] = t]
  BY DEF Goto
<1> HIDE DEF t
<1>3. QED
  BY <1>1, <1>2 DEF TypeOK, Moves

LEMMA FinishMoves ==
    ASSUME TypeOK, NEW r \in Tasks, Finish(r), req[r].pc # "idle", api' = api
    PROVE  Moves(r)
BY ConstantTypes DEF Finish, TypeOK, Moves

LEMMA StopMoves ==
    ASSUME TypeOK, NEW r \in Tasks, StopStep(r)
    PROVE  Moves(r)
<1>1. req[r].pc # "idle" /\ api' = api
  BY DEF StopStep, StopSignals, StopSeesDead, StopEscalates, StopGivesUp, StopCleaned,
         StopReturns, RestartProceeds, apiVars
<1>2. {"term", "kill", "cleaning", "wStopped", "rPoll"} \subseteq ReqPc
  BY DEF ReqPc
<1>3. CASE RestartProceeds(r) /\ ~Finish(r)
  <2> DEFINE t == [req[r] EXCEPT !.pc = "prep", !.pid = None]
  <2>1. t.srv = req[r].srv
    BY DEF TypeOK, Task
  <2>2. req' = [req EXCEPT ![r] = t]
    BY <1>3 DEF RestartProceeds
  <2> HIDE DEF t
  <2>3. QED
    BY <1>1, <2>1, <2>2 DEF TypeOK, Moves
<1>4. CASE Finish(r)
  BY <1>1, <1>4, FinishMoves
<1>5. CASE \E pc \in ReqPc : Goto(r, pc)
  BY <1>1, <1>5, GotoMoves
<1>6. QED
  BY <1>2, <1>3, <1>4, <1>5
     DEF StopStep, StopSignals, StopSeesDead, StopEscalates, StopGivesUp, StopCleaned,
         StopReturns, BeginCleanup, StopDone

\* A step of a start leaves everything to its own request.
LEMMA StartMoves ==
    ASSUME TypeOK, NEW r \in Requests, StartStep(r)
    PROVE  /\ api' = api /\ (req[r].pc # "idle" \/ api = "up")
           /\ \A t \in Tasks \ {r} : req'[t] = req[t]
BY Membership
   DEF StartStep, BeginStart, StartRefused, Spawn, ForkTimesOut, StartDied, Register, StartReturns,
       Goto, Finish, TypeOK, apiVars

LEMMA BeginMoves ==
    ASSUME TypeOK, NEW r \in Requests, NEW s \in Servers, BeginStop(r, s) \/ BeginRestart(r, s)
    PROVE  /\ api' = api /\ api = "up"
           /\ \A t \in Tasks \ {r} : req'[t] = req[t]
BY Membership DEF BeginStop, BeginRestart, EnterStop, TypeOK, apiVars

LEMMA TasksApartStep ==
    ASSUME TypeOK, Phases, TasksApart, [Next]_vars
    PROVE  TasksApart'
<1>1. CASE UNCHANGED <<api, req>>
  BY <1>1 DEF TasksApart
<1>2. ASSUME NEW r \in Tasks, Moves(r) PROVE TasksApart'
  BY <1>2, Membership DEF Moves, TasksApart
<1>3. ASSUME NEW r \in Requests,
             api' = api, req[r].pc # "idle" \/ api = "up",
             \A t \in Tasks \ {r} : req'[t] = req[t]
      PROVE  TasksApart'
  BY <1>3, ConstAssumption, Membership DEF TasksApart
<1>4. CASE Crash \/ ShutdownKeep \/ ShutdownDone
  BY <1>4, ConstantTypes, Membership DEF Crash, ShutdownKeep, ShutdownDone, ProcessEnds, TasksApart
<1>5. CASE ShutdownStop
  BY <1>5, ConstAssumption, Membership DEF ShutdownStop, TasksApart
<1>6. CASE BootStep
  BY <1>6, Membership
     DEF BootStep, BootStarts, SyncStates, BootDone, RestoreServer, TasksApart, Phases
<1>7. ASSUME NEW p \in Pids, MonitorStep(p) \/ Die(p) PROVE UNCHANGED <<api, req>>
  BY <1>7 DEF MonitorStep, MonitorSeesDeath, MonitorSeesStartup, MonitorResumes,
              MonitorSeesStop, MonitorExits, RestoredMonitorSeesStop, MonitorSchedulesCleanup,
              MonitorReports, Die, apiVars
<1>8. ASSUME NEW c \in Cleaners, CleanupStep(c) PROVE UNCHANGED <<api, req>>
  BY <1>8 DEF CleanupStep, CleanupCancels, CleanupDeletes, apiVars
<1>9. ASSUME NEW w \in writes, WriteCommits(w) \/ WriteFails(w) PROVE UNCHANGED <<api, req>>
  BY <1>9 DEF WriteCommits, WriteFails, apiVars
<1>10. CASE UNCHANGED vars
  BY <1>1, <1>10 DEF vars, apiVars
<1>11. QED
  BY <1>1, <1>2, <1>3, <1>4, <1>5, <1>6, <1>7, <1>8, <1>9, <1>10, StopMoves, StartMoves,
     BeginMoves DEF Next

\* While the shutdown waits, the daemon of every entry is gone, or the stop task
\* of its server is still at it: a task leaves a live daemon only when the signal
\* is refused.
StopTasksRun ==
    "signal" \notin Faults /\ api = "stopping" =>
      \A s \in Servers :
        processes[s] # None =>
          \/ os[processes[s]] = "dead"
          \/ req[s].pc \in {"wStopping", "term", "kill"} /\ req[s].pid = processes[s]

LEMMA StopTaskAdvances ==
    ASSUME TypeOK, StopTasksRun, "signal" \notin Faults, api = "stopping",
           NEW r \in Tasks, StopStep(r), NEW s \in Servers, processes[s] # None
    PROVE  \/ os[processes[s]] = "dead"
           \/ req'[s].pc \in {"wStopping", "term", "kill"} /\ req'[s].pid = processes[s]
<1>1. CASE os[processes[s]] = "dead"
  BY <1>1
<1>2. CASE req[s].pc \in {"wStopping", "term", "kill"} /\ req[s].pid = processes[s] /\ r # s
  BY <1>2, StopMoves, Membership DEF Moves
<1>3. CASE /\ req[s].pc \in {"wStopping", "term", "kill"} /\ req[s].pid = processes[s] /\ r = s
           /\ os[processes[s]] # "dead"
  <2>1. StopSignals(s) \/ StopEscalates(s)
    BY <1>3 DEF StopStep, StopSeesDead, StopGivesUp, StopCleaned, StopReturns, RestartProceeds
  <2>2. \E pc \in {"term", "kill"} : req' = [req EXCEPT ![s].pc = pc]
    BY <2>1 DEF StopSignals, StopEscalates, Goto
  <2>3. QED
    BY <1>3, <2>2, Membership DEF TypeOK, Task
<1>4. QED
  BY <1>1, <1>2, <1>3 DEF StopTasksRun

LEMMA StopTasksStep ==
    ASSUME TypeOK, TasksApart, StopTasksRun, [Next]_vars
    PROVE  StopTasksRun'
<1> SUFFICES ASSUME "signal" \notin Faults, api' = "stopping",
                    NEW s \in Servers, processes'[s] # None
             PROVE  \/ os'[processes'[s]] = "dead"
                    \/ /\ req'[s].pc \in {"wStopping", "term", "kill"}
                       /\ req'[s].pid = processes'[s]
  BY DEF StopTasksRun
<1> DEFINE Still == \/ os[processes[s]] = "dead"
                    \/ req[s].pc \in {"wStopping", "term", "kill"} /\ req[s].pid = processes[s]
<1>1. CASE ShutdownStop
  BY <1>1, Membership DEF ShutdownStop
<1>2. api = "stopping" /\ processes[s] # None => Still
  BY DEF StopTasksRun
<1>3. ASSUME NEW r \in Tasks, StopStep(r)
      PROVE  /\ api = "stopping" /\ processes'[s] = processes[s] /\ os' = os
  BY <1>3 DEF StopStep, StopSignals, StopSeesDead, StopEscalates, StopGivesUp, StopCleaned,
              StopReturns, RestartProceeds, apiVars, osVars
<1>4. ASSUME NEW r \in Tasks, StopStep(r)
      PROVE  \/ os'[processes'[s]] = "dead"
             \/ req'[s].pc \in {"wStopping", "term", "kill"} /\ req'[s].pid = processes'[s]
  BY <1>3, <1>4, StopTaskAdvances
<1>5. ASSUME NEW r \in Requests, StartStep(r) PROVE FALSE
  BY <1>5, StartMoves DEF TasksApart
<1>6. ASSUME NEW r \in Requests, NEW x \in Servers, BeginStop(r, x) \/ BeginRestart(r, x)
      PROVE  FALSE
  BY <1>6, BeginMoves
<1>7. ASSUME NEW p \in Pids, MonitorStep(p)
      PROVE  UNCHANGED <<api, os, processes, req>>
  BY <1>7 DEF MonitorStep, MonitorSeesDeath, MonitorSeesStartup, MonitorResumes,
              MonitorSeesStop, MonitorExits, RestoredMonitorSeesStop, MonitorSchedulesCleanup,
              MonitorReports, apiVars, osVars
<1>8. ASSUME NEW p \in Pids, Die(p)
      PROVE  /\ UNCHANGED <<api, processes, req>> /\ processes[s] \in Pids
             /\ \A q \in Pids : os[q] = "dead" => os'[q] = "dead"
  BY <1>8 DEF Die, TypeOK, apiVars
<1>9. ASSUME NEW c \in Cleaners, CleanupStep(c)
      PROVE  UNCHANGED <<api, os, req>> /\ processes'[s] = processes[s]
  BY <1>9 DEF CleanupStep, CleanupCancels, CleanupDeletes, apiVars, osVars, TypeOK
<1>10. ASSUME NEW w \in writes, WriteCommits(w) \/ WriteFails(w)
       PROVE  UNCHANGED <<api, os, processes, req>>
  BY <1>10 DEF WriteCommits, WriteFails, apiVars, osVars
<1>11. (BootStep \/ Crash \/ ShutdownKeep \/ ShutdownDone)
           => UNCHANGED <<api, os, processes, req>>
  BY DEF BootStep, BootStarts, SyncStates, BootDone, RestoreServer, Crash, ShutdownKeep,
         ShutdownDone, ProcessEnds
<1>12. CASE UNCHANGED vars
  BY <1>2, <1>12 DEF vars, apiVars, osVars
<1>13. QED
  BY <1>1, <1>2, <1>4, <1>5, <1>6, <1>7, <1>8, <1>9, <1>10, <1>11, <1>12 DEF Next

LEMMA OnlyTheseEndTheApi ==
    ASSUME TypeOK, Next, api # "down", api' = "down"
    PROVE  Crash \/ ShutdownKeep \/ ShutdownDone
<1>1. ASSUME NEW r \in Requests, StartStep(r) PROVE api' = api
  BY <1>1, StartMoves
<1>2. ASSUME NEW r \in Requests, NEW s \in Servers, BeginStop(r, s) \/ BeginRestart(r, s)
      PROVE  api' = api
  BY <1>2, BeginMoves
<1>3. ASSUME NEW r \in Tasks, StopStep(r) PROVE api' = api
  BY <1>3, StopMoves DEF Moves
<1>4. ASSUME NEW p \in Pids, MonitorStep(p) \/ Die(p) PROVE api' = api
  BY <1>4 DEF MonitorStep, MonitorSeesDeath, MonitorSeesStartup, MonitorResumes,
              MonitorSeesStop, MonitorExits, RestoredMonitorSeesStop, MonitorSchedulesCleanup,
              MonitorReports, Die, apiVars
<1>5. ASSUME NEW c \in Cleaners, CleanupStep(c) PROVE api' = api
  BY <1>5 DEF CleanupStep, CleanupCancels, CleanupDeletes, apiVars
<1>6. ASSUME NEW w \in writes, WriteCommits(w) \/ WriteFails(w) PROVE api' = api
  BY <1>6 DEF WriteCommits, WriteFails, apiVars
<1>7. BootStep \/ ShutdownStop => api' # "down"
  BY DEF BootStep, BootStarts, SyncStates, BootDone, RestoreServer, ShutdownStop
<1>8. QED
  BY <1>1, <1>2, <1>3, <1>4, <1>5, <1>6, <1>7 DEF Next

\* With KEEP_SERVERS_ON_SHUTDOWN off, and as long as signals reach the daemons and
\* the process is not killed, the API is gone only when the daemon of every entry
\* is: shutdown_all waits for stop tasks that end only over a dead daemon, whatever
\* requests, monitors and cleanups came before it.
THEOREM ShutdownStops ==
    ASSUME "signal" \notin Faults, "crash" \notin Faults
    PROVE  Spec => ShutdownStopsServers
<1>1. Init => Phases /\ TasksApart /\ StopTasksRun
  BY ConstantTypes, Membership DEF Init, Phases, TasksApart, StopTasksRun
<1>2. TypeOK /\ Wired /\ Phases /\ TasksApart /\ StopTasksRun /\ [Next]_vars
        => Phases' /\ TasksApart' /\ StopTasksRun'
  BY PhasesStep, TasksApartStep, StopTasksStep
<1>3. TypeOK /\ StopTasksRun /\ [Next]_vars =>
        [api = "stopping" /\ api' = "down" =>
           \A s \in Servers : processes[s] # None => os[processes[s]] = "dead"]_vars
  <2> SUFFICES ASSUME TypeOK, StopTasksRun, Next, api = "stopping", api' = "down",
                      NEW s \in Servers, processes[s] # None
               PROVE  os[processes[s]] = "dead"
    OBVIOUS
  <2>1. ShutdownDone
    BY OnlyTheseEndTheApi DEF Crash, ShutdownKeep
  <2>2. QED
    BY <2>1, Membership DEF ShutdownDone, StopTasksRun
<1>4. QED
  BY <1>1, <1>2, <1>3, TypeCorrect, PTL DEF Spec, ShutdownStopsServers

-----------------------------------------------------------------------------
(* Requests about one server that wait for each other.  The manager has no   *)
(* lock per server, so this is an assumption about its callers; requests     *)
(* about different servers may overlap as they like.                         *)

Sequential ==
    \A r, t \in Requests :
      req[r].pc # "idle" /\ req[t].pc # "idle" /\ req[r].srv = req[t].srv => r = t

\* A directory that waits for its scan belongs to a server without entry and
\* without cleanup.
Unscanned == \A s \in todo : processes[s] = None /\ NoPromptWork(s)

\* A start works on a server without entry, and when its daemon is spawned no
\* cleanup is left that could take the new entry.
StartsUntracked ==
    \A r \in Requests :
      /\ req[r].pc \in {"prep", "verify"} => processes[req[r].srv] = None
      /\ req[r].pc = "verify" => NoPromptWork(req[r].srv)

\* The daemon a stop captured is the one of the entry, as long as there is one.
StopsCurrent ==
    \A r \in Tasks :
      req[r].pc \in {"wStopping", "term", "kill"} =>
        req[r].pid \in Pids /\ processes[req[r].srv] \in {None, req[r].pid}

\* A monitor that runs watches the daemon of the entry, and reports only deaths.
MonitorsCurrent ==
    \A p \in Pids :
      /\ mon[p] \in Active => processes[owner[p]] = p
      /\ mon[p] \in {"wError", "wStopped"} => os[p] = "dead"

\* A cleanup finds no entry, or that of a dead daemon whose monitor it has ended
\* before it deletes the entry.
CleanupsOfDead ==
    \A c \in Cleaners :
      clean[c].srv # None /\ processes[clean[c].srv] # None =>
        /\ os[processes[clean[c].srv]] = "dead"
        /\ clean[c].st = "wait" => mon[processes[clean[c].srv]] \notin Active

InTurn == Unscanned /\ StartsUntracked /\ StopsCurrent /\ MonitorsCurrent /\ CleanupsOfDead
TurnInv == WatchInv /\ Phases /\ TasksApart /\ InTurn

\* Steps of a task that leave the table, the monitors and the cleanups alone.
LEMMA TurnTask ==
    ASSUME TurnInv, NEW r \in Tasks,
           UNCHANGED <<todo, os, owner, processes, mon, clean>>,
           \A t \in Tasks \ {r} : req'[t] = req[t],
           req'[r].pc # "verify",
           req'[r].pc = "prep" => processes[req'[r].srv] = None,
           req'[r].pc \in {"wStopping", "term", "kill"} =>
             req'[r].pid \in Pids /\ processes[req'[r].srv] \in {None, req'[r].pid}
    PROVE  InTurn'
<1>1. Unscanned' /\ MonitorsCurrent' /\ CleanupsOfDead'
  BY DEF TurnInv, InTurn, Unscanned, NoPromptWork, MonitorsCurrent, CleanupsOfDead
<1>2. StartsUntracked'
  BY Membership DEF TurnInv, InTurn, StartsUntracked, NoPromptWork
<1>3. StopsCurrent'
  BY DEF TurnInv, InTurn, StopsCurrent
<1>4. QED
  BY <1>1, <1>2, <1>3 DEF InTurn

LEMMA GotoFields ==
    ASSUME TypeOK, NEW r \in Tasks, NEW pc \in ReqPc, Goto(r, pc)
    PROVE  /\ req'[r].pc = pc /\ req'[r].srv = req[r].srv /\ req'[r].pid = req[r].pid
           /\ \A t \in Tasks \ {r} : req'[t] = req[t]
<1> DEFINE t == [req[r] EXCEPT !.pc = pc]
<1>1. t.pc = pc /\ t.srv = req[r].srv /\ t.pid = req[r].pid
  BY TaskFields DEF TypeOK
<1>2. req' = [req EXCEPT ![r] = t]
  BY DEF Goto
<1> HIDE DEF t
<1>3. QED
  BY <1>1, <1>2 DEF TypeOK

LEMMA FinishFields ==
    ASSUME TypeOK, NEW r \in Tasks, Finish(r)
    PROVE  req'[r].pc = "idle" /\ \A t \in Tasks \ {r} : req'[t] = req[t]
BY ConstantTypes DEF Finish, TypeOK

LEMMA TurnRequest ==
    ASSUME TurnInv, NEW r \in Tasks,
           \/ StartRefused(r) \/ StartDied(r) \/ StartReturns(r) \/ StopSignals(r)
           \/ StopEscalates(r) \/ StopGivesUp(r) \/ StopReturns(r) \/ RestartProceeds(r)
           \/ StopCleaned(r)
    PROVE  InTurn'
<1>1. TypeOK /\ UNCHANGED <<todo, os, owner, processes, mon, clean>>
  BY DEF StartRefused, StartDied, StartReturns, StopSignals, StopEscalates, StopGivesUp,
         StopReturns, RestartProceeds, StopCleaned, apiVars, osVars, TurnInv, WatchInv
<1>2. CASE Finish(r)
  BY <1>1, <1>2, FinishFields, TurnTask
<1>3. CASE StopSignals(r) \/ StopEscalates(r)
  <2>1. PICK pc \in {"term", "kill"} : Goto(r, pc)
    BY <1>3 DEF StopSignals, StopEscalates
  <2>2. pc \in ReqPc
    BY DEF ReqPc
  <2>3. /\ req'[r].pc = pc /\ req'[r].srv = req[r].srv /\ req'[r].pid = req[r].pid
        /\ \A t \in Tasks \ {r} : req'[t] = req[t]
    BY <1>1, <2>1, <2>2, GotoFields
  <2>4. req[r].pid \in Pids /\ processes[req[r].srv] \in {None, req[r].pid}
    BY <1>3 DEF StopSignals, StopEscalates, TurnInv, InTurn, StopsCurrent
  <2>5. QED
    BY <1>1, <2>3, <2>4, TurnTask
<1>4. CASE Goto(r, "rPoll") \/ Goto(r, "wStopped")
  <2>1. PICK pc \in {"rPoll", "wStopped"} : Goto(r, pc)
    BY <1>4
  <2>2. pc \in ReqPc
    BY DEF ReqPc
  <2>3. req'[r].pc = pc /\ \A t \in Tasks \ {r} : req'[t] = req[t]
    BY <1>1, <2>1, <2>2, GotoFields
  <2>4. QED
    BY <1>1, <2>3, TurnTask
<1>5. CASE RestartProceeds(r) /\ ~Finish(r)
  <2> DEFINE t == [req[r] EXCEPT !.pc = "prep", !.pid = None]
  <2>1. t.pc = "prep" /\ t.srv = req[r].srv
    BY <1>1 DEF TypeOK, Task
  <2>2. req' = [req EXCEPT ![r] = t] /\ processes[req[r].srv] = None
    BY <1>5 DEF RestartProceeds
  <2> HIDE DEF t
  <2>3. /\ req'[r].pc = "prep" /\ req'[r].srv = req[r].srv
        /\ \A x \in Tasks \ {r} : req'[x] = req[x]
    BY <1>1, <2>1, <2>2 DEF TypeOK
  <2>4. QED
    BY <1>1, <2>2, <2>3, TurnTask
<1>6. QED
  BY <1>2, <1>3, <1>4, <1>5
     DEF StartRefused, StartDied, StartReturns, StopGivesUp, StopReturns, StopDone, StopCleaned

LEMMA TurnBegin ==
    ASSUME TurnInv, NEW r \in Requests, NEW s \in Servers,
           BeginStart(r, s) \/ BeginStop(r, s) \/ BeginRestart(r, s)
    PROVE  InTurn'
<1>1. r \in Tasks /\ UNCHANGED <<todo, os, owner, processes, mon, clean>>
  BY Membership DEF BeginStart, BeginStop, BeginRestart, apiVars, osVars
<1>2. CASE \E op \in Ops : EnterStop(r, op, s)
  BY <1>1, <1>2, TurnTask DEF EnterStop, TurnInv, WatchInv, TypeOK
<1>3. CASE /\ Startable(s)
           /\ \E op \in Ops :
                req' = [req EXCEPT ![r] = [pc |-> "prep", op |-> op, srv |-> s, pid |-> None]]
  BY <1>1, <1>3, TurnTask DEF Startable, TurnInv, WatchInv, TypeOK
<1>4. {"start", "stop", "restart"} \subseteq Ops
  BY DEF Ops
<1>5. QED
  BY <1>2, <1>3, <1>4 DEF BeginStart, BeginStop, BeginRestart

LEMMA TurnFork ==
    ASSUME TurnInv, NEW r \in Requests, NEW p \in Pids, Spawn(r, p) \/ ForkTimesOut(r, p)
    PROVE  InTurn'
<1>1. /\ r \in Tasks /\ req[r].pc = "prep" /\ os[p] = "unborn"
      /\ os' = [os EXCEPT ![p] = "alive"]
      /\ owner' = [owner EXCEPT ![p] = req[r].srv]
      /\ UNCHANGED <<todo, processes, mon, clean>>
  BY Membership DEF Spawn, ForkTimesOut, apiVars
<1>2. \A q \in Pids : mon[q] \in Active => q # p
  BY <1>1 DEF TurnInv, WatchInv, Wired, MonitorsWired, Active
<1>3. MonitorsCurrent'
  BY <1>1, <1>2 DEF TurnInv, InTurn, MonitorsCurrent, WatchInv, TypeOK, Active
<1>4. \A s \in Servers : processes[s] # None => os'[processes[s]] = os[processes[s]]
  BY <1>1 DEF TurnInv, WatchInv, Wired, EntriesWired, TypeOK
<1>5. CleanupsOfDead'
  BY <1>1, <1>4 DEF TurnInv, InTurn, CleanupsOfDead, WatchInv, Wired, CleanupsWired
<1>6. Unscanned'
  BY <1>1 DEF TurnInv, InTurn, Unscanned, NoPromptWork
<1>7. \A t \in Tasks \ {r} : req'[t] = req[t]
  BY DEF Spawn, ForkTimesOut, Finish, TurnInv, WatchInv, TypeOK
<1>8. CASE Spawn(r, p)
  <2> DEFINE t == [req[r] EXCEPT !.pc = "verify", !.pid = p]
  <2>1. t.pc = "verify" /\ t.srv = req[r].srv
    BY DEF TurnInv, WatchInv, TypeOK, Task
  <2>2. req' = [req EXCEPT ![r] = t] /\ NoPromptWork(req[r].srv)
    BY <1>8 DEF Spawn
  <2> HIDE DEF t
  <2>3. req'[r].pc = "verify" /\ req'[r].srv = req[r].srv
    BY <1>1, <2>1, <2>2 DEF TurnInv, WatchInv, TypeOK
  <2>4. StartsUntracked'
    BY <1>1, <1>7, <2>2, <2>3, Membership DEF TurnInv, InTurn, StartsUntracked, NoPromptWork
  <2>5. StopsCurrent'
    BY <1>1, <1>7, <2>3 DEF TurnInv, InTurn, StopsCurrent
  <2>6. QED
    BY <1>3, <1>5, <1>6, <2>4, <2>5 DEF InTurn
<1>9. CASE ForkTimesOut(r, p)
  <2>1. req'[r].pc = "idle"
    BY <1>1, <1>9, FinishFields DEF ForkTimesOut, TurnInv, WatchInv
  <2>2. StartsUntracked'
    BY <1>1, <1>7, <2>1, Membership DEF TurnInv, InTurn, StartsUntracked, NoPromptWork
  <2>3. StopsCurrent'
    BY <1>1, <1>7, <2>1 DEF TurnInv, InTurn, StopsCurrent
  <2>4. QED
    BY <1>3, <1>5, <1>6, <2>2, <2>3 DEF InTurn
<1>10. QED
  BY <1>8, <1>9

\* A request that starts or verifies is the only task about its server.
LEMMA StarterAlone ==
    ASSUME TurnInv, Sequential, NEW r \in Requests, req[r].pc # "idle",
           NEW t \in Tasks, t # r, req[t].pc # "idle"
    PROVE  req[t].srv # req[r].srv
<1>1. CASE t \in Requests
  BY <1>1 DEF Sequential
<1>2. CASE t \in Servers
  BY <1>2 DEF TurnInv, TasksApart
<1>3. QED
  BY <1>1, <1>2 DEF Tasks

LEMMA TurnRegister ==
    ASSUME TurnInv, Sequential, NEW r \in Requests, Register(r)
    PROVE  InTurn'
<1> DEFINE s == req[r].srv
           p == req[r].pid
<1>1. /\ s \in Servers /\ p \in Pids /\ owner[p] = s /\ os[p] = "alive" /\ r \in Tasks
      /\ req[r].pc = "verify" /\ TypeOK
  BY Membership DEF Register, TurnInv, WatchInv, Wired, RequestsWired
<1>2. /\ processes' = [processes EXCEPT ![s] = p]
      /\ mon' = [mon EXCEPT ![p] = "startup"]
      /\ UNCHANGED <<todo, os, owner, clean>>
  BY DEF Register, apiVars, osVars
<1>3. req'[r].pc = "wStarting" /\ \A t \in Tasks \ {r} : req'[t] = req[t]
  <2>1. Goto(r, "wStarting") /\ "wStarting" \in ReqPc
    BY DEF Register, ReqPc
  <2>2. QED
    BY <1>1, <2>1, GotoFields
<1>4. processes[s] = None /\ NoPromptWork(s)
  BY <1>1 DEF TurnInv, InTurn, StartsUntracked
<1>5. \A t \in Tasks : t # r /\ req[t].pc # "idle" => req[t].srv # s
  BY <1>1, StarterAlone
<1>6. todo = {}
  BY <1>1, RequestsServed DEF TurnInv
<1> HIDE DEF s, p
<1>7. Unscanned'
  BY <1>2, <1>6 DEF Unscanned
<1>8. StartsUntracked'
  BY <1>1, <1>2, <1>3, <1>5, Membership DEF TurnInv, InTurn, StartsUntracked, NoPromptWork, TypeOK
<1>9. StopsCurrent'
  BY <1>1, <1>2, <1>3, <1>5 DEF TurnInv, InTurn, StopsCurrent, TypeOK
<1>10. MonitorsCurrent'
  <2>1. \A q \in Pids : mon[q] \in Active => owner[q] # s
    BY <1>1, <1>4, ConstAssumption DEF TurnInv, InTurn, MonitorsCurrent
  <2>2. QED
    BY <1>1, <1>2, <2>1 DEF TurnInv, InTurn, MonitorsCurrent, TypeOK, Active
<1>11. CleanupsOfDead'
  <2>1. \A c \in Cleaners : clean[c].srv # s
    BY <1>4 DEF NoPromptWork
  <2>2. \A x \in Servers : processes[x] # None => processes[x] # p \/ x = s
    BY <1>1 DEF TurnInv, WatchInv, Wired, EntriesWired
  <2>3. QED
    BY <1>1, <1>2, <2>1, <2>2
       DEF TurnInv, InTurn, CleanupsOfDead, TypeOK, WatchInv, Wired, CleanupsWired
<1>12. QED
  BY <1>7, <1>8, <1>9, <1>10, <1>11 DEF InTurn

LEMMA TurnStopCleanup ==
    ASSUME TurnInv, Sequential, NEW r \in Tasks, StopSeesDead(r)
    PROVE  InTurn'
<1> DEFINE s == req[r].srv
<1>1. /\ UNCHANGED <<todo, os, owner, processes, mon>> /\ TypeOK
      /\ clean' = [clean EXCEPT ![r] = [st |-> "ready", srv |-> s]]
      /\ Goto(r, "cleaning") /\ "cleaning" \in ReqPc
      /\ req[r].pc \in {"wStopping", "term", "kill"} /\ os[req[r].pid] = "dead"
  BY DEF StopSeesDead, BeginCleanup, apiVars, osVars, ReqPc, TurnInv, WatchInv
<1>2. req'[r].pc = "cleaning" /\ \A t \in Tasks \ {r} : req'[t] = req[t]
  BY <1>1, GotoFields
<1>3. r \in Cleaners /\ s \in Servers /\ clean'[r] = [st |-> "ready", srv |-> s]
  BY <1>1, Membership DEF TurnInv, WatchInv, Wired, RequestsWired, TypeOK
<1>4. \A c \in Cleaners \ {r} : clean'[c] = clean[c]
  BY <1>1 DEF TypeOK
<1> HIDE DEF s
<1>5. processes[s] = None \/ os[processes[s]] = "dead"
  BY <1>1 DEF TurnInv, InTurn, StopsCurrent, s
<1>6. s \notin todo
  BY <1>1, RequestsServed DEF TurnInv
<1>7. Unscanned'
  BY <1>1, <1>3, <1>4, <1>6 DEF TurnInv, InTurn, Unscanned, NoPromptWork
<1>8. \A t \in Requests : req[t].pc = "verify" => req[t].srv # s
  BY <1>1, StarterAlone DEF s
<1>9. StartsUntracked'
  BY <1>1, <1>2, <1>3, <1>4, <1>8, Membership DEF TurnInv, InTurn, StartsUntracked, NoPromptWork
<1>10. StopsCurrent'
  BY <1>1, <1>2 DEF TurnInv, InTurn, StopsCurrent
<1>11. MonitorsCurrent'
  BY <1>1 DEF TurnInv, InTurn, MonitorsCurrent
<1>12. CleanupsOfDead'
  BY <1>1, <1>3, <1>4, <1>5 DEF TurnInv, InTurn, CleanupsOfDead
<1>13. QED
  BY <1>7, <1>9, <1>10, <1>11, <1>12 DEF InTurn

\* The steps that leave requests and cleanups alone, and the monitors they wake
\* were running.
LEMMA TurnWatch ==
    ASSUME TurnInv, UNCHANGED <<todo, owner, processes, clean, req>>,
           \A p \in Pids : mon'[p] \in Active => mon[p] \in Active,
           \A p \in Pids : mon'[p] \in {"wError", "wStopped"} => os'[p] = "dead",
           \A p \in Pids : os[p] = "dead" => os'[p] = "dead"
    PROVE  InTurn'
<1>1. Unscanned' /\ StartsUntracked' /\ StopsCurrent'
  BY DEF TurnInv, InTurn, Unscanned, StartsUntracked, StopsCurrent, NoPromptWork
<1>2. MonitorsCurrent'
  BY DEF TurnInv, InTurn, MonitorsCurrent
<1>3. \A s \in Servers : processes[s] # None => processes[s] \in Pids
  BY DEF TurnInv, WatchInv, TypeOK
<1>4. \A c \in Cleaners : clean[c].srv # None => clean[c].srv \in Servers
  BY DEF TurnInv, WatchInv, Wired, CleanupsWired
<1>5. CleanupsOfDead'
  BY <1>3, <1>4 DEF TurnInv, InTurn, CleanupsOfDead
<1>6. QED
  BY <1>1, <1>2, <1>5 DEF InTurn

LEMMA TurnMonitor ==
    ASSUME TurnInv, NEW p \in Pids, MonitorStep(p)
    PROVE  InTurn'
<1>1. TypeOK /\ UNCHANGED <<todo, os, owner, processes, req>>
  BY DEF MonitorStep, MonitorSeesDeath, MonitorSeesStartup, MonitorResumes, MonitorSeesStop,
         MonitorExits, RestoredMonitorSeesStop, MonitorSchedulesCleanup, MonitorReports,
         apiVars, osVars, TurnInv, WatchInv
<1>2. CASE MonitorSchedulesCleanup(p)
  <2> DEFINE s == owner[p]
  <2>1. /\ mon' = [mon EXCEPT ![p] = "done"]
        /\ clean' = [clean EXCEPT ![p] = [st |-> "ready", srv |-> s]]
        /\ mon[p] \in {"wError", "wStopped"}
    BY <1>2 DEF MonitorSchedulesCleanup
  <2>2. s \in Servers /\ p \in Cleaners /\ processes[s] = p /\ os[p] = "dead"
    BY <2>1, Membership
       DEF TurnInv, WatchInv, Wired, MonitorsWired, InTurn, MonitorsCurrent, Active
  <2>3. clean'[p] = [st |-> "ready", srv |-> s] /\ \A c \in Cleaners \ {p} : clean'[c] = clean[c]
    BY <1>1, <2>1, <2>2 DEF TypeOK
  <2>4. p # None
    BY Membership
  <2> HIDE DEF s
  <2>5. Unscanned'
    BY <1>1, <2>2, <2>3, <2>4 DEF TurnInv, InTurn, Unscanned, NoPromptWork
  <2>6. StartsUntracked'
    BY <1>1, <2>2, <2>3, <2>4 DEF TurnInv, InTurn, StartsUntracked, NoPromptWork
  <2>7. StopsCurrent'
    BY <1>1 DEF TurnInv, InTurn, StopsCurrent
  <2>8. MonitorsCurrent'
    BY <1>1, <2>1 DEF TurnInv, InTurn, MonitorsCurrent, TypeOK, Active
  <2>9. \A q \in Pids : mon'[q] \in Active => mon[q] \in Active
    BY <1>1, <2>1 DEF TypeOK, Active
  <2>10. CleanupsOfDead'
    <3>1. ASSUME NEW c \in Cleaners, clean'[c].srv # None, processes[clean'[c].srv] # None
          PROVE  /\ os[processes[clean'[c].srv]] = "dead"
                 /\ clean'[c].st = "wait" => mon'[processes[clean'[c].srv]] \notin Active
      <4>1. CASE c = p
        BY <2>2, <2>3, <4>1
      <4>2. CASE c # p
        <5>1. clean'[c] = clean[c] /\ clean[c].srv \in Servers
          BY <2>3, <3>1, <4>2 DEF TurnInv, WatchInv, Wired, CleanupsWired
        <5>2. processes[clean[c].srv] \in Pids
          BY <1>1, <3>1, <5>1 DEF TypeOK
        <5>3. QED
          BY <3>1, <5>1, <5>2, <2>9 DEF TurnInv, InTurn, CleanupsOfDead
      <4>3. QED
        BY <4>1, <4>2
    <3>2. QED
      BY <1>1, <3>1 DEF CleanupsOfDead
  <2>11. QED
    BY <2>5, <2>6, <2>7, <2>8, <2>10 DEF InTurn
<1>3. CASE ~MonitorSchedulesCleanup(p)
  <2>1. /\ UNCHANGED clean /\ mon[p] \in Active
        /\ \E pc \in Active \cup {"done"} :
             /\ mon' = [mon EXCEPT ![p] = pc]
             /\ pc \in {"wError", "wStopped"} => os[p] = "dead"
    BY <1>3 DEF MonitorStep, MonitorSeesDeath, MonitorSeesStartup, MonitorResumes,
         MonitorSeesStop, MonitorExits, RestoredMonitorSeesStop, MonitorReports, Active
  <2>2. \A q \in Pids : mon'[q] \in Active => mon[q] \in Active
    BY <1>1, <2>1 DEF TypeOK
  <2>3. \A q \in Pids : mon'[q] \in {"wError", "wStopped"} => os'[q] = "dead"
    BY <1>1, <2>1 DEF TypeOK, TurnInv, InTurn, MonitorsCurrent
  <2>4. QED
    BY <1>1, <2>1, <2>2, <2>3, TurnWatch
<1>4. QED
  BY <1>2, <1>3

LEMMA TurnDie ==
    ASSUME TurnInv, NEW p \in Pids, Die(p)
    PROVE  InTurn'
<1>1. /\ UNCHANGED <<todo, owner, processes, clean, req, mon>>
      /\ \A q \in Pids : os[q] = "dead" => os'[q] = "dead"
  BY DEF Die, apiVars, TurnInv, WatchInv, TypeOK
<1>2. QED
  BY <1>1, TurnWatch DEF TurnInv, InTurn, MonitorsCurrent

LEMMA TurnCleanup ==
    ASSUME TurnInv, NEW c \in Cleaners, CleanupStep(c)
    PROVE  InTurn'
<1> DEFINE s == clean[c].srv
<1>1. /\ s \in Servers /\ s # None /\ TypeOK /\ UNCHANGED <<todo, os, owner, req>>
      /\ clean[c] \in Cleanup
  BY Membership
     DEF CleanupStep, CleanupCancels, CleanupDeletes, TurnInv, WatchInv, TypeOK, Wired,
         CleanupsWired, apiVars, osVars
<1>2. \A x \in Cleaners : clean'[x].srv \in {clean[x].srv, None}
  BY <1>1, ConstantTypes DEF CleanupStep, CleanupCancels, CleanupDeletes, TypeOK, Cleanup
<1>3. \A x \in Servers : processes'[x] \in {processes[x], None}
  BY <1>1 DEF CleanupStep, CleanupCancels, CleanupDeletes, TypeOK
<1>4. \A x \in Servers : processes'[x] = processes[x] \/ x = s
  BY <1>1 DEF CleanupStep, CleanupCancels, CleanupDeletes, TypeOK
<1>5. None \notin Servers
  BY ConstAssumption
<1>6. todo \subseteq Servers /\ todo' = todo
  BY <1>1 DEF TypeOK
<1>7. Unscanned'
  BY <1>1, <1>2, <1>3, <1>5, <1>6 DEF TurnInv, InTurn, Unscanned, NoPromptWork
<1>8. \A r \in Tasks : req[r].pc # "idle" => req[r].srv \in Servers
  BY DEF TurnInv, WatchInv, Wired, RequestsWired
<1>9. StartsUntracked'
  BY <1>1, <1>2, <1>3, <1>5, <1>8, Membership DEF TurnInv, InTurn, StartsUntracked, NoPromptWork
<1>10. StopsCurrent'
  BY <1>1, <1>3, <1>8 DEF TurnInv, InTurn, StopsCurrent
<1>11. CASE CleanupCancels(c) /\ processes[s] # None
  <2> DEFINE p == processes[s]
  <2>1. /\ mon' = [mon EXCEPT ![p] = "done"]
        /\ clean' = [clean EXCEPT ![c].st = "wait"]
        /\ UNCHANGED processes
    BY <1>11 DEF CleanupCancels
  <2>2. p \in Pids
    BY <1>1, <1>11 DEF TypeOK
  <2> HIDE DEF p
  <2>3. \A q \in Pids : mon'[q] = IF q = p THEN "done" ELSE mon[q]
    BY <1>1, <2>1 DEF TypeOK
  <2>4. MonitorsCurrent'
    BY <1>1, <2>1, <2>3 DEF TurnInv, InTurn, MonitorsCurrent, Active
  <2>5. \A x \in Cleaners : clean'[x].srv = clean[x].srv /\ (x # c => clean'[x] = clean[x])
    BY <1>1, <2>1 DEF TypeOK, Cleanup
  <2>6. \A x \in Cleaners : clean[x].srv # None => clean[x].srv \in Servers
    BY DEF TurnInv, WatchInv, Wired, CleanupsWired
  <2>7. CleanupsOfDead'
    <3> SUFFICES ASSUME NEW x \in Cleaners, clean[x].srv # None, processes[clean[x].srv] # None
                 PROVE  /\ os[processes[clean[x].srv]] = "dead"
                        /\ clean'[x].st = "wait" => mon'[processes[clean[x].srv]] \notin Active
      BY <1>1, <2>1, <2>5 DEF CleanupsOfDead
    <3>1. processes[clean[x].srv] \in Pids
      BY <1>1, <2>6 DEF TypeOK
    <3>2. /\ os[processes[clean[x].srv]] = "dead"
          /\ clean[x].st = "wait" => mon[processes[clean[x].srv]] \notin Active
      BY DEF TurnInv, InTurn, CleanupsOfDead
    <3>3. CASE x = c
      BY <2>2, <2>3, <3>2, <3>3 DEF p, Active
    <3>4. CASE x # c
      BY <2>3, <2>5, <3>1, <3>2, <3>4 DEF Active
    <3>5. QED
      BY <3>3, <3>4
  <2>8. QED
    BY <1>7, <1>9, <1>10, <2>4, <2>7 DEF InTurn
<1>12. CASE (CleanupCancels(c) /\ processes[s] = None) \/ CleanupDeletes(c)
  <2>1. /\ clean' = [clean EXCEPT ![c] = NoClean] /\ UNCHANGED mon
        /\ processes' = [processes EXCEPT ![s] = None]
    BY <1>1, <1>12 DEF CleanupCancels, CleanupDeletes, TypeOK
  <2>2. \A p \in Pids : mon[p] \in Active => owner[p] # s
    <3>1. CASE processes[s] = None
      BY <3>1, Membership DEF TurnInv, InTurn, MonitorsCurrent
    <3>2. CASE CleanupDeletes(c) /\ processes[s] # None
      BY <1>1, <3>2 DEF CleanupDeletes, TurnInv, InTurn, MonitorsCurrent, CleanupsOfDead
    <3>3. QED
      BY <1>12, <3>1, <3>2
  <2>3. MonitorsCurrent'
    BY <1>1, <2>1, <2>2
       DEF TurnInv, InTurn, MonitorsCurrent, WatchInv, Wired, MonitorsWired, TypeOK, Active
  <2>4. \A x \in Cleaners : clean[x].srv # None => clean[x].srv \in Servers
    BY DEF TurnInv, WatchInv, Wired, CleanupsWired
  <2>5. \A x \in Cleaners : clean'[x] = IF x = c THEN NoClean ELSE clean[x]
    BY <1>1, <2>1 DEF TypeOK
  <2>6. CleanupsOfDead'
    BY <1>1, <2>1, <2>4, <2>5, <1>3, <1>4, ConstantTypes DEF TurnInv, InTurn, CleanupsOfDead
  <2>7. QED
    BY <1>7, <1>9, <1>10, <2>3, <2>6 DEF InTurn
<1>13. QED
  BY <1>11, <1>12 DEF CleanupStep

LEMMA TurnApi ==
    ASSUME TurnInv, BootStep \/ Crash \/ ShutdownKeep \/ ShutdownStop \/ ShutdownDone
    PROVE  InTurn'
<1>1. CASE Crash \/ ShutdownKeep \/ ShutdownDone
  <2>1. ProcessEnds
    BY <1>1 DEF Crash, ShutdownKeep, ShutdownDone
  <2>2. None \notin Servers
    BY ConstAssumption
  <2>3. Unscanned'
    BY <2>1, <2>2, ConstantTypes DEF ProcessEnds, Unscanned, NoPromptWork
  <2>4. StartsUntracked' /\ StopsCurrent'
    BY <2>1, ConstantTypes, Membership DEF ProcessEnds, StartsUntracked, StopsCurrent
  <2>5. MonitorsCurrent' /\ CleanupsOfDead'
    BY <2>1, ConstantTypes DEF ProcessEnds, MonitorsCurrent, CleanupsOfDead, Active
  <2>6. QED
    BY <2>3, <2>4, <2>5 DEF InTurn
<1>2. CASE ShutdownStop
  <2>1. UNCHANGED <<todo, os, owner, processes, mon, clean>>
    BY <1>2 DEF ShutdownStop, osVars
  <2>2. Unscanned' /\ MonitorsCurrent' /\ CleanupsOfDead'
    BY <2>1 DEF TurnInv, InTurn, Unscanned, NoPromptWork, MonitorsCurrent, CleanupsOfDead
  <2>3. \A r \in Requests : req'[r] = req[r]
    BY <1>2, ConstAssumption, Membership DEF ShutdownStop
  <2>4. StartsUntracked'
    BY <2>1, <2>3 DEF TurnInv, InTurn, StartsUntracked, NoPromptWork
  <2>5. \A r \in Tasks :
          \/ req'[r] = req[r]
          \/ r \in Servers /\ processes[r] # None /\ req'[r].srv = r /\ req'[r].pid = processes[r]
    BY <1>2 DEF ShutdownStop
  <2>6. StopsCurrent'
    BY <2>1, <2>5 DEF TurnInv, InTurn, StopsCurrent, WatchInv, TypeOK
  <2>7. QED
    BY <2>2, <2>4, <2>6 DEF InTurn
<1>3. CASE BootStarts
  <2>1. UNCHANGED <<os, owner, processes, mon, clean, req>> /\ todo' \subseteq todo
    BY <1>3 DEF BootStarts, TurnInv, Phases, osVars
  <2>2. QED
    BY <2>1 DEF TurnInv, InTurn, Unscanned, StartsUntracked, StopsCurrent, NoPromptWork,
                MonitorsCurrent, CleanupsOfDead
<1>4. CASE SyncStates \/ BootDone
  <2>1. UNCHANGED <<os, owner, processes, mon, clean, req, todo>>
    BY <1>4 DEF SyncStates, BootDone, osVars
  <2>2. QED
    BY <2>1 DEF TurnInv, InTurn, Unscanned, StartsUntracked, StopsCurrent, NoPromptWork,
                MonitorsCurrent, CleanupsOfDead
<1>5. ASSUME NEW s \in Servers, RestoreServer(s)
      PROVE  InTurn'
  <2> DEFINE p == pidfile[s]
  <2>1. /\ UNCHANGED <<os, owner, clean, req>> /\ todo' = todo \ {s} /\ TypeOK
        /\ processes[s] = None /\ NoPromptWork(s)
        /\ \A r \in Tasks : req[r].pc = "idle"
    BY <1>5 DEF RestoreServer, osVars, TurnInv, InTurn, Unscanned, Phases, WatchInv
  <2>2. StartsUntracked' /\ StopsCurrent'
    BY <2>1, Membership DEF StartsUntracked, StopsCurrent
  <2>3. CASE UNCHANGED <<processes, mon>>
    <3>1. Unscanned' /\ MonitorsCurrent' /\ CleanupsOfDead'
      BY <2>1, <2>3
         DEF TurnInv, InTurn, Unscanned, NoPromptWork, MonitorsCurrent, CleanupsOfDead
    <3>2. QED
      BY <2>2, <3>1 DEF InTurn
  <2>4. CASE ~UNCHANGED <<processes, mon>>
    <3>1. /\ p # None
          /\ processes' = [processes EXCEPT ![s] = p]
          /\ mon' = [mon EXCEPT ![p] = "restored"]
      BY <1>5, <2>4 DEF RestoreServer
    <3>2. p \in Pids /\ owner[p] = s
      BY <2>1, <3>1 DEF TypeOK, TurnInv, WatchInv, Wired, FilesWired
    <3> HIDE DEF p
    <3>3. Unscanned'
      BY <2>1, <3>1 DEF TurnInv, InTurn, Unscanned, NoPromptWork, TypeOK
    <3>4. \A q \in Pids : mon[q] \in Active => owner[q] # s
      BY <2>1, Membership DEF TurnInv, InTurn, MonitorsCurrent
    <3>5. MonitorsCurrent'
      BY <2>1, <3>1, <3>2, <3>4 DEF TurnInv, InTurn, MonitorsCurrent, TypeOK
    <3>6. \A x \in Servers : processes[x] # None => processes[x] # p
      BY <2>1, <3>2 DEF TurnInv, WatchInv, Wired, EntriesWired
    <3>7. \A c \in Cleaners : clean[c].srv # s
      BY <2>1 DEF NoPromptWork
    <3>8. CleanupsOfDead'
      BY <2>1, <3>1, <3>2, <3>6, <3>7
         DEF TurnInv, InTurn, CleanupsOfDead, TypeOK, WatchInv, Wired, CleanupsWired
    <3>9. QED
      BY <2>2, <3>3, <3>5, <3>8 DEF InTurn
  <2>5. QED
    BY <2>3, <2>4
<1>6. QED
  BY <1>1, <1>2, <1>3, <1>4, <1>5 DEF BootStep

LEMMA TurnStep ==
    ASSUME TurnInv, Sequential, [Next]_vars
    PROVE  InTurn'
<1>1. ASSUME UNCHANGED <<os, owner, processes, mon, clean, req, todo>> PROVE InTurn'
  BY <1>1 DEF TurnInv, InTurn, Unscanned, StartsUntracked, StopsCurrent, NoPromptWork,
              MonitorsCurrent, CleanupsOfDead
<1>2. ASSUME NEW r \in Requests, StartStep(r) PROVE InTurn'
  BY <1>2, TurnBegin, TurnRequest, TurnFork, TurnRegister, Membership DEF StartStep
<1>3. ASSUME NEW r \in Requests, NEW s \in Servers, BeginStop(r, s) \/ BeginRestart(r, s)
      PROVE  InTurn'
  BY <1>3, TurnBegin
<1>4. ASSUME NEW r \in Tasks, StopStep(r) PROVE InTurn'
  BY <1>4, TurnRequest, TurnStopCleanup DEF StopStep
<1>5. ASSUME NEW p \in Pids, MonitorStep(p) \/ Die(p) PROVE InTurn'
  BY <1>5, TurnMonitor, TurnDie
<1>6. ASSUME NEW c \in Cleaners, CleanupStep(c) PROVE InTurn'
  BY <1>6, TurnCleanup
<1>7. ASSUME NEW w \in writes, WriteCommits(w) \/ WriteFails(w) PROVE InTurn'
  BY <1>1, <1>7 DEF WriteCommits, WriteFails, apiVars, osVars
<1>8. CASE BootStep \/ Crash \/ ShutdownKeep \/ ShutdownStop \/ ShutdownDone
  BY <1>8, TurnApi
<1>9. CASE UNCHANGED vars
  BY <1>1, <1>9 DEF vars, apiVars, osVars
<1>10. QED
  BY <1>2, <1>3, <1>4, <1>5, <1>6, <1>7, <1>8, <1>9 DEF Next

LEMMA TurnInit == Init => TurnInv
<1> SUFFICES ASSUME Init PROVE TurnInv
  OBVIOUS
<1>1. TypeOK /\ Wired
  BY InitInvariant
<1>2. CleanersBound /\ EntryWatched /\ CleanupsOfDead
  BY ConstantTypes, Membership DEF Init, CleanersBound, EntryWatched, CleanupsOfDead
<1>3. Phases /\ TasksApart /\ Unscanned
  BY ConstantTypes, Membership DEF Init, Phases, TasksApart, Unscanned
<1>4. StartsUntracked /\ StopsCurrent /\ MonitorsCurrent
  BY ConstantTypes, Membership
     DEF Init, StartsUntracked, StopsCurrent, MonitorsCurrent, Active
<1>5. QED
  BY <1>1, <1>2, <1>3, <1>4 DEF TurnInv, WatchInv, InTurn

LEMMA TurnInvStep == TurnInv /\ Sequential /\ [Next]_vars => TurnInv'
BY TypeStep, WatchStep, PhasesStep, TasksApartStep, TurnStep DEF TurnInv, WatchInv

-----------------------------------------------------------------------------
(* The registry.                                                             *)

LEMMA RegistryFrame ==
    ASSUME UNCHANGED <<processes, os>>, (api' # "down") = (api # "down")
    PROVE  UNCHANGED Registry!vars
BY DEF Registry!vars

LEMMA RegistryFork ==
    ASSUME TypeOK, NEW r \in Requests, NEW p \in Pids, Spawn(r, p) \/ ForkTimesOut(r, p)
    PROVE  Registry!Next
<1>1. /\ os[p] = "unborn" /\ os' = [os EXCEPT ![p] = "alive"]
      /\ UNCHANGED <<processes, api>>
  BY DEF Spawn, ForkTimesOut, apiVars
<1>2. Registry!Spawned(p)
  BY <1>1 DEF Registry!Spawned, TypeOK
<1>3. QED
  BY <1>2 DEF Registry!Next

LEMMA RegistryDie ==
    ASSUME TypeOK, NEW p \in Pids, Die(p)
    PROVE  Registry!Next
<1>1. os[p] = "alive" /\ os' = [os EXCEPT ![p] = "dead"] /\ UNCHANGED <<processes, api>>
  BY DEF Die, apiVars
<1>2. Registry!Died(p)
  BY <1>1 DEF Registry!Died, TypeOK
<1>3. QED
  BY <1>2 DEF Registry!Next

LEMMA RegistryAdopts ==
    ASSUME TypeOK, NEW s \in Servers, NEW p \in Pids, processes[s] = None, os[p] = "alive",
           api # "down", processes' = [processes EXCEPT ![s] = p], UNCHANGED <<api, os>>
    PROVE  Registry!Next
<1>1. Registry!Adopt(s, p)
  BY DEF Registry!Adopt, TypeOK
<1>2. QED
  BY <1>1 DEF Registry!Next

LEMMA RegistryRegister ==
    ASSUME TurnInv, NEW r \in Requests, Register(r)
    PROVE  Registry!Next
<1> DEFINE s == req[r].srv
           p == req[r].pid
<1>1. /\ r \in Tasks /\ s \in Servers /\ p \in Pids /\ TypeOK /\ req[r].pc = "verify"
      /\ os[p] = "alive" /\ processes' = [processes EXCEPT ![s] = p] /\ UNCHANGED <<api, os>>
  BY Membership
     DEF Register, TurnInv, WatchInv, Wired, RequestsWired, apiVars, osVars
<1>2. processes[s] = None
  BY <1>1 DEF TurnInv, InTurn, StartsUntracked
<1>3. api # "down"
  BY <1>1, RequestsServed DEF TurnInv
<1> HIDE DEF s, p
<1>4. QED
  BY <1>1, <1>2, <1>3, RegistryAdopts

LEMMA RegistryCleanup ==
    ASSUME TurnInv, NEW c \in Cleaners, CleanupStep(c)
    PROVE  [Registry!Next]_(Registry!vars)
<1> DEFINE s == clean[c].srv
<1>1. /\ TypeOK /\ s \in Servers /\ s # None /\ UNCHANGED <<api, os>>
  BY Membership
     DEF CleanupStep, CleanupCancels, CleanupDeletes, TurnInv, WatchInv, Wired, CleanupsWired,
         apiVars, osVars
<1>2. CASE UNCHANGED processes
  BY <1>1, <1>2, RegistryFrame
<1>3. CASE CleanupDeletes(c) /\ processes[s] # None
  <2>1. processes' = [processes EXCEPT ![s] = None] /\ os[processes[s]] = "dead"
    BY <1>1, <1>3 DEF CleanupDeletes, TurnInv, InTurn, CleanupsOfDead
  <2>2. api # "down"
    BY <1>1, <1>3 DEF TurnInv, InTurn, Unscanned, Phases, NoPromptWork
  <2> HIDE DEF s
  <2>3. Registry!Forget(s)
    BY <1>1, <1>3, <2>1, <2>2 DEF Registry!Forget
  <2>4. QED
    BY <1>1, <2>3 DEF Registry!Next
<1>4. CASE CleanupDeletes(c) /\ processes[s] = None
  BY <1>1, <1>2, <1>4 DEF CleanupDeletes, TypeOK
<1>5. QED
  BY <1>2, <1>3, <1>4 DEF CleanupStep, CleanupCancels

LEMMA RegistryApi ==
    ASSUME TurnInv, BootStep \/ Crash \/ ShutdownKeep \/ ShutdownStop \/ ShutdownDone
    PROVE  [Registry!Next]_(Registry!vars)
<1>1. CASE Crash \/ ShutdownKeep \/ ShutdownDone
  <2>1. ProcessEnds /\ api # "down"
    BY <1>1 DEF Crash, ShutdownKeep, ShutdownDone
  <2>2. Registry!Lose
    BY <2>1 DEF ProcessEnds, osVars, Registry!Lose
  <2>3. QED
    BY <2>2 DEF Registry!Next
<1>2. CASE BootStarts
  <2>1. Registry!Resume
    BY <1>2 DEF BootStarts, osVars, Registry!Resume
  <2>2. QED
    BY <2>1 DEF Registry!Next
<1>3. CASE ShutdownStop \/ SyncStates \/ BootDone
  BY <1>3, RegistryFrame DEF ShutdownStop, SyncStates, BootDone, osVars
<1>4. ASSUME NEW s \in Servers, RestoreServer(s)
      PROVE  [Registry!Next]_(Registry!vars)
  <2>1. TypeOK /\ processes[s] = None /\ UNCHANGED <<api, os>> /\ api # "down"
    BY <1>4 DEF RestoreServer, osVars, TurnInv, InTurn, Unscanned, WatchInv
  <2>2. CASE UNCHANGED processes
    BY <2>1, <2>2, RegistryFrame
  <2>3. CASE ~UNCHANGED processes
    <3>1. /\ pidfile[s] \in Pids /\ os[pidfile[s]] = "alive"
          /\ processes' = [processes EXCEPT ![s] = pidfile[s]]
      BY <1>4, <2>1, <2>3 DEF RestoreServer, TypeOK
    <3>2. QED
      BY <2>1, <3>1, RegistryAdopts
  <2>4. QED
    BY <2>2, <2>3
<1>5. QED
  BY <1>1, <1>2, <1>3, <1>4 DEF BootStep

LEMMA RegistryStep ==
    ASSUME TurnInv, [Next]_vars
    PROVE  [Registry!Next]_(Registry!vars)
<1>1. TypeOK
  BY DEF TurnInv, WatchInv
<1>2. ASSUME UNCHANGED <<api, os, processes>> PROVE [Registry!Next]_(Registry!vars)
  BY <1>2, RegistryFrame
<1>3. ASSUME NEW r \in Requests, StartStep(r) PROVE [Registry!Next]_(Registry!vars)
  <2>1. CASE \E p \in Pids : Spawn(r, p) \/ ForkTimesOut(r, p)
    BY <1>1, <2>1, RegistryFork
  <2>2. CASE Register(r)
    BY <2>2, RegistryRegister
  <2>3. CASE ~(\E p \in Pids : Spawn(r, p) \/ ForkTimesOut(r, p)) /\ ~Register(r)
    BY <1>2, <1>3, <2>3
       DEF StartStep, BeginStart, StartRefused, StartDied, StartReturns, apiVars, osVars
  <2>4. QED
    BY <2>1, <2>2, <2>3
<1>4. ASSUME NEW r \in Requests, NEW s \in Servers, BeginStop(r, s) \/ BeginRestart(r, s)
      PROVE  [Registry!Next]_(Registry!vars)
  BY <1>2, <1>4 DEF BeginStop, BeginRestart, apiVars, osVars
<1>5. ASSUME NEW r \in Tasks, StopStep(r) PROVE [Registry!Next]_(Registry!vars)
  BY <1>2, <1>5 DEF StopStep, StopSignals, StopSeesDead, StopEscalates, StopGivesUp, StopCleaned,
                    StopReturns, RestartProceeds, apiVars, osVars
<1>6. ASSUME NEW p \in Pids, MonitorStep(p) PROVE [Registry!Next]_(Registry!vars)
  BY <1>2, <1>6 DEF MonitorStep, MonitorSeesDeath, MonitorSeesStartup, MonitorResumes,
                    MonitorSeesStop, MonitorExits, RestoredMonitorSeesStop,
                    MonitorSchedulesCleanup, MonitorReports, apiVars, osVars
<1>7. ASSUME NEW p \in Pids, Die(p) PROVE [Registry!Next]_(Registry!vars)
  BY <1>1, <1>7, RegistryDie
<1>8. ASSUME NEW c \in Cleaners, CleanupStep(c) PROVE [Registry!Next]_(Registry!vars)
  BY <1>8, RegistryCleanup
<1>9. ASSUME NEW w \in writes, WriteCommits(w) \/ WriteFails(w)
      PROVE  [Registry!Next]_(Registry!vars)
  BY <1>2, <1>9 DEF WriteCommits, WriteFails, apiVars, osVars
<1>10. CASE BootStep \/ Crash \/ ShutdownKeep \/ ShutdownStop \/ ShutdownDone
  BY <1>10, RegistryApi
<1>11. CASE UNCHANGED vars
  BY <1>2, <1>11 DEF vars, apiVars, osVars
<1>12. QED
  BY <1>3, <1>4, <1>5, <1>6, <1>7, <1>8, <1>9, <1>10, <1>11 DEF Next

\* For callers that take turns on each server, the manager's table is a registry,
\* whatever fails: an entry is made only for a running daemon of a server without
\* entry, it goes only when that daemon is dead, and a restart of the API loses or
\* re-adopts entries but never exchanges one.  (That a dead daemon's entry does go,
\* the fairness of the registry, is for TLC.)
THEOREM TableIsRegistry ==
    Spec /\ []Sequential => Registry!Init /\ [][Registry!Next]_(Registry!vars)
<1>1. Init => Registry!Init
  BY DEF Init, Registry!Init
<1>2. TurnInv /\ [Next]_vars => [Registry!Next]_(Registry!vars)
  BY RegistryStep
<1>3. QED
  BY <1>1, <1>2, TurnInit, TurnInvStep, PTL DEF Spec

-----------------------------------------------------------------------------
(* One daemon per server.                                                    *)

\* No daemon is lost: a live one is named by the PID file of its server, or a
\* request is still looking at it.
LiveTracked ==
    \A p \in Pids :
      os[p] = "alive" =>
        /\ owner[p] \in Servers
        /\ \/ pidfile[owner[p]] = p
           \/ \E r \in Requests : req[r].pc = "verify" /\ req[r].pid = p

\* The settings and the failures under which it holds: a crash, a fork that comes
\* late or a PID file that cannot be written loses a daemon.
NothingLost == AutoSync /\ Faults \cap {"fork", "crash", "pidwrite"} = {}

TrackInv == TurnInv /\ PidFileMirrorsEntry /\ LiveTracked

LEMMA TrackFrame ==
    ASSUME LiveTracked, UNCHANGED <<owner, pidfile>>,
           \A p \in Pids : os'[p] = "alive" => os[p] = "alive",
           \A r \in Requests : req[r].pc = "verify" =>
             req'[r] = req[r] \/ os[req[r].pid] # "alive"
    PROVE  LiveTracked'
BY DEF LiveTracked

LEMMA TrackSpawn ==
    ASSUME TrackInv, NEW r \in Requests, NEW p \in Pids, Spawn(r, p)
    PROVE  LiveTracked'
<1> DEFINE t == [req[r] EXCEPT !.pc = "verify", !.pid = p]
<1>1. TypeOK /\ r \in Tasks /\ req[r].pc = "prep" /\ req[r].srv \in Servers
  BY Membership DEF Spawn, TrackInv, TurnInv, WatchInv, Wired, RequestsWired
<1>2. t.pc = "verify" /\ t.pid = p
  BY <1>1 DEF TypeOK, Task
<1>3. /\ os[p] = "unborn" /\ os' = [os EXCEPT ![p] = "alive"]
      /\ owner' = [owner EXCEPT ![p] = req[r].srv]
      /\ req' = [req EXCEPT ![r] = t] /\ UNCHANGED pidfile
  BY DEF Spawn
<1> HIDE DEF t
<1>4. req'[r].pc = "verify" /\ req'[r].pid = p /\ \A x \in Tasks \ {r} : req'[x] = req[x]
  BY <1>1, <1>2, <1>3 DEF TypeOK
<1>5. \A q \in Pids \ {p} : os'[q] = os[q] /\ owner'[q] = owner[q]
  BY <1>1, <1>3 DEF TypeOK
<1>6. owner'[p] \in Servers
  BY <1>1, <1>3 DEF TypeOK
<1>7. QED
  BY <1>1, <1>3, <1>4, <1>5, <1>6, Membership DEF TrackInv, LiveTracked

LEMMA TrackRegister ==
    ASSUME TrackInv, NothingLost, NEW r \in Requests, Register(r)
    PROVE  LiveTracked'
<1> DEFINE s == req[r].srv
           p == req[r].pid
<1>1. /\ r \in Tasks /\ TypeOK /\ req[r].pc = "verify"
      /\ s \in Servers /\ p \in Pids /\ owner[p] = s
  BY Membership DEF Register, TrackInv, TurnInv, WatchInv, Wired, RequestsWired
<1>2. pidfile' = [pidfile EXCEPT ![s] = p] /\ UNCHANGED <<os, owner>>
  BY DEF Register, NothingLost, osVars
<1>3. \A t \in Tasks \ {r} : req'[t] = req[t]
  BY <1>1 DEF Register, Goto, TypeOK
<1>4. pidfile[s] = None
  <2>1. todo = {}
    BY <1>1, RequestsServed DEF TrackInv, TurnInv
  <2>2. processes[s] = None
    BY <1>1 DEF TrackInv, TurnInv, InTurn, StartsUntracked
  <2>3. QED
    BY <1>1, <2>1, <2>2 DEF TrackInv, PidFileMirrorsEntry, NothingLost
<1> HIDE DEF s
<1>5. \A q \in Pids : os[q] = "alive" => q = p \/ pidfile'[owner[q]] = pidfile[owner[q]]
                                        \/ owner[q] = s
  BY <1>1, <1>2 DEF TypeOK
<1>6. \A q \in Pids : pidfile[s] # q
  BY <1>4, Membership
<1>7. pidfile'[s] = p
  BY <1>1, <1>2 DEF TypeOK
<1>8. QED
  BY <1>1, <1>2, <1>3, <1>5, <1>6, <1>7, Membership DEF TrackInv, LiveTracked

\* Removing the PID file of a server whose daemon is not alive loses none.
LEMMA TrackRemoves ==
    ASSUME TrackInv, UNCHANGED <<os, owner>>, NEW S \in SUBSET Servers,
           pidfile' = [s \in Servers |-> IF s \in S THEN None ELSE pidfile[s]],
           \A s \in S : pidfile[s] # None => os[pidfile[s]] # "alive",
           \A r \in Requests : req[r].pc = "verify" => req'[r] = req[r]
    PROVE  LiveTracked'
BY Membership DEF TrackInv, LiveTracked

LEMMA CleanupFileDead ==
    ASSUME TrackInv, NothingLost, NEW c \in Cleaners, clean[c].srv # None
    PROVE  pidfile[clean[c].srv] # None => os[pidfile[clean[c].srv]] # "alive"
<1>1. clean[c].srv \in Servers
  BY DEF TrackInv, TurnInv, WatchInv, Wired, CleanupsWired
<1>2. clean[c].srv \notin todo
  BY DEF TrackInv, TurnInv, InTurn, Unscanned, NoPromptWork
<1>3. pidfile[clean[c].srv] = processes[clean[c].srv]
  BY <1>1, <1>2 DEF TrackInv, PidFileMirrorsEntry, NothingLost
<1>4. QED
  BY <1>3 DEF TrackInv, TurnInv, InTurn, CleanupsOfDead

LEMMA TrackCleanup ==
    ASSUME TrackInv, NothingLost, NEW c \in Cleaners, CleanupStep(c)
    PROVE  LiveTracked'
<1>1. UNCHANGED <<os, owner, req>>
  BY DEF CleanupStep, CleanupCancels, CleanupDeletes, osVars
<1>2. CASE CleanupDeletes(c)
  <2> DEFINE s == clean[c].srv
  <2>1. s \in Servers /\ s # None
    BY <1>2, Membership DEF CleanupDeletes, TrackInv, TurnInv, WatchInv, Wired, CleanupsWired
  <2>2. pidfile[s] # None => os[pidfile[s]] # "alive"
    BY <2>1, CleanupFileDead
  <2>3. pidfile' = [pidfile EXCEPT ![s] = None] /\ pidfile \in [Servers -> Pids \cup {None}]
    BY <1>2 DEF CleanupDeletes, TrackInv, TurnInv, WatchInv, TypeOK
  <2> HIDE DEF s
  <2>4. pidfile' = [x \in Servers |-> IF x \in {s} THEN None ELSE pidfile[x]]
    BY <2>3
  <2>5. {s} \in SUBSET Servers /\ \A x \in {s} : pidfile[x] # None => os[pidfile[x]] # "alive"
    BY <2>1, <2>2
  <2>6. QED
    BY <1>1, <2>4, <2>5, TrackRemoves
<1>3. CASE CleanupCancels(c)
  BY <1>1, <1>3, TrackFrame DEF CleanupCancels, TrackInv
<1>4. QED
  BY <1>2, <1>3 DEF CleanupStep

LEMMA TrackShutdown ==
    ASSUME TrackInv, NothingLost, ShutdownKeep \/ ShutdownDone
    PROVE  LiveTracked'
<1> DEFINE S == {s \in Servers : \E c \in Cleaners : clean[c].st = "wait" /\ clean[c].srv = s}
<1>1. UNCHANGED <<os, owner>>
  BY DEF ShutdownKeep, ShutdownDone, ProcessEnds, osVars
<1>2. \A r \in Requests : req[r].pc = "idle"
  BY Membership DEF ShutdownKeep, ShutdownDone
<1>3. pidfile' = [s \in Servers |-> IF s \in S THEN None ELSE pidfile[s]]
  BY DEF ShutdownKeep, ShutdownDone, CleanupsFinish
<1>4. \A s \in S : pidfile[s] # None => os[pidfile[s]] # "alive"
  BY CleanupFileDead, Membership
<1>5. S \in SUBSET Servers
  OBVIOUS
<1> HIDE DEF S
<1>6. \A r \in Requests : req[r].pc = "verify" => req'[r] = req[r]
  BY <1>2
<1>7. QED
  BY <1>1, <1>3, <1>4, <1>5, <1>6, TrackRemoves

LEMMA TrackRestore ==
    ASSUME TrackInv, NEW s \in Servers, RestoreServer(s)
    PROVE  LiveTracked'
<1>1. UNCHANGED <<os, owner, req>> /\ pidfile \in [Servers -> Pids \cup {None}]
  BY DEF RestoreServer, osVars, TrackInv, TurnInv, WatchInv, TypeOK
<1>2. CASE UNCHANGED pidfile
  BY <1>1, <1>2, TrackFrame DEF TrackInv
<1>3. CASE ~UNCHANGED pidfile
  <2>1. pidfile' = [pidfile EXCEPT ![s] = None] /\ (pidfile[s] # None => os[pidfile[s]] # "alive")
    BY <1>3 DEF RestoreServer
  <2>2. pidfile' = [x \in Servers |-> IF x \in {s} THEN None ELSE pidfile[x]]
    BY <1>1, <2>1
  <2>3. QED
    BY <1>1, <2>1, <2>2, TrackRemoves
<1>4. QED
  BY <1>2, <1>3

LEMMA TrackStep ==
    ASSUME TrackInv, NothingLost, [Next]_vars
    PROVE  LiveTracked'
<1>1. LiveTracked /\ TypeOK
  BY DEF TrackInv, TurnInv, WatchInv
<1>2. ASSUME UNCHANGED <<os, owner, pidfile, req>> PROVE LiveTracked'
  BY <1>1, <1>2, TrackFrame
<1>3. ASSUME NEW r \in Tasks, UNCHANGED <<os, owner, pidfile>>,
             \A t \in Tasks \ {r} : req'[t] = req[t],
             req[r].pc # "verify" \/ os[req[r].pid] # "alive"
      PROVE  LiveTracked'
  BY <1>1, <1>3, TrackFrame, Membership
<1>4. ASSUME NEW r \in Requests, StartStep(r) PROVE LiveTracked'
  <2>1. \A t \in Tasks \ {r} : req'[t] = req[t]
    BY <1>1, <1>4, StartMoves
  <2>2. CASE \E p \in Pids : Spawn(r, p)
    BY <2>2, TrackSpawn
  <2>3. CASE Register(r)
    BY <2>3, TrackRegister
  <2>4. CASE ~Register(r) /\ ~\E p \in Pids : Spawn(r, p)
    <3>1. ~\E p \in Pids : ForkTimesOut(r, p)
      BY DEF ForkTimesOut, NothingLost
    <3>2. UNCHANGED <<os, owner, pidfile>> /\ (req[r].pc # "verify" \/ os[req[r].pid] # "alive")
      BY <1>4, <2>4, <3>1
         DEF StartStep, BeginStart, StartRefused, StartDied, StartReturns, osVars
    <3>3. QED
      BY <1>3, <2>1, <3>2, Membership
  <2>5. QED
    BY <2>2, <2>3, <2>4
<1>5. ASSUME NEW r \in Requests, NEW s \in Servers, BeginStop(r, s) \/ BeginRestart(r, s)
      PROVE  LiveTracked'
  <2>1. \A t \in Tasks \ {r} : req'[t] = req[t]
    BY <1>1, <1>5, BeginMoves
  <2>2. UNCHANGED <<os, owner, pidfile>> /\ req[r].pc # "verify"
    BY <1>5 DEF BeginStop, BeginRestart, osVars
  <2>3. QED
    BY <1>3, <2>1, <2>2, Membership
<1>6. ASSUME NEW r \in Tasks, StopStep(r) PROVE LiveTracked'
  <2>1. \A t \in Tasks \ {r} : req'[t] = req[t]
    BY <1>1, <1>6, StopMoves DEF Moves
  <2>2. UNCHANGED <<os, owner, pidfile>> /\ req[r].pc # "verify"
    BY <1>6 DEF StopStep, StopSignals, StopSeesDead, StopEscalates, StopGivesUp, StopCleaned,
                StopReturns, RestartProceeds, osVars
  <2>3. QED
    BY <1>3, <2>1, <2>2
<1>7. ASSUME NEW p \in Pids, MonitorStep(p) PROVE LiveTracked'
  BY <1>2, <1>7 DEF MonitorStep, MonitorSeesDeath, MonitorSeesStartup, MonitorResumes,
                    MonitorSeesStop, MonitorExits, RestoredMonitorSeesStop,
                    MonitorSchedulesCleanup, MonitorReports, osVars
<1>8. ASSUME NEW p \in Pids, Die(p) PROVE LiveTracked'
  <2>1. UNCHANGED <<owner, pidfile, req>> /\ \A q \in Pids : os'[q] = "alive" => os[q] = "alive"
    BY <1>1, <1>8 DEF Die, TypeOK
  <2>2. QED
    BY <1>1, <2>1, TrackFrame
<1>9. ASSUME NEW c \in Cleaners, CleanupStep(c) PROVE LiveTracked'
  BY <1>9, TrackCleanup
<1>10. ASSUME NEW w \in writes, WriteCommits(w) \/ WriteFails(w) PROVE LiveTracked'
  BY <1>2, <1>10 DEF WriteCommits, WriteFails, osVars
<1>11. CASE BootStep
  BY <1>2, <1>11, TrackRestore DEF BootStep, BootStarts, SyncStates, BootDone, osVars
<1>12. CASE ShutdownStop
  <2>1. UNCHANGED <<os, owner, pidfile>> /\ \A r \in Requests : req'[r] = req[r]
    BY <1>12, ConstAssumption, Membership DEF ShutdownStop, osVars
  <2>2. QED
    BY <1>1, <2>1, TrackFrame
<1>13. CASE ShutdownKeep \/ ShutdownDone
  BY <1>13, TrackShutdown
<1>14. ~Crash
  BY DEF Crash, NothingLost
<1>15. CASE UNCHANGED vars
  BY <1>2, <1>15 DEF vars, osVars
<1>16. QED
  BY <1>4, <1>5, <1>6, <1>7, <1>8, <1>9, <1>10, <1>11, <1>12, <1>13, <1>14, <1>15 DEF Next

\* Two live daemons of one server would be named by one PID file, or looked at by
\* one request, or one by each while the other's entry blocks the start.
LEMMA TrackedAreOne ==
    ASSUME TrackInv, NothingLost, Sequential, NEW s \in Servers,
           NEW p \in LiveDaemons(s), NEW q \in LiveDaemons(s)
    PROVE  p = q
<1>1. /\ p \in Pids /\ os[p] = "alive" /\ owner[p] = s
      /\ q \in Pids /\ os[q] = "alive" /\ owner[q] = s
  BY DEF LiveDaemons
<1>2. ASSUME NEW r \in Requests, req[r].pc = "verify"
      PROVE  req[r].srv = owner[req[r].pid] /\ pidfile[req[r].srv] = None
  <2>1. r \in Tasks /\ req[r].srv = owner[req[r].pid] /\ req[r].srv \in Servers
    BY <1>2, Membership DEF TrackInv, TurnInv, WatchInv, Wired, RequestsWired
  <2>2. todo = {}
    BY <1>2, <2>1, RequestsServed DEF TrackInv, TurnInv, WatchInv
  <2>3. processes[req[r].srv] = None
    BY <1>2 DEF TrackInv, TurnInv, InTurn, StartsUntracked
  <2>4. QED
    BY <2>1, <2>2, <2>3 DEF TrackInv, PidFileMirrorsEntry, NothingLost
<1>3. CASE pidfile[s] \in Pids
  BY <1>1, <1>2, <1>3, Membership DEF TrackInv, LiveTracked
<1>4. CASE pidfile[s] \notin Pids
  <2>1. PICK r \in Requests : req[r].pc = "verify" /\ req[r].pid = p
    BY <1>1, <1>4 DEF TrackInv, LiveTracked
  <2>2. PICK t \in Requests : req[t].pc = "verify" /\ req[t].pid = q
    BY <1>1, <1>4 DEF TrackInv, LiveTracked
  <2>3. req[r].srv = s /\ req[t].srv = s
    BY <1>1, <1>2, <2>1, <2>2
  <2>4. QED
    BY <2>1, <2>2, <2>3 DEF Sequential
<1>5. QED
  BY <1>3, <1>4

LEMMA AtMostOne ==
    ASSUME NEW S, \A x, y \in S : x = y
    PROVE  Cardinality(S) <= 1
<1>1. CASE S = {}
  BY <1>1, FS_EmptySet
<1>2. CASE S # {}
  <2>1. PICK x : x \in S
    BY <1>2
  <2>2. S = {x}
    BY <2>1
  <2>3. QED
    BY <2>2, FS_Singleton
<1>3. QED
  BY <1>1, <1>2

\* For callers that take turns on each server, with AUTO_SYNC_ON_STARTUP on and
\* without a crash, a late fork or an unwritable PID file, a server never has two live daemons on its world
\* directory: across starts, stops that give up, restarts, monitors that report
\* late, cleanups, shutdowns that keep or stop the servers and restarts of the API,
\* and with any number of servers and of requests about other servers.
THEOREM OneDaemon ==
    ASSUME NothingLost
    PROVE  Spec /\ []Sequential => []OneDaemonPerServer
<1>1. Init => TrackInv
  <2>1. Init => LiveTracked /\ PidFileMirrorsEntry
    BY DEF Init, LiveTracked, PidFileMirrorsEntry
  <2>2. QED
    BY <2>1, TurnInit DEF TrackInv
<1>2. TrackInv /\ Sequential /\ [Next]_vars => TrackInv'
  BY TurnInvStep, MirrorStep, TrackStep DEF TrackInv, TurnInv, WatchInv
<1>3. TrackInv /\ Sequential => OneDaemonPerServer
  BY TrackedAreOne, AtMostOne DEF OneDaemonPerServer
<1>4. QED
  BY <1>1, <1>2, <1>3, PTL DEF Spec
=============================================================================
