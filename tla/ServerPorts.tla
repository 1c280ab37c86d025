---------------------------- MODULE ServerPorts ----------------------------
(* The ports of a server: the column servers.port, the server.properties    *)
(* file that the daemon reads, and the checks that keep two servers off one *)
(* port.  A start copies the port of the file to the row, checks that no    *)
(* active server and no listening process has it, waits for the Java probe, *)
(* chooses an RCON port and forks; the daemon reads the file and binds some *)
(* seconds later.  An update and an edit of the file check nothing.         *)
(* (simplified_sync.py, port_allocator.py, minecraft/preflight.py, and the  *)
(* port handling of servers/application/service.py.)                        *)
(*                                                                          *)
(* How a daemon is tracked and stopped is in ServerLifecycle; here a server *)
(* is active or not, and starting and running are not told apart, as the    *)
(* checks do not tell them apart.                                           *)
EXTENDS Naturals, FiniteSetsExt

CONSTANTS
    Servers,      \* rows of the servers table
    Ports,        \* port numbers
    DefaultPort,  \* DEFAULT_PORT_START, also what a daemon takes by itself
    LowestPort,   \* 1024: a smaller number in the file is not read
    RconPorts,    \* the range of _find_available_rcon_port
    Unset         \* no port

ASSUME PortsAssumption ==
    /\ Ports \subseteq Nat /\ RconPorts \subseteq Nat /\ Unset \notin Nat
    /\ DefaultPort \in Ports /\ LowestPort <= DefaultPort

VARIABLES
    row,      \* servers.port; Unset when there is no row
    file,     \* server-port in server.properties; Unset when it has none
    active,   \* the status column is starting or running
    start,    \* the start request of a server: how far, and the port it checks
    daemon,   \* the daemon: "none", "loading" or "serving"
    bound,    \* the port a serving daemon listens on
    rcon,     \* the RCON port the daemon was configured with
    rconUp,   \* whether the daemon has its RCON port
    excuse    \* history: what has happened to a server since its last start

portsVars == <<row, file, active, start, daemon, bound, rcon, rconUp, excuse>>

MaybePort == Ports \cup {Unset}
(* The port field of a request, which may be left out.                      *)
Requested == {p \in Ports : p >= LowestPort} \cup {Unset}
Idle == [pc |-> "idle", port |-> Unset]
Excuses == {"edited", "overlapped", "unread", "rconOverlapped"}

(* Types and ranges of the state.                                           *)
PortsTypeOK ==
    /\ row \in [Servers -> MaybePort]
    /\ file \in [Servers -> MaybePort]
    /\ active \in [Servers -> BOOLEAN]
    /\ start \in [Servers -> [pc : {"idle", "create", "restart", "syncing",
                                    "synced", "checked", "forked"},
                              port : MaybePort]]
    /\ daemon \in [Servers -> {"none", "loading", "serving"}]
    /\ bound \in [Servers -> MaybePort]
    /\ rcon \in [Servers -> RconPorts \cup {Unset}]
    /\ rconUp \in [Servers -> BOOLEAN]
    /\ excuse \in [Servers -> SUBSET Excuses]
    /\ \A s \in Servers :
          /\ (row[s] = Unset) => (start[s].pc \in {"idle", "create"} /\ ~active[s])
          /\ (daemon[s] = "serving") <=> (bound[s] # Unset)
          /\ rconUp[s] => (daemon[s] = "serving" /\ rcon[s] # Unset)

PortsInit ==
    /\ row = [s \in Servers |-> Unset]
    /\ file = [s \in Servers |-> Unset]
    /\ active = [s \in Servers |-> FALSE]
    /\ start = [s \in Servers |-> Idle]
    /\ daemon = [s \in Servers |-> "none"]
    /\ bound = [s \in Servers |-> Unset]
    /\ rcon = [s \in Servers |-> Unset]
    /\ rconUp = [s \in Servers |-> FALSE]
    /\ excuse = [s \in Servers |-> {}]

osVars == <<daemon, bound, rcon, rconUp>>

-----------------------------------------------------------------------------
(* The active servers on a port (list_by_port).                             *)
Holders(p) == {s \in Servers : active[s] /\ row[s] = p}

(* The first port that find_available_ports offers.                         *)
FirstFree ==
    LET free == {p \in Ports : p >= DefaultPort /\ Holders(p) = {}} IN
    IF free = {} THEN Unset ELSE Min(free)

Listening(p) == \E s \in Servers : daemon[s] = "serving" /\ bound[s] = p

(* get_properties_file_port: a port outside the range is as good as none.   *)
FilePort(s) ==
    IF file[s] = Unset THEN Unset ELSE IF file[s] < LowestPort THEN Unset ELSE file[s]

(* Mutant: only the socket is probed.                                       *)
Available_SocketOnly(s, p) == ~Listening(p)

(* _validate_port_availability.                                             *)
Available(s, p) == Holders(p) \ {s} = {} /\ ~Listening(p)

-----------------------------------------------------------------------------
(* create_server and the import of an archive: a port that is given must    *)
(* not be held by an active server, one that is not is the first free one.  *)
(* The Java and version checks and the download follow.                     *)
CreateChecks(s, given) ==
    LET p == IF given = Unset THEN FirstFree ELSE given IN
    /\ row[s] = Unset /\ start[s].pc = "idle"
    /\ p # Unset
    /\ Holders(p) = {}
    /\ start' = [start EXCEPT ![s] = [pc |-> "create", port |-> p]]
    /\ UNCHANGED <<row, file, active, osVars, excuse>>

(* The row is inserted and server.properties generated; a server-port among *)
(* the properties of the request has the last word in the file.             *)
CreateInserts(s, property) ==
    /\ start[s].pc = "create"
    /\ row' = [row EXCEPT ![s] = start[s].port]
    /\ file' = [file EXCEPT ![s] = IF property = Unset THEN start[s].port ELSE property]
    /\ start' = [start EXCEPT ![s] = Idle]
    /\ UNCHANGED <<active, osVars, excuse>>

CreateFails(s) ==
    /\ start[s].pc = "create"
    /\ start' = [start EXCEPT ![s] = Idle]
    /\ UNCHANGED <<row, file, active, osVars, excuse>>

(* Nothing of the server has begun that a change of its ports could upset.  *)
Unstarted(s) == start[s].pc = "idle" /\ ~active[s] /\ daemon[s] = "none"

(* A changed port excuses whatever else a port could be excused for.        *)
Edited(s) ==
    excuse' = [excuse EXCEPT ![s] =
                  IF Unstarted(s) THEN {} ELSE {"edited"} \cup (@ \cap {"rconOverlapped"})]

(* update_server with a port and a server-port among the properties: the    *)
(* property wins if it changes the row, so that the port does not matter,   *)
(* and is what the file gets; a failed write of the file is only logged.    *)
Update(s, port, property) ==
    LET wanted == IF property # Unset /\ property # row[s] THEN property ELSE port
        new == IF wanted = Unset THEN row[s] ELSE wanted
        written == IF property = Unset THEN new ELSE property
    IN  /\ row[s] # Unset
        /\ property \in {Unset, row[s]} \/ port = Unset
        /\ row' = [row EXCEPT ![s] = new]
        /\ \/ file[s] \notin {Unset, written} /\ file' = [file EXCEPT ![s] = written]
           \/ UNCHANGED file
        /\ Edited(s)
        /\ UNCHANGED <<active, start, osVars>>

(* update_server with the property spelt server_port: the row is not        *)
(* touched, the file is.                                                    *)
UpdateFileOnly(s, property) ==
    /\ row[s] # Unset /\ file[s] # Unset
    /\ file' = [file EXCEPT ![s] = property]
    /\ Edited(s)
    /\ UNCHANGED <<row, active, start, osVars>>

(* The file is edited by hand or through the file API, or removed.          *)
EditFile(s, p) ==
    /\ row[s] # Unset
    /\ file' = [file EXCEPT ![s] = p]
    /\ Edited(s)
    /\ UNCHANGED <<row, active, start, osVars>>

-----------------------------------------------------------------------------
(* start_server                                                             *)

(* What a check passed by s overlooks: a server with that port that has     *)
(* passed its own check and is not active yet, or is stopping and not       *)
(* active any more, and a file that told the sync nothing.                  *)
Overlooked(s, p) ==
    {x \in {"overlapped", "unread"} :
        \/ x = "overlapped" /\ \E t \in Servers \ {s} :
               /\ row[t] = p
               /\ start[t].pc \in {"checked", "forked"} \/ (~active[t] /\ daemon[t] # "none")
        \/ x = "unread" /\ FilePort(s) = Unset /\ file[s] # p}

(* The port check, with which the request goes on or ends.                  *)
Check(s, p, before) ==
    /\ start' = [start EXCEPT ![s] =
                     IF Available(s, p) THEN [pc |-> "checked", port |-> p] ELSE Idle]
    /\ excuse' = [excuse EXCEPT ![s] =
                      IF ~Available(s, p) THEN {}
                      ELSE IF "edited" \in before THEN before
                      ELSE before \cup Overlooked(s, p)]

(* restart_server keeps the row it read before it stops the server and      *)
(* waits.                                                                   *)
RestartBegins(s) ==
    /\ active[s] /\ start[s].pc = "idle"
    /\ start' = [start EXCEPT ![s] = [pc |-> "restart", port |-> row[s]]]
    /\ UNCHANGED <<row, file, active, osVars, excuse>>

(* The server does not stop in time, and cannot be started.                 *)
RestartFails(s) ==
    /\ active[s] \/ daemon[s] # "none"
    /\ start[s].pc = "restart"
    /\ start' = [start EXCEPT ![s] = Idle]
    /\ UNCHANGED <<row, file, active, osVars, excuse>>

Startable(s) ==
    /\ row[s] # Unset /\ ~active[s] /\ daemon[s] = "none"
    /\ start[s].pc \in {"idle", "restart"}

(* The port of the row as the request read it.                              *)
RowRead(s) == IF start[s].pc = "restart" THEN start[s].port ELSE row[s]

(* File and row agree, or the file names no port: the check follows at once.*)
BeginChecked(s) ==
    /\ Startable(s)
    /\ FilePort(s) \in {Unset, RowRead(s)}
    /\ Check(s, RowRead(s), excuse[s])
    /\ UNCHANGED <<row, file, active, osVars>>

(* They differ: a worker thread writes the row.                             *)
BeginSync(s) ==
    /\ Startable(s)
    /\ FilePort(s) \notin {Unset, RowRead(s)}
    /\ start' = [start EXCEPT ![s] = [pc |-> "syncing", port |-> FilePort(s)]]
    /\ UNCHANGED <<row, file, active, osVars, excuse>>

(* Mutant: the row keeps its port.                                          *)
SyncCommits_Skips(s) ==
    /\ start[s].pc = "syncing"
    /\ start' = [start EXCEPT ![s].pc = "synced"]
    /\ UNCHANGED <<row, file, active, osVars, excuse>>

SyncCommits(s) ==
    /\ start[s].pc = "syncing"
    /\ row' = [row EXCEPT ![s] = start[s].port]
    /\ start' = [start EXCEPT ![s].pc = "synced"]
    /\ UNCHANGED <<file, active, osVars, excuse>>

(* The write fails: the start is refused.                                   *)
SyncFails(s) ==
    /\ start[s].pc = "syncing"
    /\ start' = [start EXCEPT ![s] = Idle]
    /\ excuse' = [excuse EXCEPT ![s] = {}]
    /\ UNCHANGED <<row, file, active, osVars>>

CheckSynced(s) ==
    /\ start[s].pc = "synced"
    /\ Check(s, start[s].port, excuse[s])
    /\ UNCHANGED <<row, file, active, osVars>>

(* The Java check (see ServerStarts) or the check of the files fails.       *)
Refused(s) ==
    /\ start[s].pc = "checked"
    /\ start' = [start EXCEPT ![s] = Idle]
    /\ excuse' = [excuse EXCEPT ![s] = {}]
    /\ UNCHANGED <<row, file, active, osVars>>

RconListening(p) == \E s \in Servers : rconUp[s] /\ rcon[s] = p

(* Mutant: the first port is taken without probing it.                      *)
RconChoice_NoProbe(s) == Min(RconPorts)

(* _find_available_rcon_port; when none is free the server goes without.    *)
RconChoice(s) ==
    LET free == {p \in RconPorts : ~RconListening(p)} IN
    IF free = {} THEN Unset ELSE Min(free)

(* The daemons that have been given this RCON port and do not listen yet.   *)
RconPromised(s) ==
    {t \in Servers \ {s} : daemon[t] = "loading" /\ rcon[t] = RconChoice(s)}

(* _ensure_rcon_configured, and the fork.                                   *)
Spawn(s) ==
    /\ start[s].pc = "checked"
    /\ start' = [start EXCEPT ![s].pc = "forked"]
    /\ daemon' = [daemon EXCEPT ![s] = "loading"]
    /\ rcon' = [rcon EXCEPT ![s] = RconChoice(s)]
    /\ excuse' = [t \in Servers |->
                     excuse[t] \cup
                         {x \in {"rconOverlapped"} :
                             /\ RconPromised(s) # {}
                             /\ t \in RconPromised(s) \cup {s}}]
    /\ UNCHANGED <<row, file, active, bound, rconUp>>

(* The daemon has survived the first 300 ms; the status is written.         *)
Registered(s) ==
    /\ start[s].pc = "forked"
    /\ daemon[s] # "none"
    /\ start' = [start EXCEPT ![s] = Idle]
    /\ active' = [active EXCEPT ![s] = TRUE]
    /\ UNCHANGED <<row, file, osVars, excuse>>

StartDied(s) ==
    /\ start[s].pc = "forked"
    /\ daemon[s] = "none"
    /\ start' = [start EXCEPT ![s] = Idle]
    /\ excuse' = [excuse EXCEPT ![s] = {}]
    /\ UNCHANGED <<row, file, active, osVars>>

-----------------------------------------------------------------------------
(* The daemon, a Java process: it reads server.properties, takes the        *)
(* default port where the file has none, and writes back what it took.  It  *)
(* exits when the port is taken, and goes without RCON when that port is.   *)
DaemonPort(s) == IF file[s] = Unset THEN DefaultPort ELSE file[s]

Serves(s) ==
    /\ daemon[s] = "loading"
    /\ ~Listening(DaemonPort(s))
    /\ daemon' = [daemon EXCEPT ![s] = "serving"]
    /\ bound' = [bound EXCEPT ![s] = DaemonPort(s)]
    /\ file' = [file EXCEPT ![s] = DaemonPort(s)]
    /\ rconUp' = [rconUp EXCEPT ![s] = rcon[s] # Unset /\ ~RconListening(rcon[s])]
    /\ UNCHANGED <<row, active, start, rcon, excuse>>

(* What was changed since a restart was requested matters to the start that *)
(* follows; nothing else does.                                              *)
Remembered(s) == {x \in {"edited"} : start[s].pc = "restart" /\ start[s].port # row[s]}

(* It exits: stopped, crashed, or without its port.                         *)
Exits(s) ==
    /\ daemon[s] # "none"
    /\ daemon' = [daemon EXCEPT ![s] = "none"]
    /\ bound' = [bound EXCEPT ![s] = Unset]
    /\ rcon' = [rcon EXCEPT ![s] = Unset]
    /\ rconUp' = [rconUp EXCEPT ![s] = FALSE]
    /\ excuse' = [excuse EXCEPT ![s] =
                     IF active[s] \/ start[s].pc = "forked" THEN @ ELSE Remembered(s)]
    /\ UNCHANGED <<row, file, active, start>>

(* The monitor or the stop has noticed; the status is written.              *)
SeenStopped(s) ==
    /\ active[s] /\ daemon[s] = "none"
    /\ active' = [active EXCEPT ![s] = FALSE]
    /\ excuse' = [excuse EXCEPT ![s] = Remembered(s)]
    /\ UNCHANGED <<row, file, start, osVars>>

(* A stop begins: the status is stopping, while the daemon goes on.  (It is *)
(* error, with the same effect, when the monitor fails.)                    *)
StopBegins(s) ==
    /\ active[s] /\ daemon[s] # "none"
    /\ active' = [active EXCEPT ![s] = FALSE]
    /\ UNCHANGED <<row, file, start, osVars, excuse>>

(* The monitor sees meanwhile that the daemon has come up, and writes that  *)
(* it is running.                                                           *)
SeenRunning(s) ==
    /\ ~active[s] /\ daemon[s] # "none" /\ start[s].pc # "forked"
    /\ active' = [active EXCEPT ![s] = TRUE]
    /\ UNCHANGED <<row, file, start, osVars, excuse>>

(* What a search for Java has no part in.                                   *)
OtherSteps(s) ==
    \/ \E p \in Requested : CreateChecks(s, p)
    \/ \E p \in MaybePort : EditFile(s, p)
    \/ \E p \in Requested, q \in MaybePort : Update(s, p, q)
    \/ \E p \in Ports : UpdateFileOnly(s, p)
    \/ RestartBegins(s) \/ RestartFails(s)
    \/ BeginChecked(s) \/ BeginSync(s) \/ SyncCommits(s) \/ SyncFails(s) \/ CheckSynced(s)
    \/ Registered(s) \/ StartDied(s)
    \/ Serves(s) \/ Exits(s)
    \/ SeenStopped(s) \/ StopBegins(s) \/ SeenRunning(s)

PortsNext ==
    \E s \in Servers :
        \/ OtherSteps(s)
        \/ \E p \in MaybePort : CreateInserts(s, p)
        \/ CreateFails(s)
        \/ Refused(s)
        \/ Spawn(s)

PortsSpec == PortsInit /\ [][PortsNext]_portsVars

-----------------------------------------------------------------------------
(* Two active servers share a port only if a port was changed since one of  *)
(* them started, or one was checked while the other was about to be active  *)
(* or was being stopped.  (The checks of creation, start and sync; the      *)
(* module comment of port_allocator.py: "two servers can share a port as    *)
(* long as they never run concurrently".)                                   *)
PortsApart ==
    \A s, t \in Servers :
        (s # t /\ active[s] /\ active[t] /\ row[s] = row[t])
            => (excuse[s] \cup excuse[t]) \cap {"edited", "overlapped"} # {}

(* A daemon that serves listens on the port of the row, which is the one    *)
(* that was checked, unless the port was changed since the request read it  *)
(* or the file named no port the sync could read; and it has its RCON port, *)
(* unless none was free or it was given to two daemons before either        *)
(* listened.  (perform_simplified_sync before _validate_port_availability,  *)
(* and the probe of _find_available_rcon_port.)                             *)
ServesAsStarted ==
    \A s \in Servers : daemon[s] = "serving" =>
        /\ bound[s] = row[s] \/ excuse[s] \cap {"edited", "unread"} # {}
        /\ rconUp[s] \/ rcon[s] = Unset \/ "rconOverlapped" \in excuse[s]
=============================================================================
