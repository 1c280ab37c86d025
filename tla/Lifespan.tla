------------------------------ MODULE Lifespan ------------------------------
(* The lifespan of the API process (app/main.py): its services are started  *)
(* one after the other, each of them may fail, and are stopped one after    *)
(* the other.  The server runs the handlers of requests and sockets only    *)
(* between the two.                                                         *)
EXTENDS Connections

CONSTANT MaxFailures \* bound: the services of a process that fail to start or stop

Optional == {"integration", "backups", "websockets", "versions"}
Services == {"database", "manager"} \cup Optional

ASSUME LifespanAssumption == MaxFailures \in Nat

VARIABLES
    phase,  \* what the process does
    ready,  \* service_status: the services that were started
    failed, \* service_status.failed_services
    errors, \* cleanup_errors
    held,   \* backup_scheduler_instance holds a scheduler
    loops   \* the schedulers whose tasks run

statusVars == <<ready, failed, errors>>
lifespanVars == <<phase, statusVars, held, loops>>
socketVars == <<pc, target, active, logTask, inUse, pool>>

(* What the process does after each step.                                   *)
Following ==
    [database |-> "visibility", visibility |-> "integration", integration |-> "backups",
     backups |-> "websockets", websockets |-> "versions", versions |-> "serving",
     serving |-> "stopManager",
     stopManager |-> "stopBackups", stopBackups |-> "stopWebsockets",
     stopWebsockets |-> "stopVersions", stopVersions |-> "ended"]

Phases == DOMAIN Following \cup {"ended"}

Proceed == phase' = Following[phase]

LifespanTypeOK ==
    /\ phase \in Phases
    /\ ready \subseteq Services \ {"manager"}
    /\ failed \subseteq Optional
    /\ errors \subseteq Services
    /\ held \in BOOLEAN
    /\ loops \subseteq {"backups", "versions"}

LifespanInit ==
    /\ phase = "ended"
    /\ ready = {} /\ failed = {} /\ errors = {}
    /\ held = FALSE
    /\ loops = {}

NoService ==
    /\ ready' = {} /\ failed' = {} /\ errors' = {}
    /\ held' = FALSE
    /\ loops' = {}
    /\ monitor' = FALSE

(* A new process: nothing of the old one is left.                           *)
Launch ==
    /\ phase = "ended"
    /\ phase' = "database"
    /\ NoService
    /\ UNCHANGED socketVars

(* The process is killed.                                                   *)
ProcessDies ==
    /\ phase # "ended"
    /\ phase' = "ended"
    /\ NoService
    /\ pc' = [s \in Sockets |-> "idle"]
    /\ target' = [s \in Sockets |-> None]
    /\ active' = [v \in Servers |-> {}]
    /\ logTask' = [v \in Servers |-> None]
    /\ inUse' = 0
    /\ pool' = {}

MayFail == Cardinality(failed \cup errors) < MaxFailures

Started(service) == ready' = ready \cup {service} /\ UNCHANGED <<failed, errors>>

FailsToStart(service) ==
    /\ MayFail
    /\ failed' = failed \cup {service}
    /\ UNCHANGED <<ready, errors>>

(* Only the database is indispensable: the tables, the unique index of the  *)
(* file history and the users' token versions.  Other migrations may fail.  *)
InitializeDatabase ==
    /\ phase = "database"
    /\ Proceed
    /\ Started("database")
    /\ UNCHANGED <<held, loops, monitor, socketVars>>

DatabaseFails ==
    /\ phase = "database"
    /\ MayFail
    /\ phase' = "ended"
    /\ UNCHANGED <<statusVars, held, loops, monitor, socketVars>>

(* Best effort: its failure leaves no trace.                                *)
MigrateVisibility ==
    /\ phase = "visibility"
    /\ Proceed
    /\ UNCHANGED <<statusVars, held, loops, monitor, socketVars>>

(* A failed synchronisation of the servers' states is no failure.           *)
InitializeIntegration ==
    /\ phase = "integration"
    /\ Proceed
    /\ Started("integration") \/ FailsToStart("integration")
    /\ UNCHANGED <<held, loops, monitor, socketVars>>

(* The holder is cleared when start_scheduler fails.                        *)
InitializeBackups ==
    /\ phase = "backups"
    /\ Proceed
    /\ \/ Started("backups") /\ held' = TRUE /\ loops' = loops \cup {"backups"}
       \/ FailsToStart("backups") /\ UNCHANGED <<held, loops>>
    /\ UNCHANGED <<monitor, socketVars>>

InitializeWebsockets ==
    /\ phase = "websockets"
    /\ Proceed
    /\ \/ Started("websockets") /\ StartMonitoring
       \/ FailsToStart("websockets") /\ UNCHANGED <<monitor, socketVars>>
    /\ UNCHANGED <<held, loops>>

InitializeVersions ==
    /\ phase = "versions"
    /\ Proceed
    /\ \/ Started("versions") /\ loops' = loops \cup {"versions"}
       \/ FailsToStart("versions") /\ UNCHANGED loops
    /\ UNCHANGED <<held, monitor, socketVars>>

(* The server was told to stop and has closed its connections.              *)
BeginShutdown ==
    /\ phase = "serving"
    /\ pool = {}
    /\ Proceed
    /\ UNCHANGED <<statusVars, held, loops, monitor, socketVars>>

(* What a step of _cleanup_services makes of the status.                    *)
Stopped == UNCHANGED statusVars

FailsToStop(service) ==
    /\ MayFail
    /\ errors' = errors \cup {service}
    /\ UNCHANGED <<ready, failed>>

(* Mutant: the first error ends the shutdown.                               *)
StopManager_OrEnds ==
    /\ phase = "stopManager"
    /\ \/ Proceed /\ Stopped
       \/ phase' = "ended" /\ FailsToStop("manager")
    /\ UNCHANGED <<held, loops, monitor, socketVars>>

(* shutdown_all: what becomes of the servers is in ServerLifecycle.         *)
StopManager ==
    /\ phase = "stopManager"
    /\ Proceed
    /\ Stopped \/ FailsToStop("manager")
    /\ UNCHANGED <<held, loops, monitor, socketVars>>

(* A service that was not started is not stopped.                           *)
StopBackups ==
    /\ phase = "stopBackups"
    /\ Proceed
    /\ \/ /\ Stopped
          /\ held' = (held /\ "backups" \notin ready)
          /\ loops' = IF "backups" \in ready THEN loops \ {"backups"} ELSE loops
       \/ "backups" \in ready /\ FailsToStop("backups") /\ UNCHANGED <<held, loops>>
    /\ UNCHANGED <<monitor, socketVars>>

StopWebsockets ==
    /\ phase = "stopWebsockets"
    /\ Proceed
    /\ \/ "websockets" \in ready /\ Stopped /\ StopMonitoring
       \/ "websockets" \in ready /\ FailsToStop("websockets") /\ UNCHANGED <<monitor, socketVars>>
       \/ "websockets" \notin ready /\ Stopped /\ UNCHANGED <<monitor, socketVars>>
    /\ UNCHANGED <<held, loops>>

StopVersions ==
    /\ phase = "stopVersions"
    /\ Proceed
    /\ \/ Stopped /\ loops' = IF "versions" \in ready THEN loops \ {"versions"} ELSE loops
       \/ "versions" \in ready /\ FailsToStop("versions") /\ UNCHANGED loops
    /\ UNCHANGED <<held, monitor, socketVars>>

LifespanNext ==
    \/ Launch
    \/ InitializeDatabase \/ DatabaseFails \/ MigrateVisibility \/ InitializeIntegration
    \/ InitializeBackups \/ InitializeWebsockets \/ InitializeVersions
    \/ BeginShutdown
    \/ StopManager \/ StopBackups \/ StopWebsockets \/ StopVersions

-----------------------------------------------------------------------------
(* The services that run.                                                   *)
Running == loops \cup {s \in {"websockets"} : monitor}

(* While requests are served, each optional service either runs, in which   *)
(* case it is ready, or is listed as failed, whichever of those before it   *)
(* have failed; and when the process ends in good order, what still runs is *)
(* what cleanup_errors lists.  (_initialize_services, _cleanup_services.)   *)
ServicesAccounted ==
    /\ phase = "serving" =>
           /\ ready = {"database"} \cup (Optional \ failed)
           /\ Running = ready \ {"database", "integration"}
           /\ held <=> "backups" \in ready
    /\ phase = "ended" => Running = errors \ {"manager"}
=============================================================================
