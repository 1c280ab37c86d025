# Formal models of mc-server-dashboard-api

TLA+ modules, TLC configurations and TLAPS proofs for the API that creates, runs, backs up and
edits Minecraft servers (`app/`). Every definition is translated from the source at the lines that
`PROJECT.json` ("map") names; paths in this file are relative to `src/`.

Run inside this directory:

    tlc -workers 2 -config LifecycleConcurrent.cfg MCServerLifecycle.tla
    tlapm ServerLifecycleProofs.tla

## 1. The system

One Python process runs FastAPI on one asyncio event loop (`app/main.py`). It keeps rows in SQLite
through SQLAlchemy (a unit of work per request), directories under `servers/`, archives under
`backups/`, and it spawns every Minecraft server as a daemon (double fork, its own session), which
survives the API. Coroutines interleave only where they really suspend; blocking database work runs
inline, except for the status column of `servers`, which worker threads write.

| Component | State | Operations | Talks to |
|---|---|---|---|
| Lifecycle (`servers/application/minecraft/`, `servers/routers/control.py`) | `manager.processes`, a `ServerProcess` per daemon (status, PID, monitor task), `server.pid` files, the daemons themselves | start, stop, restart, monitor, clean up, restore after a restart, shut down | status column (database_integration), group files before a start, RCON |
| Server catalogue (`servers/application/service.py`, `routers/management.py`, `import_export.py`) | `servers` rows, directories, `.archived/` | create, update, delete, import, export | JAR cache, groups, lifecycle (ports, status) |
| Backups (`backups/`) | `backups` rows, archives in `backups/`, `.pending/`, `.failed/`, two semaphores | create, upload, restore, delete, sweep, schedules | status of the server, its directory, file_io semaphore |
| Files (`files/`) | the files of a server, `file_edit_history` rows, version files | write, upload, restore a version, delete, clean up | file_io semaphore |
| Groups (`groups/`) | `groups`, `server_groups` rows, `ops.json` and `whitelist.json` of each server | add or remove a player, update, attach, detach, delete | running servers through RCON (`real_time_server_commands.py`) |
| Accounts (`users/`, `auth/`) | users with role, approval, activity and token version; refresh tokens; login attempts and lockouts | register, log in, refresh, log out, approve, (de)activate, change role or password, delete | every request (`auth/dependencies.py`) |
| Versions (`versions/`) | version rows, the JAR cache, the update scheduler | list, update, download, clean up | upstream vendors, server creation |
| Ports and Java (`servers/application/simplified_sync.py`, `port_allocator.py`, `minecraft/preflight.py`, `versions/application/java_compatibility.py`) | `servers.port`, `server.properties`, the ports that daemons listen on, the Java executables of the machine | allocate, update, synchronise, check, search | creation and start of a server |
| WebSockets (`websockets/`) | connections per server, a log task per server, a semaphore, a pooled database connection per socket | connect, disconnect, stream, command, broadcast | manager.processes, log files |
| Lifespan and health (`main.py`, `health/`) | the services that run, `service_status`, a cached evaluation behind a lock | start, stop, probe | every service, the connection pool |
| Visibility (`core/visibility*`) | configuration rows and grants | set, grant, revoke, migrate | listing of servers and groups |
| Audit (`middleware/audit_middleware.py`, `audit/`) | the events of each request, `audit_logs` rows | record, flush | every handler |
| Other middleware, configuration | counters, settings | report | none of the above reads them |

What is hard here: a start, a stop, a monitor and a cleanup of one server run interleaved and address
their data by server id; a daemon outlives the API and may die at any time; files and rows that must
agree are written in two steps, with a failure, a crash or another request between them; a status is
checked and used after a wait; version numbers and file names are chosen from a read that may be
stale, and retried; commands to a running server are sent after the transaction that made them
necessary, in an order nobody fixes.

What makes each part correct is stated as the properties of its module below. `PROJECT.json`
("hazards") lists every place where the code could get it wrong, with the property that would catch it.

## 2. Modules

| Module | Models | Abstract specification | Proofs |
|---|---|---|---|
| `ServerLifecycle` | the manager, daemons, monitors, PID files, the status column, restart and shutdown of the API | `DaemonRegistry` | `ServerLifecycleProofs` |
| `Backups` | catalogue rows, archives, promotion, uploads, restores, sweep, semaphores | | `BackupsProofs` |
| `FileHistory` | one file of a server, its version rows and version files, writers, uploads, restores, renames, clean-up | | `FileHistoryProofs` |
| `ServerCatalogue` | rows, directories and archived directories of servers; creations and imports, renames, deletions, failures in between | | `ServerCatalogueProofs` |
| `Groups` | groups, attachments, `ops.json`/`whitelist.json`, a server that starts and stops, RCON | | `GroupsProofs` |
| `LoginGuard`, `Accounts` | sliding windows and lockouts of the login; users, access and refresh tokens, the handlers that change an account | | `AccountsProofs` |
| `Connections`, `Lifespan`, `HealthChecks` | sockets and their log tasks; the services that `lifespan` starts and stops; the probes | | `AuditTrailProofs` |
| `ServerPorts`, `ServerStarts` | ports of rows, files and daemons; the search for a Java in creations and starts | | `StartsProofs` |
| `JarCache`, `VersionCatalogue` | one cached JAR with its temporary file; the version rows, their updates and the scheduler | | `StartsProofs` |
| `Resources`, `Visibility`, `BackupSchedules`, `SharedResources` | users, servers and groups by id; who may see them; backup schedules and their cache; the composition | | `ServerCatalogueProofs` |
| `AuditTrail` | requests that share the connections with sockets and probes; what handlers and middleware tell of them, the flush, the rows | `HealthChecks` | `AuditTrailProofs` |

Composition is by `EXTENDS`: `Accounts` runs on `LoginGuard`, `AuditTrail` on `HealthChecks` on `Lifespan` on `Connections`,
`ServerStarts` on `ServerPorts`, `VersionCatalogue` on `JarCache`, and `SharedResources` joins `Visibility` and
`BackupSchedules` over the tables of `Resources`. The outer module's next-state relation takes the steps of the
inner one with the conditions that the outer part adds (a socket is served only while the process is; a start goes on
only when its search has ended; a row is fetched from the build that is then published; a connection is taken only while requests have left one).

Each `MC<Module>` extends its module and gives the configurations their model values and symmetry sets.

### ServerLifecycle

An action is the code between two points where a coroutine really suspends. `Tasks` are the calls to
start, stop and restart in progress (`req`, with the point they wait at), `mon` is the point of a
server's monitor task, `clean` the `_cleanup_server_process` calls, `writes` the status updates in
worker threads, `os` the daemons. A `ServerProcess` is created with a fresh daemon, and PIDs are not
reused in the model, so within one life of the API the object is named by its PID.

Actions and code: `BeginStart`/`BeginStop`/`BeginRestart` are the routers' checks and the calls they make,
`DaemonForks`, `DaemonRegisters`, `ForkTimesOut` are `DaemonProcessManager` and the part of `start_server`
after it, the `Stop...` actions follow `stop_server` (SIGTERM, wait, SIGKILL, cleanup, write), the
`Monitor...` actions the three loops of `monitoring.py`, `Cleanup...` the removal of the entry and the
PID file, `Boot...` the restoration at startup with `discover_and_restore_processes` and
`sync_server_states_from_manager`, `ShutdownBegins` and what follows `shutdown_all`, `Crash` the loss
of the API.

Left out: the log task, the branch of `stop_server` for a process that is not a daemon (the code that
creates one, `_create_daemon_process_alternative`, can never succeed: it stands as `ForkTimesOut`), details
of the preflight, failures to unlink a PID file, cleanups still `ready` when the API shuts down, and the
branch of `discover_and_restore_processes` that skips servers already managed. A cleanup that needs no
timer runs before anything a later request waits a subprocess for (`NoPromptWork`).

`DaemonRegistry` is what the manager promises to its callers: a registry of the live daemons, at most one
for a server, in which a start adds a live daemon to a server without entry, an entry leaves only after its
daemon's death and does leave then, and all entries go when the API process ends. `ImplementsRegistry` checks the
refinement; `serving` is the API process being up.

### Backups

`op` is the request in each slot with the point it waits at; `rows` the committed catalogue, `arch` what is
under each path (final, `.pending/`, `.failed/`), `queue` and `held` the two semaphores of
`core/concurrency.py` (FIFO; a free one is entered without suspension). `CommitRow`, `Promotes` and
`PromotionFails` are the three outcomes of the end of a creation, one action because nothing in it
suspends; `Crash` may hit it between the commit and `os.replace`. Faults are named in `Faults`, so that a
run states which failures it allows. An unlink of an archive whose deletion is then not committed is the
fault "delete", a creation whose tar fails and an upload that is rejected (`Refused`) are "tar" and "upload". The
name of a created archive has a random id and is its own; that of an upload is a second, which several of the
`Uploads` may share.

Left out: locks of the database (a write transaction that lasts while tar runs), torn archives of running
servers, schedules.

### FileHistory

One file of one server. Each asynchronous file operation (open, write, read) is a step. Database calls and unlinks
suspend nothing, so no request runs between them; but they are several, and each may be the last. An insert commits the row, then
`_cleanup_excess_versions` unlinks files and commits again: `Inserts` is the case where all of it goes well, `CleanupFails` the one
where the second part is cut short after any number of unlinks. `DeleteVersion` and `CleanupOld` unlink first and commit
afterwards: `Removes`, or `RemovalFails` after some of the unlinks. `CollidesLeaving` is an unlink that fails and is only logged,
`BackupFails` any other error of a backup, the write of its file included; the caller goes on to its own write. A process that dies
inside one of these steps leaves what the failing outcome leaves, and `Crash` follows. `parted` remembers the versions of which
row or file went and the other not, `late` the rows inserted since a clean-up last went through. A version file is named by the second (`stamp`) and the requested number;
`linked` says whether a handle still names a file, so that an unlinked file that is still written stays
invisible. Overlapping writers of one path leave "torn" content. The unique index on (server, path,
number) makes `Collides` the retry of `create_version_backup`. `CleanupOld` is modelled although nothing in `app/` calls it.

The names of version files are distinct only as long as no two of a file are made in one second and with one number.
The variable `alike` records that this has happened; `HistoryKept` and `RestoresTheVersion` are claimed until
then. `HistoryKept` speaks of the versions that are not `parted`, `HistoryBounded` counts those that are not `late`, and
`NoStrayFiles` names the failures that leave a file: each says what the code keeps whatever fails, and what a failure costs.
A rename, a move, an extracted archive and a deletion take or give
the path without a version (`RenameHere`, `MoveHere`, `Extract`, `DeleteLive`): a writer at work then still holds
the file it opened. The file_io semaphore of uploads is left out: it only delays them. An insert refused for another reason than the number
(a foreign key) is part of `BackupFails`.

### Groups

The commit of a change and its first file write are one action (nothing suspends between them); every
further file and every RCON command is a step of its own. A command is `Delivered`, with or without an answer that
arrives, or `Undelivered`, and the code cannot tell the first without an answer from the second. `phase` is the server: it reads its files when it
starts, and RCON reaches it only while it is running. The Minecraft server itself is external:
it takes its files at start and afterwards only commands. `StartWindow` lets a server be in "starting" for
a while; `Launched` names the servers that may start at all.

Left out: names and priorities of groups, the Mojang lookup, the discovery of players in a server's files.

### ServerCatalogue

`disk` says whose files are in a directory: those of a row, none yet ("empty", a creation is under way), or there is
no directory. `Begin` is the check of the name, after which the Java probe suspends the request; `MakesDirectory`
is `create_server_directory` (atomic by `mkdir`), after which the JAR is fetched; `Inserts` is the commit and
everything to the end of the request, or to the wait of a group whose files need another attempt. An import is a
creation without groups whose files are replaced before anything else can run. `Rename` is `update_server`,
`Delete...` are the outcomes of `delete_server`; neither suspends. `mishaps` records which faults have
happened, so that each property can name the failures after which the code does not keep it.

`DirOf` maps names to directories and need not be injective: `sanitize_directory_name` replaces characters.
The time in the path of an archived directory is abstracted to a path that is not in use: the path also holds the
id, and a second deletion of one id moves something only after a failed first one.

Left out: ports and `server.properties` (in `ServerPorts`), other fields of a row, the daemon of a deleted
server, the export.

### LoginGuard and Accounts

`failures` are the rows of `login_attempts` that a window may still count, each with its age (and a number that tells
those of one second apart); `lockLeft` is what is left of a
lockout. Time is relative, so `Tick` ages everything and no clock has a bound; `MaxLockouts` caps the count of past
lockouts, from which the length of the next one is computed. `Accounts` adds the rows of `users` (`Live` ids), the
refresh tokens, and `captured`: what `get_current_user` read in a worker thread for a request whose handler runs
later. A handler is one action, since none of them waits; `Stale` names the requests whose user has changed since.
Ids are those of SQLite: the next is one more than the highest, so that of a deleted user may come back.

Left out: passwords (right or wrong), their policy, e-mail addresses, the extraction of the client's address.

### Connections, Lifespan, HealthChecks

`pc` is the point of a socket: refused, waiting for `accept`, served, or waiting in `disconnect` for the log task it
cancelled. `slots` counts the semaphore, `pool` the connections, `active` and `logTask` are the two dictionaries of
`ConnectionManager`. `minecraft_server_manager.get_server` does not exist, so a log task ends as soon as it runs; the
model follows the code. `Lifespan` takes the services in the order of `main.py` (`Following`), each of which may
fail; `loops` are the scheduler tasks that run, `ready`, `failed` and `errors` what the process says of itself.
A process that is killed ends without any of that.

In `HealthChecks`, `queue` is the order of the requests at `_cache_lock`, `evaluation` the run of all checks by the
request that holds it, `cache` its last result with its age. Time passes in two ways. In a `Tick` the event loop runs: it
does first what is ready (`Urgent`), so that timers fire in time, while threads may hang for ever. In `Blocks` a handler holds the
loop, whatever is ready or late: the authentication of a socket (`auth/dependencies.py:159-167`) and the flush of the audit
log check out a connection on the loop itself and wait, with the pool used up, for up to the pool's 30 s. `waited` and `elapsed` count the
first, `stalled` the second, and `Clock`, by which the time limits are measured, both: what was late while the loop was blocked is
ended as soon as it runs again, but not before. `Blocks` is allowed at any time and not only with an empty pool, since a query on
the loop may wait for the database as well. The check of the database needs a pooled connection, which sockets and requests for details
may have used up. The executor is assumed to have a free thread.

### ServerPorts and ServerStarts

`row`, `file`, `bound`, `rcon` and `active` are the port of the row, of `server.properties`, of the daemon, its RCON
port, and whether the server counts as active; `start` is the request of a server and the point it waits at. `excuse` is a
history variable with the events a property names: a port "edited", "unread" or "overlapped" since the start. A
daemon reads its file and binds some steps after it was forked. `StopBegins` writes the status "stopping", which no longer holds
the port, while the daemon may go on; a monitor that sees it come up at that moment writes "running" again (`SeenRunning`).

`ServerStarts` replaces the waiting of a creation or start for its Java by the search itself: `Places` lists what is
asked, in order (configured paths, the directories that are searched, the PATH), `search` the place of each request,
what has been found, and which executables have not changed meanwhile. A version a.b.c is the number
a*10000 + b*100 + c. `Parsed` follows the two patterns of the code, under which `openjdk version "1.7.0_352"` is major
1; `SystemJava` is looked at only if nothing else was found. Imports choose no Java. `Skips` passes over an executable that does not
answer within its time-out, or over what remains of the search directories when one of them, or an entry in it, cannot be read.

### JarCache and VersionCatalogue

`JarCache` follows one cache key down to the file system: names lead to inodes, a descriptor keeps writing to an
inode whose name is gone, a chunk is written or read per step, and content is the sequence of builds its chunks came
from. `torn` holds the inodes that two downloads wrote at once. `VersionCatalogue` has the rows of one server type,
the cached list of the manager, and the updates in flight (`update`), which overlap because the guard is a field of an
object that every caller makes anew. `listed` is the list that was committed last. An update whose every fetch failed
counts as a success, so the scheduler waits a day (`Succeeds`); `Raises` is an update whose own log row cannot be written, and both
may end any update (`Ends`). `published` is the build that the publisher's list stands for: the newest one, except for Forge, whose
builds are compared by what precedes the first dot (`version_manager.py:342`), the first one listed winning a tie.

Left out: the update log, statistics, the updates that `management.py` runs in processes of their own.

### Resources, Visibility, BackupSchedules, SharedResources

`acting` is the user of the current request as its dependency read it: the role may have changed, or the user be gone, when
the handler acts. Rows of visibility and grants outlive the groups and users they name (foreign keys are not
enforced), and ids come back. `cached` is `_schedule_cache`; the loop of the scheduler finds what is due and does nothing.
`Restart` runs the migration and refills the cache.

Left out: `check_resource_access`, which nothing outside its package calls, and the log rows of schedules.

### AuditTrail

`call` is the point of each HTTP request, `session` says whether its `get_db` session holds a pooled connection, `events` is its
`AuditTracker`, `changed` the requests whose change is committed, `audit_logs` the rows. A request is one of eleven
kinds, each with its route; `NormalizeEndpoint` is the substitution of ids on paths whose numbers are "#". The handlers
differ in what they tell themselves (`TellsSuccess`, `TellsRefusal`), in whether every exception becomes a response
(`CatchesAll`) and in whether something may fail after the commit (`WorksOn`); the rest is the middleware's. `Flush`
takes a second connection while the session may still hold the first (`get_db` closes after the response), and it blocks
the event loop (`Blocks`), so that no other request, socket or probe can give one back meanwhile: with none left the rows are lost.
Which requests are refused is decided in the other modules and left to chance here, and so is whom an event names.

## 3. Runs

| Run | Question | Instance |
|---|---|---|
| `LifecycleConcurrent` | do entry, PID file and watcher stay together under any overlap? | 1 server, 2 daemons, 2 clients issuing all operations, 1 API restart, failing signals and forks, crashes |
| `LifecycleRegistry` | one client at a time: never two live daemons of a server, and the manager implements `DaemonRegistry` | 1 server, 2 daemons, 1 client, 1 API restart, failing signals and status writes |
| `LifecycleEnds` | does every request return, and has a shutdown stopped what it tracked? | 1 server, 2 daemons, a restart and a stop that overlap, failing PID files |
| `Backups` | no archive without a row, none lost, restores of the right one, semaphores that count, requests that end | 3 requests, a created and an uploaded archive, 2 seconds, semaphores of one, every fault |
| `FileHistory` | unique numbers; what each failure may leave: rows in excess, rows without file, stray files, and never more; while names are distinct, every other version keeps its file and is restored from it | 2 requests, 2 contents, 1 kept version, 2 seconds, failed backups, removals cut short (1 at a time), crashes, uploads too large |
| `Groups` | do the files of all servers follow the database, and has a running server the whitelist of its file? | 2 groups, 2 servers, 2 requests, failing files and commands |
| `Catalogue` | has every row a directory of its own, and is no name left occupied? | 3 rows, 3 names of 2 directories, 2 creations, one kind of failure at a time |
| `Accounts` | what may leave no administrator, or no active one, a token too many or a client misled about the lockout? | 2 names, 2 addresses, 2 ids, 2 requests, 2 refresh tokens |
| `Connections` | are slots, connections, books and services accounted for, are probes answered in time and from fresh data, does the log tell what was committed, and before the client is told? | 4 sockets, or 1 socket and 2 probes, or 2 requests of 3 kinds, or 1 request and 2 sockets; 2 servers, pool and limit of 2, one service that fails, a loop blocked for a tick, crashes |
| `Ports` | which steps may put two servers on one port; is the Java of a start the right one? | 2 servers, 2 ports, 2 RCON ports; or 1 server on every machine of 3 executables, 2 of them in search directories |
| `Versions` | is the catalogue one list, does no build go back, is a delivered JAR whole? | 2 overlapping updates of 2 versions, 2 builds; or 1 update and 2 downloads, 2 chunks |
| `Resources` | how may a user come to reach a resource, and is the cache of schedules the table? | 2 or 3 users, 1 or 2 groups or a server |

Each passing run explores its instance completely. Every property has a mutant in `PROJECT.json`:
a change of one definition, as a plausible bug would make it, under which TLC finds the property violated.

`StartsTypeOK` of `ServerStarts` is a definition that documents the state; TLC has been run on
it with this instance. The types of the other modules are proved (section 4).

### What the code allows

The modules allow behaviours that no run calls an error, because nothing in the code promises the
contrary, or because a property excludes them by name:

- Lifecycle: status updates of a server are written by worker threads that nothing orders
  (`servers/adapters/repository.py:273`): the last to commit wins, and the column may contradict the daemon.
- Lifecycle: two overlapping starts both pass the check "already running"; the second daemon replaces the
  entry of the first, which lives on untracked.
- Lifecycle: a cleanup addressed by server id, delayed by its wait for the monitor, removes entry and PID file
  of a daemon started meanwhile; a crash between the fork and the PID file leaves a daemon that the next
  startup does not find; status updates of worker threads commit in any order; a server stopped while it
  starts is recorded as crashed. `OneDaemonPerServer` and `ImplementsRegistry` are therefore checked with one
  client and no crash. `LifecycleEnds` has working signals: with SIGKILL ignored a shutdown cannot stop the daemon, and
  that a failed stop returns too is in no run.
- Backups: two uploads of one server in one second take one file name, so one that is stored, rejected or deleted
  replaces or removes the archive of the other, and a restore may give that one; creations are never at risk; a deletion that fails after its
  unlink leaves a row without archive (fault "delete"); the status is checked before the wait for the semaphore
  and the restore done after it (`backups/application/file_service.py:232`). The run has one upload; that uploads
  of one second endanger only each other is proved (`ArchivesKept`, `RestoresTheRightOne`), for any number of them.
- FileHistory: a removal unlinks before it commits (`files/application/service.py:381`, `459`), so a crash or a failed commit
  leaves a row without its file; a clean-up that fails after the insert's commit (`service.py:221`) leaves one row more than the limit, until
  the next one goes through; a failed write of a version file (`service.py:203-206`) and an unlink that fails (`233-236`) leave a file without a row.
- FileHistory: of two overlapping writes, the content of the first is overwritten without having been kept; two
  writers of one file in one second may share a version file, and the one that loses the race for the number
  deletes it.
- Groups: a player removed from one of two attached operator groups is deopped on the running server; commands
  of two requests reach the server in the other order; a server that has read its files and is not yet
  running misses a change; `add_player` with a new name for a known player stores nothing; a group
  attached to a deleted server can be neither detached nor deleted.
- ServerCatalogue: a creation that fails after its commit (an unknown group, a file, an import that cannot
  be moved) removes the directory and leaves the row; if another server takes the directory meanwhile, a late
  failure removes that one. `update_server` accepts a name that is taken. `delete_server` does not stop
  the server, as `app/servers/routers/management.py:362` says it does.
- Accounts: `users/application/service.py:206-209` promises that no deactivation locks out every administrator, but the guard counts
  administrators whether active or not, and takes the acting one as its request found it earlier: two who deactivate each other at once,
  or one who deactivates the only other and then deletes itself, leave no active administrator. `AnAdminRemains` names these ways and excludes all others.
- Accounts: the last administrator may demote itself, or delete itself on a role read before its demotion was undone;
  a crash between the two transactions of a deactivation leaves the refresh token valid.
- Connections: no log line, status or command is ever sent (`README.md:21` promises them); sockets that hold all
  connections let the database check time out, and the process reports 503. In the same state one more socket, or the flush of a
  request, blocks the event loop for as long as the pool waits, and every probe with it.
- ServerPorts: two starts that overlap, an update and an edit of the file may put two servers on one port, and so may a stop: its
  server gives up the port while its daemon lives, and the monitor may still write that it is running (`minecraft/monitoring.py:274`); a start
  that waited 30 s in a restart uses the row it read before. `docs/app/JAVA_COMPATIBILITY.md` lists
  `/usr/local/jvm` and `/opt/openjdk`, which are not searched.
- VersionCatalogue: an update that was overtaken while it fetched stores its older list; two downloads of one version
  may write one temporary file, of which only the ZIP directory is verified.
- AuditTrail: a crash before the flush, or a flush that fails, loses the rows of changes that stay. With the pool
  used up, that is a request that still holds its own connection and finds none for its rows. A deactivation or a
  restore whose last part fails is done and in no row. Creations and deletions of backups are in none at all
  (`docs/app/DATABASE.md:249`: "Captures all significant system actions"), since the keys for them
  (`audit_middleware.py:169`) are not what `_normalize_endpoint_pattern` yields: `ShouldAudit` is false of them. Rows of
  the middleware and of the file routes name no user, as `_extract_user_id` returns None, and rows of a deleted user
  keep its id, which SQLite may give to the next (`docs/app/DATABASE.md:239` says "SET NULL").
- Visibility: a group that gets the id of a deleted one inherits its configuration and grants.

### Bounds

Two concurrent requests are enough for every overlap above; a third adds a second waiter where a
queue is involved (Backups). Two daemons let an old and a new one of a server live at once. Time
is a second (`MaxNow`, `LastSecond`), since names are built from seconds: equal or different is all the
code can tell. `MaxKept` is smaller than the number of versions that can be made, so the excess
clean-up happens. `MaxBoots = 1` lets the API restart once with every state a run can leave behind.
Three rows let a deleted server, its successor and a renamed one exist together, and two of the three
names share a directory, as names do that differ in characters replaced by "_". `MaxMishaps` is the number of
different faults in one behaviour of `ServerCatalogue`; each may happen any number of times.
`Cuts` is the number of versions with a removal cut short and not made good yet; further ones may follow. `MaxStalled` is for how
long the loop is blocked while one probe waits. `LastVersion`, `Retries`, `MaxBoots`, `MaxVersion`, `MaxBuild` and `MaxInterval` are guards of the actions that count.
`Calls` are three kinds of request that differ in all that the handlers of the eleven differ in, the answer of a login
excepted. `MaxFailures` is the number of services of one process that fail to start or stop. `Scenarios` and `Scopes` say which
clients, servers or resources take part in a behaviour, so that one run has several small instances instead of
one product of them; the set with everything in it excludes nothing, and the theorems hold for any.
A time to live of 1 and time-outs of 1 and 2 ticks let an entry expire during an evaluation and between two, and a blocked tick lets
both time-outs pass at once. Of the excuses of a server only those are told apart that a property tells apart ("edited" stands for the weaker ones).

`CHECK_DEADLOCK FALSE` is set where the system may stop: where the clock, the versions or the ids run out at a
bound, and where the API has shut down for good.

### Fairness

`FairSpec` of `ServerLifecycle` and of `Backups` gives weak fairness to what really proceeds by itself: ready coroutines of the
event loop, timers, worker threads (which finish or fail), a killed daemon's death, a transfer that
ends or fails, an RCON exchange (a socket time-out of 5 s). There is none for clients, crashes, failures, or the death
of a healthy daemon.

## 4. Proofs

| Theorem | Says, for every value of the constants |
|---|---|
| `TypeCorrect` (lifecycle) | `TypeOK` of `ServerLifecycle`, and a request that is under way names its server |
| `PidFilesMirror` | the PID file of a server names the daemon of its entry while the API serves requests and PID files can be written |
| `EntriesWatched` | every entry of the manager has a task that will remove it |
| `ShutdownStops` | with working signals and no kill, a shutdown that stops servers ends only when the daemon of every entry is dead |
| `TableIsRegistry` | while requests about one server take turns, every step of the manager is a step of `DaemonRegistry` or none |
| `OneDaemon` | then, and with the synchronisation at startup, without a crash, a late fork or an unwritable PID file, a server has one live daemon at most |
| `BackupTypes` | `TypeOK` of `Backups`, and a request past its check names its archive |
| `SemaphoresCount` | the counters of both semaphores equal the requests inside |
| `NoOrphans` | no final archive without a row or a request that is about to insert it |
| `ArchivesKept` | the archive of a committed row is lost only to its own deletion, to the sweep of what was never recovered, or to an upload of the same second |
| `RestoresTheRightOne` | a restore that waited writes the archive of its own row, or, of an upload, another upload's |
| `CatalogueTypes` | `CatalogueTypeOK` of `ServerCatalogue` |
| `DirectoriesOwned` | every row names a directory with its own server's files, unless a step failed between a directory and its row |
| `NothingStrays` | no directory keeps a name occupied, unless a move, a clean-up or the API failed |
| `GroupsTypeCorrect` | `TypeOK` of `Groups` |
| `FilesAlwaysFollow` | the files of a server are what its groups say, unless a request has still to write them or the last write failed |
| `WhitelistAlwaysTold` | with no request in progress, a running server has the whitelist of its file, unless it missed a change and has not read the file since |
| `ConnectionsTypeCorrect` | the variables of `Connections` keep their ranges, the semaphore its limit |
| `EverySlotOwned` | slots and pooled connections are owned one to one by the sockets that are served |
| `EveryBookMatches` | the books and the log task of a server follow its open sockets |
| `ServicesAlwaysAccounted` | while the API serves, its status names exactly the services that run; at the end only those run whose stop failed |
| `AnswersAlwaysFresh` | an answer of the cache is no older than its time to live and one evaluation, with the time for which that found the loop blocked; a live one was found while the request waited |
| `AnswersAlwaysInTime` | while the event loop runs, a probe waits no longer than one evaluation for each probe there can be |
| `ProbesTypeCorrect` | `HealthTypeOK` of `HealthChecks`: the variables of cache, lock, evaluation and probes keep their ranges |
| `LogAlwaysTellsTruth` | a row tells of a success only if the change was committed, and of a failure of a committed change only if its handler failed afterwards |
| `AnswersAlwaysLogged` | a client with an answer finds its change in the log, unless the flush failed |
| `TrailImplementsApp` | `TrailSpec` implements `AppSpec`: what is proved of sockets, services and probes holds with requests that take connections |
| `PoolNeverExceeded` | a request holds a pooled connection only while it is in flight; sockets, probes and requests never hold more than the pool has |
| `TrailTypeCorrect` | `TrailTypeOK` of `AuditTrail` |
| `HistoryTypes` | the variables of `FileHistory` keep their types; rows and version files hold texts that were read |
| `HistoryAlwaysBounded` | the rows of a file have different numbers, and those older than the last clean-up that went through are never more than `MaxKept` |
| `HistoryAlwaysKept` | until two version files are named in one second, every row has its file, with what was backed up, unless its own removal was cut short |
| `RestoresWhatWasKept` | until then, a restore writes what the version it was asked for was made of |
| `StraysComeFromFailures` | only a failed backup, an unlink that failed or a crash leaves a version file without a row |
| `TypeCorrect` (accounts) | rows, tokens, what requests have captured, failed attempts and lockouts keep their types |
| `OneSessionAlways` | names and valid refresh tokens each belong to one account, and none outlives it |
| `DeactivationAlwaysRevokes` | only a crash between its two transactions lets a deactivation leave a refresh token valid |
| `AdminAlwaysRemains` | the last administrator goes only by a demotion or a self-deletion on a stale role; the last active one also when two acted at once or another was inactive |
| `RetryAlwaysHonest` | who was refused and waits as long as it was told is let in, for any thresholds and windows |
| `OnlyFailuresBeginLocks` | where a lockout lasts at least as long as the window of a name, only wrong credentials begin one and none is prolonged |
| `VersionsTypeCorrect` | `TypeOK` of `VersionCatalogue`, with the types of `JarCache` |
| `CatalogueIsOneList` | the active rows are the list that was committed last, builds included, less what a clean-up deleted |
| `JarsDeliveredWhole` | a server gets the whole JAR of one build, unless two downloads wrote the file it was copied from at once |
| `BuildsOnlyRise` | the build of a row never goes back, except by an update that another overtook, or by the list it left in the cache |
| `StartsImplementPorts` | `StartsSpec` implements `PortsSpec`: what is proved of ports holds whatever Java a start finds |
| `PortsTypeCorrect` | `PortsTypeOK` of `ServerPorts` |
| `PortsStayApart` | two active servers share a port only if it was changed since one of them started, or one was checked while the other was about to be active or was being stopped |
| `DaemonsServeAsStarted` | a daemon that serves listens on the port of its row and has its RCON port, but for the events that `excuse` names |
| `BestJavaIsChosen` | whatever changes or hangs during a search: a Java that stays and suits is found, none precedes a preferred or configured one, and the PATH comes last |
| `ResourcesTypeCorrect` | `TypeOK` of `SharedResources` |
| `CacheAlwaysCurrent` | what the cache of schedules answers for a server is its row |
| `AccessOnlyByRight` | a user gains access only by a new role or resource, a migration, or a request of somebody entitled to give it |

The invariants are not inductive alone. `TypeOK` needs `Wired`: what a request has in its record at each point
(a request that waits for the fork has a server, one that cleans up also a PID). `EntryWatched` needs
`CleanersBound`: a cleanup carries the server of its caller, and only a task that is past its start may own
one. `SemaphoresAccounted` needs that a request is in one queue at most, and `NoOrphanArchive` needs
`Owners`: two requests with archives of their own never hold the same one. `ArchiveKept` and `RestoresItsBackup` need
`NamesFit` (a final name is the id of a created archive or the second of uploads, and never both) and `TempKept` (what a request
is still writing is in `.pending/`). `DirectoryPerServer` needs `Owned`: the
directory of a creation that has made one is empty and no other creation's. `ServicesAccounted` speaks of two phases of
the process, `Accounted` of all of them: which services have been tried or halted so far. `AnswersFresh` needs `FreshInv`: the
request that evaluates is the first of the queue and has waited at least as long as the evaluation runs.
`ResourcesOwned` and `BooksMatch` are
proved of `AppSpec`, where the process may die under every socket. `LogTellsTruth` needs `Honest`: what is known of a
request at each of its stages (before the commit it has told nothing, when it returned with "ok" it has committed).
`PoolShared`, the invariant of `PoolNeverExceeded`, needs that a step of the process takes one connection at most (`TakenByOne`),
and only one that requests have left.
`AnsweredInTime` needs `TimeInv`: the request at place i of n can have waited for the n - i that left before it and for the
running evaluation, with the loop running, however often `Blocks` comes between, and a queue has no probe twice (the pigeonhole theorem of the library). `HistoryBounded` also counts:
each row that a clean-up keeps has fewer than `MaxKept` later ones, no two rows have equally many, so there are at most
`MaxKept`; the rows that are not `late` are among those of the last clean-up that went through. `HistoryKept` needs `KeptInv`: rows, requests about to insert one and versions being read are told apart by
their seconds, so that what one of them writes or removes is nobody else's file. `OneSession` and `AnAdminRemains` need that
the id of a new account is nobody's, that is, that a finite set of numbers has a largest one. `AccessGainedByRight` needs that
grants are kept with the type "specific_users" alone.

`FilesFollow` and `WhitelistTold` need `GroupsInv`: what a request still has to write or tell at each of its points, that the
members of a group that is gone are nobody, and that a server whose files are behind has missed a change. `ShutdownStopsServers`
needs `StopTasksRun`: while the API stops, the stop task of a server with a live daemon holds the PID of its entry. The two
theorems about the registry and the one daemon have a hypothesis on the callers, `Sequential`: requests about one server take
turns (those about different servers, monitors, cleanups and startups overlap as they like). Without it both are
false, as section 3 says. They need `TurnInv`: a start works on a server without entry and without a cleanup that could
take the new entry, a stop holds the PID of the entry or there is none, a monitor watches the current daemon. `OneDaemonPerServer` adds
`LiveTracked`: a live daemon is named by a PID file or by the request that is looking at it.

`RetryHonest` needs `WindowsBounded`: a window never holds more than its threshold, since a login that is refused records
nothing; so one failure has to leave, and it is the oldest that does. `OnlyFailuresLock` needs `LocksOutlast`: a name whose window holds
the threshold of failures is locked until the last of them has left it. This is why the theorem has a hypothesis,
`LockoutBase >= NameWindow` and `LockoutMax >= NameWindow`, that the validators of `core/config.py:555-582` do not enforce but
the defaults satisfy (900 s, 900 s, 86400 s): with a shorter lockout, a name whose lockout has ended is locked again by the attempt
of a user who waits for approval.

`DeliveredWhole` needs `JarInv`: an inode that is not `torn` has one writer, whose position is its length, and under the
final name is only what was written whole. `ActiveRowsAreOneList` and `BuildsRise` need `RowsInv`: a list that an update or the
cache holds is no older than the rows, unless it was overtaken (`ListsNewer`). `PortsApart` and `ServesAsStarted` need
`PortsInv`: what a start has checked stays true while it waits, unless an event has become an excuse for it.
They are proved of `PortsSpec` and carried over to `StartsSpec` by the refinement. `BestJava` needs `SearchInv`: what a search has
found is, for each major version, the first place that offered it when it was looked at (`FirstsFound`).

Each step is split by
action, each action by the conjuncts it can disturb, and the lemmas about single actions are stated
first. The only assumptions are the named ones about constants (`ConstAssumption`, `BackupAssumption`,
`CatalogueAssumption` and their kin; `NoneIsNoRow` of `Accounts` and `NoneIsNoData` of `VersionCatalogue` say that the empty
value is not a row or a list; `StartsAssumption` says that a major version is configured once, as the dictionary of `core/config.py:757` has
it), which TLC evaluates on every run.

Only model-checked: what rests on fairness, that is `RequestsReturn`, `RequestsEnd` and the half of `ImplementsRegistry` that says that
the entry of a dead daemon goes. Liveness and ENABLED are out of the reach of TLAPS here, as is induction over data; no proof needed
the latter, since the models count with sets and finite cardinalities.

## 5. Not modelled

- The wire format of RCON: an exchange is one step that is answered, delivered without an answer, or lost.
- Of the audit trail: queries and statistics, the filter of sensitive fields, the direct write without a tracker, which no
  request takes, and events before an action (a permission granted, an attempt).
- Metrics and the monitoring middleware: counters for operators.
- Validation of input, archives and paths (`core/security.py`), and the mapping of exceptions to HTTP codes: string
  manipulation without state. Requests of the models are the ones that pass validation.
- Configuration, the database session, logging: read once at startup. What the models depend on is a CONSTANT.
- Schemas and routers that only read: conversions, without a state change.
- Within modelled parts, what each section of 2 names as left out. In the files: directories, the search, and what the
  other path of a rename or a move holds. In the lifecycle: the log task and most of the preflight.

Possible further work: catalogue and lifecycle together (a deleted server is not stopped), backups and lifecycle (a restore meets a
start).
