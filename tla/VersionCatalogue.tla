-------------------------- MODULE VersionCatalogue --------------------------
(* The catalogue of Minecraft versions (app/versions/): the rows of one      *)
(* server type, the updates that replace them by what the publisher lists,   *)
(* the scheduler that runs them and the JARs that are downloaded for them.   *)
(*                                                                           *)
(* A type has a transaction and an entry of the version manager's cache of   *)
(* its own, so the model follows one type.  Database work does not suspend;  *)
(* a fetch does, at every request to the publisher.  update_versions guards  *)
(* against a second update with a field of the service object, and every     *)
(* caller makes its own service, so updates do overlap.  The updates that    *)
(* the scripts of management.py run in a process of their own are left out.  *)
EXTENDS JarCache, FiniteSets

CONSTANTS
    Versions,    \* the versions of the type, all of 1.8 or later
    Key,         \* the version whose JARs are followed
    Callers,     \* updates that may be in flight
    Scheduler,   \* the one that the scheduler's loop runs
    MaxAttempts, \* _max_retry_attempts
    KeepLatest,  \* keep_latest of VersionManagementService
    Scenarios    \* bound: who takes part, a set of sets of callers, requests
                 \* and versions; {everything} excludes nothing

ASSUME VersionCatalogueAssumption ==
    /\ IsFiniteSet(Versions)
    /\ Key \in Versions
    /\ Scheduler \in Callers
    /\ {MaxAttempts, KeepLatest} \subseteq Nat \ {0}
    /\ Scenarios \subseteq SUBSET (Versions \cup Callers \cup JarRequests)

VARIABLES
    present,   \* the scenario, which no step changes
    published, \* version -> the build the publisher's list stands for, 0 when
               \* not listed: the newest one; of Forge, the first one listed of
               \* those whose number before the first dot is highest
    rows,      \* version -> its row of minecraft_versions, or None
    cache,     \* the version manager's list while it is less than 6 h old
    update,    \* caller -> its stage, the versions to ask for, the list so far
    overtaken, \* callers whose fetch began before a commit of another one
    stale,     \* the list in the cache was fetched by an overtaken update
    listed,    \* the list that was committed last
    due,       \* the scheduler finds that an update is due
    attempts   \* retry_count

versionVars == <<present, published, rows, cache, update, overtaken, stale, listed, due, attempts>>

vars == <<jarVars, versionVars>>

(* A fetched list: the build of a version, 0 for one that is not on it.      *)
Lists == [Versions -> 0 .. MaxBuild]
Rows == [build: Urls, active: BOOLEAN]

ASSUME NoneIsNoData == None \notin Lists \cup Rows

(* Types of the state.                                                       *)
TypeOK ==
    /\ JarTypeOK
    /\ present \in Scenarios
    /\ published \in Lists
    /\ rows \in [Versions -> Rows \cup {None}]
    /\ cache \in Lists \cup {None}
    /\ update \in [Callers -> [pc: {"idle", "listing", "fetching"},
                               asked: SUBSET Versions, list: Lists]]
    /\ overtaken \in SUBSET Callers
    /\ stale \in BOOLEAN
    /\ listed \in Lists
    /\ due \in BOOLEAN
    /\ attempts \in 0 .. MaxAttempts

Nothing == [v \in Versions |-> 0]
Resting == [pc |-> "idle", asked |-> {}, list |-> Nothing]

Init ==
    /\ JarInit
    /\ present \in Scenarios
    /\ published = Nothing
    /\ rows = [v \in Versions |-> None]
    /\ cache = None
    /\ update = [c \in Callers |-> Resting]
    /\ overtaken = {}
    /\ stale = FALSE
    /\ listed = Nothing
    /\ due = TRUE
    /\ attempts = 0

-----------------------------------------------------------------------------
(* The publisher releases a build that its list now stands for.  A release   *)
(* of Forge with the same number before the first dot, listed after another, *)
(* changes nothing.                                                          *)
Publish(v) ==
    /\ v \in present
    /\ published[v] < MaxBuild
    /\ published' = [published EXCEPT ![v] = @ + 1]
    /\ UNCHANGED <<jarVars, present, rows, cache, update, overtaken, stale,
                   listed, due, attempts>>

(* A row after the list was stored: upsert_version writes a version that is  *)
(* on the list and is not active or has another build, and activates it;     *)
(* deactivate_versions clears the active rows that are not on the list.      *)
Upserted(row, build) ==
    IF row # None /\ row.active /\ row.build = build
    THEN row
    ELSE [build |-> build, active |-> TRUE]

Deactivated(row) == IF row = None THEN None ELSE [row EXCEPT !.active = FALSE]

(* Mutant: versions that vanished from the list stay active.                 *)
Stored_KeepsVanished(list) ==
    [v \in Versions |->
        IF list[v] > 0 THEN Upserted(rows[v], list[v]) ELSE rows[v]]

Stored(list) ==
    [v \in Versions |->
        IF list[v] > 0 THEN Upserted(rows[v], list[v]) ELSE Deactivated(rows[v])]

StoresNothing(c) == overtaken' = overtaken \ {c} /\ UNCHANGED <<rows, listed>>

(* The update of the type ends, in one transaction; an empty list is ignored.*)
StoreVersions(c, list) ==
    IF list = Nothing
    THEN StoresNothing(c)
    ELSE /\ rows' = Stored(list)
         /\ listed' = list
         /\ overtaken' = {o \in Callers \ {c} : update[o].pc # "idle"}

(* update_versions reports success although types have failed: the           *)
(* scheduler waits a day.                                                    *)
Succeeds(c) ==
    /\ update' = [update EXCEPT ![c] = Resting]
    /\ due' = FALSE
    /\ attempts' = IF c = Scheduler THEN 0 ELSE attempts

(* A row of the update log cannot be written: the scheduler tries again      *)
(* after a while, MaxAttempts times in all, and then an hour later.          *)
Raises(c) ==
    /\ update' = [update EXCEPT ![c] = Resting]
    /\ attempts' = IF c = Scheduler THEN (attempts + 1) % MaxAttempts ELSE attempts
    /\ UNCHANGED due

Ends(c) == Succeeds(c) \/ Raises(c)

(* update_versions begins.  With a cached list nothing suspends: the update  *)
(* is over at once, whether force_refresh was asked for or not.  The         *)
(* transaction may fail, which is collected as an error.                     *)
BeginUpdate(c) ==
    /\ c \in present
    /\ update[c].pc = "idle"
    /\ IF cache # None
       THEN (StoreVersions(c, cache) \/ StoresNothing(c)) /\ Ends(c)
       ELSE /\ update' = [update EXCEPT ![c].pc = "listing"]
            /\ UNCHANGED <<rows, overtaken, listed, due, attempts>>
    /\ UNCHANGED <<jarVars, present, published, cache, stale>>

(* The loop finds that an update is due, or tries a failed one again.        *)
BeginScheduled ==
    /\ due \/ attempts > 0
    /\ BeginUpdate(Scheduler)

(* The endpoint's trigger_immediate_update, by an administrator.             *)
BeginTriggered(c) ==
    /\ c # Scheduler
    /\ BeginUpdate(c)

(* The manifest names the versions to ask for.                               *)
Manifest(c) ==
    /\ update[c].pc = "listing"
    /\ update' = [update EXCEPT ![c].pc = "fetching",
                                ![c].asked = {v \in Versions : published[v] > 0}]
    /\ UNCHANGED <<jarVars, present, published, rows, cache, overtaken, stale,
                   listed, due, attempts>>

(* Mutant: some build of the version instead of the newest.                  *)
FetchVersion_AnyBuild(c, v) ==
    /\ v \in update[c].asked
    /\ \E build \in 0 .. published[v] :
           update' = [update EXCEPT ![c].asked = @ \ {v}, ![c].list[v] = build]
    /\ UNCHANGED <<jarVars, present, published, rows, cache, overtaken, stale,
                   listed, due, attempts>>

(* One version is answered for, or its request fails and it is left out.     *)
FetchVersion(c, v) ==
    /\ v \in update[c].asked
    /\ \E build \in {published[v], 0} :
           update' = [update EXCEPT ![c].asked = @ \ {v}, ![c].list[v] = build]
    /\ UNCHANGED <<jarVars, present, published, rows, cache, overtaken, stale,
                   listed, due, attempts>>

(* The list of Forge is one file, which is reduced to one build of each      *)
(* version.                                                                  *)
FetchForge(c) ==
    /\ update[c].pc = "listing"
    /\ update' = [update EXCEPT ![c].pc = "fetching", ![c].list = published]
    /\ UNCHANGED <<jarVars, present, published, rows, cache, overtaken, stale,
                   listed, due, attempts>>

(* Every version was answered for: the list, complete or not, is cached, and *)
(* stored unless the transaction fails.                                      *)
FinishFetch(c) ==
    /\ update[c].pc = "fetching"
    /\ update[c].asked = {}
    /\ cache' = update[c].list
    /\ stale' = (c \in overtaken)
    /\ StoreVersions(c, update[c].list) \/ StoresNothing(c)
    /\ Ends(c)
    /\ UNCHANGED <<jarVars, present, published>>

(* The manifest fails, or the fetch takes 30 seconds: another collected error*)
FetchFails(c) ==
    /\ update[c].pc # "idle"
    /\ Ends(c)
    /\ StoresNothing(c)
    /\ UNCHANGED <<jarVars, present, published, cache, stale>>

(* The scheduler's interval has passed since the last success.               *)
DayPasses ==
    /\ Scheduler \in present
    /\ ~due
    /\ due' = TRUE
    /\ UNCHANGED <<jarVars, present, published, rows, cache, update,
                   overtaken, stale, listed, attempts>>

CacheExpires ==
    /\ cache # None
    /\ cache' = None
    /\ stale' = FALSE
    /\ UNCHANGED <<jarVars, present, published, rows, update, overtaken,
                   listed, due, attempts>>

(* cleanup_old_versions deletes inactive rows that were not written for 30   *)
(* days; the management service keeps the rows that were written last, the   *)
(* active ones not spared.                                                   *)
Delete(some) ==
    /\ rows' = [v \in Versions |-> IF v \in some THEN None ELSE rows[v]]
    /\ listed' = [v \in Versions |-> IF v \in some THEN 0 ELSE listed[v]]
    /\ UNCHANGED <<jarVars, present, published, cache, update, overtaken,
                   stale, due, attempts>>

CleanupVersions ==
    \E old \in SUBSET {v \in Versions : rows[v] # None /\ ~rows[v].active} :
        old # {} /\ Delete(old)

ManagementCleanup ==
    LET there == {v \in Versions : rows[v] # None} IN
    \E old \in SUBSET there :
        /\ Cardinality(there \ old) = KeepLatest
        /\ old # {}
        /\ Delete(old)

(* get_server_jar takes the URL of the version's active row, and refuses a   *)
(* version that has none.                                                    *)
GetServerJar(r, v) ==
    /\ r \in present
    /\ rows[v] # None
    /\ rows[v].active
    /\ \E young \in BOOLEAN : Ask(r, rows[v].build, young)
    /\ UNCHANGED versionVars

(* The process ends and starts again with an empty cache and no update known.*)
Restart ==
    /\ JarCrash
    /\ update' = [c \in Callers |-> Resting]
    /\ overtaken' = {}
    /\ cache' = None
    /\ stale' = FALSE
    /\ due' = TRUE
    /\ attempts' = 0
    /\ UNCHANGED <<present, published, rows, listed>>

Next ==
    \/ JarNext /\ UNCHANGED versionVars
    \/ \E r \in JarRequests, v \in Versions : v = Key /\ GetServerJar(r, v)
    \/ \E v \in Versions : Publish(v)
    \/ \E c \in Callers :
        \/ BeginTriggered(c) \/ Manifest(c) \/ FetchForge(c) \/ FinishFetch(c)
        \/ FetchFails(c)
        \/ \E v \in Versions : FetchVersion(c, v)
    \/ BeginScheduled \/ DayPasses \/ CacheExpires \/ CleanupVersions \/ ManagementCleanup
    \/ Restart

Spec == Init /\ [][Next]_vars

-----------------------------------------------------------------------------
(* The active rows are the list that was committed last, builds included,    *)
(* less what a clean-up deleted: whatever mixture of new, changed,           *)
(* reappeared and vanished versions an update meets, and however updates     *)
(* overlap, the catalogue is never a blend of two lists.                     *)
ActiveRowsAreOneList ==
    \A v \in Versions :
        listed[v] = IF rows[v] # None /\ rows[v].active THEN rows[v].build ELSE 0

(* No row goes back to an older build, except by an update that another one  *)
(* overtook while it was fetching, or by the list that such an update left   *)
(* in the cache: no other list in the cache, no retry after an error and no  *)
(* restart bring an old build back.                                          *)
BuildsRise ==
    [][\A v \in Versions :
        rows[v] # None /\ rows'[v] # None /\ rows'[v].build < rows[v].build
            => stale \/ \E c \in overtaken : update'[c] = Resting]_vars

(* A server is delivered the whole JAR of one build, unless two downloads    *)
(* were writing the file it was copied from at the same time: an aborted     *)
(* download, a crash at any point, an eviction or a clean-up by another      *)
(* request never leave a part of a JAR where a server would find it.         *)
DeliveredWhole ==
    \A r \in JarRequests :
        jarReq[r].pc = "delivered" => Whole(jarReq[r].copy) \/ jarReq[r].fd \in torn
=============================================================================
