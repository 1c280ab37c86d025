--------------------------- MODULE BackupSchedules ---------------------------
(* The backup schedules (app/backups/application/scheduler.py): one row per   *)
(* server and a cache of the rows in the memory of the process.  The loop     *)
(* that should run the backups is an empty one, so a schedule that is due     *)
(* stays due and last_backup_at is never set.                                *)
(*                                                                           *)
(* The database is used without suspension, so each handler is one step.     *)
(* Of a row the model keeps the interval, whether it is enabled and the time *)
(* of the next backup, as the hours until then (0: due).                     *)
EXTENDS Resources

CONSTANT MaxInterval \* bound: the longest interval_hours

ASSUME SchedulesAssumption ==
    /\ MaxInterval \in Nat \ {0}
    /\ None \notin BOOLEAN

VARIABLES
    schedule, \* server -> its row of backup_schedules, or None
    cached    \* _schedule_cache

scheduleVars == <<schedule, cached>>

Intervals == 1 .. MaxInterval
Entities == [interval : Intervals, enabled : BOOLEAN, left : 0 .. MaxInterval]

(* Types, and that the next backup is never further away than the interval.  *)
SchedulesTypeOK ==
    /\ schedule \in [Servers -> Entities \cup {None}]
    /\ cached \in [Servers -> Entities \cup {None}]
    /\ \A s \in Servers : schedule[s] # None => schedule[s].left <= schedule[s].interval

Uncached == [s \in Servers |-> None]

SchedulesInit ==
    /\ schedule = Uncached
    /\ cached = Uncached

(* check_server_access: any user, and a deleted server is a server.          *)
MayUse(u, s) == Serves(u) /\ Exists(s) /\ UNCHANGED tables

(* The row is committed, and then the cache.                                 *)
Saves(s, entity) ==
    /\ schedule' = [schedule EXCEPT ![s] = entity]
    /\ cached' = [cached EXCEPT ![s] = entity]

CreateSchedule(u, s, interval, enabled) ==
    /\ MayUse(u, s)
    /\ schedule[s] = None
    /\ s \notin deleted
    /\ Saves(s, [interval |-> interval, enabled |-> enabled, left |-> interval])

(* An interval that is given, the same one included, starts anew.            *)
Rescheduled(entity, interval) ==
    IF interval = None
    THEN entity
    ELSE [entity EXCEPT !.interval = interval, !.left = interval]

(* What is not given stays.                                                  *)
UpdateSchedule(u, s, interval, enabled) ==
    /\ MayUse(u, s)
    /\ schedule[s] # None
    /\ LET entity == Rescheduled(schedule[s], interval) IN
       Saves(s, IF enabled = None THEN entity ELSE [entity EXCEPT !.enabled = enabled])

(* Mutant: the cache keeps what was deleted.                                 *)
DeleteSchedule_Cached(u, s) ==
    /\ MayUse(u, s)
    /\ schedule[s] # None
    /\ schedule' = [schedule EXCEPT ![s] = None]
    /\ UNCHANGED cached

DeleteSchedule(u, s) ==
    /\ MayUse(u, s)
    /\ schedule[s] # None
    /\ Saves(s, None)

(* The cache answers, or else is filled from the row if there is one.        *)
GetSchedule(u, s) ==
    /\ MayUse(u, s)
    /\ cached' = [cached EXCEPT ![s] = IF @ # None THEN @ ELSE schedule[s]]
    /\ UNCHANGED schedule

Listed(rows) == [s \in Servers |-> IF s \in rows THEN schedule[s] ELSE cached[s]]

(* Administrators list all schedules or the enabled ones; the status of the  *)
(* scheduler lists both.                                                     *)
ListSchedules(u, enabledOnly) ==
    /\ Serves(u) /\ acting.role = "admin"
    /\ cached' = Listed({s \in Servers :
                            schedule[s] # None /\ (enabledOnly => schedule[s].enabled)})
    /\ UNCHANGED <<schedule, tables>>

(* stop_scheduler empties the cache, a crash loses it, and start_scheduler   *)
(* loads it again: load_schedules_from_db, whose failure is survived.        *)
SchedulerBoot ==
    /\ cached' \in {schedule, Uncached}
    /\ UNCHANGED schedule

HourLater(entity) ==
    IF entity = None \/ entity.left = 0 THEN entity ELSE [entity EXCEPT !.left = @ - 1]

HourPasses ==
    /\ schedule' = [s \in Servers |-> HourLater(schedule[s])]
    /\ cached' = [s \in Servers |-> HourLater(cached[s])]
    /\ UNCHANGED resourceVars

ScheduleRequest(u, s) ==
    \/ \E interval \in Intervals, enabled \in BOOLEAN :
           CreateSchedule(u, s, interval, enabled)
    \/ \E interval \in Intervals \cup {None}, enabled \in BOOLEAN \cup {None} :
           UpdateSchedule(u, s, interval, enabled)
    \/ GetSchedule(u, s)

SchedulesNext ==
    \/ \E u \in UserIds :
        \/ \E s \in Servers : ScheduleRequest(u, s) \/ DeleteSchedule(u, s)
        \/ \E enabledOnly \in BOOLEAN : ListSchedules(u, enabledOnly)
    \/ HourPasses

-----------------------------------------------------------------------------
(* What the cache answers for a server is its row: no update, deletion,      *)
(* partial list, restart or failed load leaves an entry behind.              *)
ScheduleCacheCurrent ==
    \A s \in Servers : cached[s] # None => cached[s] = schedule[s]
=============================================================================
