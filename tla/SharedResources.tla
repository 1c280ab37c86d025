-------------------------- MODULE SharedResources ---------------------------
(* Visibility and backup schedules over the users, servers and groups that   *)
(* they refer to by id: rows of both outlive what they are about.            *)
EXTENDS Visibility, BackupSchedules

vars == <<resourceVars, config, scheduleVars>>

Init == ResourcesInit /\ VisibilityInit /\ SchedulesInit

(* Types of the state, and what relates the columns of a row.                *)
TypeOK == ResourcesTypeOK /\ VisibilityTypeOK /\ SchedulesTypeOK

(* The process ends and starts again: the migration runs, then the scheduler *)
(* starts, and no request is served before.                                  *)
Restart ==
    /\ acting' = None
    /\ VisibilityBoot
    /\ SchedulerBoot
    /\ UNCHANGED tables

Next ==
    \/ ResourcesNext /\ UNCHANGED <<config, scheduleVars>>
    \/ VisibilityNext /\ UNCHANGED scheduleVars
    \/ SchedulesNext /\ UNCHANGED config
    \/ Restart

Spec == Init /\ [][Next]_vars
=============================================================================
