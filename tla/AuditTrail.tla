----------------------------- MODULE AuditTrail -----------------------------
(* The audit trail of the process (app/audit/, app/middleware/): what        *)
(* handlers and AuditMiddleware tell the AuditTracker of a request, and what *)
(* of it reaches the table audit_logs.  The tracker is in memory; its events *)
(* become rows in one transaction, in a session of its own, after the        *)
(* handler's and before the answer: a request may need two connections of    *)
(* the pool it shares with the sockets and the probes.                       *)
EXTENDS HealthChecks

CONSTANTS
    Requests, \* HTTP requests, each made at most once
    Calls,    \* bound: the kinds of request that are made
    Faults    \* what may go wrong, of "flush" and "late"

(* One route of each kind: its method and path, without /api/v1, and with    *)
(* "#" for a number.                                                         *)
Route ==
    [login           |-> <<"POST", "auth", "token">>,
     register        |-> <<"POST", "users", "register">>,
     approve_user    |-> <<"POST", "users", "approve", "#">>,
     delete_user     |-> <<"DELETE", "users", "#">>,
     deactivate_user |-> <<"POST", "users", "#", "deactivate">>,
     create_server   |-> <<"POST", "servers">>,
     start_server    |-> <<"POST", "servers", "#", "start">>,
     create_backup   |-> <<"POST", "backups", "servers", "#", "backups">>,
     delete_backup   |-> <<"DELETE", "backups", "backups", "#">>,
     add_player      |-> <<"POST", "groups", "#", "players">>,
     restore_version |-> <<"POST", "files", "servers", "#", "files", "path",
                           "history", "#", "restore">>]
Ops == DOMAIN Route

\* AUDITABLE_ENDPOINTS: the entries meant for these routes.
AuditableEndpoints ==
    {<<"POST", "auth", "token">>,
     <<"POST", "users", "register">>,
     <<"POST", "users", "approve", "{user_id}">>,
     <<"DELETE", "users", "{user_id}">>,
     <<"POST", "servers">>,
     <<"POST", "servers", "{server_id}", "start">>,
     <<"POST", "backups", "{server_id}">>,
     <<"DELETE", "backups", "{backup_id}">>,
     <<"POST", "groups", "{group_id}", "players">>}

IdKinds == <<"users", "servers", "backups", "groups", "schedule", "players">>
Placeholders ==
    <<"{user_id}", "{server_id}", "{backup_id}", "{group_id}", "{schedule_id}", "{player_id}">>

(* Every number gets the name of the first kind that occurs before a slash:  *)
(* the first substitution that applies leaves none for the others.           *)
NormalizeEndpoint(route) ==
    LET kinds == {k \in DOMAIN IdKinds :
                    \E i \in 1..(Len(route) - 1) : route[i] = IdKinds[k]}
        name == IF kinds = {} THEN "{id}" ELSE Placeholders[Min(kinds)]
    IN  [i \in DOMAIN route |-> IF route[i] = "#" THEN name ELSE route[i]]

ShouldAudit(o) == NormalizeEndpoint(Route[o]) \in AuditableEndpoints

(* What the handlers tell themselves: a success, a refusal.  What they tell  *)
(* before they act (a permission, an attempt) is left out, and so is whom    *)
(* the events name.                                                          *)
TellsSuccess == {"login", "deactivate_user", "start_server", "add_player", "restore_version"}
TellsRefusal == {"login", "start_server", "restore_version"}

(* Handlers that turn every exception into a response, and those that have   *)
(* more to do, which may fail, when the change is committed.                 *)
CatchesAll == {"start_server", "create_backup", "delete_backup"}
WorksOn == {"deactivate_user", "create_server", "restore_version"}

ASSUME AuditAssumption ==
    /\ IsFiniteSet(Requests)
    /\ Calls \subseteq Ops
    /\ Faults \subseteq {"flush", "late"}

VARIABLES
    call,       \* request -> its stage, its kind and what it came to
    session,    \* the requests whose session holds a pooled connection
    events,     \* request -> AuditTracker.audit_events
    changed,    \* the requests whose change is committed
    audit_logs  \* the rows

trailVars == <<call, session, events, changed, audit_logs>>

Event == [of : Requests, says : {"success", "failure"}, by : {"handler", "middleware"}]

InFlight == {"called", "changed", "returned", "flushed", "unlogged"}
Outcomes == {"ok", "error", "raised"}

TrailTypeOK ==
    /\ call \in [Requests -> [stage : InFlight \cup {"new", "answered", "gone"},
                              op : Ops \cup {None}, outcome : Outcomes \cup {None}]]
    /\ session \subseteq Requests
    /\ events \in [Requests -> SUBSET Event]
    /\ changed \subseteq Requests
    /\ audit_logs \subseteq Event

TrailInit ==
    /\ AppInit
    /\ call = [r \in Requests |-> [stage |-> "new", op |-> None, outcome |-> None]]
    /\ session = {}
    /\ events = [r \in Requests |-> {}]
    /\ changed = {}
    /\ audit_logs = {}

(* Sockets, detailed probes and requests share the connections.              *)
TakenByOthers == Cardinality(pool) + Cardinality({q \in Probes : kind[q] = "detail"})
ConnectionLeft == TakenByOthers + Cardinality(session) < PoolSize

Comes(r, stage, outcome) ==
    call' = [call EXCEPT ![r].stage = stage, ![r].outcome = outcome]

\* AuditWriter.record with the tracker of the request.
Told(r, says, by) == [of |-> r, says |-> says, by |-> by]
Tells(r, event) == events' = [events EXCEPT ![r] = @ \cup {event}]

\* Slip: the success is recorded before the transaction.
Dispatch_TellsFirst(r, o) ==
    /\ phase = "serving" /\ r \in present
    /\ call[r].stage = "new"
    /\ ConnectionLeft
    /\ call' = [call EXCEPT ![r] = [stage |-> "called", op |-> o, outcome |-> None]]
    /\ session' = session \cup {r}
    /\ Tells(r, Told(r, "success", "handler"))
    /\ UNCHANGED <<changed, audit_logs>>

(* The first query checks out a connection; without one it raises when the   *)
(* pool's time is up.                                                        *)
Dispatch(r, o) ==
    /\ phase = "serving" /\ r \in present
    /\ call[r].stage = "new"
    /\ IF ConnectionLeft
       THEN /\ call' = [call EXCEPT ![r] = [stage |-> "called", op |-> o, outcome |-> None]]
            /\ session' = session \cup {r}
       ELSE /\ call' = [call EXCEPT ![r] = [stage |-> "returned", op |-> o, outcome |-> "raised"]]
            /\ UNCHANGED session
    /\ UNCHANGED <<events, changed, audit_logs>>

(* HTTPExceptions and domain exceptions become responses; any other passes   *)
(* through the middleware.  Either way get_db closes the session first.  A   *)
(* user without the right is refused silently.                               *)
Decline(r, outcome) ==
    /\ call[r].stage = "called"
    /\ outcome = "raised" => call[r].op \notin CatchesAll
    /\ Comes(r, "returned", outcome)
    /\ session' = session \ {r}
    /\ \/ call[r].op \in TellsRefusal /\ Tells(r, Told(r, "failure", "handler"))
       \/ UNCHANGED events
    /\ UNCHANGED <<changed, audit_logs>>

Commit(r) ==
    /\ call[r].stage = "called"
    /\ changed' = changed \cup {r}
    /\ Comes(r, "changed", None)
    /\ UNCHANGED <<session, events, audit_logs>>

(* Fire after commit.  A session that has read again since then keeps its    *)
(* connection until the response is sent.                                    *)
Succeed(r) ==
    /\ call[r].stage = "changed"
    /\ Comes(r, "returned", "ok")
    /\ session' \in {session, session \ {r}}
    /\ IF call[r].op \in TellsSuccess
       THEN Tells(r, Told(r, "success", "handler"))
       ELSE UNCHANGED events
    /\ UNCHANGED <<changed, audit_logs>>

FailLate(r, outcome) ==
    /\ "late" \in Faults
    /\ call[r].stage = "changed" /\ call[r].op \in WorksOn
    /\ Comes(r, "returned", outcome)
    /\ session' = session \ {r}
    /\ UNCHANGED <<events, changed, audit_logs>>

(* The middleware adds an event of its own for what was done or was raised:  *)
(* 200 <= status_code < 300, or an exception.                                *)
Added(r) ==
    IF ShouldAudit(call[r].op) /\ call[r].outcome \in {"ok", "raised"}
    THEN {Told(r, IF call[r].outcome = "ok" THEN "success" ELSE "failure", "middleware")}
    ELSE {}

(* flush_events: the rows of a request, all or none.  It runs on the event   *)
(* loop and Blocks it until it has a connection or the pool's time is up and *)
(* the rows are lost.  Every failure is swallowed.                           *)
Flush(r) ==
    /\ call[r].stage = "returned"
    /\ events' = [events EXCEPT ![r] = @ \cup Added(r)]
    /\ \/ /\ ConnectionLeft \/ events'[r] = {}
          /\ audit_logs' = audit_logs \cup events'[r]
          /\ Comes(r, "flushed", call[r].outcome)
       \/ /\ ~ConnectionLeft \/ "flush" \in Faults
          /\ events'[r] # {}
          /\ Comes(r, "unlogged", call[r].outcome)
          /\ UNCHANGED audit_logs
    /\ UNCHANGED <<session, changed>>

\* Slip: the flush is left to a background task.
Respond_BeforeFlush(r) ==
    /\ call[r].stage \in {"returned", "flushed", "unlogged"}
    /\ Comes(r, IF call[r].stage = "unlogged" THEN "gone" ELSE "answered", call[r].outcome)
    /\ session' = session \ {r}
    /\ UNCHANGED <<events, changed, audit_logs>>

(* The client gets its answer in either case, and get_db closes the session. *)
Respond(r) ==
    /\ call[r].stage \in {"flushed", "unlogged"}
    /\ Comes(r, IF call[r].stage = "flushed" THEN "answered" ELSE "gone", call[r].outcome)
    /\ session' = session \ {r}
    /\ UNCHANGED <<events, changed, audit_logs>>

(* The requests end with the process, and with them the events that are not  *)
(* flushed; a shutdown waits for them.                                       *)
Ends ==
    /\ call' = [r \in Requests |->
                  IF call[r].stage \in InFlight THEN [call[r] EXCEPT !.stage = "gone"]
                  ELSE call[r]]
    /\ session' = {}
    /\ events' = [r \in Requests |-> {}]
    /\ UNCHANGED <<changed, audit_logs>>

Idle == \A r \in Requests : call[r].stage \notin InFlight

(* What the rest of the process does, with the connections that are left.    *)
ProcessStep ==
    /\ AppNext
    /\ TakenByOthers' > TakenByOthers => ConnectionLeft
    /\ evaluation # None /\ evaluation' # None
         => ("database" \in evaluation.running \ evaluation'.running => ConnectionLeft)
    /\ IF phase = "serving" /\ phase' = "ended" THEN Ends ELSE UNCHANGED trailVars
    /\ phase' \in {"serving", "ended"} \/ Idle

RequestStep ==
    /\ \E r \in Requests :
         \/ \E o \in Calls : Dispatch(r, o)
         \/ \E outcome \in {"error", "raised"} : Decline(r, outcome) \/ FailLate(r, outcome)
         \/ Commit(r) \/ Succeed(r) \/ Flush(r) \/ Respond(r)
    /\ UNCHANGED appVars

TrailNext == ProcessStep \/ RequestStep

TrailSpec == TrailInit /\ [][TrailNext]_<<appVars, trailVars>>

-----------------------------------------------------------------------------
Succeeded(r) == \E e \in audit_logs : e.of = r /\ e.says = "success"

\* docs/app/ARCHITECTURE.md:303, "This guarantees we never log an event for a
\* transaction that was rolled back": a success in the log is of a committed
\* change, and a committed change is in the log as a failure only if its handler
\* had more to do afterwards, which failed.
LogTellsTruth ==
    \A e \in audit_logs :
      IF e.says = "success" THEN e.of \in changed
      ELSE e.of \in changed => call[e.of].op \in WorksOn

\* A client that got its answer finds its change in the log, if it is one that
\* the handler or the middleware tells: rows come before answers, so no crash
\* can come between.  Only a flush that failed, for want of a connection or
\* otherwise, loses them.
AnswersAreLogged ==
    \A r \in Requests :
      /\ call[r].stage = "answered" /\ call[r].outcome = "ok"
      /\ call[r].op \in TellsSuccess \/ ShouldAudit(call[r].op)
      => Succeeded(r)
=============================================================================
