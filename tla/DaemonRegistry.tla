--------------------------- MODULE DaemonRegistry ---------------------------
(***************************************************************************)
(* What the manager's table of servers promises its callers: a server gets  *)
(* an entry only when it has none and only for a daemon that runs, the      *)
(* entry stays while that daemon runs, and it goes some time after the      *)
(* daemon's death.  The table is lost as a whole when the API process ends. *)
(***************************************************************************)
CONSTANTS Servers, Pids, None

VARIABLES
    entry,   \* server -> the PID of its daemon, or None
    live,    \* the daemons that run
    serving  \* the API process runs

vars == <<entry, live, serving>>

Init == entry = [s \in Servers |-> None] /\ live = {} /\ serving = TRUE

Spawned(p) == p \notin live /\ live' = live \cup {p} /\ UNCHANGED <<entry, serving>>
Died(p) == p \in live /\ live' = live \ {p} /\ UNCHANGED <<entry, serving>>

Adopt(s, p) ==
    /\ serving /\ entry[s] = None /\ p \in live
    /\ entry' = [entry EXCEPT ![s] = p]
    /\ UNCHANGED <<live, serving>>

Forget(s) ==
    /\ serving /\ entry[s] # None /\ entry[s] \notin live
    /\ entry' = [entry EXCEPT ![s] = None]
    /\ UNCHANGED <<live, serving>>

Lose ==
    /\ serving /\ serving' = FALSE
    /\ entry' = [s \in Servers |-> None]
    /\ UNCHANGED live

Resume == ~serving /\ serving' = TRUE /\ UNCHANGED <<entry, live>>

Next ==
    \/ \E p \in Pids : Spawned(p) \/ Died(p)
    \/ \E s \in Servers : Forget(s) \/ \E p \in Pids : Adopt(s, p)
    \/ Lose \/ Resume

Spec == Init /\ [][Next]_vars /\ \A s \in Servers : WF_vars(Forget(s))
=============================================================================
