------------------------------- MODULE Groups -------------------------------
(***************************************************************************)
(* GroupService and GroupFileSyncer (app/groups) with                       *)
(* RealTimeServerCommands (app/servers): groups of players in the database,  *)
(* the ops.json and whitelist.json derived from the groups attached to a     *)
(* server, and what the running Minecraft server holds in its memory.        *)
(*                                                                          *)
(* A change commits, rewrites the files of the servers it reaches one by     *)
(* one, and tells the running ones over RCON.  The database and the files    *)
(* are used without suspension; a request is suspended by each RCON command  *)
(* and by the pause before a retry.                                         *)
(***************************************************************************)
EXTENDS Naturals, FiniteSets

CONSTANTS
    GroupIds, Servers, Players,
    Names,        \* the user names a player may have
    TypeOf,       \* the type of each group
    Requests,     \* concurrent requests
    Retries,      \* max_retries of the file sync
    Faults,       \* failures that may happen, a subset of FaultKinds
    Launched,     \* servers that may be started and deleted
    None

Types == {"op", "whitelist"}
FaultKinds == {"io", "rcon"}

ASSUME GroupAssumption ==
    /\ TypeOf \in [GroupIds -> Types]
    /\ Retries \in Nat \ {0}
    /\ Faults \subseteq FaultKinds
    /\ Launched \subseteq Servers
    /\ None \notin Names \cup GroupIds \cup Servers

VARIABLES
    exists,    \* the groups in the database
    members,   \* Group.players: the name under which a group holds a player
    attached,  \* server_groups
    files,     \* the players in ops.json and in whitelist.json of a server
    phase,     \* where each Minecraft server is
    memory,    \* the players a started server has read or been told of
    op,        \* requests in progress
    unwritten, \* history: servers whose last write of the files failed
    untold     \* history: servers that missed the last change of their whitelist

lapses == <<unwritten, untold>>
db == <<exists, members, attached>>
world == <<phase, memory>>
vars == <<db, files, world, op, lapses>>

Lists == [Types -> SUBSET Players]
NoLists == [t \in Types |-> {}]
Phases == {"stopped", "starting", "loaded", "running", "deleted"}
Pc == {"idle", "sync", "reload", "opping", "deopping", "sleep", "tell"}
OpRecord == [pc: Pc, stage: {"sync", "tell"}, group: GroupIds \cup {None},
             to: Servers \cup {None}, gone: SUBSET Players, todo: SUBSET Servers,
             at: Servers \cup {None}, ops: BOOLEAN, names: SUBSET Players,
             tries: Nat, failed: BOOLEAN]
NoOp == [pc |-> "idle", stage |-> "sync", group |-> None, to |-> None, gone |-> {},
         todo |-> {}, at |-> None, ops |-> FALSE, names |-> {}, tries |-> 0,
         failed |-> FALSE]

TypeOK ==
    /\ exists \subseteq GroupIds
    /\ members \in [GroupIds -> [Players -> Names \cup {None}]]
    /\ attached \subseteq Servers \X GroupIds
    /\ files \in [Servers -> Lists]
    /\ phase \in [Servers -> Phases]
    /\ memory \in [Servers -> Lists]
    /\ op \in [Requests -> OpRecord]
    /\ unwritten \subseteq Servers /\ untold \subseteq Servers

Init ==
    /\ exists = GroupIds
    /\ members = [g \in GroupIds |-> [p \in Players |-> None]]
    /\ attached = {}
    /\ files = [s \in Servers |-> NoLists]
    /\ phase = [s \in Servers |-> "stopped"]
    /\ memory = [s \in Servers |-> NoLists]
    /\ op = [o \in Requests |-> NoOp]
    /\ unwritten = {} /\ untold = {}

-----------------------------------------------------------------------------
(* What the database says of a server                                        *)

Holds(m, g, p) == m[g][p] # None
Reached(a, g) == {s \in Servers : <<s, g>> \in a}
HasType(a, s, t) == \E g \in GroupIds : <<s, g>> \in a /\ TypeOf[g] = t

\* _build_ops_and_whitelist: a player of two groups is listed once.
Derived(m, a, s) ==
    [t \in Types |-> {p \in Players :
        \E g \in GroupIds : <<s, g>> \in a /\ TypeOf[g] = t /\ Holds(m, g, p)}]

Becomes(o, r) == op' = [op EXCEPT ![o] = r]
Running(s) == phase[s] = "running"

\* The commands for a server are over, or there are none.
Back(r) == [r EXCEPT !.pc = r.stage, !.at = None, !.ops = FALSE, !.names = {}]

\* sync_op_changes_if_running reads ops.json and then sends a command for each name.
Opping(r, s, f) ==
    IF Running(s) /\ f[s]["op"] # {}
    THEN [r EXCEPT !.pc = "opping", !.at = s, !.ops = FALSE, !.names = f[s]["op"]]
    ELSE Back(r)

-----------------------------------------------------------------------------
(* GroupFileSyncer                                                           *)

\* update_server_files: the files are written from the database, then a running
\* server reloads its whitelist and is sent its operators.
Writes(o, r, s, m, a) ==
    LET f == [files EXCEPT ![s] = Derived(m, a, s)]
        done == [r EXCEPT !.todo = @ \ {s}, !.at = s, !.ops = HasType(a, s, "op")]
    IN  IF phase[s] = "deleted"
        THEN UNCHANGED <<files, lapses>> /\ Becomes(o, Back(done))
        ELSE /\ files' = f
             /\ unwritten' = unwritten \ {s}
             /\ untold' = IF phase[s] = "loaded" THEN untold \cup {s} ELSE untold
             /\ Becomes(o, IF Running(s) /\ HasType(a, s, "whitelist")
                           THEN [done EXCEPT !.pc = "reload"]
                           ELSE IF done.ops THEN Opping(done, s, f) ELSE Back(done))

\* Bound: a failure hits a request that is alone.
Alone(o) == \A p \in Requests \ {o} : op[p].pc = "idle"

\* A write fails: neither file or only ops.json is new, and the servers that are
\* left are still visited.
WriteFails(o, r, s, m, a) ==
    /\ "io" \in Faults /\ Alone(o)
    /\ phase[s] # "deleted"
    /\ \/ UNCHANGED files
       \/ files' = [files EXCEPT ![s]["op"] = Derived(m, a, s)["op"]]
    /\ Becomes(o, Back([r EXCEPT !.todo = @ \ {s}, !.failed = TRUE]))
    /\ unwritten' = unwritten \cup {s} /\ untold' = untold \cup {s}

\* The sync goes on to the next server, to the pause before a retry, or to the
\* commands of the change itself.
Proceeds(o, r, m, a) ==
    \/ \E s \in r.todo : Writes(o, r, s, m, a) \/ WriteFails(o, r, s, m, a)
    \/ /\ r.todo = {} /\ r.failed /\ r.tries < Retries
       /\ Becomes(o, [r EXCEPT !.pc = "sleep"])
       /\ UNCHANGED <<files, lapses>>
    \/ /\ r.todo = {} /\ ~(r.failed /\ r.tries < Retries)
       /\ Becomes(o, [NoOp EXCEPT !.pc = "tell", !.stage = "tell", !.group = r.group,
                               !.todo = IF r.to = None THEN Reached(a, r.group) ELSE {r.to},
                               !.gone = r.gone])
       /\ UNCHANGED <<files, lapses>>

Commits(o, r, m, a) ==
    /\ op[o].pc = "idle"
    /\ members' = m /\ attached' = a
    /\ Proceeds(o, r, m, a)
    /\ UNCHANGED <<exists, world>>

SyncContinues(o) ==
    /\ op[o].pc = "sync"
    /\ Proceeds(o, op[o], members, attached)
    /\ UNCHANGED <<db, world>>

\* The next attempt reads the group's servers again.
Retry(o) ==
    /\ op[o].pc = "sleep"
    /\ Proceeds(o, [op[o] EXCEPT
            !.pc = "sync", !.tries = @ + 1, !.failed = FALSE,
            !.todo = IF op[o].to = None THEN Reached(attached, op[o].group) ELSE {op[o].to}],
                members, attached)
    /\ UNCHANGED <<db, world>>

-----------------------------------------------------------------------------
(* GroupService: each change is one transaction                              *)

Change(g) == [NoOp EXCEPT !.pc = "sync", !.group = g, !.tries = 1]

\* Group.add_player appends a player; the new name of a player that the list
\* already has is set in place, which the session does not see as a change.
AddPlayer(o, g, p, n) ==
    /\ g \in exists
    /\ Commits(o, [Change(g) EXCEPT !.todo = Reached(attached, g)],
               IF Holds(members, g, p) THEN members ELSE [members EXCEPT ![g][p] = n],
               attached)

RemovePlayer(o, g, p) ==
    /\ g \in exists /\ Holds(members, g, p)
    /\ Commits(o, [Change(g) EXCEPT !.todo = Reached(attached, g), !.gone = {p}],
               [members EXCEPT ![g][p] = None], attached)

\* server_read.get does not see a deleted server.
AttachGroup(o, s, g) ==
    /\ g \in exists /\ phase[s] # "deleted" /\ <<s, g>> \notin attached
    /\ Commits(o, [Change(g) EXCEPT !.to = s, !.todo = {s}],
               members, attached \cup {<<s, g>>})

\* Mutant: the servers to sync are those the group still reaches.
DetachGroup_ByGroup(o, s, g) ==
    /\ g \in exists /\ phase[s] # "deleted" /\ <<s, g>> \in attached
    /\ Commits(o, [Change(g) EXCEPT !.to = s, !.tries = Retries,
                   !.todo = Reached(attached \ {<<s, g>>}, g)],
               members, attached \ {<<s, g>>})

\* The sync of a detached server is not retried.
DetachGroup(o, s, g) ==
    /\ g \in exists /\ phase[s] # "deleted" /\ <<s, g>> \in attached
    /\ Commits(o, [Change(g) EXCEPT !.to = s, !.todo = {s}, !.tries = Retries,
                   !.gone = IF TypeOf[g] = "op" THEN {p \in Players : Holds(members, g, p)}
                                                ELSE {}],
               members, attached \ {<<s, g>>})

CreateGroup(g) ==
    /\ g \notin exists
    /\ exists' = exists \cup {g}
    /\ members' = [members EXCEPT ![g] = [p \in Players |-> None]]
    /\ UNCHANGED <<attached, files, world, op, lapses>>

DeleteGroup(g) ==
    /\ g \in exists /\ Reached(attached, g) = {}
    /\ exists' = exists \ {g}
    /\ members' = [members EXCEPT ![g] = [p \in Players |-> None]]
    /\ UNCHANGED <<attached, files, world, op, lapses>>

-----------------------------------------------------------------------------
(* RealTimeServerCommands                                                    *)

\* One exchange over RCON: the server has taken the command, whether or not
\* its response arrives in time.
Delivered(s, t, players) ==
    /\ memory' = [memory EXCEPT ![s][t] = players]
    /\ untold' = IF t = "whitelist" THEN untold \ ({s} \ unwritten) ELSE untold

\* The connection or the authentication fails, and the command is lost.
Undelivered(o, s, t) ==
    /\ "rcon" \in Faults /\ Alone(o)
    /\ untold' = IF t = "whitelist" THEN untold \cup {s} ELSE untold
    /\ UNCHANGED memory

\* A command is sent to a server that runs.  None is repeated.
Commanded(o, s, t, players) ==
    \/ Running(s) /\ (Delivered(s, t, players) \/ Undelivered(o, s, t))
    \/ ~Running(s) /\ UNCHANGED <<memory, untold>>

\* "whitelist reload"; in the file sync the operators come next.
Reloads(o) ==
    LET r == op[o]
    IN  /\ r.pc = "reload"
        /\ Commanded(o, r.at, "whitelist", files[r.at]["whitelist"])
        /\ Becomes(o, IF r.ops THEN Opping(r, r.at, files) ELSE Back(r))
        /\ UNCHANGED <<db, files, phase, unwritten>>

Sent(o, p) ==
    LET rest == op[o].names \ {p}
    IN  Becomes(o, IF rest = {} THEN Back(op[o]) ELSE [op[o] EXCEPT !.names = rest])

\* "op {name}", one by one.
Ops(o) ==
    /\ op[o].pc = "opping"
    /\ \E p \in op[o].names :
        /\ Commanded(o, op[o].at, "op", memory[op[o].at]["op"] \cup {p})
        /\ Sent(o, p)
    /\ UNCHANGED <<db, files, phase, unwritten>>

\* "deop {name}" for the players that were removed.
Deops(o) ==
    /\ op[o].pc = "deopping"
    /\ \E p \in op[o].names :
        /\ Commanded(o, op[o].at, "op", memory[op[o].at]["op"] \ {p})
        /\ Sent(o, p)
    /\ UNCHANGED <<db, files, phase, unwritten>>

\* Mutant: a change of a whitelist group sends nothing.
Tells_OnlyOps(o) ==
    /\ op[o].pc = "tell"
    /\ \E s \in op[o].todo :
        LET r == [op[o] EXCEPT !.todo = @ \ {s}]
        IN  Becomes(o,
              IF ~Running(s) \/ TypeOf[r.group] = "whitelist" THEN r
              ELSE IF r.gone # {} THEN [r EXCEPT !.pc = "deopping", !.at = s, !.names = r.gone]
              ELSE Opping(r, s, files))
    /\ UNCHANGED <<db, files, world, lapses>>

\* handle_group_change_commands for one server: only a running one is told.
Tells(o) ==
    /\ op[o].pc = "tell"
    /\ \E s \in op[o].todo :
        LET r == [op[o] EXCEPT !.todo = @ \ {s}]
        IN  Becomes(o,
              IF ~Running(s) THEN r
              ELSE IF TypeOf[r.group] = "whitelist" THEN [r EXCEPT !.pc = "reload", !.at = s]
              ELSE IF r.gone # {} THEN [r EXCEPT !.pc = "deopping", !.at = s, !.names = r.gone]
              ELSE Opping(r, s, files))
    /\ UNCHANGED <<db, files, world, lapses>>

Ends(o) ==
    /\ op[o].pc = "tell" /\ op[o].todo = {}
    /\ Becomes(o, NoOp)
    /\ UNCHANGED <<db, files, world, lapses>>

-----------------------------------------------------------------------------
(* The Minecraft servers: they read the files when they start                *)

Starts(s) ==
    /\ s \in Launched /\ phase[s] = "stopped"
    /\ phase' = [phase EXCEPT ![s] = "starting"]
    /\ UNCHANGED <<db, files, memory, op, lapses>>

Loads(s) ==
    /\ phase[s] = "starting"
    /\ phase' = [phase EXCEPT ![s] = "loaded"]
    /\ memory' = [memory EXCEPT ![s] = files[s]]
    /\ untold' = untold \ ({s} \ unwritten)
    /\ UNCHANGED <<db, files, op, unwritten>>

IsReady(s) ==
    /\ phase[s] = "loaded"
    /\ phase' = [phase EXCEPT ![s] = "running"]
    /\ UNCHANGED <<db, files, memory, op, lapses>>

Stops(s) ==
    /\ phase[s] \in {"starting", "loaded", "running"}
    /\ phase' = [phase EXCEPT ![s] = "stopped"]
    /\ memory' = [memory EXCEPT ![s] = NoLists]
    /\ UNCHANGED <<db, files, op, lapses>>

\* delete_server, in any status: the row stays, marked, and with it what is
\* attached to it.
DeletesServer(s) ==
    /\ s \in Launched /\ phase[s] # "deleted"
    /\ phase' = [phase EXCEPT ![s] = "deleted"]
    /\ UNCHANGED <<db, files, memory, op, lapses>>

ServerStep(s) == Starts(s) \/ Loads(s) \/ IsReady(s) \/ Stops(s) \/ DeletesServer(s)

RequestStep(o) ==
    SyncContinues(o) \/ Retry(o) \/ Reloads(o) \/ Ops(o) \/ Deops(o) \/ Tells(o) \/ Ends(o)

\* Bound: no change begins while a server is behind.
Begins(o) ==
    /\ unwritten \cup untold = {}
    /\ \/ \E g \in GroupIds, p \in Players :
           RemovePlayer(o, g, p) \/ \E n \in Names : AddPlayer(o, g, p, n)
       \/ \E g \in GroupIds, s \in Servers : AttachGroup(o, s, g) \/ DetachGroup(o, s, g)

Next ==
    \/ \E o \in Requests : Begins(o) \/ RequestStep(o)
    \/ \E g \in GroupIds : CreateGroup(g) \/ DeleteGroup(g)
    \/ \E s \in Servers : ServerStep(s)

Spec == Init /\ [][Next]_vars

-----------------------------------------------------------------------------
(* Properties                                                                *)

Quiet == \A o \in Requests : op[o].pc = "idle"
Present(s) == phase[s] # "deleted"

\* ops.json and whitelist.json are what the attached groups say, except for a
\* server that a request in progress still has to visit, or whose last write
\* failed: no change of two requests, in any order, leaves a file behind.
FilesFollow ==
    \A s \in Servers : Present(s) /\ s \notin unwritten =>
        \/ files[s] = Derived(members, attached, s)
        \/ \E o \in Requests : op[o].stage = "sync" /\ s \in op[o].todo

\* Once no request is in progress, a running server has the whitelist of its file,
\* unless a write or a command failed, or came while the server was starting, and
\* the whitelist has not been read again since.
WhitelistTold ==
    Quiet => \A s \in Servers \ untold :
        Running(s) => memory[s]["whitelist"] = files[s]["whitelist"]
=============================================================================
