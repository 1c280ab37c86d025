-------------------------- MODULE ServerCatalogue --------------------------
(***************************************************************************)
(* ServerService (app/servers/application/service.py): rows of servers,     *)
(* their directories under servers/, and the archive to which a delete       *)
(* moves a directory.  A directory is created, filled and archived outside   *)
(* the transaction that writes the row, and a creation suspends twice, for   *)
(* the Java probe and for the server JAR, and again if the files of an       *)
(* attached group have to be retried.                                        *)
(***************************************************************************)
EXTENDS Naturals, FiniteSets

CONSTANTS
    Ids,       \* bound: row ids
    Names,     \* names of servers
    Dirs,      \* directories under servers/
    DirOf,     \* PathValidator.sanitize_directory_name: [Names -> Dirs]
    Archives,  \* bound: directories .archived/{id}_{time}
    Requests,  \* creations and imports in progress
    Faults,    \* what may go wrong, a subset of FaultKinds
    MaxMishaps, \* bound: different faults in one behaviour
    Absent

\* "rollback": a creation fails after its row is committed; "attach": so does
\* the attachment of a group, after a wait; "delete": the row of an archived
\* directory is not committed.
FaultKinds == {"rollback", "attach", "delete", "move", "rmtree", "crash"}
Paths == Dirs \cup Archives
Row == [name: Names, dir: Paths, deleted: BOOLEAN]

ASSUME CatalogueAssumption ==
    /\ DirOf \in [Names -> Dirs]
    /\ Dirs \cap Archives = {}
    /\ Faults \subseteq FaultKinds
    /\ MaxMishaps \in Nat
    /\ Absent \notin Ids \cup Names \cup Row
    /\ "empty" \notin Ids /\ "empty" # Absent

VARIABLES
    rows,     \* id -> the committed row, or Absent
    disk,     \* directory -> the server whose files it holds, "empty", or Absent
    req,      \* creations in progress
    mishaps   \* the faults that have happened

catalogueVars == <<rows, disk, req, mishaps>>

Request == [pc: {"idle", "checks", "jar", "attach"}, name: Names \cup {Absent}]
NoRequest == [pc |-> "idle", name |-> Absent]

CatalogueTypeOK ==
    /\ rows \in [Ids -> Row \cup {Absent}]
    /\ disk \in [Paths -> Ids \cup {"empty", Absent}]
    /\ req \in [Requests -> Request]
    /\ mishaps \subseteq Faults
    /\ \A o \in Requests : req[o].pc # "idle" => req[o].name \in Names

CatalogueInit ==
    /\ rows = [i \in Ids |-> Absent]
    /\ disk = [p \in Paths |-> Absent]
    /\ req = [o \in Requests |-> NoRequest]
    /\ mishaps = {}

Live(i) == rows[i] # Absent /\ ~rows[i].deleted
Target(o) == DirOf[req[o].name]

Finish(o) == req' = [req EXCEPT ![o] = NoRequest]
Goto(o, pc) == req' = [req EXCEPT ![o] = [pc |-> pc, name |-> req[o].name]]
Mishap(f) ==
    /\ f \in Faults /\ Cardinality(mishaps \cup {f}) <= MaxMishaps
    /\ mishaps' = mishaps \cup {f}
AllWell == UNCHANGED mishaps

-----------------------------------------------------------------------------
(* Creation                                                                  *)

\* The checks begin with the name, among servers that are not deleted; an
\* import reads its upload first.  The Java probe suspends.
Begin(o, n) ==
    /\ req[o].pc = "idle"
    /\ ~\E i \in Ids : Live(i) /\ rows[i].name = n
    /\ req' = [req EXCEPT ![o] = [pc |-> "checks", name |-> n]]
    /\ UNCHANGED <<rows, disk>> /\ AllWell

\* Version or Java do not fit, or create_server_directory finds the directory.
Refused(o) ==
    /\ req[o].pc = "checks"
    /\ Finish(o)
    /\ UNCHANGED <<rows, disk>> /\ AllWell

\* Mutant: a directory that exists is taken over.
MakesDirectory_ExistOk(o) ==
    /\ req[o].pc = "checks"
    /\ disk' = [disk EXCEPT ![Target(o)] = "empty"]
    /\ Goto(o, "jar")
    /\ UNCHANGED rows /\ AllWell

\* create_server_directory, then the download of the JAR.
MakesDirectory(o) ==
    /\ req[o].pc = "checks" /\ disk[Target(o)] = Absent
    /\ disk' = [disk EXCEPT ![Target(o)] = "empty"]
    /\ Goto(o, "jar")
    /\ UNCHANGED rows /\ AllWell

\* cleanup_server_directory: rmtree, whose failure is only logged.
Removed(d) == [disk EXCEPT ![d] = Absent]

\* Mutant: the handler of the failed creation does not clean up.
Fails_Leaves(o) ==
    /\ req[o].pc = "jar"
    /\ Finish(o)
    /\ UNCHANGED <<rows, disk>> /\ AllWell

\* The JAR cannot be had or the row not be inserted.
Fails(o) ==
    /\ req[o].pc = "jar"
    /\ \/ disk' = Removed(Target(o)) /\ AllWell
       \/ UNCHANGED disk /\ Mishap("rmtree")
    /\ Finish(o)
    /\ UNCHANGED rows

NewRow(o) == [name |-> req[o].name, dir |-> Target(o), deleted |-> FALSE]

\* The row is committed and the files are written; an import puts its own in
\* their place.  A group whose files need another attempt suspends the request.
Inserts(o, i) ==
    /\ req[o].pc = "jar" /\ rows[i] = Absent /\ disk[Target(o)] # Absent
    /\ rows' = [rows EXCEPT ![i] = NewRow(o)]
    /\ disk' = [disk EXCEPT ![Target(o)] = i]
    /\ Finish(o) \/ Goto(o, "attach")
    /\ AllWell

\* The row is committed, then a file cannot be written, a group does not exist,
\* or the imported files cannot be moved: the directory goes, the row stays.
InsertsAndFails(o, i) ==
    /\ req[o].pc = "jar" /\ rows[i] = Absent
    /\ rows' = [rows EXCEPT ![i] = NewRow(o)]
    /\ disk' = Removed(Target(o))
    /\ Finish(o) /\ Mishap("rollback")

Attached(o) ==
    /\ req[o].pc = "attach"
    /\ Finish(o)
    /\ UNCHANGED <<rows, disk>> /\ AllWell

\* The next group does not exist, or the server does not any more.  The path is
\* the one the request created, whoever uses it now.
AttachFails(o) ==
    /\ req[o].pc = "attach"
    /\ disk' = Removed(Target(o))
    /\ Finish(o) /\ Mishap("attach")
    /\ UNCHANGED rows

-----------------------------------------------------------------------------
(* Update and delete do not suspend                                          *)

\* update_server does not look for another server of that name.
Rename(i, n) ==
    /\ Live(i)
    /\ rows' = [rows EXCEPT ![i] = [name |-> n, dir |-> rows[i].dir, deleted |-> FALSE]]
    /\ UNCHANGED <<disk, req>> /\ AllWell

Moved(d, a) == [disk EXCEPT ![a] = disk[d], ![d] = Absent]

\* soft_delete: the row stays, marked.
Marked(i, d) ==
    rows' = [rows EXCEPT ![i] = [name |-> rows[i].name, dir |-> d, deleted |-> TRUE]]

\* The directory is archived, the row repointed and marked.
Delete(i, a) ==
    /\ Live(i) /\ disk[rows[i].dir] # Absent /\ disk[a] = Absent
    /\ disk' = Moved(rows[i].dir, a)
    /\ Marked(i, a)
    /\ UNCHANGED req /\ AllWell

\* There is nothing to archive, or the move fails.
DeleteInPlace(i) ==
    /\ Live(i)
    /\ \/ disk[rows[i].dir] = Absent /\ AllWell
       \/ disk[rows[i].dir] # Absent /\ Mishap("move")
    /\ Marked(i, rows[i].dir)
    /\ UNCHANGED <<disk, req>>

\* The move is done, the commit is not.
DeleteFails(i, a) ==
    /\ Live(i) /\ disk[rows[i].dir] # Absent /\ disk[a] = Absent
    /\ disk' = Moved(rows[i].dir, a)
    /\ Mishap("delete")
    /\ UNCHANGED <<rows, req>>

Crash ==
    /\ \E o \in Requests : req[o].pc # "idle"
    /\ req' = [o \in Requests |-> NoRequest]
    /\ Mishap("crash")
    /\ UNCHANGED <<rows, disk>>

-----------------------------------------------------------------------------
RequestStep(o) ==
    \/ Refused(o) \/ MakesDirectory(o) \/ Fails(o)
    \/ \E i \in Ids : Inserts(o, i) \/ InsertsAndFails(o, i)
    \/ Attached(o) \/ AttachFails(o)

CatalogueNext ==
    \/ \E o \in Requests, n \in Names : Begin(o, n)
    \/ \E o \in Requests : RequestStep(o)
    \/ \E i \in Ids, n \in Names : Rename(i, n)
    \/ \E i \in Ids, a \in Archives : Delete(i, a) \/ DeleteFails(i, a)
    \/ \E i \in Ids : DeleteInPlace(i)
    \/ Crash

CatalogueSpec == CatalogueInit /\ [][CatalogueNext]_catalogueVars

-----------------------------------------------------------------------------
(* Properties.                                                               *)

\* DATABASE.md:99, "Directory path must be unique per server": as long as no
\* step fails between a directory and its row, every row, also that of a
\* deleted server, names a directory that holds this server's files, whichever
\* requests overlap, whatever names share a directory and whatever is renamed.
DirectoryPerServer ==
    mishaps \cap {"rollback", "attach", "delete"} = {} =>
      \A i \in Ids : rows[i] # Absent => disk[rows[i].dir] = i

\* service.py:375, a deleted server's name can be used again: as long as no move
\* and no clean-up fails and the API does not crash, a directory under servers/
\* is that of a server that is not deleted or of a creation in progress.
NoStrayDirectory ==
    mishaps \cap {"move", "rmtree", "crash"} = {} =>
      \A d \in Dirs :
        disk[d] # Absent =>
          \/ \E i \in Ids : Live(i) /\ rows[i].dir = d
          \/ \E o \in Requests : req[o].pc = "jar" /\ Target(o) = d
=============================================================================
