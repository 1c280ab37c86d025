------------------------------ MODULE Backups ------------------------------
(***************************************************************************)
(* BackupService (app/backups): the catalogue of backups in the database    *)
(* and the archives on disk.  An archive is written to .pending/, its row is *)
(* committed, then os.replace moves it to the path the row names.  Creation, *)
(* upload and restore wait for the backup and file_io semaphores.           *)
(*                                                                          *)
(* Database calls and renames do not suspend: an action is the code of a     *)
(* request between two real suspensions (a semaphore that is taken, the      *)
(* executor that writes the tar, the chunks of an upload).                  *)
(***************************************************************************)
EXTENDS Naturals, Sequences, FiniteSets

CONSTANTS
    Servers,    \* server directories
    Slots,      \* concurrent requests
    Archives,   \* row ids, each with the data stored under it
    Uploads,    \* the archives that clients upload; the others are created
    MaxNow,     \* bound: seconds of the clock
    Limit,      \* semaphore limits: [Sems -> Nat \ {0}]
    Faults,     \* failures that may happen, a subset of FaultKinds
    None

Sems == {"backup", "file"}
FaultKinds == {"tar", "upload", "replace", "move", "extract", "delete", "crash", "sweep"}

ASSUME BackupAssumption ==
    /\ Uploads \subseteq Archives
    /\ IsFiniteSet(Slots)
    /\ MaxNow \in Nat
    /\ Limit \in [Sems -> Nat \ {0}]
    /\ Limit["backup"] <= Limit["file"]
    /\ Faults \subseteq FaultKinds
    /\ None \notin Archives \cup Slots \cup Servers
    /\ {"original", "partial"} \cap Archives = {}
    /\ Archives \cap (Servers \X (0..MaxNow)) = {}
    /\ None \notin Servers \X (0..MaxNow)

\* backup_{server}_{id}_{time} is unique by its id; server_{server}_{time}, the
\* name of an upload, is not.
Paths == Archives \cup (Servers \X (0..MaxNow))
Contents == Archives \cup {"original", "partial"}

VARIABLES
    now,      \* the second shown by the clock
    rows,     \* committed rows: archive -> file_path, or None
    canon,    \* the backups directory: path -> the archive stored there, or None
    pending,  \* archives in .pending/
    failed,   \* archives in .failed/
    dirs,     \* what a server directory holds
    aside,    \* what restores moved to {directory}_backup_{time}
    running,  \* servers that are not stopped
    op,       \* requests in progress
    inUse,    \* ConcurrencySemaphore.in_use
    queue     \* the waiters of a semaphore, first in first out

disk == <<canon, pending, failed>>
worlds == <<dirs, aside>>
sems == <<inUse, queue>>
vars == <<now, rows, disk, worlds, running, op, sems>>

Pc == {"idle", "create", "upload", "tar", "writing", "reading", "restore"}
OpRecord == [pc: Pc, srv: Servers \cup {None}, arc: Archives \cup {None},
             path: Paths \cup {None}]
NoOp == [pc |-> "idle", srv |-> None, arc |-> None, path |-> None]

TypeOK ==
    /\ now \in 0..MaxNow
    /\ rows \in [Archives -> Paths \cup {None}]
    /\ canon \in [Paths -> Archives \cup {None}]
    /\ pending \subseteq Archives
    /\ failed \subseteq Archives
    /\ dirs \in [Servers -> Contents]
    /\ aside \in [Servers -> SUBSET Contents]
    /\ running \subseteq Servers
    /\ op \in [Slots -> OpRecord]
    /\ inUse \in [Sems -> Nat]
    /\ queue \in [Sems -> Seq(Slots)]

Init ==
    /\ now = 0
    /\ rows = [a \in Archives |-> None]
    /\ canon = [p \in Paths |-> None]
    /\ pending = {} /\ failed = {}
    /\ dirs = [s \in Servers |-> "original"]
    /\ aside = [s \in Servers |-> {}]
    /\ running = {}
    /\ op = [o \in Slots |-> NoOp]
    /\ inUse = [x \in Sems |-> 0]
    /\ queue = [x \in Sems |-> <<>>]

-----------------------------------------------------------------------------
(* ConcurrencySemaphore                                                      *)

Free(x) == queue[x] = <<>> /\ inUse[x] < Limit[x]
CanEnter(o, x) == queue[x] # <<>> /\ Head(queue[x]) = o /\ inUse[x] < Limit[x]

Held(o) ==
    {x \in Sems : \/ x = "backup" /\ op[o].pc \in {"tar", "writing", "reading"}
                  \/ x = "file" /\ op[o].pc = "writing"}
Release(held) == inUse' = [x \in Sems |-> IF x \in held THEN inUse[x] - 1 ELSE inUse[x]]

\* An archive is new as long as nothing refers to it.
Fresh(a) ==
    /\ rows[a] = None /\ a \notin pending \cup failed
    /\ \A p \in Paths : canon[p] # a
    /\ \A o \in Slots : op[o].arc # a
    /\ \A s \in Servers : dirs[s] # a /\ a \notin aside[s]

Finish(o) == op' = [op EXCEPT ![o] = NoOp]

\* The server or its directory is missing, the upload declares a wrong type or
\* size: the semaphores are left at once, before a file has a name.
Refused(o) ==
    /\ \/ "tar" \in Faults /\ op[o].pc = "create"
       \/ "upload" \in Faults /\ op[o].pc = "upload"
    /\ CanEnter(o, "backup")
    /\ Finish(o)
    /\ queue' = [queue EXCEPT !["backup"] = Tail(@)]
    /\ UNCHANGED <<now, rows, disk, worlds, running, inUse>>

-----------------------------------------------------------------------------
(* create_backup                                                             *)

\* Mutant: a name without the row's id.
BeginCreate_NoId(o, s, a) ==
    /\ op[o].pc = "idle" /\ a \in Archives \ Uploads /\ Fresh(a)
    /\ op' = [op EXCEPT ![o] = [pc |-> "create", srv |-> s, arc |-> a, path |-> <<s, now>>]]
    /\ queue' = [queue EXCEPT !["backup"] = Append(@, o)]
    /\ UNCHANGED <<now, rows, disk, worlds, running, inUse>>

BeginCreate(o, s, a) ==
    /\ op[o].pc = "idle" /\ a \in Archives \ Uploads /\ Fresh(a)
    /\ op' = [op EXCEPT ![o] = [pc |-> "create", srv |-> s, arc |-> a, path |-> a]]
    /\ queue' = [queue EXCEPT !["backup"] = Append(@, o)]
    /\ UNCHANGED <<now, rows, disk, worlds, running, inUse>>

\* The semaphore is entered, the row inserted and not committed, and the next
\* semaphore asked for.
CreateEnters(o) ==
    /\ op[o].pc = "create" /\ CanEnter(o, "backup")
    /\ op' = [op EXCEPT ![o].pc = "tar"]
    /\ inUse' = [inUse EXCEPT !["backup"] = @ + 1]
    /\ queue' = [queue EXCEPT !["backup"] = Tail(@), !["file"] = Append(@, o)]
    /\ UNCHANGED <<now, rows, disk, worlds, running>>

\* The executor starts writing the temporary file.
CreateWrites(o) ==
    /\ op[o].pc = "tar" /\ CanEnter(o, "file")
    /\ op' = [op EXCEPT ![o].pc = "writing"]
    /\ pending' = pending \cup {op[o].arc}
    /\ inUse' = [inUse EXCEPT !["file"] = @ + 1]
    /\ queue' = [queue EXCEPT !["file"] = Tail(@)]
    /\ UNCHANGED <<now, rows, canon, failed, worlds, running>>

\* Mutant: the semaphore is not left.
CreateRolledBack_Leaks(o) ==
    /\ "tar" \in Faults
    /\ op[o].pc = "writing"
    /\ pending' = pending \ {op[o].arc}
    /\ Release({"backup"}) /\ Finish(o)
    /\ UNCHANGED <<now, rows, canon, failed, worlds, running, queue>>

\* Writing or the commit fails: the temporary file is removed.
CreateRolledBack(o) ==
    /\ "tar" \in Faults
    /\ op[o].pc = "writing"
    /\ pending' = pending \ {op[o].arc}
    /\ Release(Held(o)) /\ Finish(o)
    /\ UNCHANGED <<now, rows, canon, failed, worlds, running, queue>>

-----------------------------------------------------------------------------
(* upload_backup                                                             *)

BeginUpload(o, s, a) ==
    /\ op[o].pc = "idle" /\ a \in Uploads /\ Fresh(a)
    /\ op' = [op EXCEPT ![o] = [pc |-> "upload", srv |-> s, arc |-> a, path |-> None]]
    /\ queue' = [queue EXCEPT !["backup"] = Append(@, o)]
    /\ UNCHANGED <<now, rows, disk, worlds, running, inUse>>

\* The final name is chosen and the temporary file opened.
UploadOpens(o) ==
    /\ op[o].pc = "upload" /\ CanEnter(o, "backup")
    /\ op' = [op EXCEPT ![o].pc = "reading", ![o].path = <<op[o].srv, now>>]
    /\ pending' = pending \cup {op[o].arc}
    /\ inUse' = [inUse EXCEPT !["backup"] = @ + 1]
    /\ queue' = [queue EXCEPT !["backup"] = Tail(@)]
    /\ UNCHANGED <<now, rows, canon, failed, worlds, running>>

\* Too large, unsafe or not an archive: the temporary file goes, and whatever
\* is at the final name.
UploadRejected(o) ==
    /\ "upload" \in Faults
    /\ op[o].pc = "reading"
    /\ pending' = pending \ {op[o].arc}
    /\ canon' = [canon EXCEPT ![op[o].path] = None]
    /\ Release(Held(o)) /\ Finish(o)
    /\ UNCHANGED <<now, rows, failed, worlds, running, queue>>

-----------------------------------------------------------------------------
(* The end of a creation and of an upload                                    *)

CommitRow(o) == rows' = [rows EXCEPT ![op[o].arc] = op[o].path]

\* Mutant: the file is promoted although the commit failed.
Promotes_NoCommit(o) ==
    /\ op[o].pc \in {"writing", "reading"}
    /\ canon' = [canon EXCEPT ![op[o].path] = op[o].arc]
    /\ pending' = pending \ {op[o].arc}
    /\ Release(Held(o)) /\ Finish(o)
    /\ UNCHANGED <<now, rows, failed, worlds, running, queue>>

\* The row is committed and the temporary file takes its final name.
Promotes(o) ==
    /\ op[o].pc \in {"writing", "reading"}
    /\ CommitRow(o)
    /\ canon' = [canon EXCEPT ![op[o].path] = op[o].arc]
    /\ pending' = pending \ {op[o].arc}
    /\ Release(Held(o)) /\ Finish(o)
    /\ UNCHANGED <<now, failed, worlds, running, queue>>

\* Mutant: the handler of failures before the commit.
PromotionFails_Unlinks(o) ==
    /\ "replace" \in Faults
    /\ op[o].pc \in {"writing", "reading"}
    /\ CommitRow(o)
    /\ pending' = pending \ {op[o].arc} /\ UNCHANGED failed
    /\ Release(Held(o)) /\ Finish(o)
    /\ UNCHANGED <<now, canon, worlds, running, queue>>

\* The row is committed but os.replace fails: _preserve_post_commit_temp moves
\* the file to .failed/, or leaves it where it is.
PromotionFails(o) ==
    /\ "replace" \in Faults
    /\ op[o].pc \in {"writing", "reading"}
    /\ CommitRow(o)
    /\ \/ pending' = pending \ {op[o].arc} /\ failed' = failed \cup {op[o].arc}
       \/ "move" \in Faults /\ UNCHANGED <<pending, failed>>
    /\ Release(Held(o)) /\ Finish(o)
    /\ UNCHANGED <<now, canon, worlds, running, queue>>

-----------------------------------------------------------------------------
(* restore_backup and delete_backup                                          *)

\* _backup_current_server_state and _extract_backup_to_directory: nothing
\* happens when the archive is gone.
Extract(path, s) ==
    IF canon[path] = None
      THEN UNCHANGED worlds
      ELSE /\ aside' = [aside EXCEPT ![s] = @ \cup {dirs[s]}]
           /\ \E c \in {canon[path]} \cup (IF "extract" \in Faults THEN {"partial"} ELSE {}) :
                dirs' = [dirs EXCEPT ![s] = c]

\* The row is read and the target server's status checked; a semaphore that is
\* free is entered without suspending.
BeginRestore(o, a, s) ==
    /\ op[o].pc = "idle" /\ rows[a] # None /\ s \notin running
    /\ IF Free("file")
         THEN Extract(rows[a], s) /\ UNCHANGED <<op, queue>>
         ELSE /\ op' = [op EXCEPT ![o] =
                          [pc |-> "restore", srv |-> s, arc |-> a, path |-> rows[a]]]
              /\ queue' = [queue EXCEPT !["file"] = Append(@, o)]
              /\ UNCHANGED worlds
    /\ UNCHANGED <<now, rows, disk, running, inUse>>

RestoreProceeds(o) ==
    /\ op[o].pc = "restore" /\ CanEnter(o, "file")
    /\ Extract(op[o].path, op[o].srv)
    /\ queue' = [queue EXCEPT !["file"] = Tail(@)]
    /\ Finish(o)
    /\ UNCHANGED <<now, rows, disk, running, inUse>>

\* The file first, then the row; the second may fail.
DeleteBackup(a) ==
    /\ rows[a] # None
    /\ canon' = [canon EXCEPT ![rows[a]] = None]
    /\ \/ rows' = [rows EXCEPT ![a] = None]
       \/ "delete" \in Faults /\ UNCHANGED rows
    /\ UNCHANGED <<now, pending, failed, worlds, running, op, sems>>

-----------------------------------------------------------------------------
(* The sweep of stale files, and the environment                             *)

\* No request still writes a file that is older than the retention.
SweepPending(a) ==
    /\ "sweep" \in Faults
    /\ a \in pending /\ \A o \in Slots : op[o].arc # a
    /\ pending' = pending \ {a}
    /\ UNCHANGED <<now, rows, canon, failed, worlds, running, op, sems>>

SweepFailed(a) ==
    /\ "sweep" \in Faults
    /\ a \in failed
    /\ failed' = failed \ {a}
    /\ UNCHANGED <<now, rows, canon, pending, worlds, running, op, sems>>

\* The API dies: requests are gone, at worst one of them between its commit and
\* its rename or in the middle of an extraction.
Crash ==
    /\ "crash" \in Faults
    /\ op' = [o \in Slots |-> NoOp]
    /\ inUse' = [x \in Sems |-> 0]
    /\ queue' = [x \in Sems |-> <<>>]
    /\ \/ UNCHANGED <<rows, worlds>>
       \/ /\ \E o \in Slots : op[o].pc \in {"writing", "reading"} /\ CommitRow(o)
          /\ UNCHANGED worlds
       \/ /\ \E s \in Servers \ running :
               /\ dirs' = [dirs EXCEPT ![s] = "partial"]
               /\ aside' = [aside EXCEPT ![s] = @ \cup {dirs[s]}]
          /\ \E p \in Paths : canon[p] # None
          /\ UNCHANGED rows
    /\ UNCHANGED <<now, disk, running>>

Tick ==
    /\ now < MaxNow
    /\ now' = now + 1
    /\ UNCHANGED <<rows, disk, worlds, running, op, sems>>

\* The lifecycle of a server does not look at backups.
ServerToggles(s) ==
    /\ running' = IF s \in running THEN running \ {s} ELSE running \cup {s}
    /\ UNCHANGED <<now, rows, disk, worlds, op, sems>>

-----------------------------------------------------------------------------
RequestStep(o) ==
    \/ Refused(o)
    \/ CreateEnters(o) \/ CreateWrites(o) \/ CreateRolledBack(o)
    \/ UploadOpens(o) \/ UploadRejected(o)
    \/ Promotes(o) \/ PromotionFails(o)
    \/ RestoreProceeds(o)

Next ==
    \/ \E o \in Slots, s \in Servers, a \in Archives :
         BeginCreate(o, s, a) \/ BeginUpload(o, s, a) \/ BeginRestore(o, a, s)
    \/ \E o \in Slots : RequestStep(o)
    \/ \E a \in Archives : DeleteBackup(a) \/ SweepPending(a) \/ SweepFailed(a)
    \/ \E s \in Servers : ServerToggles(s)
    \/ Tick \/ Crash

Spec == Init /\ [][Next]_vars

\* The loop resumes waiters, the executor ends, clients finish their uploads.
FairSpec == Spec /\ \A o \in Slots : WF_vars(RequestStep(o))

-----------------------------------------------------------------------------
(* Properties.                                                               *)

\* The atomic-rename pattern: an archive under its final name always belongs to
\* a committed row, whatever fails or crashes and whatever names coincide.
NoOrphanArchive ==
    \A p \in Paths : canon[p] # None => \E a \in Archives : rows[a] = p

\* Every exit path of a request leaves the semaphores it entered, and no
\* semaphore admits more than its limit.
SemaphoresAccounted ==
    \A x \in Sems :
      /\ inUse[x] = Cardinality({o \in Slots : x \in Held(o)})
      /\ inUse[x] <= Limit[x]

Lost(a) ==
    rows[a] # None /\ canon[rows[a]] # a /\ a \notin pending \cup failed

\* Two uploads to a server in one second have one name for two archives.
NameShared(a) ==
    /\ rows[a] # None
    /\ \/ \E b \in Archives \ {a} : rows[b] = rows[a]
       \/ \E o \in Slots : op[o].pc = "reading" /\ op[o].path = rows[a]

\* service.py:259, "deleting it would cause silent data loss against a
\* committed DB row": the data of a committed row, under its final name or
\* recoverable from .pending/ or .failed/, is lost only to its own deletion, to the
\* sweep of what was never recovered, or, if it was uploaded, to another upload of
\* the same second: one that is stored, that is deleted, or that is rejected.
ArchiveKept ==
    [][\A a \in Archives :
         Lost(a)' => \/ Lost(a)
                     \/ DeleteBackup(a) \/ SweepPending(a) \/ SweepFailed(a)
                     \/ NameShared(a)]_vars

\* A restore that had to wait puts the archive of its own row into the server
\* directory, or leaves the directory alone, whatever was deleted and stored
\* meanwhile; only an upload may turn out to be another upload.
RestoresItsBackup ==
    [][\A o \in Slots :
         RestoreProceeds(o) =>
           \/ dirs'[op[o].srv] \in {op[o].arc, dirs[op[o].srv], "partial"}
           \/ {op[o].arc, dirs'[op[o].srv]} \subseteq Uploads]_vars

\* A request that waits for a semaphore, a tar or an upload ends.
RequestsEnd == \A o \in Slots : op[o].pc # "idle" ~> op[o].pc = "idle"
=============================================================================
