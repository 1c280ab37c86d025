---------------------------- MODULE FileHistory ----------------------------
(***************************************************************************)
(* FileHistoryService (app/files): the versions kept of one file of a       *)
(* server, each a row of file_edit_history and a file in ./file_history.    *)
(* A write or a restore first backs up what the file holds, under the next  *)
(* free version number, then overwrites the file.                           *)
(*                                                                          *)
(* aiofiles runs every open, read and write in a worker thread, so a request *)
(* is suspended there; database calls and unlinks do not suspend.  An action *)
(* is one such file operation, or the code between two of them, with the      *)
(* outcomes its failures have.  A process that dies inside an action leaves   *)
(* what the failing outcome leaves, and Crash follows.                        *)
(***************************************************************************)
EXTENDS Integers, FiniteSets

CONSTANTS
    Requests,        \* concurrent requests
    Contents,        \* what clients write
    MaxKept,         \* max_versions_per_file
    Retries,         \* _VERSION_RESERVATION_RETRIES
    Faults,          \* failures that may happen, a subset of FaultKinds
    LastSecond,      \* bound: seconds of the clock
    LastVersion,     \* bound: no request begins that could go beyond it
    Cuts             \* bound: removals that are cut short and not made good yet

\* A backup that fails; a removal of versions cut short, by an unlink or a
\* transaction that fails or by the death of the process; the death itself; an
\* upload past the limit.
FaultKinds == {"backup", "removal", "crash", "toolarge"}

ASSUME HistoryAssumption ==
    /\ MaxKept \in Nat \ {0}
    /\ Retries \in Nat \ {0}
    /\ Faults \subseteq FaultKinds
    /\ LastSecond \in Nat
    /\ LastVersion \in Nat
    /\ Cuts \in Nat
    /\ Contents \cap {"absent", "empty", "torn"} = {}

\* An opened file is empty until the data reaches it, and holds a mixture of two
\* texts when two handles wrote it.
Texts == Contents \cup {"empty", "torn"}

VARIABLES
    now,    \* the second shown by the clock
    live,   \* what the server's file holds, or "absent"
    rows,   \* committed rows of file_edit_history
    disk,   \* the version files: <<version, stamp>> -> text
    op,     \* requests in progress
    alike,  \* history: two names have been made in one second
    parted, \* history: versions of which row or file went, and the other not
    late    \* history: rows inserted since a clean-up last went through

debts == <<parted, late>>
vars == <<now, live, rows, disk, op, alike, parted, late>>

Pc == {"idle", "reading", "opening", "filling", "inserting", "getting",
       "truncating", "writing"}
Kinds == {"none", "edit", "upload"}
Row == [version: Nat, stamp: Nat, text: Texts]

\* backup tells whether a restore backs up first, new what the request will write,
\* text what it read and backs up (before that, what the version it restores was
\* made of), linked whether the file it
\* has open still has a name.
OpRecord == [pc: Pc, kind: Kinds, backup: BOOLEAN, new: Texts \cup {"absent"},
             text: Texts \cup {"absent"}, version: Nat, stamp: Nat,
             attempt: Nat, linked: BOOLEAN]
NoOp == [pc |-> "idle", kind |-> "none", backup |-> FALSE, new |-> "absent",
         text |-> "absent", version |-> 0, stamp |-> 0, attempt |-> 0, linked |-> FALSE]

\* v{version:03d}_{timestamp}
Name(r) == <<r.version, r.stamp>>

TypeOK ==
    /\ now \in Nat
    /\ live \in Texts \cup {"absent"}
    /\ rows \subseteq Row
    /\ DOMAIN disk \subseteq Nat \X Nat
    /\ disk \in [DOMAIN disk -> Texts]
    /\ op \in [Requests -> OpRecord]
    /\ alike \in BOOLEAN
    /\ parted \subseteq Row
    /\ late \subseteq Row

Init ==
    /\ now = 0
    /\ live \in Contents \cup {"absent"}
    /\ rows = {}
    /\ disk = [n \in {} |-> "empty"]
    /\ op = [o \in Requests |-> NoOp]
    /\ alike = FALSE
    /\ parted = {}
    /\ late = {}

-----------------------------------------------------------------------------
(* The rows and the files                                                    *)

Newest(r) == \A s \in rows : s.version <= r.version

\* reserve_next_version_number: MAX(version_number) + 1.
NextVersions == IF rows = {} THEN {1} ELSE {r.version + 1 : r \in {s \in rows : Newest(s)}}

\* Mutant: one version too many is kept.
Kept_OneMore(set) == {r \in set : Cardinality({s \in set : s.version > r.version}) <= MaxKept}

\* get_excess_versions and the loop that removes them.
Kept(set) == {r \in set : Cardinality({s \in set : s.version > r.version}) < MaxKept}

\* The row that a request inserts, and the rows with it.
Version(r) == [version |-> r.version, stamp |-> r.stamp, text |-> r.text]
With(r) == rows \cup {Version(r)}

Put(name, text) ==
    disk' = [n \in DOMAIN disk \cup {name} |-> IF n = name THEN text ELSE disk[n]]
Unlink(names) == disk' = [n \in DOMAIN disk \ names |-> disk[n]]
Names(set) == {Name(r) : r \in set}

\* A removal may be cut short.
CutShort == "removal" \in Faults /\ Cardinality(parted \cup late) < Cuts

\* A request that has a file open when it is unlinked writes to a file that
\* has no name any more.
Cut(r, names) ==
    IF r.pc = "filling" /\ Name(r) \in names THEN [r EXCEPT !.linked = FALSE] ELSE r
CutLive(r) == IF r.pc = "writing" THEN [r EXCEPT !.linked = FALSE] ELSE r

\* What a handle leaves of a file: its own text, unless another handle has
\* written it since it was truncated.
Overlay(old, text) == IF old = "empty" THEN {text} ELSE {text, "torn"}

Becomes(o, r) == op' = [op EXCEPT ![o] = r]
Ends(o) == Becomes(o, NoOp)

\* The backup is over, with a version or without, and the server's file is opened.
ToWrite(r) == [NoOp EXCEPT !.pc = "truncating", !.kind = r.kind, !.new = r.new]

-----------------------------------------------------------------------------
(* Beginning: write_file, upload_file, restore_from_version                  *)

Busy == {o \in Requests : op[o].pc # "idle"}
Room == \A v \in {r.version : r \in rows} \cup {op[o].version : o \in Requests} :
            v + Cardinality(Busy) + Cardinality(parted \cup late) < LastVersion

BeginWrite(o, new, backup) ==
    /\ op[o].pc = "idle" /\ Room
    /\ Becomes(o, [NoOp EXCEPT !.kind = "edit", !.new = new,
                               !.pc = IF backup /\ live # "absent" THEN "reading"
                                                                   ELSE "truncating"])
    /\ UNCHANGED <<now, live, rows, disk>>

\* An upload replaces the file without a version of what it held.
BeginUpload(o, new) ==
    /\ op[o].pc = "idle"
    /\ Becomes(o, [NoOp EXCEPT !.kind = "upload", !.new = new, !.pc = "truncating"])
    /\ UNCHANGED <<now, live, rows, disk>>

\* get_version_content found the row and its file; the content is read later.
BeginRestore(o, r, backup) ==
    /\ op[o].pc = "idle" /\ Room
    /\ r \in rows /\ Name(r) \in DOMAIN disk
    /\ Becomes(o, [NoOp EXCEPT !.kind = "edit", !.text = r.text, !.backup = backup,
                               !.version = r.version, !.stamp = r.stamp, !.pc = "getting"])
    /\ UNCHANGED <<now, live, rows, disk>>

\* Mutant: any file of the version number is read.
GetsVersion_ByNumber(o) ==
    /\ op[o].pc = "getting"
    /\ \E n \in DOMAIN disk :
        n[1] = op[o].version /\ Becomes(o, ToWrite([op[o] EXCEPT !.new = disk[n]]))
    /\ UNCHANGED <<now, live, rows, disk>>

\* The version's content was read, or its file was gone and the request fails.
GetsVersion(o) ==
    /\ op[o].pc = "getting"
    /\ LET r == [op[o] EXCEPT !.new = disk[Name(op[o])]]
       IN  IF Name(op[o]) \notin DOMAIN disk THEN Ends(o)
           ELSE IF op[o].backup /\ live # "absent"
           THEN Becomes(o, [ToWrite(r) EXCEPT !.pc = "reading"])
           ELSE Becomes(o, ToWrite(r))
    /\ UNCHANGED <<now, live, rows, disk>>

-----------------------------------------------------------------------------
(* create_version_backup                                                     *)

Unstamped(o) ==
    /\ \A r \in rows : r.stamp # now
    /\ \A p \in Requests \ {o} : op[p].pc = "idle" \/ op[p].stamp # now

\* The newest version has the hash of the text read: nothing to back up.
Unchanged(r) == \E l \in rows : Newest(l) /\ l.text = r.text

\* One attempt up to the backup file's open: the request goes on to its write, or
\* to a file named by the next number and the second.
Attempts(r) ==
    (IF Unchanged(r) THEN {ToWrite(r)} ELSE {})
    \cup {[r EXCEPT !.pc = "opening", !.version = v, !.stamp = now] :
             v \in {n \in NextVersions : Unchanged(r) => r.text = "torn"}}

\* After an attempt that lost its number: another one, or no backup.
Again(r) ==
    IF r.attempt < Retries THEN Attempts([r EXCEPT !.attempt = @ + 1])
                           ELSE {ToWrite(r)}

\* write_file_content and restore_from_history read the current content.  A file
\* that was deleted meanwhile fails the backup, and only the backup.
ReadsCurrent(o) ==
    /\ op[o].pc = "reading"
    /\ \/ /\ live # "absent"
          /\ \E r \in Attempts([op[o] EXCEPT !.text = live, !.attempt = 1]) : Becomes(o, r)
       \/ live = "absent" /\ Becomes(o, ToWrite(op[o]))
    /\ UNCHANGED <<now, live, rows, disk>>

\* The backup file is opened, which truncates whatever had the name ...
OpensVersion(o) ==
    /\ op[o].pc = "opening"
    /\ Put(Name(op[o]), "empty")
    /\ Becomes(o, [op[o] EXCEPT !.pc = "filling", !.linked = TRUE])
    /\ UNCHANGED <<now, live, rows>>

\* ... and written and closed.
FillsVersion(o) ==
    /\ op[o].pc = "filling"
    /\ IF op[o].linked
       THEN \E t \in Overlay(disk[Name(op[o])], op[o].text) : Put(Name(op[o]), t)
       ELSE UNCHANGED disk
    /\ Becomes(o, [op[o] EXCEPT !.pc = "inserting", !.linked = FALSE])
    /\ UNCHANGED <<now, live, rows>>

Taken(v) == \E r \in rows : r.version = v

\* The row is inserted and committed, then _cleanup_excess_versions unlinks the
\* files of the oldest versions and commits the deletion of their rows.
Inserts(o) ==
    LET all == With(op[o])
        gone == Names(all \ Kept(all))
    IN  /\ op[o].pc = "inserting" /\ ~Taken(op[o].version)
        /\ rows' = Kept(all)
        /\ Unlink(gone)
        /\ op' = [p \in Requests |->
                    IF p = o THEN ToWrite(op[o]) ELSE Cut(op[p], gone)]
        /\ parted' = parted \ {Version(op[o])}
        /\ late' = {}
        /\ UNCHANGED <<now, live>>

\* The row is committed, and the clean-up is cut short: its transaction never
\* commits, so every row stays, while the files of the newest of the versions in
\* excess are unlinked already.  The caller takes it for a failed backup.
CleanupFails(o) ==
    LET all == With(op[o])
    IN  /\ CutShort
        /\ op[o].pc = "inserting" /\ ~Taken(op[o].version)
        /\ rows' = all
        /\ \E gone \in SUBSET (all \ Kept(all)) :
            /\ \A r \in gone, s \in all \ Kept(all) : s.version > r.version => s \in gone
            /\ Unlink(Names(gone))
            /\ op' = [p \in Requests |->
                        IF p = o THEN ToWrite(op[o]) ELSE Cut(op[p], Names(gone))]
            /\ parted' = (parted \ {Version(op[o])}) \cup gone
        /\ late' = late \cup {Version(op[o])}
        /\ UNCHANGED <<now, live>>

\* Mutant: the file of the attempt that lost stays.
Collides_Leaves(o) ==
    /\ op[o].pc = "inserting" /\ Taken(op[o].version)
    /\ \E r \in Attempts([op[o] EXCEPT !.attempt = @ + 1]) : Becomes(o, r)
    /\ UNCHANGED <<now, live, rows, disk>>

\* Mutant: every file of the number that was lost is unlinked.
Collides_ByNumber(o) ==
    /\ op[o].pc = "inserting" /\ Taken(op[o].version)
    /\ Unlink({n \in DOMAIN disk : n[1] = op[o].version})
    /\ \E r \in Attempts([op[o] EXCEPT !.attempt = @ + 1]) : Becomes(o, r)
    /\ UNCHANGED <<now, live, rows>>

\* uq_file_edit_history_server_path_version refuses the row: the file of this
\* attempt is unlinked and another attempt made, or the backup given up.
Collides(o) ==
    /\ op[o].pc = "inserting" /\ Taken(op[o].version)
    /\ Unlink({Name(op[o])})
    /\ \E r \in Again(op[o]) :
          op' = [p \in Requests |-> IF p = o THEN r ELSE Cut(op[p], {Name(op[o])})]
    /\ UNCHANGED <<now, live, rows>>

\* The same where the unlink fails, which is logged, and the file stays.
CollidesLeaving(o) ==
    /\ CutShort
    /\ op[o].pc = "inserting" /\ Taken(op[o].version)
    /\ \E r \in Again(op[o]) : Becomes(o, r)
    /\ parted' = parted \cup {Version(op[o])}
    /\ UNCHANGED <<now, live, rows, disk, late>>

\* Another error of the backup, of the database or of a file: the caller logs it
\* and goes on to its write, and the version file stays, with whatever it holds.
BackupFails(o) ==
    /\ "backup" \in Faults
    /\ op[o].pc \in {"reading", "opening", "filling", "inserting"}
    /\ Becomes(o, ToWrite(op[o]))
    /\ UNCHANGED <<now, live, rows, disk>>

-----------------------------------------------------------------------------
(* The server's file                                                         *)

OpensLive(o) ==
    /\ op[o].pc = "truncating"
    /\ live' = "empty"
    /\ Becomes(o, [op[o] EXCEPT !.pc = "writing", !.linked = TRUE])
    /\ UNCHANGED <<now, rows, disk>>

WritesLive(o) ==
    /\ op[o].pc = "writing"
    /\ IF op[o].linked THEN live' \in Overlay(live, op[o].new) ELSE UNCHANGED live
    /\ Ends(o)
    /\ UNCHANGED <<now, rows, disk>>

\* An upload past FILE_MAX_UPLOAD_BYTES unlinks the file it was writing.
UploadTooLarge(o) ==
    /\ "toolarge" \in Faults
    /\ op[o].pc = "writing" /\ op[o].kind = "upload"
    /\ live' = "absent"
    /\ op' = [p \in Requests |-> IF p = o THEN NoOp ELSE CutLive(op[p])]
    /\ UNCHANGED <<now, rows, disk>>

\* Another file takes the name, or none: what has the old file open goes on
\* writing to it, wherever it is now.
Replaced(text) ==
    /\ live' = text
    /\ op' = [p \in Requests |-> CutLive(op[p])]
    /\ UNCHANGED <<now, rows, disk>>

\* delete_file, or rename_file or move_file to another name, where the versions
\* do not follow.
DeleteLive == live # "absent" /\ Replaced("absent")

\* rename_file or move_file of another file to this name.  A rename never replaces
\* a file, a move does, and neither keeps a version.
RenameHere(text) == live = "absent" /\ Replaced(text)
MoveHere(text) == Replaced(text)

\* An uploaded archive is extracted into the open file: nothing suspends.
Extract(text) ==
    /\ live' = text
    /\ UNCHANGED <<now, rows, disk, op>>

-----------------------------------------------------------------------------
(* Versions that are removed, the clock and a crash                          *)

\* The files are unlinked, and the deletion of the rows committed.
Removes(set) ==
    LET names == Names(set)
    IN  /\ rows' = rows \ set
        /\ Unlink(names)
        /\ op' = [p \in Requests |-> Cut(op[p], names)]
        /\ parted' = parted \ set
        /\ late' = late \ set
        /\ UNCHANGED <<now, live>>

\* The removal is cut short: some files are unlinked, and every row stays.
RemovalFails(set) ==
    /\ CutShort
    /\ \E gone \in SUBSET set :
        /\ Unlink(Names(gone))
        /\ op' = [p \in Requests |-> Cut(op[p], Names(gone))]
        /\ parted' = parted \cup gone
    /\ UNCHANGED <<now, live, rows, late>>

\* delete_version.
DeleteVersion(r) == r \in rows /\ (Removes({r}) \/ RemovalFails({r}))

\* cleanup_old_versions; created_at is the second of the stamp.
CleanupOld(cutoff) ==
    LET old == {r \in rows : r.stamp < cutoff}
    IN  old # {} /\ (Removes(old) \/ RemovalFails(old))

Tick == now < LastSecond /\ now' = now + 1 /\ UNCHANGED <<live, rows, disk, op>>

Crash ==
    /\ "crash" \in Faults
    /\ Busy # {}
    /\ op' = [o \in Requests |-> NoOp]
    /\ UNCHANGED <<now, live, rows, disk>>

\* History: the file that a step is about to open has the second of another one.
Stamps ==
    alike' = (alike \/ \E o \in Requests :
                          op'[o].pc = "opening" /\ op'[o] # op[o] /\ ~Unstamped(o))

RequestStep(o) ==
    /\ \/ /\ \/ GetsVersion(o) \/ ReadsCurrent(o) \/ OpensVersion(o) \/ FillsVersion(o)
             \/ Collides(o) \/ BackupFails(o)
             \/ OpensLive(o) \/ WritesLive(o) \/ UploadTooLarge(o)
          /\ UNCHANGED debts
       \/ Inserts(o) \/ CleanupFails(o) \/ CollidesLeaving(o)
    /\ Stamps

Begins(o) ==
    \/ \E c \in Contents, b \in BOOLEAN : BeginWrite(o, c, b)
    \/ \E c \in Contents : BeginUpload(o, c)
    \/ \E r \in rows, b \in BOOLEAN : BeginRestore(o, r, b)

\* Bound: once two names have coincided the requests in progress end, and nothing
\* else happens.
Next ==
    \/ \E o \in Requests : RequestStep(o)
    \/ /\ \/ /\ \/ \E o \in Requests : Begins(o)
                \/ \E c \in Contents : RenameHere(c) \/ MoveHere(c) \/ Extract(c)
                \/ DeleteLive \/ Tick \/ Crash
             /\ UNCHANGED debts
          \/ \E r \in rows : DeleteVersion(r)
          \/ \E cutoff \in 1..now : CleanupOld(cutoff)
       /\ ~alike /\ UNCHANGED alike

Spec == Init /\ [][Next]_vars

-----------------------------------------------------------------------------
(* Properties                                                                *)

\* Unless two version files were named in one second, every committed row has its
\* file, and the file holds what was backed up, but for the rows whose own removal
\* was cut short: an attempt that lost its number, an excess version, a deletion or
\* a failure takes no other version with it.
HistoryKept ==
    alike \/ \A r \in rows \ parted : Name(r) \in DOMAIN disk /\ disk[Name(r)] = r.text

\* The unique constraint and the retries never give two rows one number, and the
\* history exceeds its limit by those rows only that were inserted since a clean-up
\* last went through.
HistoryBounded ==
    /\ \A r, s \in rows : r.version = s.version => r = s
    /\ Cardinality(rows \ late) <= MaxKept

Stray(n) ==
    /\ n \in DOMAIN disk
    /\ \A r \in rows : Name(r) # n
    /\ \A o \in Requests : op[o].pc \in {"filling", "inserting"} => Name(op[o]) # n

\* A file in ./file_history without a row, and without a request about to insert
\* one, is left by a failed backup, an unlink of its own that failed or a crash only:
\* a number that was lost to another writer, an excess version or a deletion leaves
\* nothing else behind.
NoStrayFiles ==
    [][\A n \in DOMAIN disk' :
         Stray(n)' => \/ Stray(n) \/ Crash
                      \/ n \in Names(parted')
                      \/ \E o \in Requests : BackupFails(o)]_vars

\* Unless two version files were named in one second, a restore writes what the
\* version it was asked for was made of, although versions are deleted and
\* renumbered while it waits for its file.
RestoresTheVersion ==
    [][\A o \in Requests :
         op[o].pc = "getting" /\ op'[o].pc \in {"reading", "truncating"}
            => alike \/ op'[o].new = op[o].text]_vars
=============================================================================
