--------------------------- MODULE BackupsProofs ---------------------------
(***************************************************************************)
(* Proofs about the backup catalogue: type correctness, no archive without a *)
(* row, and semaphores that count exactly the requests inside.              *)
(***************************************************************************)
EXTENDS Backups, FiniteSetTheorems, TLAPS

\* A request that stores an archive knows which and where.
OpNamed(r) ==
    /\ r.pc \in {"create", "upload", "tar", "writing", "reading"} => r.arc \in Archives
    /\ r.pc \in {"create", "tar", "writing", "reading", "restore"} => r.path \in Paths
    /\ r.pc \in {"upload", "restore"} => r.srv \in Servers
OpsNamed == \A o \in Slots : OpNamed(op[o])

TypeInv == TypeOK /\ OpsNamed

LEMMA Constants ==
    /\ Archives \subseteq Paths /\ Archives \subseteq Contents
    /\ "original" \in Contents /\ "partial" \in Contents
    /\ None \notin Paths /\ None \notin Archives
    /\ NoOp \in OpRecord /\ OpNamed(NoOp)
    /\ \A s \in Servers, n \in 0..MaxNow : <<s, n>> \in Paths
    /\ Sems = {"backup", "file"}
BY BackupAssumption DEF Paths, Contents, NoOp, OpRecord, OpNamed, Pc, Sems

\* A request that only moves on keeps what it is about.
LEMMA OpFields ==
    ASSUME NEW r \in OpRecord, NEW pc \in Pc
    PROVE  /\ [r EXCEPT !.pc = pc] \in OpRecord
           /\ [r EXCEPT !.pc = pc].pc = pc
           /\ [r EXCEPT !.pc = pc].srv = r.srv
           /\ [r EXCEPT !.pc = pc].arc = r.arc
           /\ [r EXCEPT !.pc = pc].path = r.path
BY DEF OpRecord

LEMMA OpChanges ==
    ASSUME TypeInv, NEW o \in Slots, NEW t \in OpRecord, OpNamed(t),
           op' = [op EXCEPT ![o] = t]
    PROVE  op' \in [Slots -> OpRecord] /\ OpsNamed'
<1>1. op' \in [Slots -> OpRecord]
  BY DEF TypeInv, TypeOK
<1>2. \A q \in Slots : op'[q] = op[q] \/ op'[q] = t
  BY DEF TypeInv, TypeOK
<1>3. QED
  BY <1>1, <1>2 DEF TypeInv, OpsNamed, OpNamed

LEMMA OpFinishes ==
    ASSUME TypeInv, NEW o \in Slots, Finish(o)
    PROVE  op' \in [Slots -> OpRecord] /\ OpsNamed'
BY OpChanges, Constants DEF Finish

LEMMA OpMovesOn ==
    ASSUME TypeInv, NEW o \in Slots, op[o].pc \in {"create", "tar"},
           NEW pc \in {"tar", "writing"}, op' = [op EXCEPT ![o].pc = pc]
    PROVE  op' \in [Slots -> OpRecord] /\ OpsNamed'
<1> DEFINE t == [op[o] EXCEPT !.pc = pc]
<1>1. op[o] \in OpRecord /\ pc \in Pc
  BY DEF TypeInv, TypeOK, Pc
<1>2. t \in OpRecord /\ t.pc = pc /\ t.arc = op[o].arc /\ t.path = op[o].path
  BY <1>1, OpFields
<1>3. op' = [op EXCEPT ![o] = t]
  OBVIOUS
<1> HIDE DEF t
<1>4. OpNamed(t)
  BY <1>2 DEF OpNamed, TypeInv, OpsNamed
<1>5. QED
  BY <1>2, <1>3, <1>4, OpChanges

LEMMA WaitersTyped ==
    ASSUME TypeOK, NEW x \in Sems, NEW o \in Slots
    PROVE  /\ Append(queue[x], o) \in Seq(Slots)
           /\ queue[x] # <<>> => Tail(queue[x]) \in Seq(Slots)
BY DEF TypeOK

LEMMA QueueChanges ==
    ASSUME TypeOK, NEW x \in Sems, NEW q \in Seq(Slots), queue' = [queue EXCEPT ![x] = q]
    PROVE  queue' \in [Sems -> Seq(Slots)]
BY DEF TypeOK

LEMMA Joins ==
    ASSUME TypeOK, NEW x \in Sems, NEW o \in Slots,
           queue' = [queue EXCEPT ![x] = Append(@, o)]
    PROVE  queue' \in [Sems -> Seq(Slots)]
BY WaitersTyped, QueueChanges

LEMMA Leaves ==
    ASSUME TypeOK, NEW x \in Sems, queue[x] # <<>>,
           queue' = [queue EXCEPT ![x] = Tail(@)]
    PROVE  queue' \in [Sems -> Seq(Slots)]
<1>1. Tail(queue[x]) \in Seq(Slots)
  BY DEF TypeOK
<1>2. QED
  BY <1>1, QueueChanges

LEMMA ReleaseTyped ==
    ASSUME TypeOK, SemaphoresAccounted, NEW o \in Slots, Release(Held(o))
    PROVE  inUse' \in [Sems -> Nat]
<1>1. \A x \in Held(o) : x \in Sems => inUse[x] >= 1
  <2> TAKE x \in Held(o)
  <2> HAVE x \in Sems
  <2>1. o \in {q \in Slots : x \in Held(q)} /\ IsFiniteSet({q \in Slots : x \in Held(q)})
    BY BackupAssumption, FS_Subset
  <2>2. Cardinality({q \in Slots : x \in Held(q)}) # 0
    BY <2>1, FS_EmptySet
  <2>3. QED
    BY <2>2 DEF SemaphoresAccounted, TypeOK
<1>2. QED
  BY <1>1 DEF Release, TypeOK

\* Nobody is inside, and the counters say so.
LEMMA NobodyInside ==
    ASSUME \A x \in Sems : {o \in Slots : x \in Held(o)} = {}, inUse = [x \in Sems |-> 0]
    PROVE  SemaphoresAccounted
<1> SUFFICES ASSUME NEW x \in Sems
             PROVE  /\ inUse[x] = Cardinality({o \in Slots : x \in Held(o)})
                    /\ inUse[x] <= Limit[x]
  BY DEF SemaphoresAccounted
<1>1. Cardinality({o \in Slots : x \in Held(o)}) = 0
  BY FS_EmptySet
<1>2. inUse[x] = 0 /\ Limit[x] \in Nat
  BY BackupAssumption
<1>3. QED
  BY <1>1, <1>2

LEMMA InitInv == Init => TypeInv /\ SemaphoresAccounted /\ NoOrphanArchive
<1> SUFFICES ASSUME Init PROVE TypeInv /\ SemaphoresAccounted /\ NoOrphanArchive
  OBVIOUS
<1>1. TypeInv
  BY Constants, BackupAssumption DEF Init, TypeInv, TypeOK, OpsNamed, NoOp, OpRecord
<1>2. \A o \in Slots : Held(o) = {}
  BY DEF Init, Held, NoOp
<1>3. \A x \in Sems : {o \in Slots : x \in Held(o)} = {}
  BY <1>2
<1>4. SemaphoresAccounted
  BY <1>3, NobodyInside DEF Init
<1>5. QED
  BY <1>1, <1>4 DEF NoOrphanArchive, Init

-----------------------------------------------------------------------------
(* The type invariant, one lemma per group of actions.                       *)

LEMMA RequestsBegin ==
    ASSUME TypeInv, NEW o \in Slots, NEW s \in Servers, NEW a \in Archives,
           BeginCreate(o, s, a) \/ BeginUpload(o, s, a)
    PROVE  TypeInv'
<1>1. PICK path \in Paths \cup {None}, pc \in {"create", "upload"} :
        /\ op' = [op EXCEPT ![o] = [pc |-> pc, srv |-> s, arc |-> a, path |-> path]]
        /\ pc = "create" => path \in Paths
  BY Constants DEF BeginCreate, BeginUpload
<1> DEFINE t == [pc |-> pc, srv |-> s, arc |-> a, path |-> path]
<1>2. t \in OpRecord /\ OpNamed(t)
  BY <1>1 DEF OpRecord, OpNamed, Pc
<1>3. op' = [op EXCEPT ![o] = t]
  BY <1>1
<1> HIDE DEF t
<1>4. op' \in [Slots -> OpRecord] /\ OpsNamed'
  BY <1>2, <1>3, OpChanges
<1>5. queue' \in [Sems -> Seq(Slots)]
  BY Joins, Constants DEF BeginCreate, BeginUpload, TypeInv
<1>6. QED
  BY <1>4, <1>5 DEF BeginCreate, BeginUpload, TypeInv, TypeOK, disk, worlds

\* The directory that an extraction leaves.
LEMMA ExtractTyped ==
    ASSUME TypeInv, NEW path \in Paths, NEW s \in Servers, Extract(path, s)
    PROVE  dirs' \in [Servers -> Contents] /\ aside' \in [Servers -> SUBSET Contents]
<1>1. CASE canon[path] = None
  BY <1>1 DEF Extract, worlds, TypeInv, TypeOK
<1>2. CASE canon[path] # None
  <2>1. canon[path] \in Contents /\ "partial" \in Contents
    BY <1>2, Constants DEF TypeInv, TypeOK
  <2>2. \E c \in Contents : dirs' = [dirs EXCEPT ![s] = c]
    BY <1>2, <2>1 DEF Extract
  <2>3. aside' = [aside EXCEPT ![s] = @ \cup {dirs[s]}]
    BY <1>2 DEF Extract
  <2>4. QED
    BY <2>2, <2>3 DEF TypeInv, TypeOK
<1>3. QED
  BY <1>1, <1>2

LEMMA RestoreBegins ==
    ASSUME TypeInv, NEW o \in Slots, NEW s \in Servers, NEW a \in Archives,
           BeginRestore(o, a, s)
    PROVE  TypeInv'
<1>1. rows[a] \in Paths
  BY DEF BeginRestore, TypeInv, TypeOK
<1>2. CASE Free("file")
  BY <1>1, <1>2, ExtractTyped DEF BeginRestore, TypeInv, TypeOK, OpsNamed, disk
<1>3. CASE ~Free("file")
  <2> DEFINE t == [pc |-> "restore", srv |-> s, arc |-> a, path |-> rows[a]]
  <2>1. t \in OpRecord /\ OpNamed(t)
    BY <1>1 DEF OpRecord, OpNamed, Pc
  <2>2. op' = [op EXCEPT ![o] = t]
    BY <1>3 DEF BeginRestore
  <2> HIDE DEF t
  <2>3. op' \in [Slots -> OpRecord] /\ OpsNamed'
    BY <2>1, <2>2, OpChanges
  <2>4. queue' \in [Sems -> Seq(Slots)]
    BY <1>3, Joins, Constants DEF BeginRestore, TypeInv
  <2>5. QED
    BY <1>3, <2>3, <2>4 DEF BeginRestore, TypeInv, TypeOK, disk, worlds
<1>4. QED
  BY <1>2, <1>3

LEMMA RequestsEnter ==
    ASSUME TypeInv, NEW o \in Slots,
           CreateEnters(o) \/ Refused(o) \/ CreateWrites(o) \/ UploadOpens(o)
    PROVE  TypeInv'
<1>1. CASE CreateEnters(o)
  <2>1. op' \in [Slots -> OpRecord] /\ OpsNamed'
    BY <1>1, OpMovesOn DEF CreateEnters
  <2>2. queue' \in [Sems -> Seq(Slots)]
    <3> DEFINE q == Tail(queue["backup"])
               r == Append(queue["file"], o)
    <3>1. q \in Seq(Slots) /\ r \in Seq(Slots)
      BY <1>1, WaitersTyped, Constants DEF TypeInv, CreateEnters, CanEnter
    <3>2. queue' = [queue EXCEPT !["backup"] = q, !["file"] = r]
      BY <1>1 DEF CreateEnters
    <3> HIDE DEF q, r
    <3>3. QED
      BY <3>1, <3>2, Constants DEF TypeInv, TypeOK
  <2>3. inUse' \in [Sems -> Nat]
    BY <1>1, Constants DEF CreateEnters, TypeInv, TypeOK
  <2>4. QED
    BY <1>1, <2>1, <2>2, <2>3 DEF CreateEnters, TypeInv, TypeOK, disk, worlds
<1>2. CASE Refused(o)
  <2>1. op' \in [Slots -> OpRecord] /\ OpsNamed'
    BY <1>2, OpFinishes DEF Refused
  <2>2. queue' \in [Sems -> Seq(Slots)]
    BY <1>2, Leaves, Constants DEF TypeInv, Refused, CanEnter
  <2>3. QED
    BY <1>2, <2>1, <2>2 DEF Refused, TypeInv, TypeOK, disk, worlds
<1>3. CASE CreateWrites(o)
  <2>1. op' \in [Slots -> OpRecord] /\ OpsNamed' /\ op[o].arc \in Archives
    BY <1>3, OpMovesOn DEF CreateWrites, TypeInv, OpsNamed, OpNamed
  <2>2. queue' \in [Sems -> Seq(Slots)]
    BY <1>3, Leaves, Constants DEF TypeInv, CreateWrites, CanEnter
  <2>3. inUse' \in [Sems -> Nat]
    BY <1>3, Constants DEF CreateWrites, TypeInv, TypeOK
  <2>4. QED
    BY <1>3, <2>1, <2>2, <2>3 DEF CreateWrites, TypeInv, TypeOK, worlds
<1>4. CASE UploadOpens(o)
  <2> DEFINE path == <<op[o].srv, now>>
             t == [op[o] EXCEPT !.pc = "reading", !.path = path]
  <2>1. op[o] \in OpRecord /\ "reading" \in Pc /\ op[o].srv \in Servers /\ op[o].arc \in Archives
    BY <1>4 DEF UploadOpens, TypeInv, TypeOK, OpsNamed, OpNamed, Pc
  <2>2. path \in Paths
    BY <2>1, Constants DEF TypeInv, TypeOK
  <2> HIDE DEF path
  <2>3. t \in OpRecord /\ t.pc = "reading" /\ t.srv = op[o].srv /\ t.arc = op[o].arc /\ t.path = path
    BY <2>1, <2>2 DEF OpRecord
  <2>4. op' = [op EXCEPT ![o] = t]
    BY <1>4 DEF UploadOpens, path
  <2> HIDE DEF t
  <2>5. op' \in [Slots -> OpRecord] /\ OpsNamed'
    BY <2>1, <2>2, <2>3, <2>4, OpChanges DEF OpNamed
  <2>6. queue' \in [Sems -> Seq(Slots)]
    BY <1>4, Leaves, Constants DEF TypeInv, UploadOpens, CanEnter
  <2>7. inUse' \in [Sems -> Nat]
    BY <1>4, Constants DEF UploadOpens, TypeInv, TypeOK
  <2>8. QED
    BY <1>4, <2>1, <2>5, <2>6, <2>7 DEF UploadOpens, TypeInv, TypeOK, worlds
<1>5. QED
  BY <1>1, <1>2, <1>3, <1>4

LEMMA RequestsFinish ==
    ASSUME TypeInv, SemaphoresAccounted, NEW o \in Slots,
           \/ CreateRolledBack(o) \/ UploadRejected(o)
           \/ Promotes(o) \/ PromotionFails(o)
    PROVE  TypeInv'
<1>1. /\ op[o].arc \in Archives /\ op[o].path \in Paths
      /\ Release(Held(o)) /\ Finish(o)
      /\ UNCHANGED <<now, worlds, running, queue>>
  BY DEF TypeInv, OpsNamed, OpNamed, CreateRolledBack, UploadRejected, Promotes, PromotionFails
<1>2. inUse' \in [Sems -> Nat]
  BY <1>1, ReleaseTyped DEF TypeInv
<1>3. rows' \in [Archives -> Paths \cup {None}] /\ canon' \in [Paths -> Archives \cup {None}]
  BY <1>1, Constants
     DEF TypeInv, TypeOK, CreateRolledBack, UploadRejected, Promotes, PromotionFails, CommitRow
<1>4. pending' \subseteq Archives /\ failed' \subseteq Archives
  BY <1>1
     DEF TypeInv, TypeOK, CreateRolledBack, UploadRejected, Promotes, PromotionFails
<1>5. op' \in [Slots -> OpRecord] /\ OpsNamed'
  BY <1>1, OpFinishes
<1>6. QED
  BY <1>1, <1>2, <1>3, <1>4, <1>5 DEF TypeInv, TypeOK, worlds

LEMMA RestoreFinishes ==
    ASSUME TypeInv, NEW o \in Slots, RestoreProceeds(o)
    PROVE  TypeInv'
<1>1. op[o].path \in Paths /\ op[o].srv \in Servers
  BY DEF TypeInv, OpsNamed, OpNamed, RestoreProceeds
<1>2. dirs' \in [Servers -> Contents] /\ aside' \in [Servers -> SUBSET Contents]
  BY <1>1, ExtractTyped DEF RestoreProceeds
<1>3. queue' \in [Sems -> Seq(Slots)]
  BY Leaves, Constants DEF TypeInv, RestoreProceeds, CanEnter
<1>4. op' \in [Slots -> OpRecord] /\ OpsNamed'
  BY OpFinishes DEF RestoreProceeds
<1>5. QED
  BY <1>2, <1>3, <1>4 DEF RestoreProceeds, TypeInv, TypeOK, disk

LEMMA OthersTyped ==
    ASSUME TypeInv,
           \/ \E a \in Archives : DeleteBackup(a) \/ SweepPending(a) \/ SweepFailed(a)
           \/ \E s \in Servers : ServerToggles(s)
           \/ Tick \/ UNCHANGED vars
    PROVE  TypeInv'
<1>1. ASSUME NEW a \in Archives, DeleteBackup(a)
      PROVE  TypeInv'
  BY <1>1 DEF DeleteBackup, TypeInv, TypeOK, OpsNamed, worlds, sems
<1>2. ASSUME NEW a \in Archives, SweepPending(a) \/ SweepFailed(a)
      PROVE  TypeInv'
  BY <1>2 DEF SweepPending, SweepFailed, TypeInv, TypeOK, OpsNamed, worlds, sems
<1>3. ASSUME NEW s \in Servers, ServerToggles(s)
      PROVE  TypeInv'
  BY <1>3 DEF ServerToggles, TypeInv, TypeOK, OpsNamed, disk, worlds, sems
<1>4. CASE Tick
  BY <1>4, BackupAssumption DEF Tick, TypeInv, TypeOK, OpsNamed, disk, worlds, sems
<1>5. CASE UNCHANGED vars
  BY <1>5 DEF vars, TypeInv, TypeOK, OpsNamed, disk, worlds, sems
<1>6. QED
  BY <1>1, <1>2, <1>3, <1>4, <1>5

LEMMA CrashTyped ==
    ASSUME TypeInv, Crash
    PROVE  TypeInv'
<1>1. rows' \in [Archives -> Paths \cup {None}]
  BY DEF Crash, CommitRow, TypeInv, TypeOK, OpsNamed, OpNamed
<1>2. dirs' \in [Servers -> Contents] /\ aside' \in [Servers -> SUBSET Contents]
  <2>1. CASE UNCHANGED worlds
    BY <2>1 DEF worlds, TypeInv, TypeOK
  <2>2. CASE \E s \in Servers \ running :
               /\ dirs' = [dirs EXCEPT ![s] = "partial"]
               /\ aside' = [aside EXCEPT ![s] = @ \cup {dirs[s]}]
    BY <2>2, Constants DEF TypeInv, TypeOK
  <2>3. QED
    BY <2>1, <2>2 DEF Crash
<1>3. op' \in [Slots -> OpRecord] /\ OpsNamed'
  BY Constants DEF Crash, OpsNamed
<1>4. inUse' \in [Sems -> Nat] /\ queue' \in [Sems -> Seq(Slots)]
  BY DEF Crash
<1>5. QED
  BY <1>1, <1>2, <1>3, <1>4 DEF Crash, TypeInv, TypeOK, disk

LEMMA TypeStep ==
    ASSUME TypeInv, SemaphoresAccounted, [Next]_vars
    PROVE  TypeInv'
BY RequestsBegin, RestoreBegins, RequestsEnter, RequestsFinish, RestoreFinishes, OthersTyped,
   CrashTyped
   DEF Next, RequestStep

-----------------------------------------------------------------------------
(* Semaphores.                                                               *)

\* The semaphores that each program point holds.
LEMMA HeldAt ==
    ASSUME NEW o \in Slots
    PROVE  /\ op[o].pc \in {"tar", "reading"} => Held(o) = {"backup"}
           /\ op[o].pc = "writing" => Held(o) = {"backup", "file"}
           /\ op[o].pc \in {"idle", "create", "upload", "restore"} => Held(o) = {}
           /\ op'[o].pc \in {"tar", "reading"} => Held(o)' = {"backup"}
           /\ op'[o].pc = "writing" => Held(o)' = {"backup", "file"}
           /\ op'[o].pc \in {"idle", "create", "upload", "restore"} => Held(o)' = {}
BY DEF Held, Sems

\* A request that enters or leaves semaphores, and no other, keeps the count.
LEMMA HoldersChange ==
    ASSUME TypeInv, SemaphoresAccounted, NEW o \in Slots,
           \A q \in Slots \ {o} : op'[q] = op[q],
           \A x \in Sems :
             \/ (x \in Held(o)' <=> x \in Held(o)) /\ inUse'[x] = inUse[x]
             \/ x \in Held(o)' /\ x \notin Held(o) /\ inUse'[x] = inUse[x] + 1
             \/ x \notin Held(o)' /\ x \in Held(o) /\ inUse'[x] = inUse[x] - 1,
           \A x \in Sems : inUse'[x] <= Limit[x]
    PROVE  SemaphoresAccounted'
<1> SUFFICES ASSUME NEW x \in Sems
             PROVE  inUse'[x] = Cardinality({q \in Slots : x \in Held(q)'})
  BY DEF SemaphoresAccounted
<1> DEFINE H == {q \in Slots : x \in Held(q)}
           G == {q \in Slots : x \in Held(q)'}
<1>1. \A q \in Slots \ {o} : Held(q)' = Held(q)
  BY DEF Held
<1>2. IsFiniteSet(H) /\ inUse[x] = Cardinality(H) /\ inUse[x] \in Nat
  <2>1. IsFiniteSet(H)
    BY BackupAssumption, FS_Subset
  <2>2. QED
    BY <2>1 DEF SemaphoresAccounted, TypeInv, TypeOK
<1>3. CASE (x \in Held(o)' <=> x \in Held(o)) /\ inUse'[x] = inUse[x]
  <2>1. G = H
    BY <1>1, <1>3
  <2>2. QED
    BY <1>2, <1>3, <2>1
<1>4. CASE x \in Held(o)' /\ x \notin Held(o) /\ inUse'[x] = inUse[x] + 1
  <2>1. G = H \cup {o} /\ o \notin H
    BY <1>1, <1>4
  <2>2. Cardinality(H \cup {o}) = Cardinality(H) + 1
    BY <1>2, <2>1, FS_AddElement
  <2>3. QED
    BY <1>2, <1>4, <2>1, <2>2
<1>5. CASE x \notin Held(o)' /\ x \in Held(o) /\ inUse'[x] = inUse[x] - 1
  <2>1. G = H \ {o} /\ o \in H
    BY <1>1, <1>5
  <2>2. Cardinality(H \ {o}) = Cardinality(H) - 1
    BY <1>2, <2>1, FS_RemoveElement
  <2>3. QED
    BY <1>2, <1>5, <2>1, <2>2
<1>6. QED
  BY <1>3, <1>4, <1>5

\* The counter and the program point of a request that enters one semaphore.
LEMMA Enters ==
    ASSUME TypeInv, SemaphoresAccounted, NEW o \in Slots, NEW x \in Sems,
           \A q \in Slots \ {o} : op'[q] = op[q],
           x \notin Held(o), Held(o)' = Held(o) \cup {x},
           inUse[x] < Limit[x], inUse' = [inUse EXCEPT ![x] = @ + 1]
    PROVE  SemaphoresAccounted'
<1>1. inUse \in [Sems -> Nat] /\ Limit \in [Sems -> Nat]
  BY BackupAssumption DEF TypeInv, TypeOK
<1>2. inUse'[x] = inUse[x] + 1 /\ \A y \in Sems \ {x} : inUse'[y] = inUse[y]
  BY <1>1
<1>3. \A y \in Sems : inUse'[y] <= Limit[y]
  <2>1. \A y \in Sems : inUse[y] <= Limit[y]
    BY DEF SemaphoresAccounted
  <2>2. QED
    BY <1>1, <1>2, <2>1
<1>4. \A y \in Sems :
        \/ (y \in Held(o)' <=> y \in Held(o)) /\ inUse'[y] = inUse[y]
        \/ y \in Held(o)' /\ y \notin Held(o) /\ inUse'[y] = inUse[y] + 1
  BY <1>2
<1>5. QED
  BY <1>3, <1>4, HoldersChange

LEMMA SemStep ==
    ASSUME TypeInv, SemaphoresAccounted, [Next]_vars
    PROVE  SemaphoresAccounted'
<1> op \in [Slots -> OpRecord]
  BY DEF TypeInv, TypeOK
<1>1. ASSUME NEW o \in Slots, NEW s \in Servers, NEW a \in Archives,
             BeginCreate(o, s, a) \/ BeginUpload(o, s, a) \/ BeginRestore(o, a, s)
      PROVE  SemaphoresAccounted'
  <2>1. op[o].pc = "idle" /\ op'[o].pc \in {"idle", "create", "upload", "restore"}
    BY <1>1 DEF BeginCreate, BeginUpload, BeginRestore
  <2>2. Held(o) = {} /\ Held(o)' = {}
    BY <2>1, HeldAt
  <2>3. inUse' = inUse /\ \A q \in Slots \ {o} : op'[q] = op[q]
    BY <1>1 DEF BeginCreate, BeginUpload, BeginRestore
  <2>4. \A x \in Sems :
          /\ (x \in Held(o)' <=> x \in Held(o)) /\ inUse'[x] = inUse[x]
          /\ inUse'[x] <= Limit[x]
    BY <2>2, <2>3 DEF SemaphoresAccounted
  <2>5. QED
    BY <2>3, <2>4, HoldersChange
<1>2. ASSUME NEW o \in Slots, CreateEnters(o) \/ UploadOpens(o)
      PROVE  SemaphoresAccounted'
  <2>1. \A q \in Slots \ {o} : op'[q] = op[q]
    BY <1>2 DEF CreateEnters, UploadOpens
  <2>2. op[o].pc \in {"create", "upload"} /\ op'[o].pc \in {"tar", "reading"}
    BY <1>2 DEF CreateEnters, UploadOpens, OpRecord
  <2>3. Held(o) = {} /\ Held(o)' = {"backup"}
    BY <2>2, HeldAt
  <2>4. inUse["backup"] < Limit["backup"] /\ inUse' = [inUse EXCEPT !["backup"] = @ + 1]
    BY <1>2 DEF CreateEnters, UploadOpens, CanEnter
  <2>5. QED
    BY <2>1, <2>3, <2>4, Enters, Constants
<1>3. ASSUME NEW o \in Slots, CreateWrites(o)
      PROVE  SemaphoresAccounted'
  <2>1. \A q \in Slots \ {o} : op'[q] = op[q]
    BY <1>3 DEF CreateWrites
  <2>2. op[o].pc = "tar" /\ op'[o].pc = "writing"
    BY <1>3 DEF CreateWrites, OpRecord
  <2>3. Held(o) = {"backup"} /\ Held(o)' = {"backup"} \cup {"file"}
    BY <2>2, HeldAt
  <2>4. inUse["file"] < Limit["file"] /\ inUse' = [inUse EXCEPT !["file"] = @ + 1]
    BY <1>3 DEF CreateWrites, CanEnter
  <2>5. QED
    BY <2>1, <2>3, <2>4, Enters, Constants
<1>4. ASSUME NEW o \in Slots,
             \/ Refused(o) \/ RestoreProceeds(o) \/ CreateRolledBack(o)
             \/ UploadRejected(o) \/ Promotes(o) \/ PromotionFails(o)
      PROVE  SemaphoresAccounted'
  <2>1. Finish(o)
    BY <1>4 DEF Refused, RestoreProceeds, CreateRolledBack, UploadRejected, Promotes,
                PromotionFails
  <2>2. op'[o].pc = "idle" /\ \A q \in Slots \ {o} : op'[q] = op[q]
    BY <2>1 DEF Finish, NoOp
  <2>3. Held(o)' = {}
    BY <2>2, HeldAt
  <2>4. inUse' = [x \in Sems |-> IF x \in Held(o) THEN inUse[x] - 1 ELSE inUse[x]]
    <3>1. CASE Refused(o) \/ RestoreProceeds(o)
      <4>1. Held(o) = {} /\ inUse' = inUse
        BY <3>1, HeldAt DEF Refused, RestoreProceeds
      <4>2. QED
        BY <4>1 DEF TypeInv, TypeOK
    <3>2. CASE \/ CreateRolledBack(o) \/ UploadRejected(o)
               \/ Promotes(o) \/ PromotionFails(o)
      BY <3>2 DEF CreateRolledBack, UploadRejected, Promotes, PromotionFails, Release
    <3>3. QED
      BY <1>4, <3>1, <3>2
  <2>5. \A x \in Sems :
          \/ (x \in Held(o)' <=> x \in Held(o)) /\ inUse'[x] = inUse[x]
          \/ x \notin Held(o)' /\ x \in Held(o) /\ inUse'[x] = inUse[x] - 1
    BY <2>3, <2>4
  <2>6. \A x \in Sems : inUse[x] \in Nat /\ Limit[x] \in Nat
    BY BackupAssumption DEF TypeInv, TypeOK
  <2>7. \A x \in Sems : inUse'[x] <= Limit[x]
    <3>1. \A x \in Sems : inUse[x] <= Limit[x]
      BY DEF SemaphoresAccounted
    <3>2. QED
      BY <2>5, <2>6, <3>1
  <2>8. QED
    BY <2>2, <2>5, <2>7, HoldersChange
<1>5. CASE Crash
  <2>1. \A o \in Slots : op'[o].pc = "idle"
    BY <1>5 DEF Crash, NoOp
  <2>2. \A o \in Slots : Held(o)' = {}
    BY <2>1, HeldAt
  <2>3. (\A x \in Sems : {o \in Slots : x \in Held(o)} = {})'
    BY <2>2
  <2>4. (inUse = [x \in Sems |-> 0])'
    BY <1>5 DEF Crash
  <2>5. QED
    BY <2>3, <2>4, NobodyInside, PTL
<1>6. CASE UNCHANGED <<op, inUse>>
  BY <1>6 DEF SemaphoresAccounted, Held
<1>7. CASE \/ \E a \in Archives : DeleteBackup(a) \/ SweepPending(a) \/ SweepFailed(a)
           \/ \E s \in Servers : ServerToggles(s)
           \/ Tick \/ UNCHANGED vars
  BY <1>6, <1>7
     DEF DeleteBackup, SweepPending, SweepFailed, ServerToggles, Tick, vars, sems
<1>8. QED
  BY <1>1, <1>2, <1>3, <1>4, <1>5, <1>7 DEF Next, RequestStep

-----------------------------------------------------------------------------
(* Archives and rows.                                                        *)

\* A request that stores an archive is the only one, and the archive has no row
\* before the request's end.
Storing(o) == op[o].pc \in {"create", "tar", "upload", "writing", "reading"}
Owners ==
    \A o \in Slots :
      Storing(o) =>
        /\ rows[op[o].arc] = None
        /\ \A q \in Slots \ {o} : Storing(q) => op[q].arc # op[o].arc

\* A step of one request that begins nothing.
LEMMA OwnersKept ==
    ASSUME TypeInv, Owners, NEW o \in Slots,
           \A q \in Slots \ {o} : op'[q] = op[q],
           Storing(o)' => Storing(o) /\ op'[o].arc = op[o].arc,
           \A a \in Archives :
             \/ rows'[a] \in {rows[a], None}
             \/ a = op[o].arc /\ Storing(o) /\ ~Storing(o)'
    PROVE  Owners'
<1>1. \A q \in Slots : Storing(q)' => Storing(q) /\ op'[q].arc = op[q].arc
  BY DEF Storing
<1>2. \A q \in Slots : Storing(q) => op[q].arc \in Archives
  BY DEF Storing, TypeInv, OpsNamed, OpNamed
<1>3. ASSUME NEW q \in Slots, Storing(q)'
      PROVE  rows'[op'[q].arc] = None
  BY <1>1, <1>2, <1>3 DEF Owners
<1>4. ASSUME NEW q \in Slots, Storing(q)', NEW r \in Slots \ {q}, Storing(r)'
      PROVE  op'[r].arc # op'[q].arc
  BY <1>1, <1>4 DEF Owners
<1>5. QED
  BY <1>3, <1>4 DEF Owners

LEMMA OwnersBegin ==
    ASSUME TypeInv, Owners, NEW o \in Slots, NEW s \in Servers, NEW a \in Archives,
           BeginCreate(o, s, a) \/ BeginUpload(o, s, a)
    PROVE  Owners'
<1>1. /\ op'[o].arc = a /\ \A q \in Slots \ {o} : op'[q] = op[q]
      /\ rows' = rows
  BY DEF BeginCreate, BeginUpload, TypeInv, TypeOK
<1>2. rows[a] = None /\ \A q \in Slots : op[q].arc # a
  BY DEF BeginCreate, BeginUpload, Fresh
<1>3. \A q \in Slots \ {o} : (Storing(q)' <=> Storing(q)) /\ op'[q].arc = op[q].arc
  BY <1>1 DEF Storing
<1>4. QED
  BY <1>1, <1>2, <1>3 DEF Owners

LEMMA OwnersStep ==
    ASSUME TypeInv, Owners, [Next]_vars
    PROVE  Owners'
<1> op \in [Slots -> OpRecord] /\ rows \in [Archives -> Paths \cup {None}]
  BY DEF TypeInv, TypeOK
<1>1. ASSUME NEW o \in Slots, NEW s \in Servers, NEW a \in Archives, BeginRestore(o, a, s)
      PROVE  Owners'
  <2>1. /\ op'[o] = op[o] \/ op'[o].pc = "restore"
        /\ \A q \in Slots \ {o} : op'[q] = op[q]
        /\ rows' = rows
    BY <1>1 DEF BeginRestore
  <2>2. Storing(o)' => Storing(o) /\ op'[o].arc = op[o].arc
    BY <2>1 DEF Storing
  <2>3. QED
    BY <2>1, <2>2, OwnersKept
<1>2. ASSUME NEW o \in Slots, CreateEnters(o) \/ CreateWrites(o) \/ UploadOpens(o)
      PROVE  Owners'
  <2>1. /\ Storing(o) /\ op'[o].arc = op[o].arc /\ rows' = rows
        /\ \A q \in Slots \ {o} : op'[q] = op[q]
    BY <1>2 DEF CreateEnters, CreateWrites, UploadOpens, Storing, OpRecord
  <2>2. QED
    BY <2>1, OwnersKept
<1>3. ASSUME NEW o \in Slots,
             \/ Refused(o) \/ RestoreProceeds(o) \/ CreateRolledBack(o)
             \/ UploadRejected(o)
      PROVE  Owners'
  <2>1. Finish(o) /\ rows' = rows
    BY <1>3 DEF Refused, RestoreProceeds, CreateRolledBack, UploadRejected
  <2>2. ~Storing(o)' /\ \A q \in Slots \ {o} : op'[q] = op[q]
    BY <2>1 DEF Finish, NoOp, Storing
  <2>3. QED
    BY <2>1, <2>2, OwnersKept
<1>4. ASSUME NEW o \in Slots, Promotes(o) \/ PromotionFails(o)
      PROVE  Owners'
  <2>1. Finish(o) /\ CommitRow(o) /\ Storing(o)
    BY <1>4 DEF Promotes, PromotionFails, Storing
  <2>2. ~Storing(o)' /\ \A q \in Slots \ {o} : op'[q] = op[q]
    BY <2>1 DEF Finish, NoOp, Storing
  <2>3. \A a \in Archives : rows'[a] = rows[a] \/ a = op[o].arc
    BY <2>1 DEF CommitRow
  <2>4. QED
    BY <2>1, <2>2, <2>3, OwnersKept
<1>5. CASE Crash
  BY <1>5 DEF Crash, Owners, Storing, NoOp
<1>6. ASSUME NEW a \in Archives, DeleteBackup(a)
      PROVE  Owners'
  <2>1. op' = op /\ \A b \in Archives : rows'[b] \in {rows[b], None}
    BY <1>6 DEF DeleteBackup
  <2>2. \A o \in Slots : Storing(o) => op[o].arc \in Archives
    BY DEF Storing, TypeInv, OpsNamed, OpNamed
  <2>3. QED
    BY <2>1, <2>2 DEF Owners, Storing
<1>7. CASE UNCHANGED <<op, rows>>
  BY <1>7 DEF Owners, Storing
<1>8. CASE \/ \E a \in Archives : SweepPending(a) \/ SweepFailed(a)
           \/ \E s \in Servers : ServerToggles(s)
           \/ Tick \/ UNCHANGED vars
  BY <1>7, <1>8 DEF SweepPending, SweepFailed, ServerToggles, Tick, vars
<1>9. QED
  BY <1>1, <1>2, <1>3, <1>4, <1>5, <1>6, <1>8, OwnersBegin DEF Next, RequestStep

LEMMA OrphanStep ==
    ASSUME TypeInv, Owners, NoOrphanArchive, [Next]_vars
    PROVE  NoOrphanArchive'
<1> op \in [Slots -> OpRecord] /\ rows \in [Archives -> Paths \cup {None}]
    /\ canon \in [Paths -> Archives \cup {None}]
  BY DEF TypeInv, TypeOK
<1>1. ASSUME NEW o \in Slots, CommitRow(o), Storing(o), op[o].path \in Paths,
             \/ canon' = canon
             \/ canon' = [canon EXCEPT ![op[o].path] = op[o].arc]
      PROVE  NoOrphanArchive'
  <2>1. op[o].arc \in Archives /\ rows[op[o].arc] = None
    BY <1>1 DEF TypeInv, OpsNamed, OpNamed, Storing, Owners
  <2>2. \A a \in Archives : rows[a] # None => rows'[a] = rows[a]
    BY <1>1, <2>1 DEF CommitRow
  <2>3. rows'[op[o].arc] = op[o].path
    BY <1>1, <2>1 DEF CommitRow
  <2>4. ASSUME NEW p \in Paths, canon'[p] # None
        PROVE  \E a \in Archives : rows'[a] = p
    <3>1. CASE p = op[o].path
      BY <2>1, <2>3, <3>1
    <3>2. CASE p # op[o].path
      <4>1. canon[p] # None
        BY <1>1, <2>4, <3>2
      <4>2. PICK a \in Archives : rows[a] = p
        BY <4>1 DEF NoOrphanArchive
      <4>3. p # None
        BY Constants
      <4>4. QED
        BY <2>2, <4>2, <4>3
    <3>3. QED
      BY <3>1, <3>2
  <2>5. QED
    BY <2>4 DEF NoOrphanArchive
<1>2. ASSUME NEW o \in Slots, Promotes(o) \/ PromotionFails(o)
      PROVE  NoOrphanArchive'
  <2>1. CommitRow(o) /\ Storing(o) /\ op[o].path \in Paths
    BY <1>2 DEF Promotes, PromotionFails, Storing, TypeInv, OpsNamed, OpNamed
  <2>2. canon' = canon \/ canon' = [canon EXCEPT ![op[o].path] = op[o].arc]
    BY <1>2 DEF Promotes, PromotionFails
  <2>3. QED
    BY <1>1, <2>1, <2>2
<1>3. CASE Crash
  <2>1. canon' = canon
    BY <1>3 DEF Crash, disk
  <2>2. CASE rows' = rows
    BY <2>1, <2>2 DEF NoOrphanArchive
  <2>3. CASE \E o \in Slots : op[o].pc \in {"writing", "reading"} /\ CommitRow(o)
    BY <1>1, <2>1, <2>3 DEF Storing, TypeInv, OpsNamed, OpNamed
  <2>4. QED
    BY <1>3, <2>2, <2>3 DEF Crash
<1>4. ASSUME NEW a \in Archives, DeleteBackup(a)
      PROVE  NoOrphanArchive'
  <2>1. rows[a] \in Paths /\ canon' = [canon EXCEPT ![rows[a]] = None]
    BY <1>4 DEF DeleteBackup
  <2>2. \A b \in Archives \ {a} : rows'[b] = rows[b]
    BY <1>4 DEF DeleteBackup
  <2>3. ASSUME NEW p \in Paths, canon'[p] # None
        PROVE  \E b \in Archives : rows'[b] = p
    <3>1. p # rows[a] /\ canon[p] # None
      BY <2>1, <2>3
    <3>2. PICK b \in Archives : rows[b] = p
      BY <3>1 DEF NoOrphanArchive
    <3>3. QED
      BY <2>2, <3>1, <3>2
  <2>4. QED
    BY <2>3 DEF NoOrphanArchive
<1>5. ASSUME NEW o \in Slots, UploadRejected(o)
      PROVE  NoOrphanArchive'
  BY <1>5 DEF UploadRejected, NoOrphanArchive
<1>6. CASE UNCHANGED <<rows, canon>>
  BY <1>6 DEF NoOrphanArchive
<1>7. CASE \/ \E o \in Slots, s \in Servers, a \in Archives :
                BeginCreate(o, s, a) \/ BeginUpload(o, s, a) \/ BeginRestore(o, a, s)
           \/ \E o \in Slots :
                \/ CreateEnters(o) \/ Refused(o) \/ CreateWrites(o)
                \/ CreateRolledBack(o) \/ UploadOpens(o) \/ RestoreProceeds(o)
           \/ \E a \in Archives : SweepPending(a) \/ SweepFailed(a)
           \/ \E s \in Servers : ServerToggles(s)
           \/ Tick \/ UNCHANGED vars
  BY <1>6, <1>7
     DEF BeginCreate, BeginUpload, BeginRestore, CreateEnters, Refused, CreateWrites,
         CreateRolledBack, UploadOpens, RestoreProceeds, SweepPending, SweepFailed,
         ServerToggles, Tick, vars, disk
<1>8. QED
  BY <1>2, <1>3, <1>4, <1>5, <1>7 DEF Next, RequestStep

-----------------------------------------------------------------------------
(* Names of archives.                                                        *)

UploadNames == Servers \X (0..MaxNow)

\* The name of a created archive is its own, that of an upload is a second.
NameFits(a, p) == IF a \in Uploads THEN p \in UploadNames ELSE p = a

\* Rows, requests and the files under final names keep to this.
OpFits(r) ==
    /\ r.pc \in {"create", "tar", "writing"} => r.arc \notin Uploads /\ r.path = r.arc
    /\ r.pc \in {"upload", "reading"} => r.arc \in Uploads
    /\ r.pc = "reading" => r.path \in UploadNames
    /\ r.pc = "restore" => r.arc \in Archives /\ NameFits(r.arc, r.path)

NamesFit ==
    /\ \A a \in Archives : rows[a] # None => NameFits(a, rows[a])
    /\ \A o \in Slots : OpFits(op[o])
    /\ \A a \in Archives : canon[a] \in {a, None}
    /\ \A n \in UploadNames : canon[n] \in Uploads \cup {None}

\* A file that is being written is in .pending/, whatever the sweep removes.
TempKept ==
    \A o \in Slots : op[o].pc \in {"writing", "reading"} => op[o].arc \in pending

LEMMA NameFacts ==
    /\ UploadNames \subseteq Paths /\ Archives \subseteq Paths
    /\ UploadNames \cap Archives = {}
    /\ None \notin UploadNames /\ Uploads \subseteq Archives
    /\ OpFits(NoOp)
BY BackupAssumption DEF UploadNames, Paths, OpFits, NoOp

\* One request changes, the others stay as they are.
LEMMA FitsChange ==
    ASSUME TypeInv, NamesFit, NEW o \in Slots, NEW t, OpFits(t), op' = [op EXCEPT ![o] = t],
           rows' = rows, canon' = canon
    PROVE  NamesFit'
<1>1. \A q \in Slots : op'[q] = IF q = o THEN t ELSE op[q]
  BY DEF TypeInv, TypeOK
<1>. QED
  BY <1>1 DEF NamesFit, OpFits, NameFits

\* A request ends and stores what it has, or part of it.
LEMMA FitsStore ==
    ASSUME TypeInv, NamesFit, NEW o \in Slots, op[o].pc \in {"writing", "reading"},
           \A q \in Slots : op'[q] \in {op[q], NoOp},
           rows' = rows \/ CommitRow(o),
           \/ canon' = canon
           \/ canon' = [canon EXCEPT ![op[o].path] = op[o].arc]
           \/ canon' = [canon EXCEPT ![op[o].path] = None]
    PROVE  NamesFit'
<1> DEFINE b == op[o].arc
           n == op[o].path
<1>1. /\ b \in Archives /\ NameFits(b, n) /\ n \in Paths
      /\ rows \in [Archives -> Paths \cup {None}] /\ canon \in [Paths -> Archives \cup {None}]
  BY DEF TypeInv, TypeOK, OpsNamed, OpNamed, NamesFit, OpFits, NameFits
<1>2. /\ \A a \in Archives : rows'[a] = rows[a] \/ (a = b /\ rows'[a] = n)
      /\ \A p \in Paths : canon'[p] = canon[p] \/ (p = n /\ canon'[p] \in {b, None})
  BY <1>1 DEF CommitRow
<1>3. \A q \in Slots : OpFits(op'[q])
  BY NameFacts DEF NamesFit
<1> HIDE DEF b, n
<1>4. \A a \in Archives : rows'[a] # None => NameFits(a, rows'[a])
  BY <1>1, <1>2 DEF NamesFit
<1>5. \A a \in Archives : canon'[a] \in {a, None}
  BY <1>1, <1>2, NameFacts DEF NamesFit, NameFits
<1>6. \A p \in UploadNames : canon'[p] \in Uploads \cup {None}
  BY <1>1, <1>2, NameFacts DEF NamesFit, NameFits
<1>. QED
  BY <1>3, <1>4, <1>5, <1>6 DEF NamesFit, OpFits, NameFits

LEMMA FitsStep ==
    ASSUME TypeInv, NamesFit, [Next]_vars
    PROVE  NamesFit'
<1>0. /\ op \in [Slots -> OpRecord] /\ rows \in [Archives -> Paths \cup {None}]
      /\ canon \in [Paths -> Archives \cup {None}]
  BY DEF TypeInv, TypeOK
<1>1. ASSUME NEW o \in Slots, NEW s \in Servers, NEW a \in Archives,
             BeginCreate(o, s, a) \/ BeginUpload(o, s, a)
      PROVE  NamesFit'
  <2>1. PICK t : op' = [op EXCEPT ![o] = t] /\ OpFits(t)
    BY <1>1 DEF BeginCreate, BeginUpload, OpFits
  <2>. QED
    BY <1>1, <2>1, FitsChange DEF BeginCreate, BeginUpload, disk
<1>2. ASSUME NEW o \in Slots, NEW s \in Servers, NEW a \in Archives, BeginRestore(o, a, s)
      PROVE  NamesFit'
  <2> DEFINE t == [pc |-> "restore", srv |-> s, arc |-> a, path |-> rows[a]]
  <2>1. OpFits(t)
    BY <1>2 DEF OpFits, BeginRestore, NamesFit
  <2>2. rows' = rows /\ canon' = canon /\ (op' = op \/ op' = [op EXCEPT ![o] = t])
    BY <1>2 DEF BeginRestore, disk
  <2> HIDE DEF t
  <2>3. CASE op' = op
    BY <2>2, <2>3 DEF NamesFit, OpFits, NameFits
  <2>. QED
    BY <2>1, <2>2, <2>3, FitsChange
<1>3. ASSUME NEW o \in Slots, CreateEnters(o) \/ CreateWrites(o)
      PROVE  NamesFit'
  <2>1. PICK pc \in {"tar", "writing"} : op' = [op EXCEPT ![o].pc = pc]
    BY <1>3 DEF CreateEnters, CreateWrites
  <2> DEFINE t == [op[o] EXCEPT !.pc = pc]
  <2>2. op[o] \in OpRecord /\ op[o].arc \notin Uploads /\ op[o].path = op[o].arc
    BY <1>0, <1>3 DEF CreateEnters, CreateWrites, NamesFit, OpFits
  <2>3. t.pc = pc /\ t.arc = op[o].arc /\ t.path = op[o].path
    BY <2>2 DEF OpRecord
  <2>4. op' = [op EXCEPT ![o] = t]
    BY <2>1
  <2> HIDE DEF t
  <2>5. OpFits(t)
    BY <2>2, <2>3 DEF OpFits
  <2>. QED
    BY <1>3, <2>4, <2>5, FitsChange DEF CreateEnters, CreateWrites, disk
<1>4. ASSUME NEW o \in Slots, UploadOpens(o)
      PROVE  NamesFit'
  <2> DEFINE t == [op[o] EXCEPT !.pc = "reading", !.path = <<op[o].srv, now>>]
  <2>1. op[o] \in OpRecord /\ op[o].arc \in Uploads /\ <<op[o].srv, now>> \in UploadNames
    BY <1>0, <1>4 DEF UploadOpens, NamesFit, OpFits, TypeInv, TypeOK, OpsNamed, OpNamed, UploadNames
  <2>2. t.pc = "reading" /\ t.arc = op[o].arc /\ t.path = <<op[o].srv, now>>
    BY <2>1 DEF OpRecord
  <2>3. op' = [op EXCEPT ![o] = t]
    BY <1>4 DEF UploadOpens
  <2> HIDE DEF t
  <2>4. OpFits(t)
    BY <2>1, <2>2 DEF OpFits
  <2>. QED
    BY <1>4, <2>3, <2>4, FitsChange DEF UploadOpens
<1>5. ASSUME NEW o \in Slots, Refused(o) \/ RestoreProceeds(o)
      PROVE  NamesFit'
  BY <1>5, FitsChange, NameFacts DEF Refused, RestoreProceeds, Finish, disk
<1>6. ASSUME NEW o \in Slots,
             \/ CreateRolledBack(o) \/ UploadRejected(o)
             \/ Promotes(o) \/ PromotionFails(o)
      PROVE  NamesFit'
  <2>1. op[o].pc \in {"writing", "reading"} /\ Finish(o)
    BY <1>6 DEF CreateRolledBack, UploadRejected, Promotes, PromotionFails
  <2>2. \A q \in Slots : op'[q] \in {op[q], NoOp}
    BY <1>0, <2>1 DEF Finish
  <2>3. /\ rows' = rows \/ CommitRow(o)
        /\ \/ canon' = canon
           \/ canon' = [canon EXCEPT ![op[o].path] = op[o].arc]
           \/ canon' = [canon EXCEPT ![op[o].path] = None]
    BY <1>6 DEF CreateRolledBack, UploadRejected, Promotes, PromotionFails
  <2>. QED
    BY <2>1, <2>2, <2>3, FitsStore
<1>7. CASE Crash
  <2>1. canon' = canon /\ \A q \in Slots : op'[q] = NoOp
    BY <1>7 DEF Crash, disk
  <2>2. ASSUME NEW o \in Slots, op[o].pc \in {"writing", "reading"}, CommitRow(o)
        PROVE  NamesFit'
    BY <2>1, <2>2, FitsStore
  <2>3. CASE rows' = rows
    BY <2>1, <2>3, NameFacts DEF NamesFit, OpFits, NameFits
  <2>. QED
    BY <1>7, <2>2, <2>3 DEF Crash
<1>8. ASSUME NEW a \in Archives, DeleteBackup(a)
      PROVE  NamesFit'
  <2>1. /\ op' = op
        /\ \A b \in Archives : rows'[b] \in {rows[b], None}
        /\ \A p \in Paths : canon'[p] \in {canon[p], None}
    BY <1>0, <1>8 DEF DeleteBackup
  <2>. QED
    BY <2>1, NameFacts DEF NamesFit, OpFits, NameFits
<1>9. CASE UNCHANGED <<op, rows, canon>>
  BY <1>9 DEF NamesFit, OpFits, NameFits
<1>10. CASE \/ \E a \in Archives : SweepPending(a) \/ SweepFailed(a)
            \/ \E s \in Servers : ServerToggles(s)
            \/ Tick \/ UNCHANGED vars
  BY <1>9, <1>10 DEF SweepPending, SweepFailed, ServerToggles, Tick, vars, disk
<1>. QED
  BY <1>1, <1>2, <1>3, <1>4, <1>5, <1>6, <1>7, <1>8, <1>10 DEF Next, RequestStep

\* The request that ends is the only one that removes its temporary file.
LEMMA TempStep ==
    ASSUME TypeInv, Owners, TempKept, [Next]_vars
    PROVE  TempKept'
<1>0. /\ op \in [Slots -> OpRecord] /\ pending \in SUBSET Archives
      /\ \A o \in Slots : op[o].pc \in {"writing", "reading"} => Storing(o)
  BY DEF TypeInv, TypeOK, Storing
<1>1. ASSUME NEW o \in Slots, CreateWrites(o) \/ UploadOpens(o)
      PROVE  TempKept'
  <2>1. /\ op'[o].arc = op[o].arc /\ \A q \in Slots \ {o} : op'[q] = op[q]
        /\ pending' = pending \cup {op[o].arc}
    BY <1>0, <1>1 DEF CreateWrites, UploadOpens, OpRecord
  <2>. QED
    BY <2>1 DEF TempKept
<1>2. ASSUME NEW o \in Slots,
             \/ CreateRolledBack(o) \/ UploadRejected(o)
             \/ Promotes(o) \/ PromotionFails(o)
      PROVE  TempKept'
  <2>1. /\ op[o].pc \in {"writing", "reading"} /\ Finish(o)
        /\ pending' = pending \/ pending' = pending \ {op[o].arc}
    BY <1>2 DEF CreateRolledBack, UploadRejected, Promotes, PromotionFails
  <2>2. op'[o].pc = "idle" /\ \A q \in Slots \ {o} : op'[q] = op[q]
    BY <1>0, <2>1 DEF Finish, NoOp
  <2>3. \A q \in Slots \ {o} : Storing(q) => op[q].arc # op[o].arc
    BY <1>0, <2>1 DEF Owners
  <2>. QED
    BY <1>0, <2>1, <2>2, <2>3 DEF TempKept
<1>3. ASSUME NEW o \in Slots, Refused(o) \/ RestoreProceeds(o) \/ CreateEnters(o)
      PROVE  TempKept'
  <2>1. /\ op'[o].pc \in {"idle", "tar"} /\ pending' = pending
        /\ \A q \in Slots \ {o} : op'[q] = op[q]
    BY <1>0, <1>3 DEF Refused, RestoreProceeds, CreateEnters, Finish, NoOp, disk, OpRecord
  <2>. QED
    BY <2>1 DEF TempKept
<1>4. ASSUME NEW o \in Slots, NEW s \in Servers, NEW a \in Archives,
             BeginCreate(o, s, a) \/ BeginUpload(o, s, a) \/ BeginRestore(o, a, s)
      PROVE  TempKept'
  <2>1. /\ op'[o] = op[o] \/ op'[o].pc \in {"create", "upload", "restore"}
        /\ \A q \in Slots \ {o} : op'[q] = op[q]
        /\ pending' = pending
    BY <1>0, <1>4 DEF BeginCreate, BeginUpload, BeginRestore, disk
  <2>. QED
    BY <2>1 DEF TempKept
<1>5. CASE Crash
  BY <1>5 DEF Crash, TempKept, NoOp
<1>6. ASSUME NEW a \in Archives, SweepPending(a)
      PROVE  TempKept'
  BY <1>6 DEF SweepPending, TempKept
<1>7. CASE UNCHANGED <<op, pending>>
  BY <1>7 DEF TempKept
<1>8. CASE \/ \E a \in Archives : DeleteBackup(a) \/ SweepFailed(a)
           \/ \E s \in Servers : ServerToggles(s)
           \/ Tick \/ UNCHANGED vars
  BY <1>7, <1>8 DEF DeleteBackup, SweepFailed, ServerToggles, Tick, vars, disk
<1>. QED
  BY <1>1, <1>2, <1>3, <1>4, <1>5, <1>6, <1>8 DEF Next, RequestStep

\* What a step may do to the data of a row.
LossExcused(a) ==
    \/ Lost(a) \/ NameShared(a)
    \/ DeleteBackup(a) \/ SweepPending(a) \/ SweepFailed(a)

\* A row that is as it was keeps its data where it was, or shares its name with
\* what is stored or removed.
LEMMA LossAt ==
    ASSUME NEW a, rows[a] # None, rows'[a] = rows[a],
           a \in pending \cup failed => a \in pending' \cup failed',
           canon[rows[a]] = a => canon'[rows[a]] = a \/ NameShared(a)
    PROVE  Lost(a)' => LossExcused(a)
BY DEF Lost, LossExcused

LEMMA LossStep ==
    ASSUME TypeInv, Owners, NamesFit, TempKept, [Next]_vars, NEW a \in Archives, Lost(a)'
    PROVE  LossExcused(a)
<1>0. /\ op \in [Slots -> OpRecord] /\ rows \in [Archives -> Paths \cup {None}]
      /\ canon \in [Paths -> Archives \cup {None}]
      /\ \A o \in Slots : Storing(o) => op[o].arc \in Archives /\ rows[op[o].arc] = None
  BY DEF TypeInv, TypeOK, OpsNamed, OpNamed, Storing, Owners
<1>1. /\ rows'[a] # None /\ canon'[rows'[a]] # a /\ a \notin pending' \cup failed'
  BY DEF Lost
<1>2. ASSUME NEW o \in Slots,
             \/ CreateRolledBack(o) \/ UploadRejected(o)
             \/ Promotes(o) \/ PromotionFails(o)
      PROVE  LossExcused(a)
  <2> DEFINE b == op[o].arc
             n == op[o].path
  <2>1. /\ op[o].pc \in {"writing", "reading"} /\ b \in Archives /\ rows[b] = None
        /\ b \in pending /\ n \in Paths
    BY <1>0, <1>2 DEF CreateRolledBack, UploadRejected, Promotes, PromotionFails, Storing,
         TempKept, TypeInv, OpsNamed, OpNamed
  <2>2. a # b
    <3>1. CASE CreateRolledBack(o) \/ UploadRejected(o)
      BY <1>1, <2>1, <3>1 DEF CreateRolledBack, UploadRejected
    <3>2. CASE Promotes(o)
      BY <1>0, <1>1, <2>1, <3>2 DEF Promotes, CommitRow
    <3>3. CASE PromotionFails(o)
      BY <1>1, <2>1, <3>3 DEF PromotionFails
    <3>. QED
      BY <1>2, <3>1, <3>2, <3>3
  <2>3. rows'[a] = rows[a] /\ (a \in pending \cup failed => a \in pending' \cup failed')
    BY <1>0, <1>2, <2>2 DEF CreateRolledBack, UploadRejected, Promotes, PromotionFails, CommitRow
  <2>4. \/ canon' = canon
        \/ canon' = [canon EXCEPT ![n] = b]
        \/ op[o].pc = "reading" /\ canon' = [canon EXCEPT ![n] = None]
    BY <1>2 DEF CreateRolledBack, UploadRejected, Promotes, PromotionFails
  <2>5. CASE op[o].pc = "reading" /\ n = rows[a]
    BY <1>1, <2>3, <2>5 DEF NameShared, LossExcused
  <2>6. CASE n # rows[a]
    <3>1. canon'[rows[a]] = canon[rows[a]]
      BY <1>0, <1>1, <2>3, <2>4, <2>6
    <3>. QED
      BY <1>1, <2>3, <3>1, LossAt
  <2>7. CASE op[o].pc = "writing" /\ n = rows[a]
    <3>1. n = b /\ canon[n] \in {b, None}
      BY <2>1, <2>7 DEF NamesFit, OpFits
    <3>2. canon[rows[a]] # a
      BY <2>2, <2>7, <3>1, NameFacts, BackupAssumption DEF BackupAssumption
    <3>. QED
      BY <1>1, <2>3, <3>2, LossAt
  <2>. QED
    BY <2>1, <2>5, <2>6, <2>7
<1>3. CASE Crash
  <2>1. canon' = canon /\ pending' = pending /\ failed' = failed
    BY <1>3 DEF Crash, disk
  <2>2. CASE rows' = rows
    BY <1>1, <2>1, <2>2, LossAt
  <2>3. ASSUME NEW o \in Slots, op[o].pc \in {"writing", "reading"}, CommitRow(o)
        PROVE  LossExcused(a)
    <3>1. op[o].arc \in pending /\ op[o].arc \in Archives
      BY <1>0, <2>3 DEF TempKept, Storing
    <3>2. a # op[o].arc
      BY <1>1, <2>1, <3>1
    <3>3. rows'[a] = rows[a]
      BY <1>0, <2>3, <3>1, <3>2 DEF CommitRow
    <3>. QED
      BY <1>1, <2>1, <3>3, LossAt
  <2>. QED
    BY <1>3, <2>2, <2>3 DEF Crash
<1>4. ASSUME NEW c \in Archives, DeleteBackup(c)
      PROVE  LossExcused(a)
  <2>1. CASE c = a
    BY <1>4, <2>1 DEF LossExcused
  <2>2. CASE c # a
    <3>1. /\ rows[c] # None /\ canon' = [canon EXCEPT ![rows[c]] = None]
          /\ rows'[a] = rows[a] /\ pending' = pending /\ failed' = failed
      BY <1>0, <1>4, <2>2 DEF DeleteBackup
    <3>2. CASE rows[c] = rows[a]
      BY <1>1, <2>2, <3>1, <3>2 DEF NameShared, LossExcused
    <3>3. CASE rows[c] # rows[a]
      <4>1. canon'[rows[a]] = canon[rows[a]]
        BY <1>0, <1>1, <3>1, <3>3
      <4>. QED
        BY <1>1, <3>1, <4>1, LossAt
    <3>. QED
      BY <3>2, <3>3
  <2>. QED
    BY <2>1, <2>2
<1>5. ASSUME NEW c \in Archives, SweepPending(c) \/ SweepFailed(c)
      PROVE  LossExcused(a)
  <2>1. CASE c = a
    BY <1>5, <2>1 DEF LossExcused
  <2>2. CASE c # a
    <3>1. /\ rows' = rows /\ canon' = canon
          /\ a \in pending \cup failed => a \in pending' \cup failed'
      BY <1>5, <2>2 DEF SweepPending, SweepFailed
    <3>. QED
      BY <1>1, <3>1, LossAt
  <2>. QED
    BY <2>1, <2>2
<1>6. CASE rows' = rows /\ canon' = canon /\ pending \subseteq pending' /\ failed' = failed
  BY <1>1, <1>6, LossAt
<1>7. CASE \/ \E o \in Slots, s \in Servers, c \in Archives :
                BeginCreate(o, s, c) \/ BeginUpload(o, s, c) \/ BeginRestore(o, c, s)
           \/ \E o \in Slots :
                \/ CreateEnters(o) \/ Refused(o) \/ CreateWrites(o)
                \/ UploadOpens(o) \/ RestoreProceeds(o)
           \/ \E s \in Servers : ServerToggles(s)
           \/ Tick \/ UNCHANGED vars
  BY <1>6, <1>7
     DEF BeginCreate, BeginUpload, BeginRestore, CreateEnters, Refused, CreateWrites,
         UploadOpens, RestoreProceeds, ServerToggles, Tick, vars, disk
<1>. QED
  BY <1>2, <1>3, <1>4, <1>5, <1>7 DEF Next, RequestStep

-----------------------------------------------------------------------------
(* The theorems.                                                             *)

BackupInv ==
    /\ TypeInv /\ SemaphoresAccounted /\ Owners /\ NoOrphanArchive
    /\ NamesFit /\ TempKept

LEMMA BackupInvariant == Spec => []BackupInv
<1>1. Init => BackupInv
  <2>1. Init => Owners
    BY DEF Init, Owners, Storing, NoOp
  <2>2. Init => NamesFit /\ TempKept
    BY NameFacts DEF Init, NamesFit, TempKept, NoOp
  <2>3. QED
    BY <2>1, <2>2, InitInv DEF BackupInv
<1>2. BackupInv /\ [Next]_vars => BackupInv'
  BY TypeStep, SemStep, OwnersStep, OrphanStep, FitsStep, TempStep DEF BackupInv
<1>3. QED
  BY <1>1, <1>2, PTL DEF Spec

\* The catalogue, the disk, the requests and the semaphores keep their types.
THEOREM BackupTypes == Spec => []TypeOK
<1>1. BackupInv => TypeOK
  BY DEF BackupInv, TypeInv
<1>2. QED
  BY <1>1, BackupInvariant, PTL

\* For any number of requests, limits and failures, a semaphore counts exactly
\* the requests inside it (ConcurrencySemaphore, BackupService).
THEOREM SemaphoresCount == Spec => []SemaphoresAccounted
<1>1. BackupInv => SemaphoresAccounted
  BY DEF BackupInv
<1>2. QED
  BY <1>1, BackupInvariant, PTL

\* For any number of requests, servers and failures, an archive under its final
\* name has a row (the commit precedes os.replace).
THEOREM NoOrphans == Spec => []NoOrphanArchive
<1>1. BackupInv => NoOrphanArchive
  BY DEF BackupInv
<1>2. QED
  BY <1>1, BackupInvariant, PTL

\* For any number of requests, uploads, seconds and failures: the archive of a
\* committed row is lost only to its own deletion, to the sweep, or, if it was
\* uploaded, to another upload of the same second.
THEOREM ArchivesKept == Spec => ArchiveKept
<1>1. ASSUME BackupInv, [Next]_vars
      PROVE  [\A a \in Archives :
                Lost(a)' => \/ Lost(a)
                            \/ DeleteBackup(a) \/ SweepPending(a) \/ SweepFailed(a)
                            \/ NameShared(a)]_vars
  BY <1>1, LossStep DEF BackupInv, LossExcused
<1>2. QED
  BY <1>1, BackupInvariant, PTL DEF Spec, ArchiveKept

\* For any number of requests, uploads, seconds and failures: a restore that had to
\* wait restores its own archive or, if that was uploaded, an upload.
THEOREM RestoresTheRightOne == Spec => RestoresItsBackup
<1> DEFINE Right(o) ==
             RestoreProceeds(o) =>
               \/ dirs'[op[o].srv] \in {op[o].arc, dirs[op[o].srv], "partial"}
               \/ {op[o].arc, dirs'[op[o].srv]} \subseteq Uploads
<1>1. ASSUME BackupInv, NEW o \in Slots
      PROVE  Right(o)
  <2>1. SUFFICES ASSUME RestoreProceeds(o)
                 PROVE  \/ dirs'[op[o].srv] \in {op[o].arc, dirs[op[o].srv], "partial"}
                        \/ {op[o].arc, dirs'[op[o].srv]} \subseteq Uploads
    OBVIOUS
  <2>2. /\ op[o].pc = "restore" /\ op[o].srv \in Servers /\ op[o].arc \in Archives
        /\ NameFits(op[o].arc, op[o].path) /\ dirs \in [Servers -> Contents]
    BY <1>1, <2>1 DEF BackupInv, TypeInv, TypeOK, OpsNamed, OpNamed, NamesFit, OpFits, RestoreProceeds
  <2>3. CASE canon[op[o].path] = None
    BY <2>1, <2>3 DEF RestoreProceeds, Extract, worlds
  <2>4. CASE canon[op[o].path] # None
    <3>1. dirs'[op[o].srv] \in {canon[op[o].path], "partial"}
      BY <2>1, <2>2, <2>4 DEF RestoreProceeds, Extract
    <3>2. CASE op[o].arc \in Uploads
      <4>1. canon[op[o].path] \in Uploads
        BY <1>1, <2>2, <2>4, <3>2 DEF BackupInv, NamesFit, NameFits
      <4>. QED
        BY <3>1, <3>2, <4>1
    <3>3. CASE op[o].arc \notin Uploads
      <4>1. canon[op[o].path] = op[o].arc
        BY <1>1, <2>2, <2>4, <3>3 DEF BackupInv, NamesFit, NameFits
      <4>. QED
        BY <3>1, <4>1
    <3>. QED
      BY <3>2, <3>3
  <2>. QED
    BY <2>3, <2>4
<1>2. BackupInv /\ [Next]_vars => [\A o \in Slots : Right(o)]_vars
  BY <1>1
<1>3. QED
  BY <1>2, BackupInvariant, PTL DEF Spec, RestoresItsBackup
=============================================================================
