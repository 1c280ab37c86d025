------------------------- MODULE FileHistoryProofs -------------------------
(* Proofs about FileHistory, for any number of requests, kept versions and   *)
(* attempts, and any set of failures.                                        *)
EXTENDS FileHistory, FiniteSetTheorems, TLAPS

-----------------------------------------------------------------------------
(* Records of requests                                                       *)

\* A request whose backup is over has its types and nothing of the version left.
LEMMA ToWriteTyped ==
    ASSUME NEW r \in OpRecord
    PROVE  /\ ToWrite(r) \in OpRecord
           /\ ToWrite(r).pc = "truncating" /\ ToWrite(r).new = r.new
BY DEF ToWrite, NoOp, OpRecord, Pc

\* Unlinking a file changes nothing of a request but whether its handle has a name.
LEMMA CutTyped ==
    ASSUME NEW r \in OpRecord, NEW names
    PROVE  /\ Cut(r, names) \in OpRecord
           /\ Cut(r, names).pc = r.pc /\ Cut(r, names).text = r.text
           /\ Cut(r, names).new = r.new
           /\ Cut(r, names).version = r.version /\ Cut(r, names).stamp = r.stamp
           /\ Name(r) \notin names \/ r.pc # "filling" => Cut(r, names) = r
BY DEF Cut, OpRecord

\* The same for the server's file, which only a request that writes it has open.
LEMMA CutLiveTyped ==
    ASSUME NEW r \in OpRecord
    PROVE  /\ CutLive(r) \in OpRecord
           /\ CutLive(r).pc = r.pc
           /\ r.pc # "writing" => CutLive(r) = r
BY DEF CutLive, OpRecord

\* The next version number is a number.
LEMMA NextVersionsTyped ==
    ASSUME TypeOK
    PROVE  NextVersions \subseteq Nat
BY DEF TypeOK, NextVersions, Row

\* An attempt ends at the server's file, or with a new name for the text it read.
LEMMA AttemptsTyped ==
    ASSUME TypeOK, NEW r \in OpRecord, NEW e \in Attempts(r)
    PROVE  /\ e \in OpRecord
           /\ \/ e.pc = "truncating"
              \/ e.pc = "opening" /\ e.stamp = now /\ e.text = r.text
<1>1. CASE e = ToWrite(r)
  BY <1>1, ToWriteTyped
<1>2. ASSUME NEW v \in NextVersions,
             e = [r EXCEPT !.pc = "opening", !.version = v, !.stamp = now]
      PROVE  e \in OpRecord /\ e.pc = "opening" /\ e.stamp = now /\ e.text = r.text
  <2>1. v \in Nat /\ now \in Nat
    BY NextVersionsTyped DEF TypeOK
  <2>. QED
    BY <1>2, <2>1 DEF OpRecord, Pc
<1>. QED
  BY <1>1, <1>2 DEF Attempts

\* What follows a lost number: an attempt with another name for the same text, or
\* the server's file.
LEMMA AgainTyped ==
    ASSUME TypeOK, NEW r \in OpRecord, NEW e \in Again(r)
    PROVE  /\ e \in OpRecord
           /\ \/ e.pc = "truncating"
              \/ e.pc = "opening" /\ e.stamp = now /\ e.text = r.text
<1> DEFINE a == [r EXCEPT !.attempt = @ + 1]
<1>1. a \in OpRecord /\ a.text = r.text
  BY DEF OpRecord
<1>2. e \in Attempts(a) \/ e = ToWrite(r)
  BY DEF Again
<1> HIDE DEF a
<1>. QED
  BY <1>1, <1>2, AttemptsTyped, ToWriteTyped

-----------------------------------------------------------------------------
(* Types                                                                     *)

\* A file that is written or unlinked leaves a function from names to texts.
LEMMA PutTyped ==
    ASSUME TypeOK, NEW n \in Nat \X Nat, NEW t \in Texts, Put(n, t)
    PROVE  /\ DOMAIN disk' = DOMAIN disk \cup {n}
           /\ DOMAIN disk' \subseteq Nat \X Nat /\ disk' \in [DOMAIN disk' -> Texts]
           /\ disk'[n] = t
           /\ \A m \in DOMAIN disk : m # n => disk'[m] = disk[m]
BY DEF TypeOK, Put

LEMMA UnlinkTyped ==
    ASSUME TypeOK, NEW names, Unlink(names)
    PROVE  /\ DOMAIN disk' = DOMAIN disk \ names
           /\ DOMAIN disk' \subseteq Nat \X Nat /\ disk' \in [DOMAIN disk' -> Texts]
           /\ \A m \in DOMAIN disk' : disk'[m] = disk[m]
BY DEF TypeOK, Unlink

\* The name of a request's version file is a name.
LEMMA NameTyped ==
    ASSUME NEW r \in OpRecord \cup Row
    PROVE  Name(r) \in Nat \X Nat
BY DEF Name, OpRecord, Row

LEMMA NoOpTyped == NoOp \in OpRecord
BY DEF NoOp, OpRecord, Pc, Kinds

\* The requests as a whole: one changes, the others are cut off at most.
LEMMA OpTyped ==
    ASSUME TypeOK, NEW o \in Requests, NEW r \in OpRecord, NEW names,
           op' = [p \in Requests |-> IF p = o THEN r ELSE Cut(op[p], names)]
    PROVE  op' \in [Requests -> OpRecord]
<1>1. \A p \in Requests : op[p] \in OpRecord
  BY DEF TypeOK
<1>. QED
  BY <1>1, CutTyped

LEMMA BecomesTyped ==
    ASSUME TypeOK, NEW o \in Requests, NEW r \in OpRecord, Becomes(o, r)
    PROVE  op' \in [Requests -> OpRecord]
BY DEF TypeOK, Becomes

\* The beginnings of the requests.
LEMMA BeginsTyped ==
    ASSUME TypeOK, NEW o \in Requests, Begins(o)
    PROVE  /\ UNCHANGED <<now, live, rows, disk>>
           /\ \E e \in OpRecord : Becomes(o, e) /\ e.pc # "opening" /\ e.pc # "filling" /\ e.pc # "inserting"
           /\ op[o].pc = "idle"
           /\ op'[o].pc = "getting" =>
                \E r \in rows : Name(op'[o]) = Name(r) /\ op'[o].stamp = r.stamp /\ op'[o].text = r.text
<1>1. ASSUME NEW c \in Contents, NEW b \in BOOLEAN, BeginWrite(o, c, b)
      PROVE  \E e \in OpRecord : Becomes(o, e) /\ e.pc \in {"reading", "truncating"}
  <2> DEFINE e == [NoOp EXCEPT !.kind = "edit", !.new = c,
                               !.pc = IF b /\ live # "absent" THEN "reading" ELSE "truncating"]
  <2>1. Becomes(o, e)
    BY <1>1 DEF BeginWrite
  <2>2. e \in OpRecord /\ e.pc \in {"reading", "truncating"}
    BY DEF NoOp, OpRecord, Pc, Kinds, Texts
  <2> HIDE DEF e
  <2>. QED
    BY <2>1, <2>2
<1>2. ASSUME NEW c \in Contents, BeginUpload(o, c)
      PROVE  \E e \in OpRecord : Becomes(o, e) /\ e.pc \in {"reading", "truncating"}
  <2> DEFINE e == [NoOp EXCEPT !.kind = "upload", !.new = c, !.pc = "truncating"]
  <2>1. Becomes(o, e)
    BY <1>2 DEF BeginUpload
  <2>2. e \in OpRecord /\ e.pc = "truncating"
    BY DEF NoOp, OpRecord, Pc, Kinds, Texts
  <2> HIDE DEF e
  <2>. QED
    BY <2>1, <2>2
<1>3. ASSUME NEW r \in rows, NEW b \in BOOLEAN, BeginRestore(o, r, b)
      PROVE  \E e \in OpRecord : /\ Becomes(o, e) /\ e.pc = "getting"
                                /\ Name(e) = Name(r) /\ e.stamp = r.stamp /\ e.text = r.text
  <2> DEFINE e == [NoOp EXCEPT !.kind = "edit", !.text = r.text, !.backup = b,
                               !.version = r.version, !.stamp = r.stamp, !.pc = "getting"]
  <2>1. Becomes(o, e)
    BY <1>3 DEF BeginRestore
  <2>2. r \in Row
    BY DEF TypeOK
  <2>3. e \in OpRecord /\ e.pc = "getting" /\ Name(e) = Name(r) /\ e.stamp = r.stamp /\ e.text = r.text
    BY <2>2 DEF NoOp, OpRecord, Pc, Kinds, Row, Name
  <2> HIDE DEF e
  <2>. QED
    BY <2>1, <2>3
<1>4. UNCHANGED <<now, live, rows, disk>> /\ op[o].pc = "idle"
  BY DEF Begins, BeginWrite, BeginUpload, BeginRestore
<1>5. ASSUME NEW e \in OpRecord, Becomes(o, e)
      PROVE  op'[o] = e
  BY <1>5 DEF Becomes, TypeOK
<1>. QED
  BY <1>1, <1>2, <1>3, <1>4, <1>5 DEF Begins

\* The rows that an insertion keeps.
LEMMA KeptTyped ==
    ASSUME NEW set
    PROVE  Kept(set) \subseteq set
BY DEF Kept

\* The row of a request, and the rows with it, are rows.
LEMMA WithTyped ==
    ASSUME TypeOK, NEW r \in OpRecord, r.text \in Texts
    PROVE  With(r) \subseteq Row /\ Version(r) \in Row
BY DEF TypeOK, OpRecord, Row, With, Version

\* What a request that backs up a file has read.
HasRead == \A o \in Requests :
    op[o].pc \in {"opening", "filling", "inserting"} => op[o].text \in Texts

\* What each step of a request makes of its record.
LEMMA GetsVersionTyped ==
    ASSUME TypeOK, NEW o \in Requests, GetsVersion(o)
    PROVE  /\ UNCHANGED <<now, live, rows, disk>>
           /\ op[o].pc = "getting"
           /\ \E e \in OpRecord :
                /\ Becomes(o, e)
                /\ \/ e.pc = "idle" 
                   \/ /\ e.pc \in {"reading", "truncating"}
                      /\ Name(op[o]) \in DOMAIN disk
                      /\ e.new = disk[Name(op[o])]
<1> DEFINE n == Name(op[o])
           r == [op[o] EXCEPT !.new = disk[n]]
           w == ToWrite(r)
           b == [w EXCEPT !.pc = "reading"]
<1>1. UNCHANGED <<now, live, rows, disk>> /\ op[o].pc = "getting"
  BY DEF GetsVersion
<1>2. CASE n \notin DOMAIN disk
  BY <1>1, <1>2, NoOpTyped DEF GetsVersion, Ends, NoOp
<1>3. CASE n \in DOMAIN disk
  <2>1. op[o] \in OpRecord /\ disk[n] \in Texts
    BY <1>3 DEF TypeOK
  <2>3. r \in OpRecord /\ r.new = disk[n]
    BY <2>1 DEF OpRecord
  <2> HIDE DEF r
  <2>4. w \in OpRecord /\ w.pc = "truncating" /\ w.new = disk[n]
    BY <2>3, ToWriteTyped
  <2> HIDE DEF w
  <2>5. b \in OpRecord /\ b.pc = "reading" /\ b.new = disk[n]
    BY <2>4 DEF OpRecord, Pc
  <2> HIDE DEF b
  <2>6. Becomes(o, b) \/ Becomes(o, w)
    BY <1>3 DEF GetsVersion, r, w, b
  <2>. QED
    BY <1>1, <1>3, <2>4, <2>5, <2>6
<1>. QED
  BY <1>2, <1>3

LEMMA ReadsCurrentTyped ==
    ASSUME TypeOK, NEW o \in Requests, ReadsCurrent(o)
    PROVE  /\ UNCHANGED <<now, live, rows, disk>>
           /\ op[o].pc = "reading"
           /\ \E e \in OpRecord :
                /\ Becomes(o, e)
                /\ \/ e.pc = "truncating"
                   \/ e.pc = "opening" /\ e.stamp = now /\ e.text \in Texts
<1>1. UNCHANGED <<now, live, rows, disk>> /\ op[o].pc = "reading"
  BY DEF ReadsCurrent
<1>2. op[o] \in OpRecord
  BY DEF TypeOK
<1>3. CASE live = "absent" /\ Becomes(o, ToWrite(op[o]))
  BY <1>1, <1>2, <1>3, ToWriteTyped
<1>4. CASE live # "absent" /\ \E r \in Attempts([op[o] EXCEPT !.text = live, !.attempt = 1]) : Becomes(o, r)
  <2> DEFINE r == [op[o] EXCEPT !.text = live, !.attempt = 1]
  <2>1. r \in OpRecord /\ r.text = live /\ live \in Texts
    BY <1>2, <1>4 DEF TypeOK, OpRecord
  <2> HIDE DEF r
  <2>2. PICK e \in Attempts(r) : Becomes(o, e)
    BY <1>4 DEF r
  <2>. QED
    BY <1>1, <2>1, <2>2, AttemptsTyped
<1>. QED
  BY <1>3, <1>4 DEF ReadsCurrent

LEMMA OpensVersionTyped ==
    ASSUME TypeOK, NEW o \in Requests, OpensVersion(o)
    PROVE  /\ UNCHANGED <<now, live, rows>>
           /\ op[o].pc = "opening"
           /\ Put(Name(op[o]), "empty")
           /\ \E e \in OpRecord : /\ Becomes(o, e) /\ e.pc = "filling" /\ e.linked
                                 /\ Name(e) = Name(op[o]) /\ e.stamp = op[o].stamp /\ e.text = op[o].text
<1> DEFINE e == [op[o] EXCEPT !.pc = "filling", !.linked = TRUE]
<1>1. op[o] \in OpRecord
  BY DEF TypeOK
<1>2. /\ e \in OpRecord /\ e.pc = "filling" /\ e.linked
      /\ Name(e) = Name(op[o]) /\ e.stamp = op[o].stamp /\ e.text = op[o].text
  BY <1>1 DEF OpRecord, Pc, Name
<1>3. Becomes(o, e)
  BY DEF OpensVersion
<1> HIDE DEF e
<1>. QED
  BY <1>2, <1>3 DEF OpensVersion

LEMMA FillsVersionTyped ==
    ASSUME TypeOK, NEW o \in Requests, FillsVersion(o)
    PROVE  /\ UNCHANGED <<now, live, rows>>
           /\ op[o].pc = "filling"
           /\ \/ op[o].linked /\ \E t \in Overlay(disk[Name(op[o])], op[o].text) : Put(Name(op[o]), t)
              \/ ~op[o].linked /\ UNCHANGED disk
           /\ \E e \in OpRecord : /\ Becomes(o, e) /\ e.pc = "inserting"
                                 /\ Name(e) = Name(op[o]) /\ e.stamp = op[o].stamp /\ e.text = op[o].text
<1> DEFINE e == [op[o] EXCEPT !.pc = "inserting", !.linked = FALSE]
<1>1. op[o] \in OpRecord
  BY DEF TypeOK
<1>2. /\ e \in OpRecord /\ e.pc = "inserting"
      /\ Name(e) = Name(op[o]) /\ e.stamp = op[o].stamp /\ e.text = op[o].text
  BY <1>1 DEF OpRecord, Pc, Name
<1>3. Becomes(o, e)
  BY DEF FillsVersion
<1> HIDE DEF e
<1>. QED
  BY <1>2, <1>3 DEF FillsVersion

LEMMA InsertsTyped ==
    ASSUME TypeOK, NEW o \in Requests, Inserts(o)
    PROVE  LET all == With(op[o])
               gone == Names(all \ Kept(all))
           IN  /\ UNCHANGED <<now, live>>
               /\ op[o].pc = "inserting" /\ ~Taken(op[o].version)
               /\ rows' = Kept(all) /\ Unlink(gone)
               /\ parted' = parted \ {Version(op[o])} /\ late' = {}
               /\ \E e \in OpRecord :
                    /\ e.pc = "truncating"
                    /\ op' = [p \in Requests |-> IF p = o THEN e ELSE Cut(op[p], gone)]
<1>1. op[o] \in OpRecord
  BY DEF TypeOK
<1>2. ToWrite(op[o]) \in OpRecord /\ ToWrite(op[o]).pc = "truncating"
  BY <1>1, ToWriteTyped
<1>. QED
  BY <1>2 DEF Inserts

LEMMA CleanupFailsTyped ==
    ASSUME TypeOK, NEW o \in Requests, CleanupFails(o)
    PROVE  /\ UNCHANGED <<now, live>>
           /\ op[o].pc = "inserting" /\ ~Taken(op[o].version)
           /\ rows' = With(op[o])
           /\ late' = late \cup {Version(op[o])}
           /\ \E gone \in SUBSET With(op[o]), e \in OpRecord :
                /\ Unlink(Names(gone))
                /\ parted' = (parted \ {Version(op[o])}) \cup gone
                /\ e.pc = "truncating"
                /\ op' = [p \in Requests |-> IF p = o THEN e ELSE Cut(op[p], Names(gone))]
<1>1. op[o] \in OpRecord
  BY DEF TypeOK
<1>2. ToWrite(op[o]) \in OpRecord /\ ToWrite(op[o]).pc = "truncating"
  BY <1>1, ToWriteTyped
<1>. QED
  BY <1>2 DEF CleanupFails

LEMMA CollidesTyped ==
    ASSUME TypeOK, NEW o \in Requests, Collides(o)
    PROVE  /\ UNCHANGED <<now, live, rows>>
           /\ op[o].pc = "inserting"
           /\ Unlink({Name(op[o])})
           /\ \E e \in OpRecord :
                /\ op' = [p \in Requests |-> IF p = o THEN e ELSE Cut(op[p], {Name(op[o])})]
                /\ \/ e.pc = "truncating"
                   \/ /\ e.pc = "opening" /\ e.stamp = now /\ e.text = op[o].text
                      /\ e # op[o]
<1>1. op[o] \in OpRecord
  BY DEF TypeOK
<1>2. /\ UNCHANGED <<now, live, rows>>
      /\ op[o].pc = "inserting"
      /\ Unlink({Name(op[o])})
      /\ \E e \in Again(op[o]) :
            op' = [p \in Requests |-> IF p = o THEN e ELSE Cut(op[p], {Name(op[o])})]
  BY DEF Collides
<1>3. \A e \in Again(op[o]) : e.pc = "opening" => e # op[o]
  BY <1>2
<1>. QED
  BY <1>1, <1>2, <1>3, AgainTyped

LEMMA CollidesLeavingTyped ==
    ASSUME TypeOK, NEW o \in Requests, CollidesLeaving(o)
    PROVE  /\ UNCHANGED <<now, live, rows, disk, late>>
           /\ op[o].pc = "inserting"
           /\ parted' = parted \cup {Version(op[o])}
           /\ \E e \in OpRecord :
                /\ Becomes(o, e)
                /\ \/ e.pc = "truncating"
                   \/ e.pc = "opening" /\ e.stamp = now /\ e.text = op[o].text
<1>1. op[o] \in OpRecord
  BY DEF TypeOK
<1>2. PICK e \in Again(op[o]) : Becomes(o, e)
  BY DEF CollidesLeaving
<1>. QED
  BY <1>1, <1>2, AgainTyped DEF CollidesLeaving

\* A request that backs up nothing and reads no version.
Away == {"idle", "reading", "truncating", "writing"}

\* The steps that leave a version file behind.
Fails == Crash \/ \E o \in Requests : BackupFails(o)

\* A step that changes neither rows nor version files, after which every request
\* is as it was or is away, and gave up no backup unless the step is a failure.
Aside ==
    /\ UNCHANGED <<rows, disk>>
    /\ \A p \in Requests :
        \/ op'[p] = op[p]
        \/ op'[p].pc \in Away /\ (Fails \/ op[p].pc \in Away \cup {"getting"})

LEMMA BackupFailsAside ==
    ASSUME TypeOK, NEW o \in Requests, BackupFails(o)
    PROVE  UNCHANGED <<now, live>> /\ Aside /\ op' \in [Requests -> OpRecord]
<1>1. op[o] \in OpRecord
  BY DEF TypeOK
<1>2. ToWrite(op[o]) \in OpRecord /\ ToWrite(op[o]).pc = "truncating"
  BY <1>1, ToWriteTyped
<1>. QED
  BY <1>2, BecomesTyped DEF BackupFails, Becomes, Aside, Away, Fails, TypeOK

LEMMA OpensLiveAside ==
    ASSUME TypeOK, NEW o \in Requests, OpensLive(o)
    PROVE  now' = now /\ live' \in Texts /\ Aside /\ op' \in [Requests -> OpRecord]
<1> DEFINE e == [op[o] EXCEPT !.pc = "writing", !.linked = TRUE]
<1>1. op[o] \in OpRecord
  BY DEF TypeOK
<1>2. e \in OpRecord /\ e.pc = "writing"
  BY <1>1 DEF OpRecord, Pc
<1>3. Becomes(o, e)
  BY DEF OpensLive
<1> HIDE DEF e
<1>. QED
  BY <1>2, <1>3, BecomesTyped DEF OpensLive, Becomes, Aside, Away, TypeOK, Texts

LEMMA WritesLiveAside ==
    ASSUME TypeOK, NEW o \in Requests, WritesLive(o)
    PROVE  now' = now /\ live' \in Texts \cup {"absent"} /\ Aside /\ op' \in [Requests -> OpRecord]
<1>1. Overlay(live, op[o].new) \subseteq Texts \cup {"absent"}
  BY DEF Overlay, TypeOK, OpRecord, Texts
<1>2. live' \in Texts \cup {"absent"}
  BY <1>1 DEF WritesLive, TypeOK
<1>3. NoOp.pc = "idle"
  BY DEF NoOp
<1>. QED
  BY <1>2, <1>3, NoOpTyped, BecomesTyped DEF WritesLive, Ends, Becomes, Aside, Away, TypeOK

LEMMA UploadTooLargeAside ==
    ASSUME TypeOK, NEW o \in Requests, UploadTooLarge(o)
    PROVE  now' = now /\ live' = "absent" /\ Aside /\ op' \in [Requests -> OpRecord]
<1>1. NoOp.pc = "idle"
  BY DEF NoOp
<1>2. \A p \in Requests : op[p] \in OpRecord
  BY DEF TypeOK
<1>. QED
  BY <1>1, <1>2, NoOpTyped, CutLiveTyped DEF UploadTooLarge, Aside, Away

LEMMA ReplacedAside ==
    ASSUME TypeOK, NEW t, Replaced(t)
    PROVE  now' = now /\ live' = t /\ Aside /\ op' \in [Requests -> OpRecord]
<1>1. \A p \in Requests : op[p] \in OpRecord
  BY DEF TypeOK
<1>. QED
  BY <1>1, CutLiveTyped DEF Replaced, Aside, Away

LEMMA CrashAside ==
    ASSUME TypeOK, Crash
    PROVE  UNCHANGED <<now, live>> /\ Aside /\ op' \in [Requests -> OpRecord]
<1>1. NoOp.pc = "idle"
  BY DEF NoOp
<1>. QED
  BY <1>1, NoOpTyped DEF Crash, Aside, Away, Fails

\* The steps of the environment that touch no version.
LEMMA OutsideAside ==
    ASSUME TypeOK,
           \/ \E c \in Contents : RenameHere(c) \/ MoveHere(c) \/ Extract(c)
           \/ DeleteLive \/ Tick \/ Crash
    PROVE  now' \in Nat /\ live' \in Texts \cup {"absent"} /\ Aside /\ op' \in [Requests -> OpRecord]
<1>1. CASE \E c \in Contents : RenameHere(c) \/ MoveHere(c)
  BY <1>1, ReplacedAside DEF RenameHere, MoveHere, TypeOK, Texts
<1>2. CASE \E c \in Contents : Extract(c)
  BY <1>2 DEF Extract, TypeOK, Texts, Aside
<1>3. CASE DeleteLive
  BY <1>3, ReplacedAside DEF DeleteLive, TypeOK
<1>4. CASE Tick
  BY <1>4 DEF Tick, TypeOK, Aside
<1>5. CASE Crash
  BY <1>5, CrashAside DEF TypeOK
<1>. QED
  BY <1>1, <1>2, <1>3, <1>4, <1>5

\* A request reads the current content and names a new version.
Starts(o) ==
    /\ UNCHANGED <<now, live, rows, disk>>
    /\ op[o].pc = "reading"
    /\ \E e \in OpRecord :
        Becomes(o, e) /\ e.pc = "opening" /\ e.stamp = now /\ e.text \in Texts

\* A request finds the version that it restores.
Finds(o) ==
    /\ UNCHANGED <<now, live, rows, disk>>
    /\ op[o].pc = "idle"
    /\ \E e \in OpRecord, r \in rows :
        /\ Becomes(o, e) /\ e.pc = "getting"
        /\ Name(e) = Name(r) /\ e.stamp = r.stamp /\ e.text = r.text

Becoming(o, e) == \A p \in Requests : op'[p] = IF p = o THEN e ELSE op[p]

LEMMA BecomesAt ==
    ASSUME TypeOK, NEW o \in Requests, NEW e, Becomes(o, e)
    PROVE  Becoming(o, e)
BY DEF TypeOK, Becomes, Becoming

\* A beginning finds a version or keeps aside.
LEMMA BeginsFinds ==
    ASSUME TypeOK, NEW o \in Requests, Begins(o)
    PROVE  /\ UNCHANGED <<now, live>> /\ op' \in [Requests -> OpRecord]
           /\ Aside \/ Finds(o)
<1>1. PICK e \in OpRecord :
        Becomes(o, e) /\ e.pc # "opening" /\ e.pc # "filling" /\ e.pc # "inserting"
  BY BeginsTyped
<1>2. op'[o] = e /\ op[o].pc \in Away
  BY <1>1, BecomesAt, BeginsTyped DEF Becoming, Away
<1>3. CASE e.pc = "getting"
  BY <1>1, <1>2, <1>3, BeginsTyped, BecomesTyped DEF Finds
<1>4. CASE e.pc \in Away
  BY <1>1, <1>2, <1>4, BeginsTyped, BecomesTyped, BecomesAt DEF Aside, Becoming
<1>. QED
  BY <1>1, <1>3, <1>4 DEF OpRecord, Pc, Away

LEMMA GetsVersionAside ==
    ASSUME TypeOK, NEW o \in Requests, GetsVersion(o)
    PROVE  Aside /\ op' \in [Requests -> OpRecord]
<1>1. PICK e \in OpRecord : Becomes(o, e) /\ e.pc \in Away
  BY GetsVersionTyped DEF Away
<1>. QED
  BY <1>1, GetsVersionTyped, BecomesTyped, BecomesAt DEF Aside, Becoming

LEMMA ReadsCurrentStarts ==
    ASSUME TypeOK, NEW o \in Requests, ReadsCurrent(o)
    PROVE  (Aside \/ Starts(o)) /\ op' \in [Requests -> OpRecord]
<1>1. PICK e \in OpRecord :
        /\ Becomes(o, e)
        /\ \/ e.pc = "truncating"
           \/ e.pc = "opening" /\ e.stamp = now /\ e.text \in Texts
  BY ReadsCurrentTyped
<1>2. op' \in [Requests -> OpRecord] /\ Becoming(o, e)
  BY <1>1, BecomesTyped, BecomesAt
<1>3. CASE e.pc = "truncating"
  BY <1>2, <1>3, ReadsCurrentTyped DEF Aside, Becoming, Away
<1>4. CASE e.pc = "opening" /\ e.stamp = now /\ e.text \in Texts
  BY <1>1, <1>2, <1>4, ReadsCurrentTyped DEF Starts
<1>. QED
  BY <1>1, <1>3, <1>4

\* delete_version and cleanup_old_versions remove some rows, or fail to.
LEMMA RemovalShapes ==
    ASSUME \/ \E r \in rows : DeleteVersion(r)
           \/ \E cutoff \in 1..now : CleanupOld(cutoff)
    PROVE  \E set \in SUBSET rows : Removes(set) \/ RemovalFails(set)
<1>1. ASSUME NEW r \in rows, DeleteVersion(r)
      PROVE  \E set \in SUBSET rows : Removes(set) \/ RemovalFails(set)
  <2>1. (Removes({r}) \/ RemovalFails({r})) /\ {r} \in SUBSET rows
    BY <1>1 DEF DeleteVersion
  <2>. QED
    BY <2>1
<1>2. ASSUME NEW cutoff \in 1..now, CleanupOld(cutoff)
      PROVE  \E set \in SUBSET rows : Removes(set) \/ RemovalFails(set)
  <2> DEFINE old == {r \in rows : r.stamp < cutoff}
  <2>1. (Removes(old) \/ RemovalFails(old)) /\ old \in SUBSET rows
    BY <1>2 DEF CleanupOld
  <2> HIDE DEF old
  <2>. QED
    BY <2>1
<1>. QED
  BY <1>1, <1>2

\* What a step is, seen from the rows and the version files.
LEMMA StepShapes ==
    ASSUME TypeOK, Next
    PROVE  \/ /\ UNCHANGED debts
              /\ \/ Aside
                 \/ \E o \in Requests : \/ Starts(o) \/ Finds(o) \/ OpensVersion(o)
                                      \/ FillsVersion(o) \/ Collides(o)
           \/ \E o \in Requests : Inserts(o) \/ CleanupFails(o) \/ CollidesLeaving(o)
           \/ \E set \in SUBSET rows : Removes(set) \/ RemovalFails(set)
<1>1. ASSUME NEW o \in Requests, RequestStep(o)
      PROVE  \/ /\ UNCHANGED debts
                /\ Aside \/ Starts(o) \/ OpensVersion(o) \/ FillsVersion(o) \/ Collides(o)
             \/ Inserts(o) \/ CleanupFails(o) \/ CollidesLeaving(o)
  BY <1>1, GetsVersionAside, ReadsCurrentStarts, BackupFailsAside, OpensLiveAside,
     WritesLiveAside, UploadTooLargeAside, Zenon DEF RequestStep
<1>2. ASSUME NEW o \in Requests, Begins(o)
      PROVE  Aside \/ Finds(o)
  BY <1>2, BeginsFinds
<1>3. ASSUME NEW r \in rows, DeleteVersion(r)
      PROVE  \E set \in SUBSET rows : Removes(set) \/ RemovalFails(set)
  BY <1>3, RemovalShapes
<1>4. ASSUME NEW cutoff \in 1..now, CleanupOld(cutoff)
      PROVE  \E set \in SUBSET rows : Removes(set) \/ RemovalFails(set)
  BY <1>4, RemovalShapes
<1>. QED
  BY <1>1, <1>2, <1>3, <1>4, OutsideAside DEF Next

LEMMA RemovesTyped ==
    ASSUME TypeOK, NEW set \in SUBSET rows, Removes(set)
    PROVE  /\ UNCHANGED <<now, live>> /\ rows' \subseteq rows
           /\ op' \in [Requests -> OpRecord]
           /\ DOMAIN disk' \subseteq Nat \X Nat /\ disk' \in [DOMAIN disk' -> Texts]
           /\ parted' \subseteq parted /\ late' \subseteq late
<1>1. \A p \in Requests : op[p] \in OpRecord
  BY DEF TypeOK
<1>2. op' \in [Requests -> OpRecord]
  BY <1>1, CutTyped DEF Removes
<1>. QED
  BY <1>2, UnlinkTyped DEF Removes

LEMMA RemovalFailsTyped ==
    ASSUME TypeOK, NEW set \in SUBSET rows, RemovalFails(set)
    PROVE  /\ UNCHANGED <<now, live, rows, late>>
           /\ op' \in [Requests -> OpRecord]
           /\ DOMAIN disk' \subseteq Nat \X Nat /\ disk' \in [DOMAIN disk' -> Texts]
           /\ \E gone \in SUBSET rows :
                /\ Unlink(Names(gone))
                /\ op' = [p \in Requests |-> Cut(op[p], Names(gone))]
                /\ parted' = parted \cup gone
<1>0. \A p \in Requests : op[p] \in OpRecord
  BY DEF TypeOK
<1>1. PICK gone \in SUBSET set :
        /\ Unlink(Names(gone))
        /\ op' = [p \in Requests |-> Cut(op[p], Names(gone))]
        /\ parted' = parted \cup gone
  BY DEF RemovalFails
<1>2. op' \in [Requests -> OpRecord]
  BY <1>0, <1>1, CutTyped
<1>. QED
  BY <1>1, <1>2, UnlinkTyped DEF RemovalFails

\* The steps that write version files or rows keep the types.
LEMMA OpensVersionKeepsTypes ==
    ASSUME TypeOK, NEW o \in Requests, OpensVersion(o), UNCHANGED debts, alike' \in BOOLEAN
    PROVE  TypeOK'
<1>1. Name(op[o]) \in Nat \X Nat /\ "empty" \in Texts
  BY NameTyped DEF TypeOK, Texts
<1>2. op' \in [Requests -> OpRecord]
  BY OpensVersionTyped, BecomesTyped
<1>. QED
  BY <1>1, <1>2, OpensVersionTyped, PutTyped DEF TypeOK, debts

LEMMA FillsVersionKeepsTypes ==
    ASSUME TypeOK, HasRead, NEW o \in Requests, FillsVersion(o), UNCHANGED debts,
           alike' \in BOOLEAN
    PROVE  TypeOK'
<1>1. Name(op[o]) \in Nat \X Nat
  BY NameTyped DEF TypeOK
<1>2. op' \in [Requests -> OpRecord]
  BY FillsVersionTyped, BecomesTyped
<1>3. ASSUME NEW t \in Overlay(disk[Name(op[o])], op[o].text)
      PROVE  t \in Texts
  BY <1>3, FillsVersionTyped DEF Overlay, HasRead, Texts
<1>4. DOMAIN disk' \subseteq Nat \X Nat /\ disk' \in [DOMAIN disk' -> Texts]
  <2>1. CASE UNCHANGED disk
    BY <2>1 DEF TypeOK
  <2>2. CASE \E t \in Overlay(disk[Name(op[o])], op[o].text) : Put(Name(op[o]), t)
    BY <1>1, <1>3, <2>2, PutTyped
  <2>. QED
    BY <2>1, <2>2, FillsVersionTyped
<1>. QED
  BY <1>2, <1>4, FillsVersionTyped DEF TypeOK, debts

LEMMA InsertsKeepsTypes ==
    ASSUME TypeOK, HasRead, NEW o \in Requests, Inserts(o), alike' \in BOOLEAN
    PROVE  TypeOK'
<1> DEFINE all == With(op[o])
           gone == Names(all \ Kept(all))
<1>1. /\ UNCHANGED <<now, live>> /\ op[o].pc = "inserting"
      /\ rows' = Kept(all) /\ Unlink(gone)
      /\ parted' \subseteq parted /\ late' = {}
      /\ \E e \in OpRecord : op' = [p \in Requests |-> IF p = o THEN e ELSE Cut(op[p], gone)]
  BY InsertsTyped
<1>2. rows' \subseteq Row
  BY <1>1, WithTyped, KeptTyped DEF HasRead, TypeOK
<1> HIDE DEF gone
<1>3. op' \in [Requests -> OpRecord]
  BY <1>1, OpTyped
<1>. QED
  BY <1>1, <1>2, <1>3, UnlinkTyped DEF TypeOK

LEMMA CollidesKeepsTypes ==
    ASSUME TypeOK, NEW o \in Requests, Collides(o), UNCHANGED debts, alike' \in BOOLEAN
    PROVE  TypeOK'
<1> DEFINE names == {Name(op[o])}
<1>1. op' \in [Requests -> OpRecord]
  <2>1. PICK e \in OpRecord : op' = [p \in Requests |-> IF p = o THEN e ELSE Cut(op[p], names)]
    BY CollidesTyped
  <2> HIDE DEF names
  <2>. QED
    BY <2>1, OpTyped
<1>. QED
  BY <1>1, CollidesTyped, UnlinkTyped DEF TypeOK, debts

LEMMA CleanupFailsKeepsTypes ==
    ASSUME TypeOK, HasRead, NEW o \in Requests, CleanupFails(o), alike' \in BOOLEAN
    PROVE  TypeOK'
<1>1. /\ UNCHANGED <<now, live>> /\ op[o].pc = "inserting" /\ op[o] \in OpRecord
      /\ rows' = With(op[o]) /\ late' = late \cup {Version(op[o])}
  BY CleanupFailsTyped DEF TypeOK
<1>2. PICK gone \in SUBSET With(op[o]), e \in OpRecord :
        /\ Unlink(Names(gone))
        /\ parted' = (parted \ {Version(op[o])}) \cup gone
        /\ op' = [p \in Requests |-> IF p = o THEN e ELSE Cut(op[p], Names(gone))]
  BY CleanupFailsTyped
<1>3. With(op[o]) \subseteq Row /\ Version(op[o]) \in Row
  BY <1>1, WithTyped DEF HasRead
<1>4. op' \in [Requests -> OpRecord]
  BY <1>2, OpTyped
<1>. QED
  BY <1>1, <1>2, <1>3, <1>4, UnlinkTyped DEF TypeOK

LEMMA CollidesLeavingKeepsTypes ==
    ASSUME TypeOK, HasRead, NEW o \in Requests, CollidesLeaving(o), alike' \in BOOLEAN
    PROVE  TypeOK'
<1>1. /\ UNCHANGED <<now, live, rows, disk, late>> /\ op[o].pc = "inserting"
      /\ op[o] \in OpRecord /\ parted' = parted \cup {Version(op[o])}
  BY CollidesLeavingTyped DEF TypeOK
<1>2. Version(op[o]) \in Row
  BY <1>1, WithTyped DEF HasRead
<1>3. op' \in [Requests -> OpRecord]
  BY CollidesLeavingTyped, BecomesTyped
<1>. QED
  BY <1>1, <1>2, <1>3 DEF TypeOK

\* The types of the state, with what a backup has read.
TInv == TypeOK /\ HasRead

\* Every step keeps the types.
LEMMA StepTyped ==
    ASSUME TInv, Next
    PROVE  TypeOK'
<1>1. ASSUME NEW o \in Requests, RequestStep(o)
      PROVE  TypeOK'
  <2>1. alike' \in BOOLEAN
    BY <1>1, Zenon DEF RequestStep, Stamps, TInv, TypeOK
  <2>2. CASE GetsVersion(o) /\ UNCHANGED debts
    BY <2>1, <2>2, GetsVersionTyped, GetsVersionAside DEF TInv, TypeOK, debts
  <2>3. CASE ReadsCurrent(o) /\ UNCHANGED debts
    BY <2>1, <2>3, ReadsCurrentTyped, ReadsCurrentStarts DEF TInv, TypeOK, debts
  <2>4. CASE (OpensVersion(o) \/ FillsVersion(o) \/ Collides(o)) /\ UNCHANGED debts
    BY <2>1, <2>4, OpensVersionKeepsTypes, FillsVersionKeepsTypes, CollidesKeepsTypes DEF TInv
  <2>5. CASE Inserts(o) \/ CleanupFails(o) \/ CollidesLeaving(o)
    BY <2>1, <2>5, InsertsKeepsTypes, CleanupFailsKeepsTypes, CollidesLeavingKeepsTypes DEF TInv
  <2>6. CASE /\ BackupFails(o) \/ OpensLive(o) \/ WritesLive(o) \/ UploadTooLarge(o)
             /\ UNCHANGED debts
    BY <2>1, <2>6, BackupFailsAside, OpensLiveAside, WritesLiveAside, UploadTooLargeAside
       DEF Aside, TInv, TypeOK, debts
  <2>. QED
    BY <1>1, <2>2, <2>3, <2>4, <2>5, <2>6 DEF RequestStep
<1>2. ASSUME UNCHANGED alike, UNCHANGED debts, NEW o \in Requests, Begins(o)
      PROVE  TypeOK'
  BY <1>2, BeginsTyped, BecomesTyped DEF TInv, TypeOK, debts
<1>3. ASSUME UNCHANGED alike, NEW set \in SUBSET rows, Removes(set) \/ RemovalFails(set)
      PROVE  TypeOK'
  <2>1. parted' \subseteq Row /\ late' \subseteq Row /\ rows' \subseteq Row
    BY <1>3, RemovesTyped, RemovalFailsTyped DEF TInv, TypeOK
  <2>. QED
    BY <1>3, <2>1, RemovesTyped, RemovalFailsTyped DEF TInv, TypeOK
<1>4. ASSUME UNCHANGED alike, UNCHANGED debts,
             \/ \E c \in Contents : RenameHere(c) \/ MoveHere(c) \/ Extract(c)
             \/ DeleteLive \/ Tick \/ Crash
      PROVE  TypeOK'
  BY <1>4, OutsideAside DEF Aside, TInv, TypeOK, debts
<1>. QED
  BY <1>1, <1>2, <1>3, <1>4, RemovalShapes DEF Next

\* A backup keeps what it has read until its row is inserted.
LEMMA StepReads ==
    ASSUME TInv, Next
    PROVE  HasRead'
<1>0. TypeOK /\ \A p \in Requests : op[p] \in OpRecord
  BY DEF TInv, TypeOK
<1>1. CASE Aside
  BY <1>1 DEF Aside, Away, TInv, HasRead
<1>2. ASSUME NEW o \in Requests, Starts(o) \/ Finds(o) \/ OpensVersion(o) \/ FillsVersion(o)
      PROVE  HasRead'
  <2>1. PICK e \in OpRecord : /\ Becomes(o, e)
                              /\ \/ e.text \in Texts
                                 \/ e.pc = "getting"
                                 \/ op[o].pc \in {"opening", "filling"} /\ e.text = op[o].text
    BY <1>0, <1>2, OpensVersionTyped, FillsVersionTyped DEF Starts, Finds
  <2>. QED
    BY <1>0, <2>1, BecomesAt DEF Becoming, TInv, HasRead
<1>3. ASSUME NEW o \in Requests, NEW names, NEW e \in OpRecord,
             op' = [p \in Requests |-> IF p = o THEN e ELSE Cut(op[p], names)],
             e.pc = "truncating" \/ (e.text = op[o].text /\ op[o].pc = "inserting")
      PROVE  HasRead'
  BY <1>0, <1>3, CutTyped DEF TInv, HasRead
<1>4. ASSUME NEW o \in Requests, Inserts(o) \/ CleanupFails(o)
      PROVE  HasRead'
  <2>1. PICK names : \E e \in OpRecord :
          /\ e.pc = "truncating"
          /\ op' = [p \in Requests |-> IF p = o THEN e ELSE Cut(op[p], names)]
    <3>1. CASE Inserts(o)
      <4> DEFINE gone == Names(With(op[o]) \ Kept(With(op[o])))
      <4>1. PICK e \in OpRecord :
              /\ e.pc = "truncating"
              /\ op' = [p \in Requests |-> IF p = o THEN e ELSE Cut(op[p], gone)]
        BY <1>0, <3>1, InsertsTyped
      <4> HIDE DEF gone
      <4>. QED
        BY <4>1
    <3>2. CASE CleanupFails(o)
      <4>1. PICK gone \in SUBSET With(op[o]), e \in OpRecord :
              /\ e.pc = "truncating"
              /\ op' = [p \in Requests |-> IF p = o THEN e ELSE Cut(op[p], Names(gone))]
        BY <1>0, <3>2, CleanupFailsTyped
      <4>. QED
        BY <4>1
    <3>. QED
      BY <1>4, <3>1, <3>2
  <2>. QED
    BY <1>3, <2>1
<1>5. ASSUME NEW o \in Requests, Collides(o)
      PROVE  HasRead'
  <2> DEFINE names == {Name(op[o])}
  <2>1. PICK e \in OpRecord :
          /\ op' = [p \in Requests |-> IF p = o THEN e ELSE Cut(op[p], names)]
          /\ e.pc = "truncating" \/ e.text = op[o].text
    BY <1>0, <1>5, CollidesTyped
  <2>2. op[o].pc = "inserting"
    BY <1>0, <1>5, CollidesTyped
  <2> HIDE DEF names
  <2>. QED
    BY <1>3, <2>1, <2>2
<1>6. ASSUME NEW set \in SUBSET rows, Removes(set) \/ RemovalFails(set)
      PROVE  HasRead'
  BY <1>0, <1>6, CutTyped DEF Removes, RemovalFails, TInv, HasRead
<1>7. ASSUME NEW o \in Requests, CollidesLeaving(o)
      PROVE  HasRead'
  <2>1. PICK e \in OpRecord : Becomes(o, e) /\ (e.pc = "truncating" \/ e.text = op[o].text)
    BY <1>0, <1>7, CollidesLeavingTyped
  <2>2. op[o].pc = "inserting"
    BY <1>0, <1>7, CollidesLeavingTyped
  <2>. QED
    BY <1>0, <2>1, <2>2, BecomesAt DEF Becoming, TInv, HasRead
<1>. QED
  BY <1>0, <1>1, <1>2, <1>4, <1>5, <1>6, <1>7, StepShapes

\* Every variable keeps its type, and every row and version file is a text that
\* was read.
THEOREM HistoryTypes == Spec => []TInv
<1>1. Init => TInv
  <2> SUFFICES ASSUME Init PROVE TInv
    OBVIOUS
  <2>1. DOMAIN disk = {} /\ disk \in [{} -> Texts]
    BY DEF Init
  <2>2. op \in [Requests -> OpRecord] /\ \A p \in Requests : op[p].pc = "idle"
    BY NoOpTyped DEF Init, NoOp
  <2>. QED
    BY <2>1, <2>2 DEF Init, TInv, TypeOK, HasRead, Texts
<1>2. TInv /\ [Next]_vars => TInv'
  <2> SUFFICES ASSUME TInv, [Next]_vars PROVE TInv'
    OBVIOUS
  <2>1. CASE Next
    BY <2>1, StepTyped, StepReads DEF TInv
  <2>2. CASE UNCHANGED vars
    BY <2>2 DEF vars, TInv, TypeOK, HasRead
  <2>. QED
    BY <2>1, <2>2
<1>. QED
  BY <1>1, <1>2, PTL DEF Spec

-----------------------------------------------------------------------------
(* Files without a row                                                       *)

\* A file is spoken for by a row or by the request that is about to insert one.
LEMMA StrayStays ==
    ASSUME NEW n, n \in DOMAIN disk, rows \subseteq rows',
           \A p \in Requests : op[p].pc \in {"filling", "inserting"} =>
                op'[p].pc \in {"filling", "inserting"} /\ Name(op'[p]) = Name(op[p]),
           Stray(n)'
    PROVE  Stray(n)
BY DEF Stray, Name

\* Files that are unlinked are not there, and the others lose no row and no
\* request.
LEMMA UnlinkLeavesNone ==
    ASSUME TypeOK, NEW names, Unlink(names), NEW n, Stray(n)',
           \A r \in rows : r \in rows' \/ Name(r) \in names,
           \A p \in Requests : op[p].pc \in {"filling", "inserting"} =>
                \/ op'[p].pc \in {"filling", "inserting"} /\ Name(op'[p]) = Name(op[p])
                \/ Name(op[p]) \in names
                \/ \E r \in rows' : Name(r) = Name(op[p])
    PROVE  Stray(n)
<1>1. n \in DOMAIN disk /\ n \notin names
  BY UnlinkTyped DEF Stray
<1>. QED
  BY <1>1 DEF Stray, Name

LEMMA InsertsLeavesNone ==
    ASSUME TypeOK, NEW o \in Requests, Inserts(o), NEW n, Stray(n)'
    PROVE  Stray(n)
<1> DEFINE row == Version(op[o])
           all == With(op[o])
           gone == Names(all \ Kept(all))
<1>0. \A p \in Requests : op[p] \in OpRecord
  BY DEF TypeOK
<1>1. PICK e \in OpRecord : op' = [p \in Requests |-> IF p = o THEN e ELSE Cut(op[p], gone)]
  BY InsertsTyped
<1>2. rows' = Kept(all) /\ Unlink(gone)
  BY InsertsTyped
<1>3. \A r \in all : r \in rows' \/ Name(r) \in gone
  BY <1>2 DEF Names
<1>4. rows \subseteq all /\ row \in all /\ Name(row) = Name(op[o])
  BY DEF With, Version, Name
<1> HIDE DEF gone, all, row
<1>5. Name(op[o]) \in gone \/ \E r \in rows' : Name(r) = Name(op[o])
  BY <1>3, <1>4
<1>6. ASSUME NEW p \in Requests, p # o
      PROVE  op'[p].pc = op[p].pc /\ Name(op'[p]) = Name(op[p])
  BY <1>0, <1>1, <1>6, CutTyped DEF Name
<1>7. \A r \in rows : r \in rows' \/ Name(r) \in gone
  BY <1>3, <1>4
<1>. QED
  BY <1>2, <1>5, <1>6, <1>7, UnlinkLeavesNone

LEMMA CleanupFailsLeavesNone ==
    ASSUME TypeOK, NEW o \in Requests, CleanupFails(o), NEW n, Stray(n)'
    PROVE  Stray(n)
<1>0. \A p \in Requests : op[p] \in OpRecord
  BY DEF TypeOK
<1>1. PICK gone \in SUBSET With(op[o]), e \in OpRecord :
        /\ Unlink(Names(gone))
        /\ op' = [p \in Requests |-> IF p = o THEN e ELSE Cut(op[p], Names(gone))]
  BY CleanupFailsTyped
<1>2. rows \subseteq rows' /\ \E r \in rows' : Name(r) = Name(op[o])
  <2>1. rows' = With(op[o])
    BY CleanupFailsTyped
  <2>2. rows \subseteq With(op[o]) /\ Version(op[o]) \in With(op[o])
    BY DEF With
  <2>3. Name(Version(op[o])) = Name(op[o])
    BY DEF Version, Name
  <2>. QED
    BY <2>1, <2>2, <2>3
<1>3. ASSUME NEW p \in Requests, p # o
      PROVE  op'[p].pc = op[p].pc /\ Name(op'[p]) = Name(op[p])
  BY <1>0, <1>1, <1>3, CutTyped DEF Name
<1>. QED
  BY <1>1, <1>2, <1>3, UnlinkLeavesNone

\* An attempt whose file could not be unlinked leaves that one.
LEMMA CollidesLeavingLeavesOne ==
    ASSUME TypeOK, NEW o \in Requests, CollidesLeaving(o), NEW n, Stray(n)'
    PROVE  Stray(n) \/ n \in Names(parted')
<1>1. PICK e \in OpRecord : Becomes(o, e)
  BY CollidesLeavingTyped
<1>2. Becoming(o, e)
  BY <1>1, BecomesAt
<1>3. rows' = rows /\ disk' = disk /\ Version(op[o]) \in parted'
  BY CollidesLeavingTyped
<1>4. Name(op[o]) \in Names(parted')
  <2>1. Name(Version(op[o])) = Name(op[o])
    BY DEF Version, Name
  <2>. QED
    BY <1>3, <2>1 DEF Names
<1>. QED
  BY <1>2, <1>3, <1>4 DEF Stray, Becoming

LEMMA CollidesLeavesNone ==
    ASSUME TypeOK, NEW o \in Requests, Collides(o), NEW n, Stray(n)'
    PROVE  Stray(n)
<1> DEFINE names == {Name(op[o])}
<1>0. \A p \in Requests : op[p] \in OpRecord
  BY DEF TypeOK
<1>1. PICK e \in OpRecord : op' = [p \in Requests |-> IF p = o THEN e ELSE Cut(op[p], names)]
  BY CollidesTyped
<1>2. Unlink(names) /\ rows' = rows /\ Name(op[o]) \in names
  BY CollidesTyped
<1> HIDE DEF names
<1>3. ASSUME NEW p \in Requests, p # o
      PROVE  op'[p].pc = op[p].pc /\ Name(op'[p]) = Name(op[p])
  BY <1>0, <1>1, <1>3, CutTyped DEF Name
<1>. QED
  BY <1>2, <1>3, UnlinkLeavesNone

LEMMA RemovesLeavesNone ==
    ASSUME TypeOK, NEW set \in SUBSET rows, Removes(set), NEW n, Stray(n)'
    PROVE  Stray(n)
<1> DEFINE names == Names(set)
<1>0. \A p \in Requests : op[p] \in OpRecord
  BY DEF TypeOK
<1>1. Unlink(names) /\ rows' = rows \ set /\ op' = [p \in Requests |-> Cut(op[p], names)]
  BY DEF Removes
<1>2. \A r \in rows : r \in rows' \/ Name(r) \in names
  BY <1>1 DEF Names
<1> HIDE DEF names
<1>3. ASSUME NEW p \in Requests
      PROVE  op'[p].pc = op[p].pc /\ Name(op'[p]) = Name(op[p])
  BY <1>0, <1>1, CutTyped DEF Name
<1>. QED
  BY <1>1, <1>2, <1>3, UnlinkLeavesNone

LEMMA RemovalFailsLeavesNone ==
    ASSUME TypeOK, NEW set \in SUBSET rows, RemovalFails(set), NEW n, Stray(n)'
    PROVE  Stray(n)
<1>0. \A p \in Requests : op[p] \in OpRecord
  BY DEF TypeOK
<1>1. rows' = rows
  BY RemovalFailsTyped
<1>2. PICK gone \in SUBSET rows :
        Unlink(Names(gone)) /\ op' = [p \in Requests |-> Cut(op[p], Names(gone))]
  BY RemovalFailsTyped
<1>3. ASSUME NEW p \in Requests
      PROVE  op'[p].pc = op[p].pc /\ Name(op'[p]) = Name(op[p])
  BY <1>0, <1>2, CutTyped DEF Name
<1>. QED
  BY <1>1, <1>2, <1>3, UnlinkLeavesNone

LEMMA WritesLeaveNone ==
    ASSUME TypeOK, NEW o \in Requests, OpensVersion(o) \/ FillsVersion(o), NEW n, Stray(n)'
    PROVE  Stray(n)
<1>1. PICK e \in OpRecord : Becomes(o, e) /\ e.pc \in {"filling", "inserting"} /\ Name(e) = Name(op[o])
  BY OpensVersionTyped, FillsVersionTyped
<1>2. Becoming(o, e)
  BY <1>1, BecomesAt
<1>3. n # Name(op[o])
  BY <1>1, <1>2 DEF Stray, Becoming, Name
<1>4. DOMAIN disk' \subseteq DOMAIN disk \cup {Name(op[o])}
  BY OpensVersionTyped, FillsVersionTyped DEF Put
<1>5. n \in DOMAIN disk
  BY <1>3, <1>4 DEF Stray
<1>6. rows' = rows
  BY OpensVersionTyped, FillsVersionTyped
<1>7. \A p \in Requests : op[p].pc \in {"filling", "inserting"} =>
            op'[p].pc \in {"filling", "inserting"} /\ Name(op'[p]) = Name(op[p])
  BY <1>1, <1>2 DEF Becoming
<1>. QED
  BY <1>5, <1>6, <1>7, StrayStays

\* Steps that go aside without a failure, and those that only look.
LEMMA OthersLeaveNone ==
    ASSUME TypeOK, NEW n, Stray(n)', ~Fails,
           Aside \/ \E o \in Requests : Starts(o) \/ Finds(o)
    PROVE  Stray(n)
<1>1. rows' = rows /\ disk' = disk
  BY DEF Aside, Starts, Finds
<1>2. \A p \in Requests : op[p].pc \in {"filling", "inserting"} => op'[p] = op[p]
  <2>1. CASE Aside
    BY <2>1 DEF Aside, Away
  <2>2. ASSUME NEW o \in Requests, Starts(o) \/ Finds(o)
        PROVE  \A p \in Requests : op[p].pc \in {"filling", "inserting"} => op'[p] = op[p]
    BY <2>2, BecomesAt DEF Starts, Finds, Becoming
  <2>. QED
    BY <2>1, <2>2
<1>3. n \in DOMAIN disk
  BY <1>1 DEF Stray
<1>. QED
  BY <1>1, <1>2, <1>3, StrayStays

\* A file without a row, and without a request about to insert one, is left by a
\* failed backup, by an unlink that failed or by a crash only.
THEOREM StraysComeFromFailures == Spec => NoStrayFiles
<1>1. TInv /\ [Next]_vars =>
        [\A n \in DOMAIN disk' :
            Stray(n)' => \/ Stray(n) \/ Crash
                         \/ n \in Names(parted')
                         \/ \E o \in Requests : BackupFails(o)]_vars
  <2> SUFFICES ASSUME TInv, Next, NEW n \in DOMAIN disk', Stray(n)', ~Fails
               PROVE  Stray(n) \/ n \in Names(parted')
    BY DEF Fails
  <2>. QED
    BY StepShapes, InsertsLeavesNone, CollidesLeavesNone, RemovesLeavesNone, WritesLeaveNone,
       CleanupFailsLeavesNone, CollidesLeavingLeavesOne, RemovalFailsLeavesNone,
       OthersLeaveNone DEF TInv
<1>. QED
  BY <1>1, HistoryTypes, PTL DEF Spec, NoStrayFiles

-----------------------------------------------------------------------------
(* Version numbers and the limit of the history                              *)

Distinct(set) == \A r, s \in set : r.version = s.version => r = s

Later(r, set) == {s \in set : s.version > r.version}

\* In a set of rows with different numbers, those with fewer than MaxKept later
\* ones are at most MaxKept: the number of later ones tells them apart.
LEMMA KeptBounded ==
    ASSUME NEW set \in SUBSET Row, IsFiniteSet(set), Distinct(set)
    PROVE  IsFiniteSet(Kept(set)) /\ Cardinality(Kept(set)) <= MaxKept
<1> DEFINE f == [r \in Kept(set) |-> Cardinality(Later(r, set))]
<1>1. IsFiniteSet(Kept(set)) /\ Cardinality(Kept(set)) \in Nat
  BY KeptTyped, FS_Subset, FS_CardinalityType
<1>2. MaxKept \in Nat /\ MaxKept - 1 \in Nat
  BY HistoryAssumption DEF HistoryAssumption
<1>3. IsFiniteSet(0 .. MaxKept - 1) /\ Cardinality(0 .. MaxKept - 1) = MaxKept
  BY <1>2, FS_Interval
<1>4. ASSUME NEW r \in set
      PROVE  IsFiniteSet(Later(r, set)) /\ Cardinality(Later(r, set)) \in Nat
  <2>1. Later(r, set) \in SUBSET set
    BY DEF Later
  <2>. QED
    BY <2>1, FS_Subset, FS_CardinalityType
<1>5. \A r \in Kept(set) : r \in set /\ Cardinality(Later(r, set)) < MaxKept
  BY DEF Kept, Later
<1>6. f \in [Kept(set) -> 0 .. MaxKept - 1]
  BY <1>2, <1>4, <1>5
<1>7. ASSUME NEW r \in set, NEW s \in set, r.version < s.version
      PROVE  Cardinality(Later(r, set)) # Cardinality(Later(s, set))
  <2>1. r.version \in Nat /\ s.version \in Nat
    BY DEF Row
  <2>2. \A t \in set : t.version \in Nat
    BY DEF Row
  <2>3. Later(s, set) \in SUBSET Later(r, set)
    BY <1>7, <2>1, <2>2 DEF Later
  <2>4. s \in Later(r, set) /\ s \notin Later(s, set)
    BY <1>7, <2>1 DEF Later
  <2>5. Later(s, set) # Later(r, set)
    BY <2>4
  <2>. QED
    BY <1>4, <2>3, <2>5, FS_Subset
<1>8. ASSUME NEW r \in Kept(set), NEW s \in Kept(set), r # s
      PROVE  f[r] # f[s]
  <2>1. r \in set /\ s \in set /\ r.version \in Nat /\ s.version \in Nat
    BY <1>5 DEF Row
  <2>2. r.version # s.version
    BY <1>8, <2>1 DEF Distinct
  <2>3. r.version < s.version \/ s.version < r.version
    BY <2>1, <2>2
  <2>. QED
    BY <1>7, <2>1, <2>3
<1> HIDE DEF f
<1>9. ~(Cardinality(0 .. MaxKept - 1) < Cardinality(Kept(set)))
  BY <1>1, <1>3, <1>6, <1>8, FS_PigeonHole
<1>. QED
  BY <1>1, <1>2, <1>3, <1>9

Bounded == HistoryBounded /\ IsFiniteSet(rows)

\* A row with a number that is free leaves the numbers distinct.
LEMMA WithDistinct ==
    ASSUME TInv, Bounded, NEW o \in Requests, op[o].pc = "inserting", ~Taken(op[o].version)
    PROVE  With(op[o]) \in SUBSET Row /\ IsFiniteSet(With(op[o])) /\ Distinct(With(op[o]))
<1> DEFINE row == Version(op[o])
<1>1. With(op[o]) = rows \cup {row} /\ row.version = op[o].version
  BY DEF With, Version
<1>2. With(op[o]) \in SUBSET Row
  BY WithTyped DEF TInv, TypeOK, HasRead
<1>3. IsFiniteSet(With(op[o]))
  BY <1>1, FS_AddElement DEF Bounded
<1> HIDE DEF row
<1>4. Distinct(With(op[o]))
  BY <1>1 DEF Distinct, Taken, Bounded, HistoryBounded
<1>. QED
  BY <1>2, <1>3, <1>4

\* The insertion adds a number that is free, and then removes what is too much.
LEMMA InsertsBounded ==
    ASSUME TInv, Bounded, NEW o \in Requests, Inserts(o)
    PROVE  Bounded'
<1> DEFINE all == With(op[o])
<1>1. /\ rows' = Kept(all) /\ late' = {}
      /\ op[o].pc = "inserting" /\ ~Taken(op[o].version)
  BY InsertsTyped DEF TInv
<1>2. all \in SUBSET Row /\ IsFiniteSet(all) /\ Distinct(all)
  BY <1>1, WithDistinct
<1> HIDE DEF all
<1>3. IsFiniteSet(rows') /\ Cardinality(rows') <= MaxKept
  BY <1>1, <1>2, KeptBounded
<1>4. \A r, s \in rows' : r.version = s.version => r = s
  BY <1>1, <1>2, KeptTyped DEF Distinct
<1>5. rows' \ late' = rows'
  BY <1>1
<1>. QED
  BY <1>3, <1>4, <1>5 DEF Bounded, HistoryBounded

\* Rows that go, or come with the mark of a clean-up that failed, leave no more rows
\* without it.
LEMMA FewerBounded ==
    ASSUME Bounded, IsFiniteSet(rows'), rows' \ late' \subseteq rows \ late, Distinct(rows')
    PROVE  Bounded'
<1>1. IsFiniteSet(rows \ late)
  BY FS_Difference DEF Bounded
<1>2. /\ IsFiniteSet(rows' \ late')
      /\ Cardinality(rows' \ late') <= Cardinality(rows \ late)
  BY <1>1, FS_Subset
<1>3. Cardinality(rows' \ late') \in Nat /\ Cardinality(rows \ late) \in Nat /\ MaxKept \in Nat
  BY <1>1, <1>2, FS_CardinalityType, HistoryAssumption DEF HistoryAssumption
<1>4. Cardinality(rows \ late) <= MaxKept
  BY DEF Bounded, HistoryBounded
<1>5. Cardinality(rows' \ late') <= MaxKept
  BY <1>2, <1>3, <1>4
<1>. QED
  BY <1>5 DEF Bounded, HistoryBounded, Distinct

LEMMA CleanupFailsBounded ==
    ASSUME TInv, Bounded, NEW o \in Requests, CleanupFails(o)
    PROVE  Bounded'
<1>1. /\ rows' = With(op[o]) /\ late' = late \cup {Version(op[o])}
      /\ op[o].pc = "inserting" /\ ~Taken(op[o].version)
  BY CleanupFailsTyped DEF TInv
<1>2. IsFiniteSet(rows') /\ Distinct(rows')
  BY <1>1, WithDistinct
<1>3. rows' \ late' \subseteq rows \ late
  BY <1>1 DEF With
<1>. QED
  BY <1>2, <1>3, FewerBounded

LEMMA RemovesBounded ==
    ASSUME Bounded, NEW set \in SUBSET rows, Removes(set)
    PROVE  Bounded'
<1>1. rows' = rows \ set /\ late' = late \ set
  BY DEF Removes
<1>2. IsFiniteSet(rows') /\ rows' \ late' \subseteq rows \ late
  BY <1>1, FS_Difference DEF Bounded
<1>3. Distinct(rows')
  BY <1>1 DEF Bounded, HistoryBounded, Distinct
<1>. QED
  BY <1>2, <1>3, FewerBounded

\* No two rows of a file have one number, and there are never more than MaxKept that
\* were not inserted since a clean-up last went through.
THEOREM HistoryAlwaysBounded == Spec => []HistoryBounded
<1>1. Init => Bounded
  BY FS_EmptySet, HistoryAssumption DEF Init, Bounded, HistoryBounded, HistoryAssumption
<1>2. TInv /\ Bounded /\ [Next]_vars => Bounded'
  <2> SUFFICES ASSUME TInv, Bounded, [Next]_vars PROVE Bounded'
    OBVIOUS
  <2>1. CASE rows' = rows /\ late' = late
    BY <2>1 DEF Bounded, HistoryBounded
  <2>2. ASSUME NEW o \in Requests, Inserts(o) \/ CleanupFails(o)
        PROVE  Bounded'
    BY <2>2, InsertsBounded, CleanupFailsBounded
  <2>3. ASSUME NEW set \in SUBSET rows, Removes(set)
        PROVE  Bounded'
    BY <2>3, RemovesBounded
  <2>4. ASSUME NEW o \in Requests,
               Starts(o) \/ Finds(o) \/ OpensVersion(o) \/ FillsVersion(o) \/ Collides(o)
        PROVE  rows' = rows
    BY <2>4 DEF Starts, Finds, OpensVersion, FillsVersion, Collides
  <2>5. ASSUME NEW o \in Requests, CollidesLeaving(o)
        PROVE  rows' = rows /\ late' = late
    BY <2>5 DEF CollidesLeaving
  <2>6. ASSUME NEW set, RemovalFails(set)
        PROVE  rows' = rows /\ late' = late
    BY <2>6 DEF RemovalFails
  <2>7. CASE Next
    BY <2>1, <2>2, <2>3, <2>4, <2>5, <2>6, <2>7, StepShapes DEF TInv, Aside, debts
  <2>. QED
    BY <2>1, <2>7 DEF vars
<1>3. Bounded => HistoryBounded
  BY DEF Bounded
<1>. QED
  BY <1>1, <1>2, <1>3, HistoryTypes, PTL DEF Spec

-----------------------------------------------------------------------------
(* What the version files hold                                               *)

Pending == {"opening", "filling", "inserting"}

\* While no second was used twice, the requests that make a version, the rows and
\* the versions that are being read are told apart by their seconds.
Apart ==
    /\ \A p \in Requests, r \in rows : op[p].pc \in Pending => op[p].stamp # r.stamp
    /\ \A p, q \in Requests :
        p # q /\ op[p].pc \in Pending /\ op[q].pc \in Pending \cup {"getting"}
            => op[p].stamp # op[q].stamp

\* What the file of a row, and that of a request, holds.  The row of a removal that
\* was cut short may have lost it.
RowFiled(r) ==
    /\ r \in parted \/ Name(r) \in DOMAIN disk
    /\ Name(r) \in DOMAIN disk => disk[Name(r)] = r.text

Filed(p) ==
    /\ op[p].pc = "filling" =>
        op[p].linked /\ Name(op[p]) \in DOMAIN disk /\ disk[Name(op[p])] = "empty"
    /\ op[p].pc = "inserting" =>
        Name(op[p]) \in DOMAIN disk /\ disk[Name(op[p])] = op[p].text
    /\ op[p].pc = "getting" /\ Name(op[p]) \in DOMAIN disk =>
        disk[Name(op[p])] = op[p].text

KeptInv ==
    /\ Apart
    /\ \A r \in rows : RowFiled(r)
    /\ \A p \in Requests : Filed(p)

\* Unless alike says otherwise, a version file is named by a second that no row and
\* no other request has.
LEMMA OpeningUnstamped ==
    ASSUME TypeOK, Next, ~alike'
    PROVE  /\ ~alike
           /\ \A o \in Requests : op'[o].pc = "opening" /\ op'[o] # op[o] => Unstamped(o)
<1>1. ASSUME NEW p \in Requests, RequestStep(p)
      PROVE  /\ ~alike
             /\ \A o \in Requests : op'[o].pc = "opening" /\ op'[o] # op[o] => Unstamped(o)
  BY <1>1 DEF RequestStep, Stamps
<1>2. CASE Aside /\ ~alike
  BY <1>2 DEF Aside, Away
<1>3. ASSUME NEW p \in Requests, Begins(p)
      PROVE  \A o \in Requests : op'[o].pc = "opening" => op'[o] = op[o]
  BY <1>3, BeginsTyped, BecomesAt DEF Becoming
<1>4. ASSUME NEW set \in SUBSET rows, Removes(set) \/ RemovalFails(set)
      PROVE  \A o \in Requests : op'[o].pc = "opening" => op'[o] = op[o]
  <2>1. \A o \in Requests : op[o] \in OpRecord
    BY DEF TypeOK
  <2>2. PICK names : op' = [p \in Requests |-> Cut(op[p], names)]
    BY <1>4 DEF Removes, RemovalFails
  <2>. QED
    BY <2>1, <2>2, CutTyped
<1>5. ASSUME \/ \E r \in rows : DeleteVersion(r)
             \/ \E cutoff \in 1..now : CleanupOld(cutoff)
      PROVE  \A o \in Requests : op'[o].pc = "opening" => op'[o] = op[o]
  <2>1. PICK set \in SUBSET rows : Removes(set) \/ RemovalFails(set)
    BY <1>5, RemovalShapes
  <2>. QED
    BY <1>4, <2>1
<1>7. CASE ~\E o \in Requests : RequestStep(o)
  <2>1. ~alike
    BY <1>7 DEF Next
  <2>. QED
    BY <1>2, <1>3, <1>5, <1>7, <2>1, OutsideAside DEF Next
<1>. QED
  BY <1>1, <1>7

\* The name that a request makes is no row's and no other request's.
LEMMA OwnName ==
    ASSUME KeptInv, NEW o \in Requests, op[o].pc \in Pending
    PROVE  /\ \A r \in rows : Name(r) # Name(op[o])
           /\ \A p \in Requests :
                p # o /\ op[p].pc \in Pending \cup {"getting"} => Name(op[p]) # Name(op[o])
BY DEF KeptInv, Apart, Name

\* A request that becomes another record, where the others stay as they are.
LEMMA ApartAfter ==
    ASSUME KeptInv, UNCHANGED rows, NEW o \in Requests, NEW e, Becoming(o, e),
           e.pc \in Pending => \A r \in rows : r.stamp # e.stamp,
           e.pc \in Pending => \A p \in Requests \ {o} :
                op[p].pc \in Pending \cup {"getting"} => op[p].stamp # e.stamp,
           e.pc = "getting" => \A p \in Requests \ {o} : op[p].pc \in Pending => op[p].stamp # e.stamp
    PROVE  Apart'
BY DEF KeptInv, Apart, Becoming

LEMMA AsideKeeps ==
    ASSUME KeptInv, UNCHANGED parted, Aside
    PROVE  KeptInv'
<1>1. Apart'
  BY DEF KeptInv, Apart, Aside, Away, Pending
<1>2. \A p \in Requests : Filed(p)'
  BY DEF KeptInv, Filed, Aside, Away, Name
<1>3. \A r \in rows' : RowFiled(r)'
  BY DEF KeptInv, RowFiled, Aside, Name
<1>. QED
  BY <1>1, <1>2, <1>3 DEF KeptInv

LEMMA StartsKeeps ==
    ASSUME TypeOK, KeptInv, UNCHANGED parted, NEW o \in Requests, Starts(o), Unstamped(o)
    PROVE  KeptInv'
<1>1. PICK e \in OpRecord : Becomes(o, e) /\ e.pc = "opening" /\ e.stamp = now
  BY DEF Starts
<1>2. Becoming(o, e) /\ UNCHANGED <<rows, disk>>
  BY <1>1, BecomesAt DEF Starts
<1>3. Apart'
  BY <1>1, <1>2, ApartAfter DEF Unstamped, Pending
<1>4. \A p \in Requests : Filed(p)'
  BY <1>1, <1>2 DEF KeptInv, Filed, Becoming, Name
<1>5. \A r \in rows' : RowFiled(r)'
  BY <1>2 DEF KeptInv, RowFiled, Name
<1>. QED
  BY <1>3, <1>4, <1>5 DEF KeptInv

LEMMA FindsKeeps ==
    ASSUME TypeOK, KeptInv, UNCHANGED parted, NEW o \in Requests, Finds(o)
    PROVE  KeptInv'
<1>1. PICK e \in OpRecord, s \in rows : /\ Becomes(o, e) /\ e.pc = "getting"
                                       /\ Name(e) = Name(s) /\ e.stamp = s.stamp /\ e.text = s.text
  BY DEF Finds
<1>2. Becoming(o, e) /\ UNCHANGED <<rows, disk>>
  BY <1>1, BecomesAt DEF Finds
<1>3. Apart'
  BY <1>1, <1>2, ApartAfter DEF KeptInv, Apart, Pending
<1>4. \A r \in rows' : RowFiled(r)'
  BY <1>2 DEF KeptInv, RowFiled, Name
<1>5. \A p \in Requests : Filed(p)'
  <2>1. ASSUME NEW p \in Requests, p # o
        PROVE  Filed(p)'
    BY <1>2, <2>1 DEF KeptInv, Filed, Becoming, Name
  <2>2. op'[o] = e /\ (Name(s) \in DOMAIN disk => disk[Name(s)] = s.text)
    BY <1>2 DEF KeptInv, RowFiled, Becoming
  <2>3. Filed(o)'
    BY <1>1, <1>2, <2>2 DEF Filed, Name
  <2>. QED
    BY <2>1, <2>3
<1>. QED
  BY <1>3, <1>4, <1>5 DEF KeptInv

LEMMA OpensVersionKeeps ==
    ASSUME TypeOK, KeptInv, UNCHANGED parted, NEW o \in Requests, OpensVersion(o)
    PROVE  KeptInv'
<1> DEFINE n == Name(op[o])
<1>1. PICK e \in OpRecord : /\ Becomes(o, e) /\ e.pc = "filling" /\ e.linked
                            /\ Name(e) = n /\ e.stamp = op[o].stamp
  BY OpensVersionTyped
<1>2. Becoming(o, e) /\ rows' = rows /\ op[o].pc = "opening" /\ Put(n, "empty")
  BY <1>1, BecomesAt, OpensVersionTyped
<1>3. n \in Nat \X Nat /\ "empty" \in Texts
  BY NameTyped DEF TypeOK, Texts
<1> HIDE DEF n
<1>4. /\ DOMAIN disk' = DOMAIN disk \cup {n} /\ disk'[n] = "empty"
      /\ \A m \in DOMAIN disk : m # n => disk'[m] = disk[m]
  BY <1>2, <1>3, PutTyped
<1>5. /\ \A r \in rows : Name(r) # n
      /\ \A p \in Requests : p # o /\ op[p].pc \in Pending \cup {"getting"} => Name(op[p]) # n
  BY <1>2, OwnName DEF n, Pending
<1>6. Apart'
  BY <1>1, <1>2, ApartAfter DEF KeptInv, Apart, Pending
<1>7. \A r \in rows' : RowFiled(r)'
  BY <1>2, <1>4, <1>5 DEF KeptInv, RowFiled, Name
<1>8. ASSUME NEW p \in Requests, p # o
      PROVE  Filed(p)'
  BY <1>2, <1>4, <1>5, <1>8 DEF KeptInv, Filed, Becoming, Name, Pending
<1>9. Filed(o)'
  <2>1. op'[o] = e
    BY <1>2 DEF Becoming
  <2>. QED
    BY <1>1, <1>4, <2>1 DEF Filed, Name
<1>. QED
  BY <1>6, <1>7, <1>8, <1>9 DEF KeptInv

LEMMA FillsVersionKeeps ==
    ASSUME TInv, KeptInv, UNCHANGED parted, NEW o \in Requests, FillsVersion(o)
    PROVE  KeptInv'
<1> DEFINE n == Name(op[o])
<1>0. TypeOK
  BY DEF TInv
<1>1. PICK e \in OpRecord : /\ Becomes(o, e) /\ e.pc = "inserting"
                            /\ Name(e) = n /\ e.stamp = op[o].stamp /\ e.text = op[o].text
  BY <1>0, FillsVersionTyped
<1>2. Becoming(o, e) /\ rows' = rows /\ op[o].pc = "filling"
  BY <1>0, <1>1, BecomesAt, FillsVersionTyped
<1>3. op[o].linked /\ n \in DOMAIN disk /\ disk[n] = "empty"
  BY <1>2 DEF KeptInv, Filed
<1>4. Put(n, op[o].text)
  <2>1. \A t \in Overlay(disk[n], op[o].text) : t = op[o].text
    BY <1>3 DEF Overlay
  <2>. QED
    BY <1>0, <1>3, <2>1, FillsVersionTyped
<1>5. n \in Nat \X Nat /\ op[o].text \in Texts
  BY <1>0, <1>2, NameTyped DEF TypeOK, TInv, HasRead
<1> HIDE DEF n
<1>6. /\ DOMAIN disk' = DOMAIN disk \cup {n} /\ disk'[n] = op[o].text
      /\ \A m \in DOMAIN disk : m # n => disk'[m] = disk[m]
  BY <1>0, <1>4, <1>5, PutTyped
<1>7. /\ \A r \in rows : Name(r) # n
      /\ \A p \in Requests : p # o /\ op[p].pc \in Pending \cup {"getting"} => Name(op[p]) # n
  BY <1>2, OwnName DEF n, Pending
<1>8. Apart'
  BY <1>1, <1>2, ApartAfter DEF KeptInv, Apart, Pending
<1>9. \A r \in rows' : RowFiled(r)'
  BY <1>2, <1>6, <1>7 DEF KeptInv, RowFiled, Name
<1>10. ASSUME NEW p \in Requests, p # o
       PROVE  Filed(p)'
  BY <1>2, <1>6, <1>7, <1>10 DEF KeptInv, Filed, Becoming, Name, Pending
<1>11. Filed(o)'
  <2>1. op'[o] = e
    BY <1>2 DEF Becoming
  <2>. QED
    BY <1>1, <1>6, <2>1 DEF Filed, Name
<1>. QED
  BY <1>8, <1>9, <1>10, <1>11 DEF KeptInv

\* Unlinking names that no request at work has changes no other request.
LEMMA CutNothing ==
    ASSUME TypeOK, NEW names, NEW p \in Requests,
           op[p].pc \in Pending => Name(op[p]) \notin names
    PROVE  Cut(op[p], names) = op[p]
BY CutTyped DEF TypeOK, Pending

LEMMA CollidesKeeps ==
    ASSUME TypeOK, KeptInv, UNCHANGED parted, NEW o \in Requests, Collides(o),
           op'[o].pc = "opening" /\ op'[o] # op[o] => Unstamped(o)
    PROVE  KeptInv'
<1> DEFINE names == {Name(op[o])}
<1>1. PICK e \in OpRecord :
        /\ op' = [p \in Requests |-> IF p = o THEN e ELSE Cut(op[p], names)]
        /\ \/ e.pc = "truncating"
           \/ e.pc = "opening" /\ e.stamp = now /\ e # op[o]
  BY CollidesTyped
<1>2. rows' = rows /\ op[o].pc = "inserting" /\ Unlink(names)
  BY CollidesTyped
<1>3. /\ \A r \in rows : Name(r) \notin names
      /\ \A p \in Requests : p # o /\ op[p].pc \in Pending \cup {"getting"} => Name(op[p]) \notin names
  BY <1>2, OwnName DEF Pending
<1> HIDE DEF names
<1>4. Becoming(o, e)
  BY <1>1, <1>3, CutNothing DEF Becoming
<1>5. DOMAIN disk' = DOMAIN disk \ names /\ \A m \in DOMAIN disk' : disk'[m] = disk[m]
  BY <1>2, UnlinkTyped
<1>6. e.pc = "opening" => Unstamped(o)
  BY <1>1, <1>4 DEF Becoming
<1>7. Apart'
  BY <1>1, <1>2, <1>4, <1>6, ApartAfter DEF Unstamped, Pending
<1>8. \A r \in rows' : RowFiled(r)'
  BY <1>2, <1>3, <1>5 DEF KeptInv, RowFiled, Name
<1>9. ASSUME NEW p \in Requests, p # o
      PROVE  Filed(p)'
  BY <1>3, <1>4, <1>5, <1>9 DEF KeptInv, Filed, Becoming, Name, Pending
<1>10. Filed(o)'
  BY <1>1, <1>4 DEF Filed, Becoming
<1>. QED
  BY <1>7, <1>8, <1>9, <1>10 DEF KeptInv

LEMMA RemovesKeeps ==
    ASSUME TypeOK, HistoryBounded, KeptInv, NEW set \in SUBSET rows, Removes(set)
    PROVE  KeptInv'
<1> DEFINE names == Names(set)
<1>1. /\ rows' = rows \ set /\ Unlink(names) /\ parted' = parted \ set
      /\ op' = [p \in Requests |-> Cut(op[p], names)]
  BY DEF Removes
<1>2. \A p \in Requests : op[p].pc \in Pending => Name(op[p]) \notin names
  BY OwnName DEF Names
<1>3. \A r \in rows' : Name(r) \notin names
  BY <1>1 DEF HistoryBounded, Name, Names
<1> HIDE DEF names
<1>4. \A p \in Requests : op'[p] = op[p]
  BY <1>1, <1>2, CutNothing
<1>5. DOMAIN disk' = DOMAIN disk \ names /\ \A m \in DOMAIN disk' : disk'[m] = disk[m]
  BY <1>1, UnlinkTyped
<1>6. Apart'
  BY <1>1, <1>4 DEF KeptInv, Apart
<1>7. \A r \in rows' : RowFiled(r)'
  BY <1>1, <1>3, <1>5 DEF KeptInv, RowFiled, Name
<1>8. \A p \in Requests : Filed(p)'
  BY <1>2, <1>4, <1>5 DEF KeptInv, Filed, Name, Pending
<1>. QED
  BY <1>6, <1>7, <1>8 DEF KeptInv

LEMMA RemovalFailsKeeps ==
    ASSUME TypeOK, HistoryBounded, KeptInv, NEW set \in SUBSET rows, RemovalFails(set)
    PROVE  KeptInv'
<1>1. rows' = rows
  BY RemovalFailsTyped
<1>2. PICK gone \in SUBSET rows :
        /\ Unlink(Names(gone))
        /\ op' = [p \in Requests |-> Cut(op[p], Names(gone))]
        /\ parted' = parted \cup gone
  BY RemovalFailsTyped
<1>3. \A p \in Requests : op[p].pc \in Pending => Name(op[p]) \notin Names(gone)
  BY OwnName DEF Names
<1>4. \A r \in rows : Name(r) \in Names(gone) => r \in gone
  BY DEF HistoryBounded, Name, Names
<1>5. \A p \in Requests : op'[p] = op[p]
  BY <1>2, <1>3, CutNothing
<1>6. DOMAIN disk' = DOMAIN disk \ Names(gone) /\ \A m \in DOMAIN disk' : disk'[m] = disk[m]
  BY <1>2, UnlinkTyped
<1>7. Apart'
  BY <1>1, <1>5 DEF KeptInv, Apart
<1>8. \A r \in rows' : RowFiled(r)'
  BY <1>1, <1>2, <1>4, <1>6 DEF KeptInv, RowFiled, Name
<1>9. \A p \in Requests : Filed(p)'
  BY <1>3, <1>5, <1>6 DEF KeptInv, Filed, Name, Pending
<1>. QED
  BY <1>7, <1>8, <1>9 DEF KeptInv

\* The row that is inserted comes with its file, and apart from the others.
LEMMA WithFiled ==
    ASSUME TypeOK, HistoryBounded, KeptInv, NEW o \in Requests,
           op[o].pc = "inserting", ~Taken(op[o].version)
    PROVE  /\ \A r, s \in With(op[o]) : Name(r) = Name(s) => r = s
           /\ \A r \in With(op[o]) : Name(r) \in DOMAIN disk => disk[Name(r)] = r.text
           /\ \A r \in With(op[o]) :
                r = Version(op[o]) \/ r \notin parted => Name(r) \in DOMAIN disk
           /\ \A p \in Requests : p # o /\ op[p].pc \in Pending =>
                \A r \in With(op[o]) : Name(r) # Name(op[p]) /\ r.stamp # op[p].stamp
<1> DEFINE row == Version(op[o])
           all == With(op[o])
<1>1. /\ all = rows \cup {row} /\ row.version = op[o].version
      /\ Name(row) = Name(op[o]) /\ row.stamp = op[o].stamp /\ row.text = op[o].text
  BY DEF With, Version, Name
<1> HIDE DEF row
<1>2. \A r, s \in all : r.version = s.version => r = s
  BY <1>1 DEF Taken, HistoryBounded
<1>3. Name(row) \in DOMAIN disk /\ disk[Name(row)] = row.text
  BY <1>1 DEF KeptInv, Filed
<1>4. \A r \in rows : RowFiled(r)
  BY DEF KeptInv
<1>5. \A p \in Requests : p # o /\ op[p].pc \in Pending =>
        \A r \in all : Name(r) # Name(op[p]) /\ r.stamp # op[p].stamp
  BY <1>1, OwnName DEF KeptInv, Apart, Pending
<1>6. \A r, s \in all : Name(r) = Name(s) => r = s
  BY <1>2 DEF Name
<1>7. \A r \in all : /\ Name(r) \in DOMAIN disk => disk[Name(r)] = r.text
                     /\ r = row \/ r \notin parted => Name(r) \in DOMAIN disk
  BY <1>1, <1>3, <1>4 DEF RowFiled
<1>. QED
  BY <1>5, <1>6, <1>7 DEF row

\* A request inserts its row, and the rows of some versions go with their files or
\* are known to be without.
LEMMA InsertionKeeps ==
    ASSUME TypeOK, HistoryBounded, KeptInv, NEW o \in Requests,
           op[o].pc = "inserting", ~Taken(op[o].version),
           NEW gone \in SUBSET With(op[o]), NEW e \in OpRecord,
           e.pc = "truncating", Unlink(Names(gone)),
           op' = [p \in Requests |-> IF p = o THEN e ELSE Cut(op[p], Names(gone))],
           rows' \subseteq With(op[o]),
           \A r \in rows' : r \in gone => r \in parted',
           \A r \in parted : r \in parted' \/ r = Version(op[o])
    PROVE  KeptInv'
<1> DEFINE all == With(op[o])
           names == Names(gone)
<1>1. /\ \A r, s \in all : Name(r) = Name(s) => r = s
      /\ \A r \in all : Name(r) \in DOMAIN disk => disk[Name(r)] = r.text
      /\ \A r \in all : r = Version(op[o]) \/ r \notin parted => Name(r) \in DOMAIN disk
      /\ \A p \in Requests : p # o /\ op[p].pc \in Pending =>
            \A r \in all : Name(r) # Name(op[p]) /\ r.stamp # op[p].stamp
  BY WithFiled
<1>2. \A p \in Requests : p # o /\ op[p].pc \in Pending => Name(op[p]) \notin names
  BY <1>1 DEF Names
<1>3. \A r \in all : Name(r) \in names => r \in gone
  BY <1>1 DEF Names
<1>4. DOMAIN disk' = DOMAIN disk \ names /\ \A m \in DOMAIN disk' : disk'[m] = disk[m]
  BY UnlinkTyped
<1> HIDE DEF all, names
<1>5. Becoming(o, e)
  BY <1>2, CutNothing DEF Becoming, names
<1>6. rows' \subseteq all
  BY DEF all
<1>7. Apart'
  BY <1>1, <1>5, <1>6 DEF KeptInv, Apart, Becoming, Pending
<1>8. \A r \in rows' : RowFiled(r)'
  <2> SUFFICES ASSUME NEW r \in rows' PROVE RowFiled(r)'
    OBVIOUS
  <2>1. Name(r)' = Name(r) /\ r \in all
    BY <1>6 DEF Name
  <2>2. Name(r) \in DOMAIN disk' => disk'[Name(r)] = r.text
    BY <1>1, <1>4, <2>1
  <2>3. r \in parted' \/ Name(r) \in DOMAIN disk'
    BY <1>1, <1>3, <1>4, <2>1
  <2>. QED
    BY <2>1, <2>2, <2>3 DEF RowFiled
<1>9. ASSUME NEW p \in Requests, p # o
      PROVE  Filed(p)'
  BY <1>2, <1>4, <1>5, <1>9 DEF KeptInv, Filed, Becoming, Name, Pending
<1>10. Filed(o)'
  BY <1>5 DEF Filed, Becoming
<1>. QED
  BY <1>7, <1>8, <1>9, <1>10 DEF KeptInv

LEMMA InsertsKeeps ==
    ASSUME TypeOK, HistoryBounded, KeptInv, NEW o \in Requests, Inserts(o)
    PROVE  KeptInv'
<1> DEFINE all == With(op[o])
           gone == all \ Kept(all)
<1>1. /\ op[o].pc = "inserting" /\ ~Taken(op[o].version)
      /\ rows' = Kept(all) /\ Unlink(Names(gone))
      /\ parted' = parted \ {Version(op[o])}
  BY InsertsTyped
<1>2. PICK e \in OpRecord : /\ e.pc = "truncating"
                            /\ op' = [p \in Requests |->
                                        IF p = o THEN e ELSE Cut(op[p], Names(gone))]
  BY InsertsTyped
<1>3. gone \in SUBSET With(op[o]) /\ rows' \subseteq With(op[o]) /\ \A r \in rows' : r \notin gone
  BY <1>1, KeptTyped
<1> HIDE DEF all, gone
<1>. QED
  BY <1>1, <1>2, <1>3, InsertionKeeps

LEMMA CleanupFailsKeeps ==
    ASSUME TypeOK, HistoryBounded, KeptInv, NEW o \in Requests, CleanupFails(o)
    PROVE  KeptInv'
<1>1. op[o].pc = "inserting" /\ ~Taken(op[o].version) /\ rows' = With(op[o])
  BY CleanupFailsTyped
<1>2. PICK gone \in SUBSET With(op[o]), e \in OpRecord :
        /\ Unlink(Names(gone))
        /\ parted' = (parted \ {Version(op[o])}) \cup gone
        /\ e.pc = "truncating"
        /\ op' = [p \in Requests |-> IF p = o THEN e ELSE Cut(op[p], Names(gone))]
  BY CleanupFailsTyped
<1>. QED
  BY <1>1, <1>2, InsertionKeeps

LEMMA CollidesLeavingKeeps ==
    ASSUME TypeOK, KeptInv, NEW o \in Requests, CollidesLeaving(o),
           op'[o].pc = "opening" /\ op'[o] # op[o] => Unstamped(o)
    PROVE  KeptInv'
<1>1. PICK e \in OpRecord :
        /\ Becomes(o, e)
        /\ e.pc = "truncating" \/ (e.pc = "opening" /\ e.stamp = now)
  BY CollidesLeavingTyped
<1>2. /\ rows' = rows /\ disk' = disk /\ op[o].pc = "inserting"
      /\ parted \subseteq parted'
  BY CollidesLeavingTyped
<1>3. Becoming(o, e)
  BY <1>1, BecomesAt
<1>4. e.pc = "opening" => Unstamped(o)
  BY <1>2, <1>3 DEF Becoming
<1>5. Apart'
  BY <1>1, <1>2, <1>3, <1>4, ApartAfter DEF Unstamped, Pending
<1>6. \A r \in rows' : RowFiled(r)'
  BY <1>2 DEF KeptInv, RowFiled, Name
<1>7. \A p \in Requests : Filed(p)'
  BY <1>1, <1>2, <1>3 DEF KeptInv, Filed, Becoming, Name
<1>. QED
  BY <1>5, <1>6, <1>7 DEF KeptInv

\* The rows, the requests and the version files stay together until two names were
\* made in one second.
THEOREM FilesKept == Spec => [](alike \/ KeptInv)
<1>1. Init => KeptInv
  BY DEF Init, KeptInv, Apart, Filed, RowFiled, NoOp, Pending
<1>2. TInv /\ HistoryBounded /\ (alike \/ KeptInv) /\ [Next]_vars => (alike \/ KeptInv)'
  <2> SUFFICES ASSUME TInv, HistoryBounded, alike \/ KeptInv, [Next]_vars, ~alike'
               PROVE  KeptInv'
    OBVIOUS
  <2>1. CASE UNCHANGED vars
    BY <2>1 DEF vars, KeptInv, Apart, RowFiled, Filed, Name
  <2>2. CASE Next
    <3>1. TypeOK /\ KeptInv
      BY <2>2, OpeningUnstamped DEF TInv
    <3>2. \A o \in Requests : op'[o].pc = "opening" /\ op'[o] # op[o] => Unstamped(o)
      BY <2>2, <3>1, OpeningUnstamped
    <3>3. ASSUME NEW o \in Requests, Starts(o), UNCHANGED debts
          PROVE  KeptInv'
      <4>1. op'[o].pc = "opening" /\ op[o].pc = "reading"
        BY <3>1, <3>3, BecomesAt DEF Starts, Becoming
      <4>. QED
        BY <3>1, <3>2, <3>3, <4>1, StartsKeeps DEF debts
    <3>4. ASSUME NEW o \in Requests, Collides(o), UNCHANGED debts
          PROVE  KeptInv'
      BY <3>1, <3>2, <3>4, CollidesKeeps DEF debts
    <3>5. ASSUME NEW o \in Requests, CollidesLeaving(o)
          PROVE  KeptInv'
      BY <3>1, <3>2, <3>5, CollidesLeavingKeeps
    <3>6. ASSUME NEW o \in Requests, Finds(o) \/ OpensVersion(o) \/ FillsVersion(o), UNCHANGED debts
          PROVE  KeptInv'
      BY <3>1, <3>6, FindsKeeps, OpensVersionKeeps, FillsVersionKeeps DEF debts
    <3>7. ASSUME NEW o \in Requests, Inserts(o) \/ CleanupFails(o)
          PROVE  KeptInv'
      BY <3>1, <3>7, InsertsKeeps, CleanupFailsKeeps
    <3>8. ASSUME NEW set \in SUBSET rows, Removes(set) \/ RemovalFails(set)
          PROVE  KeptInv'
      BY <3>1, <3>8, RemovesKeeps, RemovalFailsKeeps
    <3>9. ASSUME Aside, UNCHANGED debts
          PROVE  KeptInv'
      BY <3>1, <3>9, AsideKeeps DEF debts
    <3>. QED
      BY <2>2, <3>1, <3>3, <3>4, <3>5, <3>6, <3>7, <3>8, <3>9, StepShapes
  <2>. QED
    BY <2>1, <2>2
<1>. QED
  BY <1>1, <1>2, HistoryTypes, HistoryAlwaysBounded, PTL DEF Spec

\* Unless two version files were named in one second, every row but those of
\* a removal that was cut short has its file, and the file holds what was backed up.
THEOREM HistoryAlwaysKept == Spec => []HistoryKept
<1>1. alike \/ KeptInv => HistoryKept
  BY DEF KeptInv, RowFiled, HistoryKept
<1>. QED
  BY <1>1, FilesKept, PTL

\* Only its own step takes a request away from the version that it restores, but for
\* a crash.
LEMMA GettingStays ==
    ASSUME TypeOK, Next, NEW o \in Requests, op[o].pc = "getting", ~GetsVersion(o)
    PROVE  op'[o].pc \in {"getting", "idle"}
<1>0. \A p \in Requests : op[p] \in OpRecord
  BY DEF TypeOK
<1>1. ASSUME NEW p \in Requests, NEW e, Becomes(p, e), p # o
      PROVE  op'[o].pc = "getting"
  BY <1>1, BecomesAt DEF Becoming
<1>2. ASSUME NEW p \in Requests, RequestStep(p)
      PROVE  op'[o].pc = "getting"
  <2>1. CASE GetsVersion(p) \/ ReadsCurrent(p) \/ OpensVersion(p) \/ FillsVersion(p)
    <3>1. p # o
      BY <2>1 DEF ReadsCurrent, OpensVersion, FillsVersion
    <3>2. \E e \in OpRecord : Becomes(p, e)
      BY <2>1, GetsVersionTyped, ReadsCurrentTyped, OpensVersionTyped, FillsVersionTyped
    <3>. QED
      BY <1>1, <3>1, <3>2
  <2>2. CASE BackupFails(p) \/ OpensLive(p) \/ WritesLive(p) \/ CollidesLeaving(p)
    <3>1. p # o
      BY <2>2 DEF BackupFails, OpensLive, WritesLive, CollidesLeaving
    <3>. QED
      BY <1>1, <2>2, <3>1 DEF BackupFails, OpensLive, WritesLive, CollidesLeaving, Ends
  <2>3. CASE Inserts(p) \/ CleanupFails(p)
    BY <1>0, <2>3, CutTyped DEF Inserts, CleanupFails
  <2>4. CASE Collides(p)
    BY <1>0, <2>4, CutTyped DEF Collides
  <2>5. CASE UploadTooLarge(p)
    BY <1>0, <2>5, CutLiveTyped DEF UploadTooLarge
  <2>. QED
    BY <1>2, <2>1, <2>2, <2>3, <2>4, <2>5 DEF RequestStep
<1>3. ASSUME NEW p \in Requests, Begins(p)
      PROVE  op'[o].pc = "getting"
  BY <1>1, <1>3, BeginsTyped
<1>4. ASSUME NEW set, Removes(set) \/ RemovalFails(set)
      PROVE  op'[o].pc = "getting"
  BY <1>0, <1>4, CutTyped DEF Removes, RemovalFails
<1>5. ASSUME NEW t, Replaced(t)
      PROVE  op'[o].pc = "getting"
  BY <1>0, <1>5, CutLiveTyped DEF Replaced
<1>6. CASE \/ \E r \in rows : DeleteVersion(r)
           \/ \E cutoff \in 1..now : CleanupOld(cutoff)
  BY <1>4, <1>6, RemovalShapes
<1>7. CASE DeleteLive \/ \E c \in Contents : RenameHere(c) \/ MoveHere(c) \/ Extract(c)
  BY <1>5, <1>7 DEF DeleteLive, RenameHere, MoveHere, Extract
<1>8. CASE Tick \/ Crash
  BY <1>8 DEF Tick, Crash, NoOp
<1>. QED
  BY <1>2, <1>3, <1>6, <1>7, <1>8 DEF Next

\* Unless two version files were named in one second, a restore writes what the
\* version it was asked for was made of.
THEOREM RestoresWhatWasKept == Spec => RestoresTheVersion
<1>1. TInv /\ (alike \/ KeptInv) /\ [Next]_vars =>
        [\A o \in Requests :
            op[o].pc = "getting" /\ op'[o].pc \in {"reading", "truncating"}
                => alike \/ op'[o].new = op[o].text]_vars
  <2> SUFFICES ASSUME TInv, KeptInv, Next, NEW o \in Requests,
                      op[o].pc = "getting", op'[o].pc \in {"reading", "truncating"}
               PROVE  op'[o].new = op[o].text
    OBVIOUS
  <2>1. TypeOK /\ \A p \in Requests : op[p] \in OpRecord
    BY DEF TInv, TypeOK
  <2>2. CASE GetsVersion(o)
    <3>1. PICK e \in OpRecord :
            /\ Becomes(o, e)
            /\ \/ e.pc = "idle"
               \/ Name(op[o]) \in DOMAIN disk /\ e.new = disk[Name(op[o])]
      BY <2>1, <2>2, GetsVersionTyped
    <3>2. op'[o] = e
      BY <2>1, <3>1, BecomesAt DEF Becoming
    <3>. QED
      BY <3>1, <3>2 DEF KeptInv, Filed
  <2>3. CASE ~GetsVersion(o)
    BY <2>1, <2>3, GettingStays
  <2>. QED
    BY <2>2, <2>3
<1>. QED
  BY <1>1, FilesKept, HistoryTypes, PTL DEF Spec, RestoresTheVersion
=============================================================================
