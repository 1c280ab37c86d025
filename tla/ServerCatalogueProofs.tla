----------------------- MODULE ServerCatalogueProofs -----------------------
(***************************************************************************)
(* Theorems about the servers of the database: about ServerCatalogue, that   *)
(* every row names a directory with this server's files and that no          *)
(* directory is left over; and about SharedResources, who may see servers    *)
(* and groups and what the cache of backup schedules answers.  The two are   *)
(* models of their own, and each theorem is about one of them.               *)
(***************************************************************************)
EXTENDS ServerCatalogue, SharedResources, TLAPS

-----------------------------------------------------------------------------
(* ServerCatalogue                                                           *)


Uprooted == mishaps \cap {"rollback", "attach", "delete"} # {}
Littered == mishaps \cap {"move", "rmtree", "crash"} # {}

-----------------------------------------------------------------------------
(* Types                                                                     *)

\* The three kinds of change of a request's record keep its type.
LEMMA RequestTypes ==
    ASSUME CatalogueTypeOK, NEW o \in Requests
    PROVE  /\ Finish(o) => req' \in [Requests -> Request]
           /\ \A pc \in {"checks", "jar", "attach"} :
                Goto(o, pc) => req' \in [Requests -> Request]
           /\ req[o].pc # "idle" => req[o].name \in Names /\ Target(o) \in Dirs
  BY CatalogueAssumption DEF CatalogueTypeOK, Finish, Goto, NoRequest, Request, Target

\* A mishap adds a fault, and nothing takes one away.
LEMMA MishapsGrow ==
    ASSUME CatalogueTypeOK, [CatalogueNext]_catalogueVars
    PROVE  mishaps' \subseteq Faults /\ mishaps \subseteq mishaps'
  BY DEF CatalogueTypeOK, CatalogueNext, RequestStep, Begin, Refused, MakesDirectory, Fails, Inserts,
         InsertsAndFails, Attached, AttachFails, Rename, Delete, DeleteInPlace,
         DeleteFails, Crash, Mishap, AllWell, catalogueVars

\* CatalogueTypeOK is inductive.
LEMMA TypeStep == ASSUME CatalogueTypeOK, [CatalogueNext]_catalogueVars PROVE CatalogueTypeOK'
  <1>0. mishaps' \subseteq Faults
    BY MishapsGrow
  <1>1. ASSUME NEW o \in Requests, NEW n \in Names, Begin(o, n) PROVE CatalogueTypeOK'
    BY <1>0, <1>1 DEF CatalogueTypeOK, Begin, Request
  <1>2. ASSUME NEW o \in Requests, Refused(o) \/ Attached(o) PROVE CatalogueTypeOK'
    BY <1>0, <1>2 DEF CatalogueTypeOK, Refused, Attached, Finish, NoRequest, Request
  <1>3. ASSUME NEW o \in Requests, MakesDirectory(o) PROVE CatalogueTypeOK'
    <2>1. Target(o) \in Dirs /\ req[o].name \in Names
      BY <1>3, RequestTypes DEF MakesDirectory
    <2> QED
      BY <1>0, <1>3, <2>1 DEF CatalogueTypeOK, MakesDirectory, Goto, Request, Paths
  <1>4. ASSUME NEW o \in Requests, Fails(o) \/ AttachFails(o) PROVE CatalogueTypeOK'
    BY <1>0, <1>4 DEF CatalogueTypeOK, Fails, AttachFails, Removed, Finish, NoRequest, Request
  <1>5. ASSUME NEW o \in Requests, NEW i \in Ids, Inserts(o, i) \/ InsertsAndFails(o, i)
        PROVE CatalogueTypeOK'
    <2>1. Target(o) \in Dirs /\ req[o].name \in Names
      BY <1>5, RequestTypes DEF Inserts, InsertsAndFails
    <2>2. NewRow(o) \in Row
      BY <2>1 DEF NewRow, Row, Paths
    <2>3. rows' \in [Ids -> Row \cup {Absent}] /\ disk' \in [Paths -> Ids \cup {"empty", Absent}]
      BY <1>5, <2>1, <2>2 DEF CatalogueTypeOK, Inserts, InsertsAndFails, Removed, Paths
    <2>4. /\ req' \in [Requests -> Request]
          /\ \A p \in Requests : req'[p].pc # "idle" => req'[p].name \in Names
      BY <1>5, <2>1 DEF CatalogueTypeOK, Inserts, InsertsAndFails, Finish, Goto, NoRequest, Request
    <2> QED
      BY <1>0, <2>3, <2>4 DEF CatalogueTypeOK
  <1>6. ASSUME NEW i \in Ids, NEW n \in Names, Rename(i, n) PROVE CatalogueTypeOK'
    BY <1>0, <1>6 DEF CatalogueTypeOK, Rename, Live, Row
  <1>7. ASSUME NEW i \in Ids, NEW a \in Archives, Delete(i, a) \/ DeleteFails(i, a)
        PROVE CatalogueTypeOK'
    <2>1. rows[i] \in Row /\ rows[i].dir \in Paths /\ a \in Paths
      BY <1>7 DEF CatalogueTypeOK, Delete, DeleteFails, Live, Row, Paths
    <2>2. disk' \in [Paths -> Ids \cup {"empty", Absent}]
      BY <1>7, <2>1 DEF CatalogueTypeOK, Delete, DeleteFails, Moved
    <2>3. rows' \in [Ids -> Row \cup {Absent}]
      <3>1. CASE Delete(i, a)
        BY <3>1, <2>1 DEF CatalogueTypeOK, Delete, Marked, Row
      <3>2. CASE DeleteFails(i, a)
        BY <3>2 DEF CatalogueTypeOK, DeleteFails
      <3> QED
        BY <1>7, <3>1, <3>2
    <2> QED
      BY <1>0, <1>7, <2>2, <2>3 DEF CatalogueTypeOK, Delete, DeleteFails
  <1>8. ASSUME NEW i \in Ids, DeleteInPlace(i) PROVE CatalogueTypeOK'
    BY <1>0, <1>8 DEF CatalogueTypeOK, DeleteInPlace, Marked, Live, Row
  <1>9. CASE Crash
    BY <1>0, <1>9 DEF CatalogueTypeOK, Crash, NoRequest, Request
  <1>10. CASE UNCHANGED catalogueVars
    BY <1>10 DEF CatalogueTypeOK, catalogueVars
  <1> QED
    BY <1>1, <1>2, <1>3, <1>4, <1>5, <1>6, <1>7, <1>8, <1>9, <1>10
    DEF CatalogueNext, RequestStep

\* Every variable of ServerCatalogue keeps its type, and a creation that is under
\* way has a name.
THEOREM CatalogueTypes == CatalogueSpec => []CatalogueTypeOK
  <1>1. CatalogueInit => CatalogueTypeOK
    BY DEF CatalogueInit, CatalogueTypeOK, NoRequest, Request
  <1> QED
    BY <1>1, TypeStep, PTL DEF CatalogueSpec

-----------------------------------------------------------------------------
(* The directory of a row                                                    *)

\* What DirectoryPerServer rests on: the directory of a creation that has made
\* one is empty and no other creation's, so it becomes the row's as it stands.
Owned ==
    /\ \A i \in Ids : rows[i] # Absent => disk[rows[i].dir] = i
    /\ \A o \in Requests : req[o].pc = "jar" => disk[Target(o)] = "empty"
    /\ \A o, p \in Requests :
         o # p /\ req[o].pc = "jar" /\ req[p].pc = "jar" => Target(o) # Target(p)

OwnedUnlessUprooted == Uprooted \/ Owned

\* A step after which nothing was uprooted is none of the steps that uproot.
LEMMA OwnedStep ==
    ASSUME CatalogueTypeOK, Owned, [CatalogueNext]_catalogueVars, ~Uprooted'
    PROVE  Owned'
  <1>1. ASSUME NEW o \in Requests, NEW n \in Names, Begin(o, n) PROVE Owned'
    BY <1>1 DEF CatalogueTypeOK, Begin, Owned, Target
  <1>2. ASSUME NEW o \in Requests, Refused(o) \/ Attached(o) PROVE Owned'
    BY <1>2 DEF CatalogueTypeOK, Refused, Attached, Finish, NoRequest, Owned, Target
  <1>3. ASSUME NEW o \in Requests, MakesDirectory(o) PROVE Owned'
    <2>1. Target(o) \in Paths /\ req[o].name \in Names /\ Target(o)' = Target(o)
      BY <1>3, RequestTypes DEF MakesDirectory, Paths, CatalogueTypeOK, Goto, Target
    <2>2. \A p \in Requests : p # o => req'[p] = req[p] /\ Target(p)' = Target(p)
      BY <1>3 DEF MakesDirectory, CatalogueTypeOK, Goto, Target
    <2>3. \A i \in Ids : rows[i] # Absent => rows[i].dir # Target(o)
      BY <1>3, CatalogueAssumption DEF MakesDirectory, Owned
    <2>4. \A p \in Requests : req[p].pc = "jar" => Target(p) # Target(o)
      BY <1>3, CatalogueAssumption DEF MakesDirectory, Owned
    <2>5. \A i \in Ids : rows'[i] # Absent => disk'[rows'[i].dir] = i
      BY <1>3, <2>1, <2>3 DEF MakesDirectory, Owned, CatalogueTypeOK, Row
    <2>6. \A p \in Requests : req'[p].pc = "jar" => disk'[Target(p)'] = "empty"
      BY <1>3, <2>1, <2>2, <2>4 DEF MakesDirectory, Owned, CatalogueTypeOK, Paths, Target
    <2>7. \A p, q \in Requests :
            p # q /\ req'[p].pc = "jar" /\ req'[q].pc = "jar" => Target(p)' # Target(q)'
      BY <2>1, <2>2, <2>4 DEF Owned
    <2> QED
      BY <2>5, <2>6, <2>7 DEF Owned
  <1>4. ASSUME NEW o \in Requests, Fails(o) PROVE Owned'
    <2>1. Target(o) \in Paths
      BY <1>4, RequestTypes DEF Fails, Paths
    <2>2. \A p \in Requests : p # o => req'[p] = req[p] /\ Target(p)' = Target(p)
      BY <1>4 DEF Fails, CatalogueTypeOK, Finish, Target
    <2>3. req'[o].pc = "idle"
      BY <1>4 DEF Fails, CatalogueTypeOK, Finish, NoRequest
    <2>4. \A i \in Ids : rows[i] # Absent => rows[i].dir # Target(o)
      BY <1>4, CatalogueAssumption DEF Fails, Owned
    <2>5. \A d \in Paths : d # Target(o) => disk'[d] = disk[d]
      BY <1>4, <2>1 DEF Fails, Removed, CatalogueTypeOK
    <2>6. \A i \in Ids : rows'[i] # Absent => disk'[rows'[i].dir] = i
      BY <1>4, <2>4, <2>5 DEF Fails, Owned, CatalogueTypeOK, Row
    <2>7. \A p \in Requests : req'[p].pc = "jar" => disk'[Target(p)'] = "empty"
      <3> SUFFICES ASSUME NEW p \in Requests, req'[p].pc = "jar"
                   PROVE  disk'[Target(p)'] = "empty"
        OBVIOUS
      <3>1. p # o /\ req[p].pc = "jar" /\ Target(p)' = Target(p)
        BY <2>2, <2>3
      <3>2. Target(p) # Target(o) /\ Target(p) \in Paths /\ disk[Target(p)] = "empty"
        BY <1>4, <3>1, RequestTypes DEF Fails, Owned, Paths
      <3> QED
        BY <2>5, <3>1, <3>2
    <2>8. \A p, q \in Requests :
            p # q /\ req'[p].pc = "jar" /\ req'[q].pc = "jar" => Target(p)' # Target(q)'
      BY <2>2, <2>3 DEF Owned
    <2> QED
      BY <2>6, <2>7, <2>8 DEF Owned
  <1>5. ASSUME NEW o \in Requests, NEW i \in Ids, Inserts(o, i) PROVE Owned'
    <2>1. Target(o) \in Paths /\ req[o].pc = "jar"
      BY <1>5, RequestTypes DEF Inserts, Paths
    <2>2. \A p \in Requests : p # o => req'[p] = req[p] /\ Target(p)' = Target(p)
      BY <1>5 DEF Inserts, CatalogueTypeOK, Finish, Goto, Target
    <2>3. req'[o].pc # "jar"
      BY <1>5 DEF Inserts, CatalogueTypeOK, Finish, Goto, NoRequest
    <2>4. \A j \in Ids : rows[j] # Absent => rows[j].dir # Target(o)
      BY <2>1, CatalogueAssumption DEF Owned
    <2>5. disk'[Target(o)] = i /\ \A d \in Paths : d # Target(o) => disk'[d] = disk[d]
      BY <1>5, <2>1 DEF Inserts, CatalogueTypeOK
    <2>6. rows'[i].dir = Target(o) /\ \A j \in Ids : j # i => rows'[j] = rows[j]
      BY <1>5 DEF Inserts, CatalogueTypeOK, NewRow
    <2>7. \A j \in Ids : rows'[j] # Absent => disk'[rows'[j].dir] = j
      <3> SUFFICES ASSUME NEW j \in Ids, rows'[j] # Absent PROVE disk'[rows'[j].dir] = j
        OBVIOUS
      <3>1. CASE j = i
        BY <3>1, <2>5, <2>6
      <3>2. CASE j # i
        <4>1. rows[j] # Absent /\ rows[j].dir \in Paths /\ disk[rows[j].dir] = j
          BY <3>2, <2>6 DEF Owned, CatalogueTypeOK, Row
        <4> QED
          BY <3>2, <4>1, <2>4, <2>5, <2>6
      <3> QED
        BY <3>1, <3>2
    <2>8. \A p \in Requests : req'[p].pc = "jar" => disk'[Target(p)'] = "empty"
      <3> SUFFICES ASSUME NEW p \in Requests, req'[p].pc = "jar"
                   PROVE  disk'[Target(p)'] = "empty"
        OBVIOUS
      <3>1. p # o /\ req[p].pc = "jar" /\ Target(p)' = Target(p)
        BY <2>2, <2>3
      <3>2. Target(p) # Target(o) /\ Target(p) \in Paths /\ disk[Target(p)] = "empty"
        BY <2>1, <3>1, RequestTypes DEF Owned, Paths
      <3> QED
        BY <2>5, <3>1, <3>2
    <2>9. \A p, q \in Requests :
            p # q /\ req'[p].pc = "jar" /\ req'[q].pc = "jar" => Target(p)' # Target(q)'
      BY <2>2, <2>3 DEF Owned
    <2> QED
      BY <2>7, <2>8, <2>9 DEF Owned
  <1>6. /\ ~\E o \in Requests, i \in Ids : InsertsAndFails(o, i)
        /\ ~\E o \in Requests : AttachFails(o)
    BY DEF InsertsAndFails, AttachFails, Mishap, Uprooted
  <1>7. ASSUME NEW i \in Ids, NEW n \in Names, Rename(i, n) PROVE Owned'
    BY <1>7 DEF CatalogueTypeOK, Rename, Live, Owned, Row, Target
  <1>8. ASSUME NEW i \in Ids, NEW a \in Archives, Delete(i, a) PROVE Owned'
    <2>1. rows[i] \in Row /\ rows[i].dir \in Paths /\ a \in Paths
      BY <1>8 DEF CatalogueTypeOK, Delete, Live, Row, Paths
    <2>2. disk[rows[i].dir] = i /\ rows[i].dir # a
      BY <1>8, <2>1 DEF Delete, Live, Owned
    <2>3. /\ disk'[a] = i
          /\ \A d \in Paths : d # a /\ d # rows[i].dir => disk'[d] = disk[d]
      BY <1>8, <2>1, <2>2 DEF Delete, Moved, CatalogueTypeOK
    <2>4. rows'[i].dir = a /\ \A j \in Ids : j # i => rows'[j] = rows[j]
      BY <1>8 DEF Delete, Marked, CatalogueTypeOK
    <2>5. \A j \in Ids : rows'[j] # Absent => disk'[rows'[j].dir] = j
      <3> SUFFICES ASSUME NEW j \in Ids, rows'[j] # Absent PROVE disk'[rows'[j].dir] = j
        OBVIOUS
      <3>1. CASE j = i
        BY <3>1, <2>3, <2>4
      <3>2. CASE j # i
        <4>1. rows[j] # Absent /\ rows[j].dir \in Paths /\ disk[rows[j].dir] = j
          BY <3>2, <2>4 DEF Owned, CatalogueTypeOK, Row
        <4>2. rows[j].dir # a
          BY <1>8, <4>1, CatalogueAssumption DEF Delete
        <4> QED
          BY <3>2, <4>1, <4>2, <2>2, <2>3, <2>4
      <3> QED
        BY <3>1, <3>2
    <2>6. \A p \in Requests : req[p].pc = "jar" => disk'[Target(p)] = "empty"
      <3> SUFFICES ASSUME NEW p \in Requests, req[p].pc = "jar"
                   PROVE  disk'[Target(p)] = "empty"
        OBVIOUS
      <3>1. Target(p) \in Paths /\ disk[Target(p)] = "empty"
        BY RequestTypes DEF Owned, Paths
      <3>2. Target(p) # a /\ Target(p) # rows[i].dir
        BY <1>8, <3>1, <2>2, CatalogueAssumption DEF Delete
      <3> QED
        BY <3>1, <3>2, <2>3
    <2> QED
      BY <1>8, <2>5, <2>6 DEF Delete, Owned, Target
  <1>9. ~\E i \in Ids, a \in Archives : DeleteFails(i, a)
    BY DEF DeleteFails, Mishap, Uprooted
  <1>10. ASSUME NEW i \in Ids, DeleteInPlace(i) PROVE Owned'
    BY <1>10 DEF CatalogueTypeOK, DeleteInPlace, Marked, Live, Owned, Row, Target
  <1>11. CASE Crash
    BY <1>11 DEF CatalogueTypeOK, Crash, NoRequest, Owned, Target
  <1>12. CASE UNCHANGED catalogueVars
    BY <1>12 DEF catalogueVars, Owned, Target
  <1> QED
    BY <1>1, <1>2, <1>3, <1>4, <1>5, <1>6, <1>7, <1>8, <1>9, <1>10, <1>11, <1>12
    DEF CatalogueNext, RequestStep

\* Every row, of a live or a deleted server, names a directory with the files of
\* this server, as long as no step between a directory and its row has failed.
THEOREM DirectoriesOwned == CatalogueSpec => []DirectoryPerServer
  <1>1. CatalogueInit => OwnedUnlessUprooted
    BY DEF CatalogueInit, OwnedUnlessUprooted, Owned, NoRequest
  <1>2. CatalogueTypeOK /\ OwnedUnlessUprooted /\ [CatalogueNext]_catalogueVars => OwnedUnlessUprooted'
    <2> SUFFICES ASSUME CatalogueTypeOK, OwnedUnlessUprooted, [CatalogueNext]_catalogueVars, ~Uprooted'
                 PROVE  Owned'
      BY DEF OwnedUnlessUprooted
    <2>1. ~Uprooted
      BY MishapsGrow DEF Uprooted
    <2> QED
      BY <2>1, OwnedStep DEF OwnedUnlessUprooted
  <1>3. OwnedUnlessUprooted => DirectoryPerServer
    BY DEF OwnedUnlessUprooted, Uprooted, Owned, DirectoryPerServer
  <1> QED
    BY <1>1, <1>2, <1>3, CatalogueTypes, PTL DEF CatalogueSpec

-----------------------------------------------------------------------------
(* Nothing is left over                                                      *)

Used(d) ==
    \/ \E i \in Ids : Live(i) /\ rows[i].dir = d
    \/ \E o \in Requests : req[o].pc = "jar" /\ Target(o) = d

Tidy == \A d \in Dirs : disk[d] # Absent => Used(d)
TidyUnlessLittered == Littered \/ Tidy

\* A step keeps a directory in use that it leaves where it is.
LEMMA TidyStep ==
    ASSUME CatalogueTypeOK, Tidy, [CatalogueNext]_catalogueVars, ~Littered'
    PROVE  Tidy'
  <1> SUFFICES ASSUME NEW d \in Dirs, disk'[d] # Absent PROVE Used(d)'
    BY DEF Tidy
  <1>0. d \in Paths /\ d \notin Archives
    BY CatalogueAssumption DEF Paths
  <1>1. ASSUME NEW o \in Requests, NEW n \in Names, Begin(o, n) PROVE Used(d)'
    BY <1>1 DEF CatalogueTypeOK, Begin, Tidy, Used, Live, Target
  <1>2. ASSUME NEW o \in Requests, Refused(o) \/ Attached(o) PROVE Used(d)'
    BY <1>2 DEF CatalogueTypeOK, Refused, Attached, Finish, NoRequest, Tidy, Used, Live, Target
  <1>3. ASSUME NEW o \in Requests, MakesDirectory(o) PROVE Used(d)'
    <2>1. Target(o)' = Target(o) /\ req'[o].pc = "jar"
      BY <1>3 DEF MakesDirectory, CatalogueTypeOK, Goto, Target
    <2>2. CASE d = Target(o)
      BY <2>1, <2>2 DEF Used
    <2>3. CASE d # Target(o)
      <3>1. disk[d] # Absent
        BY <1>0, <1>3, <2>3 DEF MakesDirectory, CatalogueTypeOK
      <3> QED
        BY <1>3, <3>1 DEF MakesDirectory, CatalogueTypeOK, Goto, Tidy, Used, Live, Target
    <2> QED
      BY <2>2, <2>3
  <1>4. ASSUME NEW o \in Requests, Fails(o) \/ AttachFails(o) PROVE Used(d)'
    <2>1. disk' = Removed(Target(o)) /\ rows' = rows
      BY <1>4 DEF Fails, AttachFails, Mishap, Littered
    <2>2. d # Target(o) /\ disk[d] # Absent
      BY <1>0, <1>4, <2>1 DEF Removed, CatalogueTypeOK, Paths
    <2>3. \A p \in Requests : p # o => req'[p] = req[p]
      BY <1>4 DEF Fails, AttachFails, Finish, CatalogueTypeOK
    <2> QED
      BY <2>1, <2>2, <2>3 DEF Tidy, Used, Live, Target
  <1>5. ASSUME NEW o \in Requests, NEW i \in Ids, Inserts(o, i) \/ InsertsAndFails(o, i)
        PROVE Used(d)'
    <2>1. /\ rows'[i] = NewRow(o) /\ rows[i] = Absent
          /\ \A j \in Ids : j # i => rows'[j] = rows[j]
          /\ \A p \in Requests : p # o => req'[p] = req[p]
      BY <1>5 DEF Inserts, InsertsAndFails, Finish, Goto, CatalogueTypeOK
    <2>2. CASE d = Target(o)
      <3>1. rows'[i] \in Row
        BY <1>5, RequestTypes, <2>1 DEF Inserts, InsertsAndFails, NewRow, Row, Paths
      <3>2. rows'[i] # Absent
        BY <3>1, CatalogueAssumption
      <3> QED
        BY <2>1, <2>2, <3>2 DEF Used, Live, NewRow
    <2>3. CASE d # Target(o)
      <3>1. disk[d] # Absent
        BY <1>0, <1>5, <2>3 DEF Inserts, InsertsAndFails, Removed, CatalogueTypeOK
      <3> QED
        BY <2>1, <2>3, <3>1 DEF Tidy, Used, Live, Target
    <2> QED
      BY <2>2, <2>3
  <1>6. ASSUME NEW i \in Ids, NEW n \in Names, Rename(i, n) PROVE Used(d)'
    <2>1. disk' = disk /\ req' = req /\ \A j \in Ids : j # i => rows'[j] = rows[j]
      BY <1>6 DEF CatalogueTypeOK, Rename
    <2>2. rows'[i] \in Row /\ rows'[i].dir = rows[i].dir /\ ~rows'[i].deleted
      BY <1>6 DEF CatalogueTypeOK, Rename, Live, Row
    <2> QED
      BY <2>1, <2>2, CatalogueAssumption DEF Tidy, Used, Live, Target
  <1>7. ASSUME NEW i \in Ids, NEW a \in Archives, Delete(i, a) \/ DeleteFails(i, a)
        PROVE Used(d)'
    <2>1. rows[i] \in Row /\ rows[i].dir \in Paths
      BY <1>7 DEF CatalogueTypeOK, Delete, DeleteFails, Live, Row
    <2>2. d # rows[i].dir /\ disk[d] # Absent
      BY <1>0, <1>7, <2>1 DEF Delete, DeleteFails, Moved, CatalogueTypeOK
    <2>3. /\ \A j \in Ids : j # i => rows'[j] = rows[j]
          /\ req' = req
      BY <1>7 DEF Delete, DeleteFails, Marked, CatalogueTypeOK
    <2> QED
      BY <2>2, <2>3 DEF Tidy, Used, Live, Target
  <1>8. ASSUME NEW i \in Ids, DeleteInPlace(i) PROVE Used(d)'
    <2>1. disk[rows[i].dir] = Absent
      BY <1>8 DEF DeleteInPlace, Mishap, Littered
    <2>2. disk[d] # Absent /\ rows[i].dir # d /\ req' = req
      BY <1>8, <2>1 DEF DeleteInPlace
    <2>3. \A j \in Ids : j # i => rows'[j] = rows[j]
      BY <1>8 DEF DeleteInPlace, Marked, CatalogueTypeOK
    <2> QED
      BY <2>2, <2>3 DEF Tidy, Used, Live, Target
  <1>9. ~Crash
    BY DEF Crash, Mishap, Littered
  <1>10. CASE UNCHANGED catalogueVars
    BY <1>10 DEF catalogueVars, Tidy, Used, Live, Target
  <1> QED
    BY <1>1, <1>2, <1>3, <1>4, <1>5, <1>6, <1>7, <1>8, <1>9, <1>10
    DEF CatalogueNext, RequestStep

\* Every directory under servers/ is that of a live server or of a creation in
\* progress, unless a move or a clean-up failed or the API crashed: the name of
\* a failed creation or of a deleted server is free again.
THEOREM NothingStrays == CatalogueSpec => []NoStrayDirectory
  <1>1. CatalogueInit => TidyUnlessLittered
    BY CatalogueAssumption DEF CatalogueInit, TidyUnlessLittered, Tidy, Paths
  <1>2. CatalogueTypeOK /\ TidyUnlessLittered /\ [CatalogueNext]_catalogueVars => TidyUnlessLittered'
    <2> SUFFICES ASSUME CatalogueTypeOK, TidyUnlessLittered, [CatalogueNext]_catalogueVars, ~Littered'
                 PROVE  Tidy'
      BY DEF TidyUnlessLittered
    <2>1. ~Littered
      BY MishapsGrow DEF Littered
    <2> QED
      BY <2>1, TidyStep DEF TidyUnlessLittered
  <1>3. TidyUnlessLittered => NoStrayDirectory
    BY DEF TidyUnlessLittered, Littered, Tidy, Used, NoStrayDirectory
  <1> QED
    BY <1>1, <1>2, <1>3, CatalogueTypes, PTL DEF CatalogueSpec

-----------------------------------------------------------------------------
(* SharedResources, for any number of users, servers and groups and any      *)
(* interval.                                                                 *)
(* Types                                                                     *)

(* The steps of Resources keep the types of the tables.                      *)
LEMMA ResourcesTyped ==
    ASSUME ResourcesTypeOK, ResourcesNext
    PROVE  ResourcesTypeOK'
<1> USE DEF ResourcesTypeOK
<1>1. ASSUME NEW u \in UserIds, Register(u)
      PROVE  ResourcesTypeOK'
  BY <1>1 DEF Register, Roles
<1>2. ASSUME NEW u \in UserIds, DeleteUser(u)
      PROVE  ResourcesTypeOK'
  BY <1>2 DEF DeleteUser
<1>3. ASSUME NEW u \in UserIds, Authenticate(u)
      PROVE  ResourcesTypeOK'
  <2>1. role[u] \in Roles
    BY <1>3 DEF Authenticate, Registered
  <2>. QED
    BY <1>3, <2>1 DEF Authenticate, tables
<1>4. ASSUME NEW u \in UserIds, NEW new \in Roles, UpdateRole(u, new)
      PROVE  ResourcesTypeOK'
  BY <1>4 DEF UpdateRole
<1>5. ASSUME NEW u \in UserIds, NEW r \in Resources, Create(u, r)
      PROVE  ResourcesTypeOK'
  <2>1. owner' = [owner EXCEPT ![r] = u] /\ UNCHANGED <<scope, role, deleted>> /\ acting' = None
    BY <1>5 DEF Create, Serves
  <2>2. owner' \in [Resources -> UserIds \cup {None}]
    BY <2>1
  <2>3. \A s \in Resources : owner[s] # None => owner'[s] # None
    BY <2>1, ResourcesAssumption DEF ResourcesAssumption
  <2>4. deleted' \in SUBSET {s \in Servers : owner'[s] # None}
    BY <2>1, <2>3 DEF Resources
  <2>. QED
    BY <2>1, <2>2, <2>4
<1>6. ASSUME NEW r \in Resources, DeleteServer(r)
      PROVE  ResourcesTypeOK'
  BY <1>6 DEF DeleteServer, Exists
<1>7. ASSUME NEW r \in Resources, DeleteGroup(r)
      PROVE  ResourcesTypeOK'
  <2>1. owner' = [owner EXCEPT ![r] = None] /\ UNCHANGED <<scope, role, deleted, acting>>
    BY <1>7 DEF DeleteGroup
  <2>2. owner' \in [Resources -> UserIds \cup {None}]
    BY <2>1
  <2>3. r \notin Servers
    BY <1>7 DEF DeleteGroup, Groups, Servers
  <2>4. \A s \in Servers : owner'[s] = owner[s]
    BY <2>1, <2>3 DEF Resources
  <2>5. deleted' \in SUBSET {s \in Servers : owner'[s] # None}
    BY <2>1, <2>4
  <2>. QED
    BY <2>1, <2>2, <2>5
<1>8. CASE Refuse
  BY <1>8 DEF Refuse, tables
<1>. QED
  BY <1>1, <1>2, <1>3, <1>4, <1>5, <1>6, <1>7, <1>8 DEF ResourcesNext

(* A request of another part ends and leaves the tables alone.               *)
LEMMA RequestTyped ==
    ASSUME ResourcesTypeOK, UNCHANGED tables, acting' = None \/ acting' = acting
    PROVE  ResourcesTypeOK'
BY DEF ResourcesTypeOK, tables

(* Grants belong to specific users, and a role to a type with roles.         *)
Proper(c) ==
    /\ c.grants # {} => c.type = "specific_users"
    /\ c.role # None <=> c.type = "role_based"

(* Storing a proper row keeps the types of all rows.                         *)
LEMMA StoresTyped ==
    ASSUME VisibilityTypeOK, NEW r \in Resources, NEW c \in Configs, Proper(c), Stores(r, c)
    PROVE  VisibilityTypeOK'
BY DEF VisibilityTypeOK, Stores, Proper

(* A new type of a row drops what belongs to the old one.                    *)
LEMMA WithTypeProper ==
    ASSUME VisibilityTypeOK, NEW r \in Resources, NEW type \in VisibilityTypes,
           NEW restriction \in Roles \cup {None}, ValidRole(type, restriction)
    PROVE  /\ WithType(config[r], type, restriction) \in Configs
           /\ Proper(WithType(config[r], type, restriction))
<1>1. CASE config[r] = None
  BY <1>1 DEF WithType, Configs, Proper, ValidRole
<1>2. CASE config[r] # None
  <2>1. config[r] \in Configs
    BY <1>2 DEF VisibilityTypeOK
  <2>. QED
    BY <1>2, <2>1 DEF WithType, Configs, Proper, ValidRole
<1>. QED
  BY <1>1, <1>2

(* A migrated resource is public and has no grants.                          *)
LEMMA MigratedProper ==
    /\ WithType(None, "public", None) = [type |-> "public", role |-> None, grants |-> {}]
    /\ WithType(None, "public", None) \in Configs
    /\ Proper(WithType(None, "public", None))
BY DEF WithType, Configs, VisibilityTypes, Proper

(* The migration adds proper rows and leaves the others alone.               *)
LEMMA MigrationTyped ==
    ASSUME VisibilityTypeOK, MigrateAll
    PROVE  VisibilityTypeOK'
<1>1. config' = [r \in Resources |->
        IF Missing(r) THEN WithType(None, "public", None) ELSE config[r]]
  BY DEF MigrateAll
<1>2. config' \in [Resources -> Configs \cup {None}]
  BY <1>1, MigratedProper DEF VisibilityTypeOK
<1>3. ASSUME NEW r \in Resources, config'[r] # None
      PROVE  Proper(config'[r])
  BY <1>1, <1>3, MigratedProper DEF VisibilityTypeOK, Proper
<1>. QED
  BY <1>2, <1>3 DEF VisibilityTypeOK, Proper

(* New grants, of a row that is for specific users, leave it proper.         *)
LEMMA GrantsTyped ==
    ASSUME VisibilityTypeOK, NEW r \in Resources, NEW grants \in SUBSET UserIds,
           config[r] # None, config[r].type = "specific_users", SetsGrants(r, grants)
    PROVE  VisibilityTypeOK'
<1> DEFINE c == [config[r] EXCEPT !.grants = grants]
<1>1. config[r] \in Configs /\ Proper(config[r])
  BY DEF VisibilityTypeOK, Proper
<1>2. c \in Configs /\ Proper(c)
  BY <1>1 DEF Configs, Proper
<1>3. Stores(r, c)
  BY DEF SetsGrants
<1> HIDE DEF c
<1>. QED
  BY <1>2, <1>3, StoresTyped

(* Every handler of visibility keeps the types of the rows.                  *)
LEMMA VisibilityTyped ==
    ASSUME VisibilityTypeOK, VisibilityNext
    PROVE  VisibilityTypeOK'
<1>1. ASSUME NEW u \in UserIds, NEW r \in Resources, NEW type \in VisibilityTypes,
             NEW restriction \in Roles \cup {None}, SetVisibility(u, r, type, restriction)
      PROVE  VisibilityTypeOK'
  <2>1. ValidRole(type, restriction) /\ Stores(r, WithType(config[r], type, restriction))
    BY <1>1 DEF SetVisibility
  <2>. QED
    BY <2>1, WithTypeProper, StoresTyped
<1>2. ASSUME NEW u \in UserIds, NEW r \in Resources, NEW to \in UserIds, Grant(u, r, to)
      PROVE  VisibilityTypeOK'
  <2>1. /\ config[r] # None /\ config[r].type = "specific_users"
        /\ SetsGrants(r, config[r].grants \cup {to})
    BY <1>2 DEF Grant, Grantable
  <2>2. config[r].grants \cup {to} \in SUBSET UserIds
    BY <2>1 DEF VisibilityTypeOK, Configs
  <2>. QED
    BY <2>1, <2>2, GrantsTyped
<1>3. ASSUME NEW u \in UserIds, NEW r \in Resources, NEW from \in UserIds, Revoke(u, r, from)
      PROVE  VisibilityTypeOK'
  <2>1. /\ config[r] # None /\ from \in config[r].grants
        /\ SetsGrants(r, config[r].grants \ {from})
    BY <1>3 DEF Revoke, Revocable
  <2>2. config[r].type = "specific_users" /\ config[r].grants \ {from} \in SUBSET UserIds
    BY <2>1 DEF VisibilityTypeOK, Configs
  <2>. QED
    BY <2>1, <2>2, GrantsTyped
<1>4. ASSUME NEW u \in UserIds, ExecuteMigration(u)
      PROVE  VisibilityTypeOK'
  BY <1>4, MigrationTyped DEF ExecuteMigration
<1>. QED
  BY <1>1, <1>2, <1>3, <1>4 DEF VisibilityNext

(* A row that is saved with at most its interval left keeps the types.       *)
LEMMA SaveTyped ==
    ASSUME SchedulesTypeOK, NEW s \in Servers, NEW e \in Entities,
           e.left <= e.interval, Saves(s, e)
    PROVE  SchedulesTypeOK'
BY DEF SchedulesTypeOK, Saves

(* An hour takes one from what is left, if anything is.                      *)
LEMMA LaterTyped ==
    ASSUME NEW e \in Entities
    PROVE  /\ HourLater(e) \in Entities
           /\ e.left <= e.interval => HourLater(e).left <= HourLater(e).interval
<1>1. CASE e = None \/ e.left = 0
  BY <1>1 DEF HourLater
<1>2. CASE e # None /\ e.left # 0
  <2>1. HourLater(e) = [interval |-> e.interval, enabled |-> e.enabled, left |-> e.left - 1]
    BY <1>2 DEF HourLater, Entities
  <2>2. e.left \in 1 .. MaxInterval /\ e.interval \in Nat /\ e.left - 1 \in 0 .. MaxInterval
    BY <1>2, SchedulesAssumption DEF Entities, Intervals, SchedulesAssumption
  <2>3. HourLater(e) \in Entities
    BY <2>1, <2>2 DEF Entities
  <2>4. HourLater(e).left = e.left - 1 /\ HourLater(e).interval = e.interval
    BY <2>1
  <2>. QED
    BY <2>2, <2>3, <2>4
<1>. QED
  BY <1>1, <1>2

(* Whoever fills the cache takes a row, an entry, or nothing.                *)
LEMMA CacheTyped ==
    ASSUME SchedulesTypeOK, UNCHANGED schedule, cached' \in [Servers -> Entities \cup {None}]
    PROVE  SchedulesTypeOK'
BY DEF SchedulesTypeOK

(* Every handler of schedules, and the passing of time, keeps their types.   *)
LEMMA SchedulesTyped ==
    ASSUME SchedulesTypeOK, SchedulesNext
    PROVE  SchedulesTypeOK'
<1>1. ASSUME NEW u \in UserIds, NEW s \in Servers, NEW interval \in Intervals,
             NEW enabled \in BOOLEAN, CreateSchedule(u, s, interval, enabled)
      PROVE  SchedulesTypeOK'
  <2> DEFINE e == [interval |-> interval, enabled |-> enabled, left |-> interval]
  <2>1. Saves(s, e)
    BY <1>1 DEF CreateSchedule
  <2>2. interval \in Nat /\ interval \in 0 .. MaxInterval
    BY SchedulesAssumption DEF SchedulesAssumption, Intervals
  <2>3. e \in Entities /\ e.left <= e.interval
    BY <2>2 DEF Entities
  <2> HIDE DEF e
  <2>. QED
    BY <2>1, <2>3, SaveTyped
<1>2. ASSUME NEW u \in UserIds, NEW s \in Servers, NEW interval \in Intervals \cup {None},
             NEW enabled \in BOOLEAN \cup {None}, UpdateSchedule(u, s, interval, enabled)
      PROVE  SchedulesTypeOK'
  <2> DEFINE old == schedule[s]
             new == Rescheduled(old, interval)
             e == IF enabled = None THEN new ELSE [new EXCEPT !.enabled = enabled]
  <2>1. old # None /\ Saves(s, e)
    BY <1>2 DEF UpdateSchedule
  <2>2. old \in Entities /\ old.left <= old.interval
    BY <2>1 DEF SchedulesTypeOK
  <2>3. new \in Entities /\ new.left <= new.interval
    <3>1. CASE interval = None
      BY <2>2, <3>1 DEF Rescheduled
    <3>2. CASE interval # None
      <4>1. interval \in Intervals /\ interval \in Nat /\ interval \in 0 .. MaxInterval
        BY <3>2, SchedulesAssumption DEF SchedulesAssumption, Intervals
      <4>2. new = [interval |-> interval, enabled |-> old.enabled, left |-> interval]
        BY <2>2, <3>2 DEF Rescheduled, Entities
      <4>. QED
        BY <2>2, <4>1, <4>2 DEF Entities
    <3>. QED
      BY <3>1, <3>2
  <2> HIDE DEF new
  <2>4. e \in Entities /\ e.left <= e.interval
    <3>1. CASE enabled = None
      BY <2>3, <3>1
    <3>2. CASE enabled # None
      <4>1. enabled \in BOOLEAN
        BY <3>2
      <4>2. e = [interval |-> new.interval, enabled |-> enabled, left |-> new.left]
        BY <2>3, <3>2 DEF Entities
      <4>. QED
        BY <2>3, <4>1, <4>2 DEF Entities
    <3>. QED
      BY <3>1, <3>2
  <2> HIDE DEF e
  <2>. QED
    BY <2>1, <2>4, SaveTyped
<1>3. ASSUME NEW u \in UserIds, NEW s \in Servers, GetSchedule(u, s)
      PROVE  SchedulesTypeOK'
  BY <1>3, CacheTyped DEF GetSchedule, SchedulesTypeOK
<1>4. ASSUME NEW u \in UserIds, NEW s \in Servers, DeleteSchedule(u, s)
      PROVE  SchedulesTypeOK'
  BY <1>4 DEF DeleteSchedule, Saves, SchedulesTypeOK
<1>5. ASSUME NEW u \in UserIds, NEW enabledOnly \in BOOLEAN, ListSchedules(u, enabledOnly)
      PROVE  SchedulesTypeOK'
  BY <1>5, CacheTyped DEF ListSchedules, Listed, SchedulesTypeOK
<1>6. CASE HourPasses
  <2>1. /\ schedule' = [s \in Servers |-> HourLater(schedule[s])]
        /\ cached' = [s \in Servers |-> HourLater(cached[s])]
    BY <1>6 DEF HourPasses
  <2>2. HourLater(None) = None
    BY DEF HourLater
  <2>3. ASSUME NEW s \in Servers
        PROVE  /\ schedule'[s] \in Entities \cup {None}
               /\ cached'[s] \in Entities \cup {None}
               /\ schedule'[s] # None => schedule'[s].left <= schedule'[s].interval
    <3>1. schedule[s] # None => schedule[s] \in Entities /\ schedule[s].left <= schedule[s].interval
      BY DEF SchedulesTypeOK
    <3>2. cached[s] # None => cached[s] \in Entities
      BY DEF SchedulesTypeOK
    <3>3. schedule'[s] = HourLater(schedule[s]) /\ cached'[s] = HourLater(cached[s])
      BY <2>1
    <3>. QED
      BY <2>2, <3>1, <3>2, <3>3, LaterTyped
  <2>. QED
    BY <2>1, <2>3 DEF SchedulesTypeOK
<1>. QED
  BY <1>1, <1>2, <1>3, <1>4, <1>5, <1>6 DEF SchedulesNext, ScheduleRequest

(* The requests of visibility and of schedules change no table of resources. *)
LEMMA OthersKeepTables ==
    ASSUME VisibilityNext \/ SchedulesNext
    PROVE  UNCHANGED tables /\ (acting' = None \/ acting' = acting)
<1>1. CASE VisibilityNext
  BY <1>1 DEF VisibilityNext, SetVisibility, Grant, Revoke, ExecuteMigration, SetsGrants, Stores, Serves
<1>2. CASE SchedulesNext
  BY <1>2 DEF SchedulesNext, ScheduleRequest, CreateSchedule, UpdateSchedule, GetSchedule,
              DeleteSchedule, ListSchedules, HourPasses, MayUse, Serves, resourceVars
<1>. QED
  BY <1>1, <1>2

(* The migration and the cache of a restart have their types.                *)
LEMMA RestartTyped ==
    ASSUME TypeOK, Restart
    PROVE  TypeOK'
<1>1. ResourcesTypeOK'
  BY RequestTyped DEF TypeOK, Restart
<1>2. VisibilityTypeOK'
  BY MigrationTyped DEF TypeOK, Restart, VisibilityBoot, VisibilityTypeOK
<1>3. SchedulesTypeOK'
  BY DEF TypeOK, Restart, SchedulerBoot, SchedulesTypeOK, Uncached
<1>. QED
  BY <1>1, <1>2, <1>3 DEF TypeOK

(* Every variable keeps its type; a row of visibility has grants only for    *)
(* specific users and a role only for a type with roles; the next backup is  *)
(* never further away than the interval.                                     *)
THEOREM ResourcesTypeCorrect == Spec => []TypeOK
<1>1. Init => TypeOK
  BY DEF Init, ResourcesInit, VisibilityInit, SchedulesInit, Uncached, TypeOK,
         ResourcesTypeOK, VisibilityTypeOK, SchedulesTypeOK
<1>2. TypeOK /\ [Next]_vars => TypeOK'
  <2> SUFFICES ASSUME TypeOK, [Next]_vars PROVE TypeOK'
    OBVIOUS
  <2>1. CASE ResourcesNext /\ UNCHANGED <<config, scheduleVars>>
    <3>1. ResourcesTypeOK'
      BY <2>1, ResourcesTyped DEF TypeOK
    <3>. QED
      BY <2>1, <3>1 DEF TypeOK, scheduleVars, VisibilityTypeOK, SchedulesTypeOK
  <2>2. CASE VisibilityNext /\ UNCHANGED scheduleVars
    <3>1. ResourcesTypeOK' /\ VisibilityTypeOK'
      BY <2>2, OthersKeepTables, RequestTyped, VisibilityTyped DEF TypeOK
    <3>. QED
      BY <2>2, <3>1 DEF TypeOK, scheduleVars, SchedulesTypeOK
  <2>3. CASE SchedulesNext /\ UNCHANGED config
    <3>1. ResourcesTypeOK' /\ SchedulesTypeOK'
      BY <2>3, OthersKeepTables, RequestTyped, SchedulesTyped DEF TypeOK
    <3>. QED
      BY <2>3, <3>1 DEF TypeOK, VisibilityTypeOK
  <2>4. CASE Restart
    BY <2>4, RestartTyped
  <2>5. CASE UNCHANGED vars
    BY <2>5 DEF vars, resourceVars, tables, scheduleVars, TypeOK, ResourcesTypeOK,
                VisibilityTypeOK, SchedulesTypeOK
  <2>. QED
    BY <2>1, <2>2, <2>3, <2>4, <2>5 DEF Next
<1>. QED
  BY <1>1, <1>2, PTL DEF Spec

-----------------------------------------------------------------------------
(* The cache of schedules                                                    *)

(* No handler of schedules leaves an entry that differs from its row.        *)
LEMMA CacheKept ==
    ASSUME SchedulesTypeOK, ScheduleCacheCurrent, SchedulesNext
    PROVE  ScheduleCacheCurrent'
<1> USE DEF ScheduleCacheCurrent
<1>1. ASSUME NEW s \in Servers, NEW e, Saves(s, e)
      PROVE  ScheduleCacheCurrent'
  BY <1>1 DEF Saves, SchedulesTypeOK
<1>2. ASSUME NEW u \in UserIds, NEW s \in Servers, GetSchedule(u, s)
      PROVE  ScheduleCacheCurrent'
  BY <1>2 DEF GetSchedule, SchedulesTypeOK
<1>3. ASSUME NEW u \in UserIds, NEW enabledOnly \in BOOLEAN, ListSchedules(u, enabledOnly)
      PROVE  ScheduleCacheCurrent'
  BY <1>3 DEF ListSchedules, Listed, SchedulesTypeOK
<1>4. CASE HourPasses
  <2>1. HourLater(None) = None
    BY DEF HourLater
  <2>2. ASSUME NEW s \in Servers
        PROVE  schedule'[s] = HourLater(schedule[s]) /\ cached'[s] = HourLater(cached[s])
    BY <1>4 DEF HourPasses
  <2>. QED
    BY <2>1, <2>2
<1>5. ASSUME NEW u \in UserIds, NEW s \in Servers, NEW interval, NEW enabled,
             \/ CreateSchedule(u, s, interval, enabled)
             \/ UpdateSchedule(u, s, interval, enabled)
      PROVE  ScheduleCacheCurrent'
  BY <1>1, <1>5 DEF CreateSchedule, UpdateSchedule
<1>6. ASSUME NEW u \in UserIds, NEW s \in Servers, DeleteSchedule(u, s)
      PROVE  ScheduleCacheCurrent'
  BY <1>1, <1>6 DEF DeleteSchedule
<1>. QED
  BY <1>2, <1>3, <1>4, <1>5, <1>6 DEF SchedulesNext, ScheduleRequest

(* What the cache answers for a server is its row, whatever was updated,     *)
(* deleted, listed or lost in a restart before.                              *)
THEOREM CacheAlwaysCurrent == Spec => []ScheduleCacheCurrent
<1>1. Init => ScheduleCacheCurrent
  BY DEF Init, SchedulesInit, Uncached, ScheduleCacheCurrent
<1>2. TypeOK /\ ScheduleCacheCurrent /\ [Next]_vars => ScheduleCacheCurrent'
  <2> SUFFICES ASSUME TypeOK, ScheduleCacheCurrent, [Next]_vars
               PROVE  ScheduleCacheCurrent'
    OBVIOUS
  <2>1. CASE UNCHANGED scheduleVars
    BY <2>1 DEF scheduleVars, ScheduleCacheCurrent
  <2>2. CASE SchedulesNext
    BY <2>2, CacheKept DEF TypeOK
  <2>3. CASE Restart
    BY <2>3 DEF Restart, SchedulerBoot, Uncached, ScheduleCacheCurrent
  <2>. QED
    BY <2>1, <2>2, <2>3 DEF Next, vars
<1>. QED
  BY <1>1, <1>2, ResourcesTypeCorrect, PTL DEF Spec

-----------------------------------------------------------------------------
(* Access                                                                    *)

(* How a user may come to reach a resource.                                  *)
Righteous(u, r) ==
    \/ role'[u] # role[u]
    \/ owner'[r] # owner[r]
    \/ config[r] = None /\ config'[r].type = "public"
    \/ /\ ByRight(r)
       /\ config'[r].type = "specific_users" =>
            /\ config[r].type = "specific_users"
            /\ u \in config'[r].grants \ config[r].grants

(* Only the row of a resource, its owner and the user's role tell who        *)
(* reaches it.                                                               *)
LEMMA ReachedAsBefore ==
    ASSUME NEW u, NEW r, role'[u] = role[u], owner'[r] = owner[r], config'[r] = config[r]
    PROVE  Reaches(u, r)' <=> Reaches(u, r)
BY DEF Reaches, Exists, CanAccess, Allows

(* While role and owner stay, a user who did not reach a resource reaches it *)
(* through its new row only.                                                 *)
LEMMA ReachedByRow ==
    ASSUME NEW u, NEW r, role'[u] = role[u], owner'[r] = owner[r], ~Reaches(u, r), Reaches(u, r)'
    PROVE  /\ config'[r] # None /\ Allows(config[r], u)'
           /\ ~(config[r] # None /\ Allows(config[r], u))
BY DEF Reaches, Exists, CanAccess

(* The migration opens what had no row, to everybody.                        *)
LEMMA MigratedByRight ==
    ASSUME MigrateAll, UNCHANGED tables, NEW u \in UserIds, NEW r \in Resources,
           ~Reaches(u, r), Reaches(u, r)'
    PROVE  Righteous(u, r)
<1>1. config'[r] = IF Missing(r) THEN WithType(None, "public", None) ELSE config[r]
  BY DEF MigrateAll
<1>2. Missing(r)
  BY <1>1, ReachedAsBefore DEF tables
<1>. QED
  BY <1>1, <1>2, MigratedProper DEF Missing, Righteous

(* A handler that stores a row acts for its owner or an administrator.       *)
LEMMA StoredByRight ==
    ASSUME VisibilityTypeOK, NEW a \in UserIds, NEW s \in Resources, NEW c,
           Serves(a), Manages(a, s), Stores(s, c),
           NEW u \in UserIds, NEW r \in Resources, ~Reaches(u, r), Reaches(u, r)'
    PROVE  r = s /\ ByRight(r)
<1>1. UNCHANGED tables /\ config' = [config EXCEPT ![s] = c]
  BY DEF Stores
<1>2. r = s
  BY <1>1, ReachedAsBefore DEF tables, VisibilityTypeOK
<1>. QED
  BY <1>2 DEF Serves, ByRight

(* A changed type never brings an old grant back.                            *)
LEMMA SetByRight ==
    ASSUME VisibilityTypeOK, NEW a \in UserIds, NEW s \in Resources,
           NEW type \in VisibilityTypes, NEW restriction \in Roles \cup {None},
           SetVisibility(a, s, type, restriction),
           NEW u \in UserIds, NEW r \in Resources, ~Reaches(u, r), Reaches(u, r)'
    PROVE  Righteous(u, r)
<1> DEFINE c == WithType(config[s], type, restriction)
<1>1. Serves(a) /\ Manages(a, s) /\ Stores(s, c)
  BY DEF SetVisibility
<1>2. r = s /\ ByRight(r)
  BY <1>1, StoredByRight
<1>3. config'[r] = WithType(config[r], type, restriction) /\ UNCHANGED tables
  BY <1>1, <1>2 DEF Stores, VisibilityTypeOK
<1>4. Allows(config[r], u)' /\ ~(config[r] # None /\ Allows(config[r], u))
  BY <1>3, ReachedByRow DEF tables
<1>5. config'[r].type # "specific_users"
  <2> SUFFICES ASSUME config'[r].type = "specific_users" PROVE FALSE
    OBVIOUS
  <2>1. u \in config'[r].grants
    BY <1>4 DEF Allows
  <2>2. config[r] # None /\ u \in config[r].grants
    BY <1>3, <2>1 DEF WithType
  <2>3. config[r].type = "specific_users"
    BY <2>2 DEF VisibilityTypeOK
  <2>. QED
    BY <1>4, <2>2, <2>3 DEF Allows
<1>. QED
  BY <1>2, <1>5 DEF Righteous

(* Grants that are stored by right are new where they open a resource.       *)
LEMMA GrantsByRight ==
    ASSUME VisibilityTypeOK, NEW a \in UserIds, NEW s \in Resources, NEW grants \in SUBSET UserIds,
           Serves(a), Manages(a, s), config[s] # None, config[s].type = "specific_users",
           SetsGrants(s, grants),
           NEW u \in UserIds, NEW r \in Resources, ~Reaches(u, r), Reaches(u, r)'
    PROVE  Righteous(u, r) /\ r = s /\ u \in grants \ config[s].grants
<1> DEFINE c == [config[s] EXCEPT !.grants = grants]
<1>1. Stores(s, c)
  BY DEF SetsGrants
<1>2. r = s /\ ByRight(r)
  BY <1>1, StoredByRight
<1>3. config[r] \in Configs
  BY <1>2 DEF VisibilityTypeOK
<1>4. config'[r] = [config[r] EXCEPT !.grants = grants] /\ UNCHANGED tables
  BY <1>1, <1>2 DEF Stores, VisibilityTypeOK
<1>5. config'[r].type = "specific_users" /\ config'[r].grants = grants
  BY <1>2, <1>3, <1>4 DEF Configs
<1>6. Allows(config[r], u)' /\ ~(config[r] # None /\ Allows(config[r], u))
  BY <1>4, ReachedByRow DEF tables
<1>7. u \in grants \ config[r].grants
  BY <1>2, <1>5, <1>6 DEF Allows
<1>. QED
  BY <1>2, <1>5, <1>7 DEF Righteous

(* Whatever a handler of visibility opens, it opens by right.                *)
LEMMA VisibilityByRight ==
    ASSUME VisibilityTypeOK, VisibilityNext,
           NEW u \in UserIds, NEW r \in Resources, ~Reaches(u, r), Reaches(u, r)'
    PROVE  Righteous(u, r)
<1>1. ASSUME NEW a \in UserIds, NEW s \in Resources, NEW type \in VisibilityTypes,
             NEW restriction \in Roles \cup {None}, SetVisibility(a, s, type, restriction)
      PROVE  Righteous(u, r)
  BY <1>1, SetByRight
<1>2. ASSUME NEW a \in UserIds, NEW s \in Resources, NEW to \in UserIds, Grant(a, s, to)
      PROVE  Righteous(u, r)
  <2>1. /\ Serves(a) /\ Manages(a, s)
        /\ config[s] # None /\ config[s].type = "specific_users"
        /\ SetsGrants(s, config[s].grants \cup {to})
    BY <1>2 DEF Grant, Grantable
  <2>2. config[s].grants \cup {to} \in SUBSET UserIds
    BY <2>1 DEF VisibilityTypeOK, Configs
  <2>. QED
    BY <2>1, <2>2, GrantsByRight
<1>3. ASSUME NEW a \in UserIds, NEW s \in Resources, NEW from \in UserIds, Revoke(a, s, from)
      PROVE  Righteous(u, r)
  <2>1. /\ Serves(a) /\ Manages(a, s)
        /\ config[s] # None /\ from \in config[s].grants
        /\ SetsGrants(s, config[s].grants \ {from})
    BY <1>3 DEF Revoke, Revocable
  <2>2. config[s].type = "specific_users" /\ config[s].grants \ {from} \in SUBSET UserIds
    BY <2>1 DEF VisibilityTypeOK, Configs
  <2>. QED
    BY <2>1, <2>2, GrantsByRight
<1>4. ASSUME NEW a \in UserIds, ExecuteMigration(a)
      PROVE  Righteous(u, r)
  BY <1>4, MigratedByRight DEF ExecuteMigration
<1>. QED
  BY <1>1, <1>2, <1>3, <1>4 DEF VisibilityNext

(* A user comes to reach a resource only because the resource or the user's  *)
(* role is new, because a resource without a row was migrated, or by a       *)
(* request of an owner or administrator that opened it or granted it to this *)
(* very user.                                                                *)
THEOREM AccessOnlyByRight == Spec => AccessGainedByRight
<1>1. TypeOK /\ [Next]_vars =>
        [\A u \in UserIds, r \in Resources :
            ~Reaches(u, r) /\ Reaches(u, r)' => Righteous(u, r)]_visibilityVars
  <2> SUFFICES ASSUME TypeOK, [Next]_vars, NEW u \in UserIds, NEW r \in Resources,
                      ~Reaches(u, r), Reaches(u, r)'
               PROVE  Righteous(u, r)
    OBVIOUS
  <2>1. CASE UNCHANGED config
    BY <2>1, ReachedAsBefore DEF Righteous
  <2>2. CASE VisibilityNext
    BY <2>2, VisibilityByRight DEF TypeOK
  <2>3. CASE Restart
    <3>1. config' # config => MigrateAll
      BY <2>3 DEF Restart, VisibilityBoot
    <3>. QED
      BY <2>1, <2>3, <3>1, MigratedByRight DEF Restart
  <2>. QED
    BY <2>1, <2>2, <2>3 DEF Next, vars
<1>. QED
  BY <1>1, ResourcesTypeCorrect, PTL DEF Spec, AccessGainedByRight, Righteous
=============================================================================
