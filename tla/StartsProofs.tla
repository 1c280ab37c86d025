---------------------------- MODULE StartsProofs ----------------------------
(* Proofs about what a start of a server relies on: the catalogue of         *)
(* versions and the cached JAR that a server is created with, and the ports  *)
(* that its start checks and its daemon takes.                               *)
EXTENDS VersionCatalogue, ServerStarts, SequenceTheorems, WellFoundedInduction, TLAPS

-----------------------------------------------------------------------------
(* Least elements.                                                           *)

LEMMA LeastExists ==
    ASSUME NEW S, S \subseteq Nat, S # {}
    PROVE  Min(S) \in S /\ \A x \in S : Min(S) <= x
<1> DEFINE Less == {p \in Nat \X Nat : p[1] < p[2]}
<1>1. IsWellFoundedOn(Less, Nat)
  BY NatLessThanWellFounded DEF OpToRel
<1> HIDE DEF Less
<1>2. \E x \in S : \A y \in S : ~ (<<y, x>> \in Less)
  BY <1>1, WFMin
<1>3. PICK x \in S : \A y \in S : ~ (<<y, x>> \in Less)
  BY <1>2
<1>4. \A y \in S : x <= y
  <2> SUFFICES ASSUME NEW y \in S, ~ (x <= y) PROVE FALSE
    OBVIOUS
  <2>1. y < x /\ <<y, x>> \in Nat \X Nat
    OBVIOUS
  <2>2. <<y, x>> \in Less
    BY <2>1 DEF Less
  <2>3. QED
    BY <1>3, <2>2
<1>5. QED
  BY <1>4 DEF Min

-----------------------------------------------------------------------------
(* The content of a file.                                                    *)

LEMMA JarConstants ==
    /\ MaxBuild \in Nat /\ MaxBuild > 0 /\ Chunks \in Nat /\ Chunks > 0
    /\ None \notin Inodes /\ None \notin Urls /\ Urls \subseteq Nat
    /\ 1 \in Urls
  BY JarCacheAssumption DEF Urls

LEMMA IntervalEnd ==
    ASSUME NEW a \in Nat, NEW b \in Nat, 1 .. a = 1 .. b
    PROVE  a = b
<1>1. CASE a < b
  <2>1. b \in 1 .. b /\ b \notin 1 .. a
    BY <1>1
  <2>2. QED
    BY <2>1
<1>2. CASE b < a
  <2>1. a \in 1 .. a /\ a \notin 1 .. b
    BY <1>2
  <2>2. QED
    BY <2>1
<1>3. QED
  BY <1>1, <1>2

LEMMA FunctionIsData ==
    ASSUME NEW n \in 0 .. Chunks, NEW c \in [1 .. n -> 0 .. MaxBuild]
    PROVE  c \in Data /\ c \in Seq(0 .. MaxBuild) /\ Len(c) = n
<1>1. n \in Nat
  BY JarConstants
<1>2. c \in Seq(0 .. MaxBuild)
  BY <1>1, SeqDef
<1>3. Len(c) \in Nat /\ DOMAIN c = 1 .. Len(c)
  BY <1>2, LenProperties
<1>4. Len(c) = n
  BY <1>1, <1>3, IntervalEnd
<1>5. c \in Data
  BY DEF Data
<1>6. QED
  BY <1>2, <1>4, <1>5

LEMMA DataIsFunction ==
    ASSUME NEW c \in Data
    PROVE  /\ c \in Seq(0 .. MaxBuild) /\ Len(c) \in 0 .. Chunks
           /\ c \in [1 .. Len(c) -> 0 .. MaxBuild]
<1>1. PICK n \in 0 .. Chunks : c \in [1 .. n -> 0 .. MaxBuild]
  BY DEF Data
<1>2. QED
  BY <1>1, FunctionIsData

LEMMA EmptyIsData == <<>> \in Data /\ Len(<<>>) = 0
<1>1. <<>> \in [1 .. 0 -> 0 .. MaxBuild]
  OBVIOUS
<1>2. 0 \in 0 .. Chunks
  BY JarConstants
<1>3. QED
  BY <1>1, <1>2, FunctionIsData

LEMMA PutIsData ==
    ASSUME NEW c \in Data, NEW k \in 1 .. Chunks, NEW u \in Urls
    PROVE  /\ Put(c, k, u) \in Data
           /\ Len(Put(c, k, u)) = IF Len(c) > k THEN Len(c) ELSE k
           /\ Put(c, k, u)[k] = u
           /\ \A n \in 1 .. Len(c) : n # k => Put(c, k, u)[n] = c[n]
<1> DEFINE m == IF Len(c) > k THEN Len(c) ELSE k
<1>1. Len(c) \in 0 .. Chunks /\ c \in [1 .. Len(c) -> 0 .. MaxBuild]
  BY DataIsFunction
<1>2. m \in 0 .. Chunks /\ k \in 1 .. m /\ \A n \in 1 .. Len(c) : n \in 1 .. m
  BY <1>1, JarConstants
<1> HIDE DEF m
<1>3. Put(c, k, u) =
        [n \in 1 .. m |-> IF n = k THEN u ELSE IF n <= Len(c) THEN c[n] ELSE 0]
  BY DEF Put, m
<1>4. Put(c, k, u) \in [1 .. m -> 0 .. MaxBuild]
  <2>1. ASSUME NEW n \in 1 .. m
        PROVE  (IF n = k THEN u ELSE IF n <= Len(c) THEN c[n] ELSE 0) \in 0 .. MaxBuild
    <3>1. u \in 0 .. MaxBuild /\ 0 \in 0 .. MaxBuild
      BY JarConstants DEF Urls
    <3>2. n <= Len(c) => n \in 1 .. Len(c)
      BY <1>1, <1>2
    <3>3. QED
      BY <1>1, <3>1, <3>2
  <2>2. QED
    BY <1>3, <2>1
<1>5. Put(c, k, u) \in Data /\ Len(Put(c, k, u)) = m
  BY <1>2, <1>4, FunctionIsData
<1>6. QED
  BY <1>1, <1>2, <1>3, <1>5 DEF m

LEMMA AppendIsData ==
    ASSUME NEW c \in Data, Len(c) < Chunks, NEW x \in 0 .. MaxBuild
    PROVE  /\ Append(c, x) \in Data /\ Len(Append(c, x)) = Len(c) + 1
           /\ Append(c, x)[Len(c) + 1] = x
           /\ \A n \in 1 .. Len(c) : Append(c, x)[n] = c[n]
<1>1. /\ c \in Seq(0 .. MaxBuild) /\ Len(c) \in 0 .. Chunks
  BY DataIsFunction
<1>2. /\ Append(c, x) \in Seq(0 .. MaxBuild) /\ Len(Append(c, x)) = Len(c) + 1
      /\ Append(c, x)[Len(c) + 1] = x
      /\ \A n \in 1 .. Len(c) : Append(c, x)[n] = c[n]
  BY <1>1
<1>3. Append(c, x) \in [1 .. Len(c) + 1 -> 0 .. MaxBuild]
  BY <1>2, LenProperties
<1>4. Len(c) + 1 \in 0 .. Chunks
  BY <1>1, JarConstants
<1>5. Append(c, x) \in Data
  BY <1>3, <1>4, FunctionIsData
<1>6. QED
  BY <1>2, <1>5

-----------------------------------------------------------------------------
(* The files and the requests of JarCache.                                   *)

Uniform(c) == \E u \in Urls : \A k \in 1 .. Len(c) : c[k] = u

(* What a request has, and how far it is, at each stage.                     *)
Stages(r) ==
    LET q == jarReq[r] IN
    /\ q.fd # None <=> q.pc \in {"writing", "copying", "delivered"}
    /\ q.pc \notin {"writing", "copying", "delivered"} => q.at = 0
    /\ q.pc \notin {"copying", "delivered"} => q.copy = <<>>
    /\ q.pc # "idle" => q.url # None

(* Up to its position a writer has written the file, if it wrote alone.      *)
Writes(r) ==
    LET q == jarReq[r] IN
    q.pc = "writing" /\ q.fd \notin torn =>
        /\ Len(content[q.fd]) = q.at
        /\ \A k \in 1 .. q.at : content[q.fd][k] = q.url

(* What is copied is complete, can no longer be emptied, and is the copy up  *)
(* to the position.                                                          *)
Reads(r) ==
    LET q == jarReq[r] IN
    q.pc \in {"copying", "delivered"} =>
        /\ q.fd # tempJar
        /\ Len(content[q.fd]) = Chunks
        /\ Len(q.copy) = q.at
        /\ q.fd \notin torn => \A k \in 1 .. q.at : q.copy[k] = content[q.fd][k]
        /\ q.pc = "delivered" => q.at = Chunks

(* Two writers of one file have torn it.                                     *)
WritersApart ==
    \A r, o \in JarRequests :
        (r # o /\ jarReq[r].pc = "writing" /\ jarReq[o].pc = "writing"
            /\ jarReq[r].fd = jarReq[o].fd) => jarReq[r].fd \in torn

FilesInv ==
    /\ tempJar # None => tempJar # cachedJar
    /\ cachedJar # None => Len(content[cachedJar]) = Chunks
    /\ \A i \in Inodes \ torn : Uniform(content[i])

JarInv ==
    /\ JarTypeOK
    /\ FilesInv
    /\ WritersApart
    /\ \A r \in JarRequests : Stages(r) /\ Writes(r) /\ Reads(r)

JarRecord ==
    [pc : JarStages, url : Urls \cup {None}, fd : Inodes \cup {None}, at : 0 .. Chunks,
     copy : Data]

LEMMA QuietIsRecord ==
    /\ Quiet \in JarRecord
    /\ Quiet.pc = "idle" /\ Quiet.fd = None /\ Quiet.at = 0 /\ Quiet.copy = <<>>
    /\ Quiet.url = None
  BY EmptyIsData, JarConstants DEF Quiet, JarRecord, JarStages

LEMMA EmptyIsUniform == Uniform(<<>>)
  BY EmptyIsData, JarConstants DEF Uniform

LEMMA JarInvInit == JarInit => JarInv
<1> SUFFICES ASSUME JarInit PROVE JarInv
  OBVIOUS
<1>1. \A r \in JarRequests : jarReq[r] = Quiet
  BY DEF JarInit
<1>2. jarReq \in [JarRequests -> JarRecord]
  BY QuietIsRecord DEF JarInit
<1>3. content \in [Inodes -> Data] /\ \A i \in Inodes : content[i] = <<>>
  BY EmptyIsData DEF JarInit
<1>4. JarTypeOK
  BY <1>2, <1>3 DEF JarInit, JarTypeOK, JarRecord
<1>5. FilesInv
  BY <1>3, EmptyIsUniform DEF JarInit, FilesInv
<1>6. \A r \in JarRequests : Stages(r) /\ Writes(r) /\ Reads(r)
  BY <1>1, QuietIsRecord, JarConstants DEF Stages, Writes, Reads
<1>7. WritersApart
  BY <1>1, QuietIsRecord DEF WritersApart
<1>8. QED
  BY <1>4, <1>5, <1>6, <1>7 DEF JarInv

LEMMA RequestTypes ==
    ASSUME JarTypeOK, NEW r \in JarRequests
    PROVE  /\ jarReq[r] \in JarRecord
           /\ jarReq[r].pc \in JarStages /\ jarReq[r].url \in Urls \cup {None}
           /\ jarReq[r].fd \in Inodes \cup {None} /\ jarReq[r].at \in 0 .. Chunks
           /\ jarReq[r].copy \in Data
<1>1. jarReq[r] \in JarRecord
  BY DEF JarTypeOK, JarRecord
<1>2. QED
  BY <1>1 DEF JarRecord

LEMMA AdvanceTypes ==
    ASSUME JarTypeOK, NEW r \in JarRequests, NEW new \in JarRecord, Advance(r, new)
    PROVE  /\ jarReq' \in [JarRequests -> JarRecord]
           /\ jarReq'[r] = new
           /\ \A o \in JarRequests : o # r => jarReq'[o] = jarReq[o]
  BY DEF JarTypeOK, JarRecord, Advance

(* Where a name or a descriptor leads, nothing is lost.                      *)
LEMMA SettleKeeps ==
    ASSUME NEW c \in [Inodes -> Data], NEW t, Settle(c, t)
    PROVE  /\ content' \in [Inodes -> Data]
           /\ torn' \subseteq t
           /\ \A i \in Inodes :
                 (i \in {tempJar', cachedJar'} \/ \E r \in JarRequests : i = jarReq'[r].fd)
                     => content'[i] = c[i] /\ (i \in torn' <=> i \in t)
           /\ \A i \in Inodes :
                 content'[i] = <<>> \/ (content'[i] = c[i] /\ (i \in torn' <=> i \in t))
<1> DEFINE used == ({tempJar', cachedJar'} \cup {jarReq'[r].fd : r \in JarRequests}) \ {None}
<1>1. /\ content' = [i \in Inodes |-> IF i \in used THEN c[i] ELSE <<>>]
      /\ torn' = t \cap used
  BY DEF Settle
<1>2. \A i \in Inodes :
         (i \in {tempJar', cachedJar'} \/ \E r \in JarRequests : i = jarReq'[r].fd)
             => i \in used
  BY JarConstants
<1> HIDE DEF used
<1>3. QED
  BY <1>1, <1>2, EmptyIsData

FilesOpen == {"writing", "copying", "delivered"}

(* Names go, files are closed and requests end or go on without a file.      *)
LEMMA SettleStep ==
    ASSUME JarInv, Settle(content, torn),
           jarReq' \in [JarRequests -> JarRecord],
           \A o \in JarRequests :
               \/ jarReq'[o] = jarReq[o]
               \/ jarReq'[o].pc \notin FilesOpen /\ Stages(o)',
           tempJar' \in {tempJar, None},
           \/ cachedJar' \in {cachedJar, None}
           \/ cachedJar' = tempJar /\ tempJar' = None /\ Len(content[tempJar]) = Chunks,
           metadata' \in Urls \cup {None}
    PROVE  JarInv'
<1>1. JarTypeOK /\ FilesInv /\ WritersApart /\ content \in [Inodes -> Data]
  BY DEF JarInv, JarTypeOK
<1>2. /\ content' \in [Inodes -> Data]
      /\ torn' \subseteq torn
      /\ \A i \in Inodes :
            (i \in {tempJar', cachedJar'} \/ \E r \in JarRequests : i = jarReq'[r].fd)
                => content'[i] = content[i] /\ (i \in torn' <=> i \in torn)
      /\ \A i \in Inodes :
            content'[i] = <<>> \/ (content'[i] = content[i] /\ (i \in torn' <=> i \in torn))
  BY <1>1, SettleKeeps
<1>3. JarTypeOK'
  BY <1>1, <1>2 DEF JarTypeOK, JarRecord
<1>4. FilesInv'
  <2>1. tempJar' # None => tempJar' # cachedJar'
    BY <1>1 DEF FilesInv
  <2>2. cachedJar' # None => Len(content'[cachedJar']) = Chunks
    BY <1>1, <1>2 DEF FilesInv, JarTypeOK
  <2>3. ASSUME NEW i \in Inodes \ torn' PROVE Uniform(content[i])'
    BY <1>1, <1>2, <2>3, EmptyIsUniform DEF FilesInv, Uniform
  <2>4. QED
    BY <2>1, <2>2, <2>3 DEF FilesInv
<1>5. ASSUME NEW o \in JarRequests PROVE Stages(o)' /\ Writes(o)' /\ Reads(o)'
  <2>1. Stages(o) /\ Writes(o) /\ Reads(o)
    BY DEF JarInv
  <2>2. CASE jarReq'[o].pc \notin FilesOpen /\ Stages(o)'
    BY <2>2 DEF Writes, Reads, FilesOpen
  <2>3. CASE jarReq'[o] = jarReq[o]
    <3>1. Stages(o)'
      BY <2>1, <2>3 DEF Stages
    <3>2. jarReq[o].fd \in Inodes =>
             /\ content'[jarReq[o].fd] = content[jarReq[o].fd]
             /\ jarReq[o].fd \in torn' <=> jarReq[o].fd \in torn
      BY <1>2, <2>3
    <3>3. jarReq[o].pc \in FilesOpen => jarReq[o].fd \in Inodes
      BY <1>1, <2>1, RequestTypes DEF Stages, FilesOpen
    <3>4. Writes(o)'
      BY <2>1, <2>3, <3>2, <3>3 DEF Writes, FilesOpen
    <3>5. Reads(o)'
      BY <2>1, <2>3, <3>2, <3>3, JarConstants DEF Reads, FilesOpen
    <3>6. QED
      BY <3>1, <3>4, <3>5
  <2>4. QED
    BY <2>2, <2>3
<1>6. WritersApart'
  <2> SUFFICES ASSUME NEW r \in JarRequests, NEW o \in JarRequests, r # o,
                      jarReq'[r].pc = "writing", jarReq'[o].pc = "writing",
                      jarReq'[r].fd = jarReq'[o].fd
               PROVE  jarReq'[r].fd \in torn'
    BY DEF WritersApart
  <2>1. jarReq'[r] = jarReq[r] /\ jarReq'[o] = jarReq[o]
    BY DEF FilesOpen
  <2>2. jarReq[r].fd \in torn
    BY <1>1, <2>1 DEF WritersApart
  <2>3. jarReq[r].fd \in Inodes
    BY <1>1, <2>2 DEF JarTypeOK
  <2>4. QED
    BY <1>2, <2>1, <2>2, <2>3
<1>7. QED
  BY <1>3, <1>4, <1>5, <1>6 DEF JarInv

(* One request goes on, and no file changes.                                 *)
LEMMA ReadStep ==
    ASSUME JarInv, NEW r \in JarRequests, NEW new \in JarRecord, Advance(r, new),
           UNCHANGED <<content, torn, tempJar, cachedJar>>,
           metadata' \in Urls \cup {None},
           new.pc # "writing", Stages(r)', Reads(r)'
    PROVE  JarInv'
<1>1. /\ JarTypeOK
      /\ jarReq' \in [JarRequests -> JarRecord]
      /\ jarReq'[r] = new
      /\ \A o \in JarRequests : o # r => jarReq'[o] = jarReq[o]
  BY AdvanceTypes DEF JarInv
<1>2. JarTypeOK'
  BY <1>1 DEF JarTypeOK, JarRecord
<1>3. FilesInv'
  BY DEF JarInv, FilesInv, Uniform
<1>4. ASSUME NEW o \in JarRequests PROVE Stages(o)' /\ Writes(o)' /\ Reads(o)'
  <2>1. CASE o = r
    BY <1>1, <2>1 DEF Writes
  <2>2. CASE o # r
    BY <1>1, <2>2 DEF JarInv, Stages, Writes, Reads
  <2>3. QED
    BY <2>1, <2>2
<1>5. WritersApart'
  BY <1>1 DEF JarInv, WritersApart
<1>6. QED
  BY <1>2, <1>3, <1>4, <1>5 DEF JarInv

LEMMA AskStep ==
    ASSUME JarInv, NEW r \in JarRequests, NEW u \in Urls, NEW young, Ask(r, u, young)
    PROVE  JarInv'
<1> DEFINE stage == IF /\ young /\ cachedJar # None /\ metadata # None
                       /\ Intact(content[cachedJar])
                    THEN "checking" ELSE "asking"
           new == [Quiet EXCEPT !.url = u, !.pc = stage]
<1>1. /\ new \in JarRecord /\ new.pc \in {"checking", "asking"} /\ new.url = u
      /\ new.fd = None /\ new.at = 0 /\ new.copy = <<>>
  BY QuietIsRecord DEF JarRecord, Quiet, JarStages
<1>2. Advance(r, new) /\ UNCHANGED <<content, torn, tempJar, cachedJar, metadata>>
  BY DEF Ask
<1> HIDE DEF new
<1>3. jarReq'[r] = new /\ JarTypeOK
  BY <1>1, <1>2, AdvanceTypes DEF JarInv
<1>4. Stages(r)' /\ Reads(r)' /\ new.pc # "writing"
  BY <1>1, <1>3, JarConstants DEF Stages, Reads
<1>5. metadata' \in Urls \cup {None}
  BY <1>2, <1>3 DEF JarTypeOK
<1>6. UNCHANGED <<content, torn, tempJar, cachedJar>>
  BY <1>2
<1>7. Advance(r, new)
  BY <1>2
<1>8. QED
  BY <1>1, <1>4, <1>5, <1>6, <1>7, ReadStep

LEMMA MetadataStep ==
    ASSUME JarInv, NEW r \in JarRequests, ReadMetadata(r) \/ WriteMetadata(r)
    PROVE  JarInv'
<1>1. /\ JarTypeOK /\ Stages(r) /\ jarReq[r] \in JarRecord
      /\ jarReq[r].pc \in {"checking", "noting"}
  BY RequestTypes DEF JarInv, ReadMetadata, WriteMetadata
<1>2. PICK pc \in {"opening", "asking"} : Advance(r, [jarReq[r] EXCEPT !.pc = pc])
  BY DEF ReadMetadata, WriteMetadata
<1> DEFINE new == [jarReq[r] EXCEPT !.pc = pc]
<1>3. /\ new \in JarRecord /\ new.pc = pc /\ new.url = jarReq[r].url
      /\ new.fd = jarReq[r].fd /\ new.at = jarReq[r].at /\ new.copy = jarReq[r].copy
  BY <1>1 DEF JarRecord, JarStages
<1>4. Advance(r, new) /\ UNCHANGED <<content, torn, tempJar, cachedJar>>
  BY <1>2 DEF ReadMetadata, WriteMetadata
<1> HIDE DEF new
<1>5. jarReq'[r] = new
  BY <1>1, <1>3, <1>4, AdvanceTypes
<1>6. Stages(r)' /\ Reads(r)' /\ new.pc # "writing"
  BY <1>1, <1>3, <1>5 DEF Stages, Reads
<1>7. metadata' \in Urls \cup {None}
  BY <1>1, RequestTypes DEF JarTypeOK, ReadMetadata, WriteMetadata
<1>8. Advance(r, new)
  BY <1>4
<1>9. UNCHANGED <<content, torn, tempJar, cachedJar>>
  BY <1>4
<1>10. QED
  BY <1>3, <1>6, <1>7, <1>8, <1>9, ReadStep

LEMMA OpenJarStep ==
    ASSUME JarInv, NEW r \in JarRequests, OpenJar(r)
    PROVE  JarInv'
<1>1. /\ JarTypeOK /\ Stages(r) /\ FilesInv /\ jarReq[r] \in JarRecord
      /\ jarReq[r].pc = "opening" /\ jarReq[r].at = 0 /\ jarReq[r].copy = <<>>
  BY RequestTypes DEF JarInv, OpenJar, Stages
<1>2. UNCHANGED <<content, torn, tempJar, cachedJar>> /\ metadata' \in Urls \cup {None}
  BY <1>1 DEF OpenJar, JarTypeOK
<1>3. CASE cachedJar = None
  <2>1. Advance(r, Quiet)
    BY <1>3 DEF OpenJar
  <2>2. jarReq'[r] = Quiet
    BY <1>1, <2>1, QuietIsRecord, AdvanceTypes
  <2>3. Stages(r)' /\ Reads(r)' /\ Quiet.pc # "writing"
    BY <2>2, QuietIsRecord DEF Stages, Reads
  <2>4. QED
    BY <1>2, <2>1, <2>3, QuietIsRecord, ReadStep
<1>4. CASE cachedJar # None
  <2> DEFINE new == [jarReq[r] EXCEPT !.pc = "copying", !.fd = cachedJar]
  <2>1. cachedJar \in Inodes
    BY <1>1, <1>4 DEF JarTypeOK
  <2>2. /\ new \in JarRecord /\ new.pc = "copying" /\ new.url = jarReq[r].url
        /\ new.fd = cachedJar /\ new.at = 0 /\ new.copy = <<>>
    BY <1>1, <2>1 DEF JarRecord, JarStages
  <2>3. Advance(r, new)
    BY <1>4 DEF OpenJar
  <2> HIDE DEF new
  <2>4. jarReq'[r] = new
    BY <1>1, <2>2, <2>3, AdvanceTypes
  <2>5. Stages(r)' /\ new.pc # "writing"
    BY <1>1, <2>1, <2>2, <2>4, JarConstants DEF Stages
  <2>6. Reads(r)'
    <3>1. Len(new.copy) = 0
      BY <2>2, EmptyIsData
    <3>2. cachedJar # tempJar /\ Len(content[cachedJar]) = Chunks
      BY <1>1, <1>4 DEF FilesInv
    <3>3. QED
      BY <1>2, <2>2, <2>4, <3>1, <3>2 DEF Reads
  <2>7. QED
    BY <1>2, <2>2, <2>3, <2>5, <2>6, ReadStep
<1>5. QED
  BY <1>3, <1>4

LEMMA CopyChunkStep ==
    ASSUME JarInv, NEW r \in JarRequests, CopyChunk(r)
    PROVE  JarInv'
<1> DEFINE q == jarReq[r]
           c == content[q.fd]
<1>1. /\ JarTypeOK /\ Stages(r) /\ Reads(r) /\ q \in JarRecord /\ q.pc = "copying"
      /\ q.fd \in Inodes /\ q.copy \in Data /\ q.at \in 0 .. Chunks
  BY RequestTypes DEF JarInv, CopyChunk, Stages
<1>2. c \in Data /\ Len(c) = Chunks /\ Len(q.copy) = q.at
  BY <1>1 DEF JarTypeOK, Reads
<1>3. UNCHANGED <<content, torn, tempJar, cachedJar>> /\ metadata' \in Urls \cup {None}
  BY <1>1 DEF CopyChunk, JarTypeOK
<1>4. CASE q.at + 1 <= Len(c)
  <2> DEFINE k == q.at + 1
             new == [q EXCEPT !.at = k, !.copy = Append(@, c[k])]
  <2>1. k \in 1 .. Chunks /\ Len(q.copy) < Chunks
    BY <1>1, <1>2, <1>4, JarConstants
  <2>2. c[k] \in 0 .. MaxBuild
    BY <1>2, <2>1, DataIsFunction
  <2>3. /\ Append(q.copy, c[k]) \in Data /\ Len(Append(q.copy, c[k])) = k
        /\ Append(q.copy, c[k])[k] = c[k]
        /\ \A n \in 1 .. q.at : Append(q.copy, c[k])[n] = q.copy[n]
    BY <1>1, <1>2, <2>1, <2>2, AppendIsData
  <2>4. k \in 0 .. Chunks
    BY <2>1, JarConstants
  <2>5. /\ new \in JarRecord /\ new.pc = "copying" /\ new.url = q.url /\ new.fd = q.fd
        /\ new.at = k /\ new.copy = Append(q.copy, c[k])
    BY <1>1, <2>3, <2>4 DEF JarRecord
  <2>6. Advance(r, new)
    BY <1>1, <1>4 DEF CopyChunk
  <2> HIDE DEF new
  <2>7. jarReq'[r] = new
    BY <1>1, <2>5, <2>6, AdvanceTypes
  <2>8. Stages(r)' /\ new.pc # "writing"
    BY <1>1, <2>5, <2>7 DEF Stages
  <2>9. Reads(r)'
    <3>1. \A n \in 1 .. k : n \in 1 .. q.at \/ n = k
      BY <1>1
    <3>2. q.fd \notin torn => \A n \in 1 .. k : Append(q.copy, c[k])[n] = c[n]
      BY <1>1, <2>3, <3>1 DEF Reads
    <3>3. q.fd # tempJar
      BY <1>1 DEF Reads
    <3> HIDE DEF k
    <3>4. QED
      BY <1>2, <1>3, <2>3, <2>5, <2>7, <3>2, <3>3 DEF Reads
  <2>10. QED
    BY <1>3, <2>5, <2>6, <2>8, <2>9, ReadStep
<1>5. CASE ~(q.at + 1 <= Len(c))
  <2> DEFINE new == [q EXCEPT !.pc = "delivered"]
  <2>1. /\ new \in JarRecord /\ new.pc = "delivered" /\ new.url = q.url /\ new.fd = q.fd
        /\ new.at = q.at /\ new.copy = q.copy
    BY <1>1 DEF JarRecord, JarStages
  <2>2. Advance(r, new)
    BY <1>1, <1>5 DEF CopyChunk
  <2> HIDE DEF new
  <2>3. jarReq'[r] = new
    BY <1>1, <2>1, <2>2, AdvanceTypes
  <2>4. q.at = Chunks
    BY <1>1, <1>2, <1>5, JarConstants
  <2>5. Stages(r)' /\ Reads(r)' /\ new.pc # "writing"
    BY <1>1, <1>3, <2>1, <2>3, <2>4 DEF Stages, Reads
  <2>6. QED
    BY <1>3, <2>1, <2>2, <2>5, ReadStep
<1>6. QED
  BY <1>4, <1>5

(* A request ends, and its files are closed.                                 *)
LEMMA ClosingStep ==
    ASSUME JarInv, NEW r \in JarRequests, NEW new \in JarRecord, Advance(r, new),
           new.pc \notin FilesOpen, new.fd = None, new.at = 0, new.copy = <<>>,
           new.pc # "idle" => new.url # None,
           Settle(content, torn),
           tempJar' \in {tempJar, None},
           \/ cachedJar' \in {cachedJar, None}
           \/ cachedJar' = tempJar /\ tempJar' = None /\ Len(content[tempJar]) = Chunks,
           metadata' \in Urls \cup {None}
    PROVE  JarInv'
<1>1. /\ jarReq' \in [JarRequests -> JarRecord]
      /\ jarReq'[r] = new
      /\ \A o \in JarRequests : o # r => jarReq'[o] = jarReq[o]
  BY AdvanceTypes DEF JarInv
<1>2. Stages(r)' /\ jarReq'[r].pc \notin FilesOpen
  BY <1>1, JarConstants DEF Stages, FilesOpen
<1>3. \A o \in JarRequests :
         \/ jarReq'[o] = jarReq[o]
         \/ jarReq'[o].pc \notin FilesOpen /\ Stages(o)'
  BY <1>1, <1>2
<1>4. QED
  BY <1>1, <1>3, SettleStep

LEMMA AbandonStep ==
    ASSUME JarInv, NEW r \in JarRequests, Abandon(r)
    PROVE  JarInv'
<1>1. Quiet.pc \notin FilesOpen
  BY QuietIsRecord DEF FilesOpen
<1>2. /\ Advance(r, Quiet) /\ Settle(content, torn) /\ tempJar' = None
      /\ cachedJar' = None /\ metadata' = None
  BY DEF Abandon
<1>3. QED
  BY <1>1, <1>2, QuietIsRecord, ClosingStep

LEMMA LeaveStep ==
    ASSUME JarInv, NEW r \in JarRequests, Leave(r)
    PROVE  JarInv'
<1>1. Quiet.pc \notin FilesOpen
  BY QuietIsRecord DEF FilesOpen
<1>2. /\ Advance(r, Quiet) /\ Settle(content, torn) /\ tempJar' = tempJar
      /\ cachedJar' = cachedJar /\ metadata' = metadata
  BY DEF Leave
<1>3. metadata' \in Urls \cup {None}
  BY <1>2 DEF JarInv, JarTypeOK
<1>4. QED
  BY <1>1, <1>2, <1>3, QuietIsRecord, ClosingStep

LEMMA InstallStep ==
    ASSUME JarInv, NEW r \in JarRequests, Install(r)
    PROVE  JarInv'
<1>1. /\ JarTypeOK /\ Stages(r) /\ jarReq[r] \in JarRecord /\ jarReq[r].pc = "writing"
  BY RequestTypes DEF JarInv, Install
<1>2. CASE tempJar # None /\ Intact(content[tempJar])
  <2> DEFINE new == [jarReq[r] EXCEPT !.pc = "noting", !.fd = None, !.at = 0]
  <2>1. /\ new \in JarRecord /\ new.pc = "noting" /\ new.url = jarReq[r].url
        /\ new.fd = None /\ new.at = 0 /\ new.copy = jarReq[r].copy
    <3>1. 0 \in 0 .. Chunks
      BY JarConstants
    <3>2. QED
      BY <1>1, <3>1 DEF JarRecord, JarStages
  <2>2. /\ Advance(r, new) /\ Settle(content, torn) /\ tempJar' = None
        /\ cachedJar' = tempJar /\ metadata' = metadata
    BY <1>2 DEF Install
  <2> HIDE DEF new
  <2>3. new.pc \notin FilesOpen /\ new.copy = <<>> /\ new.url # None
    BY <1>1, <2>1 DEF FilesOpen, Stages
  <2>4. metadata' \in Urls \cup {None} /\ Len(content[tempJar]) = Chunks
    BY <1>1, <1>2, <2>2 DEF JarTypeOK, Intact
  <2>5. QED
    BY <2>1, <2>2, <2>3, <2>4, ClosingStep
<1>3. CASE ~(tempJar # None /\ Intact(content[tempJar]))
  <2>1. Abandon(r)
    BY <1>3 DEF Install
  <2>2. QED
    BY <2>1, AbandonStep
<1>4. QED
  BY <1>2, <1>3

LEMMA EvictStep == JarInv /\ Evict => JarInv'
<1> SUFFICES ASSUME JarInv, Evict PROVE JarInv'
  OBVIOUS
<1>1. /\ jarReq' = jarReq /\ Settle(content, torn) /\ tempJar' = tempJar
      /\ cachedJar' = None /\ metadata' = None
  BY DEF Evict
<1>2. jarReq' \in [JarRequests -> JarRecord]
  BY <1>1 DEF JarInv, JarTypeOK, JarRecord
<1>3. QED
  BY <1>1, <1>2, SettleStep

LEMMA CrashStep == JarInv /\ JarCrash => JarInv'
<1> SUFFICES ASSUME JarInv, JarCrash PROVE JarInv'
  OBVIOUS
<1>1. /\ jarReq' = [r \in JarRequests |-> Quiet] /\ Settle(content, torn)
      /\ tempJar' = tempJar /\ cachedJar' = cachedJar /\ metadata' = metadata
  BY DEF JarCrash
<1>2. jarReq' \in [JarRequests -> JarRecord]
  BY <1>1, QuietIsRecord
<1>3. \A o \in JarRequests : jarReq'[o].pc \notin FilesOpen /\ Stages(o)'
  BY <1>1, QuietIsRecord DEF Stages, FilesOpen
<1>4. metadata' \in Urls \cup {None}
  BY <1>1 DEF JarInv, JarTypeOK
<1>5. QED
  BY <1>1, <1>2, <1>3, <1>4, SettleStep

(* Another request writes or empties files: what o wrote it wrote alone or   *)
(* was torn, and what it reads is still there.                               *)
LEMMA OthersKeep ==
    ASSUME NEW o \in JarRequests, Stages(o), Writes(o), Reads(o),
           jarReq'[o] = jarReq[o],
           jarReq[o].pc = "writing" =>
               \/ jarReq[o].fd \in torn'
               \/ content'[jarReq[o].fd] = content[jarReq[o].fd] /\ jarReq[o].fd \notin torn,
           jarReq[o].pc \in {"copying", "delivered"} =>
               /\ jarReq[o].fd # tempJar'
               /\ Len(content'[jarReq[o].fd]) = Chunks
               /\ \/ jarReq[o].fd \in torn'
                  \/ content'[jarReq[o].fd] = content[jarReq[o].fd] /\ jarReq[o].fd \notin torn
    PROVE  Stages(o)' /\ Writes(o)' /\ Reads(o)'
<1>1. Stages(o)'
  BY DEF Stages
<1>2. Writes(o)'
  BY DEF Writes
<1>3. Reads(o)'
  BY DEF Reads
<1>4. QED
  BY <1>1, <1>2, <1>3

LEMMA WriteChunkStep ==
    ASSUME JarInv, NEW r \in JarRequests, WriteChunk(r)
    PROVE  JarInv'
<1> DEFINE i == jarReq[r].fd
           c == content[i]
           k == jarReq[r].at + 1
           put == Put(c, k, jarReq[r].url)
           new == [jarReq[r] EXCEPT !.at = k]
<1>1. /\ JarTypeOK /\ FilesInv /\ WritersApart /\ Stages(r) /\ Writes(r)
      /\ jarReq[r] \in JarRecord /\ jarReq[r].pc = "writing" /\ jarReq[r].at < Chunks
      /\ jarReq[r].at \in 0 .. Chunks
  BY RequestTypes DEF JarInv, WriteChunk
<1>2. i \in Inodes /\ jarReq[r].url \in Urls /\ content \in [Inodes -> Data]
  BY <1>1, RequestTypes DEF Stages, JarTypeOK
<1>3. k \in 1 .. Chunks /\ c \in Data
  BY <1>1, <1>2, JarConstants
<1>4. /\ put \in Data /\ Len(put) = (IF Len(c) > k THEN Len(c) ELSE k) /\ put[k] = jarReq[r].url
      /\ \A n \in 1 .. Len(c) : n # k => put[n] = c[n]
  <2> DEFINE u == jarReq[r].url
  <2>1. c \in Data /\ k \in 1 .. Chunks /\ u \in Urls /\ put = Put(c, k, u)
    BY <1>2, <1>3
  <2> HIDE DEF c, k, u, put
  <2>2. QED
    BY <2>1, PutIsData DEF u
<1>5. Advance(r, new) /\ content' = [content EXCEPT ![i] = put]
  BY DEF WriteChunk
<1>6. UNCHANGED <<torn, tempJar, cachedJar, metadata>>
  BY DEF WriteChunk
<1>7. /\ new \in JarRecord /\ new.pc = "writing" /\ new.url = jarReq[r].url /\ new.fd = i
      /\ new.at = k /\ new.copy = jarReq[r].copy
  BY <1>1, <1>3 DEF JarRecord
<1> HIDE DEF new
<1>8. /\ jarReq' \in [JarRequests -> JarRecord]
      /\ jarReq'[r] = new
      /\ \A o \in JarRequests : o # r => jarReq'[o] = jarReq[o]
  BY <1>1, <1>5, <1>7, AdvanceTypes
<1>9. /\ content' \in [Inodes -> Data] /\ content'[i] = put
      /\ \A j \in Inodes : j # i => content'[j] = content[j]
  BY <1>2, <1>4, <1>5
<1>10. Len(c) \in Nat /\ (i \notin torn => Len(c) = k - 1 /\ \A n \in 1 .. k - 1 : c[n] = jarReq[r].url)
  BY <1>1, <1>3, DataIsFunction DEF Writes
<1>11. i \notin torn => Len(put) = k /\ \A n \in 1 .. k : put[n] = jarReq[r].url
  <2> SUFFICES ASSUME i \notin torn
               PROVE  Len(put) = k /\ \A n \in 1 .. k : put[n] = jarReq[r].url
    OBVIOUS
  <2>1. Len(c) = k - 1 /\ \A n \in 1 .. k - 1 : c[n] = jarReq[r].url
    BY <1>10
  <2>2. \A n \in 1 .. k : n = k \/ (n \in 1 .. k - 1 /\ n # k)
    BY <1>3
  <2> HIDE DEF k, put
  <2>3. QED
    BY <1>3, <1>4, <2>1, <2>2
<1>12. Len(c) = Chunks => Len(put) = Chunks
  BY <1>3, <1>4, JarConstants
<1> HIDE DEF put, k
<1>13. JarTypeOK'
  BY <1>1, <1>6, <1>8, <1>9 DEF JarTypeOK, JarRecord
<1>14. FilesInv'
  <2>1. cachedJar' # None => Len(content'[cachedJar']) = Chunks
    BY <1>1, <1>6, <1>9, <1>12 DEF FilesInv, JarTypeOK
  <2>2. ASSUME NEW j \in Inodes \ torn' PROVE Uniform(content[j])'
    BY <1>1, <1>2, <1>6, <1>9, <1>11, <2>2 DEF FilesInv, Uniform
  <2>3. QED
    BY <1>1, <1>6, <2>1, <2>2 DEF FilesInv
<1>15. ASSUME NEW o \in JarRequests, o # r PROVE Stages(o)' /\ Writes(o)' /\ Reads(o)'
  <2>1. /\ Stages(o) /\ Writes(o) /\ Reads(o) /\ jarReq'[o] = jarReq[o]
        /\ jarReq[o].fd \in Inodes \cup {None}
    BY <1>1, <1>8, <1>15, RequestTypes DEF JarInv
  <2>2. jarReq[o].pc = "writing" =>
           \/ jarReq[o].fd \in torn'
           \/ content'[jarReq[o].fd] = content[jarReq[o].fd] /\ jarReq[o].fd \notin torn
    BY <1>1, <1>6, <1>9, <1>15, <2>1 DEF WritersApart, Stages
  <2>3. jarReq[o].pc \in {"copying", "delivered"} =>
           /\ jarReq[o].fd # tempJar'
           /\ Len(content'[jarReq[o].fd]) = Chunks
           /\ \/ jarReq[o].fd \in torn'
              \/ content'[jarReq[o].fd] = content[jarReq[o].fd] /\ jarReq[o].fd \notin torn
    <3>1. CASE jarReq[o].fd = i
      BY <1>1, <1>3, <1>6, <1>9, <1>10, <1>12, <2>1, <3>1, JarConstants DEF Reads
    <3>2. CASE jarReq[o].fd # i
      BY <1>6, <1>9, <2>1, <3>2 DEF Reads, Stages
    <3>3. QED
      BY <3>1, <3>2
  <2>4. QED
    BY <2>1, <2>2, <2>3, OthersKeep
<1>16. Stages(r)' /\ Writes(r)' /\ Reads(r)'
  BY <1>1, <1>6, <1>7, <1>8, <1>9, <1>11 DEF Stages, Writes, Reads
<1>17. WritersApart'
  BY <1>1, <1>6, <1>7, <1>8 DEF WritersApart
<1>18. QED
  BY <1>13, <1>14, <1>15, <1>16, <1>17 DEF JarInv

LEMMA OpenTempStep ==
    ASSUME JarInv, NEW r \in JarRequests, OpenTemp(r)
    PROVE  JarInv'
<1> DEFINE new(i) == [jarReq[r] EXCEPT !.pc = "writing", !.fd = i]
           emptied(i) == [content EXCEPT ![i] = <<>>]
           tears(i) == IF \E o \in JarRequests : jarReq[o].pc = "writing" /\ jarReq[o].fd = i
                       THEN torn \cup {i} ELSE torn
<1>1. /\ JarTypeOK /\ FilesInv /\ WritersApart /\ Stages(r) /\ content \in [Inodes -> Data]
      /\ jarReq[r] \in JarRecord /\ jarReq[r].pc = "asking"
      /\ jarReq[r].at = 0 /\ jarReq[r].copy = <<>> /\ jarReq[r].url # None
  BY RequestTypes DEF JarInv, JarTypeOK, OpenTemp, Stages
<1>2. PICK i \in Inodes :
         /\ IF tempJar # None THEN i = tempJar ELSE i \in Free
         /\ tempJar' = i
         /\ Advance(r, new(i))
         /\ UNCHANGED <<cachedJar, metadata>>
         /\ Settle(emptied(i), tears(i))
  BY DEF OpenTemp
<1>3. /\ new(i) \in JarRecord /\ new(i).pc = "writing" /\ new(i).url = jarReq[r].url
      /\ new(i).fd = i /\ new(i).at = 0 /\ new(i).copy = <<>>
  BY <1>1 DEF JarRecord, JarStages
<1>4. emptied(i) \in [Inodes -> Data] /\ emptied(i)[i] = <<>>
         /\ \A j \in Inodes : j # i => emptied(i)[j] = content[j]
  BY <1>1, EmptyIsData
<1>5. /\ torn \subseteq tears(i) /\ tears(i) \subseteq torn \cup {i}
      /\ \A o \in JarRequests : (jarReq[o].pc = "writing" /\ jarReq[o].fd = i) => i \in tears(i)
  OBVIOUS
<1>6. Settle(emptied(i), tears(i)) /\ Advance(r, new(i))
  BY <1>2
<1> HIDE DEF new, emptied, tears
<1>7. /\ jarReq' \in [JarRequests -> JarRecord]
      /\ jarReq'[r] = new(i)
      /\ \A o \in JarRequests : o # r => jarReq'[o] = jarReq[o]
  BY <1>1, <1>3, <1>6, AdvanceTypes
<1>8. /\ content' \in [Inodes -> Data]
      /\ torn' \subseteq tears(i)
      /\ \A j \in Inodes :
            (j \in {tempJar', cachedJar'} \/ \E o \in JarRequests : j = jarReq'[o].fd)
                => content'[j] = emptied(i)[j] /\ (j \in torn' <=> j \in tears(i))
      /\ \A j \in Inodes :
            content'[j] = <<>> \/ (content'[j] = emptied(i)[j] /\ (j \in torn' <=> j \in tears(i)))
  BY <1>4, <1>6, SettleKeeps
<1>9. content'[i] = <<>> /\ (i \in torn' <=> i \in tears(i))
  BY <1>2, <1>4, <1>8
<1>10. i # cachedJar /\ \A o \in JarRequests : jarReq[o].pc \in {"copying", "delivered"} => jarReq[o].fd # i
  <2>1. CASE tempJar # None
    BY <1>1, <1>2, <2>1 DEF FilesInv, JarInv, Reads
  <2>2. CASE tempJar = None
    BY <1>2, <2>2 DEF Free
  <2>3. QED
    BY <2>1, <2>2
<1>11. JarTypeOK'
  <2>1. torn' \subseteq Inodes
    BY <1>1, <1>5, <1>8 DEF JarTypeOK
  <2>2. QED
    BY <1>1, <1>2, <1>7, <1>8, <2>1 DEF JarTypeOK, JarRecord
<1>12. FilesInv'
  <2>1. tempJar' # cachedJar'
    BY <1>2, <1>10
  <2>2. cachedJar' # None => Len(content'[cachedJar']) = Chunks
    BY <1>1, <1>2, <1>4, <1>8, <1>10 DEF FilesInv, JarTypeOK
  <2>3. ASSUME NEW j \in Inodes \ torn' PROVE Uniform(content[j])'
    <3>1. CASE content'[j] = <<>>
      BY <3>1, EmptyIsUniform DEF Uniform
    <3>2. CASE content'[j] # <<>>
      <4>1. j # i /\ content'[j] = content[j] /\ j \notin torn
        BY <1>4, <1>5, <1>8, <1>9, <2>3, <3>2
      <4>2. QED
        BY <1>1, <2>3, <4>1 DEF FilesInv, Uniform
    <3>3. QED
      BY <3>1, <3>2
  <2>4. QED
    BY <2>1, <2>2, <2>3 DEF FilesInv
<1>13. ASSUME NEW o \in JarRequests, o # r PROVE Stages(o)' /\ Writes(o)' /\ Reads(o)'
  <2>1. /\ Stages(o) /\ Writes(o) /\ Reads(o) /\ jarReq'[o] = jarReq[o]
        /\ jarReq[o].fd \in Inodes \cup {None}
    BY <1>1, <1>7, <1>13, RequestTypes DEF JarInv
  <2>2. jarReq[o].fd \in Inodes =>
           /\ content'[jarReq[o].fd] = emptied(i)[jarReq[o].fd]
           /\ jarReq[o].fd \in torn' <=> jarReq[o].fd \in tears(i)
    BY <1>8, <2>1
  <2>3. jarReq[o].pc = "writing" =>
           \/ jarReq[o].fd \in torn'
           \/ content'[jarReq[o].fd] = content[jarReq[o].fd] /\ jarReq[o].fd \notin torn
    BY <1>4, <1>5, <2>1, <2>2 DEF Stages
  <2>4. jarReq[o].pc \in {"copying", "delivered"} =>
           /\ jarReq[o].fd # tempJar'
           /\ Len(content'[jarReq[o].fd]) = Chunks
           /\ \/ jarReq[o].fd \in torn'
              \/ content'[jarReq[o].fd] = content[jarReq[o].fd] /\ jarReq[o].fd \notin torn
    BY <1>2, <1>4, <1>5, <1>10, <2>1, <2>2 DEF Stages, Reads
  <2>5. QED
    BY <2>1, <2>3, <2>4, OthersKeep
<1>14. Stages(r)' /\ Writes(r)' /\ Reads(r)'
  BY <1>1, <1>3, <1>7, <1>9, EmptyIsData, JarConstants DEF Stages, Writes, Reads
<1>15. WritersApart'
  <2> SUFFICES ASSUME NEW p \in JarRequests, NEW o \in JarRequests, p # o,
                      jarReq'[p].pc = "writing", jarReq'[o].pc = "writing",
                      jarReq'[p].fd = jarReq'[o].fd
               PROVE  jarReq'[p].fd \in torn'
    BY DEF WritersApart
  <2>1. CASE p = r \/ o = r
    BY <1>3, <1>5, <1>7, <1>9, <2>1
  <2>2. CASE p # r /\ o # r
    <3>1. jarReq'[p] = jarReq[p] /\ jarReq'[o] = jarReq[o] /\ jarReq[p].fd \in torn
      BY <1>1, <1>7, <2>2 DEF WritersApart
    <3>2. jarReq[p].fd \in Inodes
      BY <1>1, <3>1 DEF JarTypeOK
    <3>3. QED
      BY <1>5, <1>8, <3>1, <3>2
  <2>3. QED
    BY <2>1, <2>2
<1>16. QED
  BY <1>11, <1>12, <1>13, <1>14, <1>15 DEF JarInv

LEMMA JarStep ==
    ASSUME JarInv, JarNext \/ UNCHANGED jarVars
    PROVE  JarInv'
<1>1. ASSUME NEW r \in JarRequests, DownloadFails(r) PROVE JarInv'
  BY <1>1, AbandonStep DEF DownloadFails
<1>2. CASE UNCHANGED jarVars
  BY <1>2 DEF jarVars, JarInv, JarTypeOK, FilesInv, WritersApart, Stages, Writes, Reads, Uniform
<1>3. QED
  BY <1>1, <1>2, MetadataStep, OpenTempStep, WriteChunkStep, InstallStep, OpenJarStep,
     CopyChunkStep, LeaveStep, EvictStep DEF JarNext

LEMMA DeliveredFollows == JarInv => DeliveredWhole
<1> SUFFICES ASSUME JarInv, NEW r \in JarRequests, jarReq[r].pc = "delivered",
                    jarReq[r].fd \notin torn
             PROVE  Whole(jarReq[r].copy)
  BY DEF DeliveredWhole
<1> DEFINE i == jarReq[r].fd
<1>1. Stages(r) /\ Reads(r) /\ FilesInv /\ jarReq[r].fd \in Inodes \cup {None}
  BY RequestTypes DEF JarInv
<1>2. i \in Inodes
  BY <1>1 DEF Stages
<1>3. /\ Len(jarReq[r].copy) = Chunks /\ Len(content[i]) = Chunks
      /\ \A k \in 1 .. Chunks : jarReq[r].copy[k] = content[i][k]
  BY <1>1 DEF Reads
<1>4. PICK u \in Urls : \A k \in 1 .. Len(content[i]) : content[i][k] = u
  BY <1>1, <1>2 DEF FilesInv, Uniform
<1>5. QED
  BY <1>3, <1>4 DEF Whole

-----------------------------------------------------------------------------
(* The rows of the catalogue.                                                *)

(* No row of the table has a newer build than the list.                      *)
NewerThan(table, list) ==
    \A v \in Versions : (table[v] # None /\ list[v] > 0) => table[v].build <= list[v]

RowsPublished == \A v \in Versions : rows[v] # None => rows[v].build <= published[v]

ListsPublished ==
    /\ \A c \in Callers, v \in Versions : update[c].list[v] <= published[v]
    /\ cache # None => \A v \in Versions : cache[v] <= published[v]

(* An old list belongs to an overtaken update, or is known to be stale.      *)
ListsNewer ==
    /\ \A c \in Callers \ overtaken : NewerThan(rows, update[c].list)
    /\ (cache # None /\ ~stale) => NewerThan(rows, cache)

IdleRest == \A c \in Callers : update[c].pc = "idle" => update[c] = Resting

RowsInv ==
    /\ IdleRest
    /\ RowsPublished
    /\ ListsPublished
    /\ ListsNewer
    /\ ActiveRowsAreOneList

Updates == [pc : {"idle", "listing", "fetching"}, asked : SUBSET Versions, list : Lists]

(* The type invariant without the part that JarInv has.                      *)
RowTypes ==
    /\ present \in Scenarios
    /\ published \in Lists
    /\ rows \in [Versions -> Rows \cup {None}]
    /\ cache \in Lists \cup {None}
    /\ update \in [Callers -> Updates]
    /\ overtaken \in SUBSET Callers
    /\ stale \in BOOLEAN
    /\ listed \in Lists
    /\ due \in BOOLEAN
    /\ attempts \in 0 .. MaxAttempts

LEMMA CatalogueConstants ==
    /\ MaxAttempts \in Nat /\ MaxAttempts > 0
    /\ None \notin Rows /\ None \notin Lists /\ Scheduler \in Callers
  BY VersionCatalogueAssumption, NoneIsNoData

LEMMA RestingIsUpdate ==
    /\ Nothing \in Lists /\ Resting \in Updates
    /\ Resting.pc = "idle" /\ Resting.asked = {} /\ Resting.list = Nothing
    /\ \A v \in Versions : Nothing[v] = 0
  BY JarConstants DEF Nothing, Lists, Resting, Updates

LEMMA ListTypes ==
    ASSUME NEW list \in Lists, NEW v \in Versions
    PROVE  list[v] \in Nat /\ list[v] <= MaxBuild /\ (list[v] > 0 => list[v] \in Urls)
  BY JarConstants DEF Lists, Urls

LEMMA RowFields ==
    ASSUME NEW table \in [Versions -> Rows \cup {None}], NEW v \in Versions, table[v] # None
    PROVE  /\ table[v] \in Rows /\ table[v].build \in Urls /\ table[v].build \in Nat
           /\ table[v].build > 0 /\ table[v].active \in BOOLEAN
  BY JarConstants DEF Rows, Urls

LEMMA NewRow ==
    ASSUME NEW b \in Urls, NEW a \in BOOLEAN
    PROVE  /\ [build |-> b, active |-> a] \in Rows
           /\ [build |-> b, active |-> a] # None
  BY CatalogueConstants DEF Rows

LEMMA UpsertedRow ==
    ASSUME NEW old \in Rows \cup {None}, NEW b \in Urls
    PROVE  /\ Upserted(old, b) \in Rows /\ Upserted(old, b) # None
           /\ Upserted(old, b).build = b /\ Upserted(old, b).active
<1>1. CASE old # None /\ old.active /\ old.build = b
  BY <1>1 DEF Upserted
<1>2. CASE ~(old # None /\ old.active /\ old.build = b)
  BY <1>2, NewRow DEF Upserted
<1>3. QED
  BY <1>1, <1>2

LEMMA DeactivatedRow ==
    ASSUME NEW old \in Rows \cup {None}
    PROVE  /\ Deactivated(old) \in Rows \cup {None}
           /\ Deactivated(old) # None =>
                 old # None /\ Deactivated(old).build = old.build /\ ~Deactivated(old).active
  BY DEF Deactivated, Rows

(* The end of an update, whether its list is stored or not.                  *)
LEMMA CommitStep ==
    ASSUME RowTypes, RowsInv, NEW c \in Callers, NEW list \in Lists,
           \A v \in Versions : list[v] <= published[v],
           StoreVersions(c, list) \/ StoresNothing(c)
    PROVE  /\ rows' \in [Versions -> Rows \cup {None}] /\ listed' \in Lists
           /\ overtaken' \in SUBSET Callers
           /\ \A v \in Versions : rows'[v] # None => rows'[v].build <= published[v]
           /\ ActiveRowsAreOneList'
           /\ \A d \in Callers \ overtaken' : d # c => NewerThan(rows', update[d].list)
           /\ NewerThan(rows, list) => NewerThan(rows', list)
           /\ (\E v \in Versions :
                  rows[v] # None /\ rows'[v] # None /\ rows'[v].build < rows[v].build)
                 => ~NewerThan(rows, list)
<1>1. CASE StoresNothing(c)
  <2>1. rows' = rows /\ listed' = listed /\ overtaken' = overtaken \ {c}
    BY <1>1 DEF StoresNothing
  <2>2. \A d \in Callers \ overtaken' : d # c => NewerThan(rows', update[d].list)
    BY <2>1 DEF RowsInv, ListsNewer
  <2>3. \A v \in Versions : rows'[v] # None => rows'[v].build <= published[v]
    BY <2>1 DEF RowsInv, RowsPublished
  <2>4. ActiveRowsAreOneList'
    BY <2>1 DEF RowsInv, ActiveRowsAreOneList
  <2>5. \A v \in Versions : rows[v] # None => ~(rows'[v].build < rows[v].build)
    BY <2>1, RowFields DEF RowTypes
  <2>6. QED
    BY <2>1, <2>2, <2>3, <2>4, <2>5 DEF RowTypes
<1>2. CASE list # Nothing /\ StoreVersions(c, list)
  <2>1. /\ rows' = Stored(list) /\ listed' = list
        /\ overtaken' = {o \in Callers \ {c} : update[o].pc # "idle"}
    BY <1>2 DEF StoreVersions
  <2>2. ASSUME NEW v \in Versions, list[v] > 0
        PROVE  /\ rows'[v] \in Rows /\ rows'[v] # None /\ rows'[v].active
               /\ rows'[v].build = list[v]
    <3>1. rows'[v] = Upserted(rows[v], list[v])
      BY <2>1, <2>2 DEF Stored
    <3>2. rows[v] \in Rows \cup {None} /\ list[v] \in Urls
      BY <2>2, ListTypes DEF RowTypes
    <3>3. QED
      BY <3>1, <3>2, UpsertedRow
  <2>3. ASSUME NEW v \in Versions, ~(list[v] > 0)
        PROVE  /\ rows'[v] \in Rows \cup {None}
               /\ rows'[v] # None =>
                     rows[v] # None /\ rows'[v].build = rows[v].build /\ ~rows'[v].active
    <3>1. rows'[v] = Deactivated(rows[v])
      BY <2>1, <2>3 DEF Stored
    <3>2. rows[v] \in Rows \cup {None}
      BY DEF RowTypes
    <3>3. QED
      BY <3>1, <3>2, DeactivatedRow
  <2>4. rows' \in [Versions -> Rows \cup {None}]
    <3>1. \A v \in Versions : rows'[v] \in Rows \cup {None}
      BY <2>2, <2>3
    <3>2. QED
      BY <2>1, <3>1 DEF Stored
  <2>5. \A v \in Versions : rows'[v] # None => rows'[v].build <= published[v]
    BY <2>2, <2>3 DEF RowsInv, RowsPublished
  <2>6. ActiveRowsAreOneList'
    <3>1. \A v \in Versions : list[v] \in Nat
      BY ListTypes
    <3>2. QED
      BY <2>1, <2>2, <2>3, <3>1 DEF ActiveRowsAreOneList
  <2>7. ASSUME NEW d \in Callers \ overtaken', d # c PROVE NewerThan(rows', update[d].list)
    <3>1. update[d].list = Nothing
      BY <2>1, <2>7, RestingIsUpdate DEF RowsInv, IdleRest
    <3>2. QED
      BY <3>1, RestingIsUpdate DEF NewerThan
  <2>8. NewerThan(rows', list)
    BY <2>2, ListTypes DEF NewerThan
  <2>9. ASSUME NEW v \in Versions, rows[v] # None, rows'[v] # None,
               rows'[v].build < rows[v].build
        PROVE  ~NewerThan(rows, list)
    <3>1. rows[v].build \in Nat /\ list[v] \in Nat
      BY <2>9, RowFields, ListTypes DEF RowTypes
    <3>2. list[v] > 0 /\ rows'[v].build = list[v]
      BY <2>2, <2>3, <2>9, <3>1
    <3>3. QED
      BY <2>9, <3>1, <3>2 DEF NewerThan
  <2>10. QED
    BY <2>1, <2>4, <2>5, <2>6, <2>7, <2>8, <2>9
<1>3. QED
  BY <1>1, <1>2 DEF StoreVersions

CatalogueInv == RowTypes /\ RowsInv

(* An update goes on.                                                        *)
LEMMA FetchStep ==
    ASSUME CatalogueInv, NEW c \in Callers, NEW new \in Updates,
           update' = [update EXCEPT ![c] = new], new.pc # "idle",
           \A v \in Versions : new.list[v] <= published[v],
           c \notin overtaken => NewerThan(rows, new.list),
           UNCHANGED <<present, published, rows, cache, overtaken, stale, listed, due, attempts>>
    PROVE  CatalogueInv'
<1>1. /\ update' \in [Callers -> Updates] /\ update'[c] = new
      /\ \A d \in Callers : d # c => update'[d] = update[d]
  BY DEF CatalogueInv, RowTypes
<1>2. RowTypes'
  BY <1>1 DEF CatalogueInv, RowTypes
<1>3. IdleRest'
  BY <1>1 DEF CatalogueInv, RowsInv, IdleRest
<1>4. RowsPublished' /\ ActiveRowsAreOneList'
  BY DEF CatalogueInv, RowsInv, RowsPublished, ActiveRowsAreOneList
<1>5. ListsPublished'
  BY <1>1 DEF CatalogueInv, RowsInv, ListsPublished
<1>6. ListsNewer'
  BY <1>1 DEF CatalogueInv, RowsInv, ListsNewer, NewerThan
<1>7. QED
  BY <1>2, <1>3, <1>4, <1>5, <1>6 DEF CatalogueInv, RowsInv

(* An update ends.                                                           *)
LEMMA EndStep ==
    ASSUME CatalogueInv, NEW c \in Callers, NEW list \in Lists,
           \A v \in Versions : list[v] <= published[v],
           StoreVersions(c, list) \/ StoresNothing(c),
           update' = [update EXCEPT ![c] = Resting],
           \/ cache' = list /\ stale' = (c \in overtaken) /\ list = update[c].list
           \/ UNCHANGED <<cache, stale>> /\ (list = cache \/ StoresNothing(c)),
           UNCHANGED <<present, published>>, due' \in BOOLEAN, attempts' \in 0 .. MaxAttempts
    PROVE  CatalogueInv'
<1>1. /\ update' \in [Callers -> Updates] /\ update'[c] = Resting
      /\ \A d \in Callers : d # c => update'[d] = update[d]
  BY RestingIsUpdate DEF CatalogueInv, RowTypes
<1>2. /\ rows' \in [Versions -> Rows \cup {None}] /\ listed' \in Lists
      /\ overtaken' \in SUBSET Callers
      /\ \A v \in Versions : rows'[v] # None => rows'[v].build <= published[v]
      /\ ActiveRowsAreOneList'
      /\ \A d \in Callers \ overtaken' : d # c => NewerThan(rows', update[d].list)
      /\ NewerThan(rows, list) => NewerThan(rows', list)
  <2>1. RowTypes /\ RowsInv
    BY DEF CatalogueInv
  <2>2. QED
    BY <2>1, CommitStep
<1>3. RowTypes'
  <2>1. stale' \in BOOLEAN
    <3>1. stale \in BOOLEAN
      BY DEF CatalogueInv, RowTypes
    <3>2. CASE stale' = stale
      BY <3>1, <3>2
    <3>3. CASE stale' = (c \in overtaken)
      <4>1. (c \in overtaken) \in BOOLEAN
        OBVIOUS
      <4>2. QED
        BY <3>3, <4>1
    <3>4. QED
      BY <3>2, <3>3
  <2>2. cache' \in Lists \cup {None}
    BY DEF CatalogueInv, RowTypes
  <2>3. QED
    BY <1>1, <1>2, <2>1, <2>2 DEF CatalogueInv, RowTypes
<1>4. IdleRest'
  BY <1>1 DEF CatalogueInv, RowsInv, IdleRest
<1>5. RowsPublished'
  BY <1>2 DEF RowsPublished
<1>6. ListsPublished'
  <2>1. \A v \in Versions : Nothing[v] <= published[v]
    BY RestingIsUpdate, ListTypes DEF CatalogueInv, RowTypes
  <2>2. \A d \in Callers, v \in Versions : update'[d].list[v] <= published[v]
    BY <1>1, <2>1, RestingIsUpdate DEF CatalogueInv, RowsInv, ListsPublished
  <2>3. cache' # None => \A v \in Versions : cache'[v] <= published[v]
    BY DEF CatalogueInv, RowsInv, ListsPublished
  <2>4. QED
    BY <2>2, <2>3 DEF ListsPublished
<1>7. ListsNewer'
  <2>1. ASSUME NEW d \in Callers \ overtaken' PROVE NewerThan(rows', update'[d].list)
    <3>1. CASE d = c
      BY <1>1, <3>1, RestingIsUpdate DEF NewerThan
    <3>2. CASE d # c
      BY <1>1, <1>2, <3>2
    <3>3. QED
      BY <3>1, <3>2
  <2>2. ASSUME cache' # None, ~stale' PROVE NewerThan(rows', cache')
    <3>1. CASE cache' = list /\ stale' = (c \in overtaken) /\ list = update[c].list
      <4>1. NewerThan(rows, list)
        BY <2>2, <3>1 DEF CatalogueInv, RowsInv, ListsNewer
      <4>2. QED
        BY <1>2, <3>1, <4>1
    <3>2. CASE UNCHANGED <<cache, stale>> /\ list = cache
      <4>1. NewerThan(rows, list)
        BY <2>2, <3>2 DEF CatalogueInv, RowsInv, ListsNewer
      <4>2. QED
        BY <1>2, <3>2, <4>1
    <3>3. CASE UNCHANGED <<cache, stale>> /\ StoresNothing(c)
      BY <2>2, <3>3 DEF CatalogueInv, RowsInv, ListsNewer, StoresNothing
    <3>4. QED
      BY <3>1, <3>2, <3>3
  <2>3. QED
    BY <2>1, <2>2 DEF ListsNewer
<1>8. QED
  BY <1>2, <1>3, <1>4, <1>5, <1>6, <1>7 DEF CatalogueInv, RowsInv

LEMMA CallerTypes ==
    ASSUME CatalogueInv, NEW c \in Callers
    PROVE  /\ update[c] \in Updates /\ update[c].list \in Lists
           /\ update[c].asked \subseteq Versions
           /\ update[c].pc \in {"idle", "listing", "fetching"}
           /\ update[c].pc = "idle" => update[c].asked = {} /\ update[c].list = Nothing
           /\ \A v \in Versions : update[c].list[v] <= published[v]
           /\ c \notin overtaken => NewerThan(rows, update[c].list)
<1>1. update[c] \in Updates
  BY DEF CatalogueInv, RowTypes
<1>2. QED
  BY <1>1, RestingIsUpdate
     DEF CatalogueInv, RowsInv, IdleRest, ListsPublished, ListsNewer, Updates

LEMMA EndTypes ==
    ASSUME CatalogueInv, NEW c \in Callers, Ends(c)
    PROVE  /\ update' = [update EXCEPT ![c] = Resting]
           /\ attempts' \in 0 .. MaxAttempts /\ due' \in BOOLEAN
<1>1. attempts \in 0 .. MaxAttempts /\ due \in BOOLEAN
  BY DEF CatalogueInv, RowTypes
<1>2. attempts' \in {0, (attempts + 1) % MaxAttempts, attempts}
  BY DEF Ends, Succeeds, Raises
<1>3. (attempts + 1) % MaxAttempts \in 0 .. MaxAttempts
  BY <1>1, CatalogueConstants
<1>4. attempts' \in 0 .. MaxAttempts
  BY <1>1, <1>2, <1>3, CatalogueConstants
<1>5. update' = [update EXCEPT ![c] = Resting] /\ due' \in {due, FALSE}
  BY DEF Ends, Succeeds, Raises
<1>6. QED
  BY <1>1, <1>4, <1>5

LEMMA BeginUpdateStep ==
    ASSUME CatalogueInv, NEW c \in Callers, BeginUpdate(c)
    PROVE  CatalogueInv'
<1>1. CASE cache # None
  <2>1. /\ StoreVersions(c, cache) \/ StoresNothing(c)
        /\ Ends(c) /\ UNCHANGED <<present, published, cache, stale>>
    BY <1>1 DEF BeginUpdate
  <2>2. cache \in Lists /\ \A v \in Versions : cache[v] <= published[v]
    BY <1>1 DEF CatalogueInv, RowTypes, RowsInv, ListsPublished
  <2>3. /\ update' = [update EXCEPT ![c] = Resting]
        /\ attempts' \in 0 .. MaxAttempts /\ due' \in BOOLEAN
    BY <2>1, EndTypes
  <2>4. UNCHANGED <<cache, stale>> /\ UNCHANGED <<present, published>>
    BY <2>1
  <2>5. QED
    BY <2>1, <2>2, <2>3, <2>4, EndStep
<1>2. CASE cache = None
  <2> DEFINE new == [update[c] EXCEPT !.pc = "listing"]
  <2>1. new \in Updates /\ new.pc = "listing" /\ new.list = update[c].list
    BY CallerTypes DEF Updates
  <2>2. /\ update' = [update EXCEPT ![c] = new]
        /\ UNCHANGED <<present, published, rows, cache, overtaken, stale, listed, due, attempts>>
    BY <1>2 DEF BeginUpdate
  <2> HIDE DEF new
  <2>3. /\ \A v \in Versions : new.list[v] <= published[v]
        /\ c \notin overtaken => NewerThan(rows, new.list)
    BY <2>1, CallerTypes
  <2>4. new.pc # "idle"
    BY <2>1
  <2>5. QED
    BY <2>1, <2>2, <2>3, <2>4, FetchStep
<1>3. QED
  BY <1>1, <1>2

LEMMA ManifestStep ==
    ASSUME CatalogueInv, NEW c \in Callers, Manifest(c)
    PROVE  CatalogueInv'
<1> DEFINE some == {v \in Versions : published[v] > 0}
           new == [update[c] EXCEPT !.pc = "fetching", !.asked = some]
<1>1. some \subseteq Versions
  OBVIOUS
<1> HIDE DEF some
<1>2. new \in Updates /\ new.pc = "fetching" /\ new.list = update[c].list
  BY <1>1, CallerTypes DEF Updates
<1>3. /\ update' = [update EXCEPT ![c] = new]
      /\ UNCHANGED <<present, published, rows, cache, overtaken, stale, listed, due, attempts>>
  BY DEF Manifest, some
<1> HIDE DEF new
<1>4. /\ \A v \in Versions : new.list[v] <= published[v]
      /\ c \notin overtaken => NewerThan(rows, new.list)
  BY <1>2, CallerTypes
<1>5. new.pc # "idle"
  BY <1>2
<1>6. QED
  BY <1>2, <1>3, <1>4, <1>5, FetchStep

LEMMA FetchForgeStep ==
    ASSUME CatalogueInv, NEW c \in Callers, FetchForge(c)
    PROVE  CatalogueInv'
<1> DEFINE new == [update[c] EXCEPT !.pc = "fetching", !.list = published]
<1>1. published \in Lists
  BY DEF CatalogueInv, RowTypes
<1>2. new \in Updates /\ new.pc = "fetching" /\ new.list = published
  BY <1>1, CallerTypes DEF Updates
<1>3. /\ update' = [update EXCEPT ![c] = new]
      /\ UNCHANGED <<present, published, rows, cache, overtaken, stale, listed, due, attempts>>
  BY DEF FetchForge
<1> HIDE DEF new
<1>4. \A v \in Versions : new.list[v] <= published[v]
  BY <1>1, <1>2, ListTypes
<1>5. NewerThan(rows, new.list)
  BY <1>2 DEF CatalogueInv, RowsInv, RowsPublished, NewerThan
<1>6. new.pc # "idle"
  BY <1>2
<1>7. QED
  BY <1>2, <1>3, <1>4, <1>5, <1>6, FetchStep

LEMMA FetchVersionStep ==
    ASSUME CatalogueInv, NEW c \in Callers, NEW v \in Versions, FetchVersion(c, v)
    PROVE  CatalogueInv'
<1>1. PICK build \in {published[v], 0} :
         update' = [update EXCEPT ![c].asked = @ \ {v}, ![c].list[v] = build]
  BY DEF FetchVersion
<1> DEFINE list == [update[c].list EXCEPT ![v] = build]
           new == [update[c] EXCEPT !.asked = @ \ {v}, !.list = list]
<1>2. build \in 0 .. MaxBuild /\ build <= published[v] /\ (build > 0 => build = published[v])
      /\ published[v] \in Nat
  BY ListTypes, JarConstants DEF CatalogueInv, RowTypes, Lists
<1>3. list \in Lists /\ list[v] = build
      /\ \A w \in Versions : w # v => list[w] = update[c].list[w]
  BY <1>2, CallerTypes DEF Lists
<1>4. update' = [update EXCEPT ![c] = new]
  BY <1>1
<1> HIDE DEF list
<1>5. new \in Updates /\ new.pc = update[c].pc /\ new.list = list
  BY <1>3, CallerTypes DEF Updates
<1> HIDE DEF new
<1>6. \A w \in Versions : new.list[w] <= published[w]
  BY <1>2, <1>3, <1>5, CallerTypes
<1>7. c \notin overtaken => NewerThan(rows, new.list)
  BY <1>2, <1>3, <1>5, CallerTypes DEF CatalogueInv, RowsInv, RowsPublished, NewerThan
<1>8. new.pc # "idle"
  BY <1>5, CallerTypes DEF FetchVersion
<1>9. UNCHANGED <<present, published, rows, cache, overtaken, stale, listed, due, attempts>>
  BY DEF FetchVersion
<1>10. QED
  BY <1>4, <1>5, <1>6, <1>7, <1>8, <1>9, FetchStep

LEMMA FinishStep ==
    ASSUME CatalogueInv, NEW c \in Callers, FinishFetch(c) \/ FetchFails(c)
    PROVE  CatalogueInv'
<1>1. /\ update[c].list \in Lists /\ \A v \in Versions : update[c].list[v] <= published[v]
      /\ Nothing \in Lists /\ \A v \in Versions : Nothing[v] <= published[v]
  <2>1. \A v \in Versions : published[v] \in Nat
    BY ListTypes DEF CatalogueInv, RowTypes
  <2>2. QED
    BY <2>1, CallerTypes, RestingIsUpdate
<1>2. /\ update' = [update EXCEPT ![c] = Resting]
      /\ attempts' \in 0 .. MaxAttempts /\ due' \in BOOLEAN
  <2>1. Ends(c)
    BY DEF FinishFetch, FetchFails
  <2>2. QED
    BY <2>1, EndTypes
<1>3. CASE FinishFetch(c)
  <2>1. /\ StoreVersions(c, update[c].list) \/ StoresNothing(c)
        /\ cache' = update[c].list /\ stale' = (c \in overtaken)
        /\ UNCHANGED <<present, published>>
    BY <1>3 DEF FinishFetch
  <2>2. QED
    BY <1>1, <1>2, <2>1, EndStep
<1>4. CASE FetchFails(c)
  <2>1. /\ StoresNothing(c)
        /\ UNCHANGED <<cache, stale>>
        /\ UNCHANGED <<present, published>>
    BY <1>4 DEF FetchFails
  <2>2. QED
    BY <1>1, <1>2, <2>1, EndStep
<1>5. QED
  BY <1>3, <1>4

LEMMA DeleteStep ==
    ASSUME CatalogueInv, NEW some, Delete(some)
    PROVE  CatalogueInv'
<1>1. /\ rows' = [v \in Versions |-> IF v \in some THEN None ELSE rows[v]]
      /\ listed' = [v \in Versions |-> IF v \in some THEN 0 ELSE listed[v]]
      /\ UNCHANGED <<present, published, cache, update, overtaken, stale, due, attempts>>
  BY DEF Delete
<1>2. RowTypes'
  <2>1. rows' \in [Versions -> Rows \cup {None}]
    BY <1>1 DEF CatalogueInv, RowTypes
  <2>2. listed' \in Lists
    BY <1>1, JarConstants DEF CatalogueInv, RowTypes, Lists
  <2>3. QED
    BY <1>1, <2>1, <2>2 DEF CatalogueInv, RowTypes
<1>3. IdleRest' /\ ListsPublished'
  BY <1>1 DEF CatalogueInv, RowsInv, IdleRest, ListsPublished
<1>4. RowsPublished' /\ ActiveRowsAreOneList'
  BY <1>1 DEF CatalogueInv, RowsInv, RowsPublished, ActiveRowsAreOneList
<1>5. \A list : NewerThan(rows, list) => NewerThan(rows', list)
  BY <1>1 DEF NewerThan
<1>6. ListsNewer'
  BY <1>1, <1>5 DEF CatalogueInv, RowsInv, ListsNewer
<1>7. QED
  BY <1>2, <1>3, <1>4, <1>6 DEF CatalogueInv, RowsInv

LEMMA PublishStep ==
    ASSUME CatalogueInv, NEW v \in Versions, Publish(v)
    PROVE  CatalogueInv'
<1>1. /\ published' = [published EXCEPT ![v] = @ + 1] /\ published[v] < MaxBuild
      /\ UNCHANGED <<present, rows, cache, update, overtaken, stale, listed, due, attempts>>
      /\ published \in Lists
  BY DEF Publish, CatalogueInv, RowTypes
<1>2. published' \in Lists /\ \A w \in Versions : published[w] <= published'[w]
  BY <1>1, JarConstants DEF Lists
<1>3. \A w \in Versions : published[w] \in Nat /\ published'[w] \in Nat
  BY <1>1, <1>2, ListTypes
<1>4. RowTypes'
  BY <1>1, <1>2 DEF CatalogueInv, RowTypes
<1>5. RowsPublished'
  <2>1. \A w \in Versions : rows[w] # None => rows[w].build \in Nat
    BY RowFields DEF CatalogueInv, RowTypes
  <2>2. QED
    BY <1>1, <1>2, <1>3, <2>1 DEF CatalogueInv, RowsInv, RowsPublished
<1>6. ListsPublished'
  <2>1. \A c \in Callers, w \in Versions : update[c].list[w] \in Nat
    BY CallerTypes, ListTypes
  <2>2. cache # None => \A w \in Versions : cache[w] \in Nat
    BY ListTypes DEF CatalogueInv, RowTypes
  <2>3. QED
    BY <1>1, <1>2, <1>3, <2>1, <2>2 DEF CatalogueInv, RowsInv, ListsPublished
<1>7. IdleRest' /\ ListsNewer' /\ ActiveRowsAreOneList'
  BY <1>1 DEF CatalogueInv, RowsInv, IdleRest, ListsNewer, NewerThan, ActiveRowsAreOneList
<1>8. QED
  BY <1>4, <1>5, <1>6, <1>7 DEF CatalogueInv, RowsInv

LEMMA ExpiryStep == CatalogueInv /\ (CacheExpires \/ DayPasses) => CatalogueInv'
<1> SUFFICES ASSUME CatalogueInv, CacheExpires \/ DayPasses PROVE CatalogueInv'
  OBVIOUS
<1>1. /\ UNCHANGED <<present, published, rows, update, overtaken, listed, attempts>>
      /\ \/ cache' = None /\ stale' = FALSE /\ due' = due
         \/ cache' = cache /\ stale' = stale /\ due' = TRUE
  BY DEF CacheExpires, DayPasses
<1>2. RowTypes'
  <2>1. stale' \in BOOLEAN /\ due' \in BOOLEAN
    BY <1>1 DEF CatalogueInv, RowTypes
  <2>2. QED
    BY <1>1, <2>1 DEF CatalogueInv, RowTypes
<1>3. RowsInv'
  BY <1>1 DEF CatalogueInv, RowsInv, IdleRest, RowsPublished, ListsPublished, ListsNewer,
              NewerThan, ActiveRowsAreOneList
<1>4. QED
  BY <1>2, <1>3 DEF CatalogueInv

LEMMA RestartStep == CatalogueInv /\ Restart => CatalogueInv'
<1> SUFFICES ASSUME CatalogueInv, Restart PROVE CatalogueInv'
  OBVIOUS
<1>1. /\ UNCHANGED <<present, published, rows, listed>>
      /\ update' = [c \in Callers |-> Resting]
      /\ overtaken' = {} /\ cache' = None /\ stale' = FALSE /\ due' = TRUE /\ attempts' = 0
  BY DEF Restart
<1>2. RowTypes'
  <2>1. update' \in [Callers -> Updates] /\ attempts' \in 0 .. MaxAttempts
    BY <1>1, RestingIsUpdate, CatalogueConstants
  <2>2. stale' \in BOOLEAN /\ due' \in BOOLEAN
    BY <1>1
  <2>3. QED
    BY <1>1, <2>1, <2>2 DEF CatalogueInv, RowTypes
<1>3. IdleRest' /\ RowsPublished' /\ ActiveRowsAreOneList'
  BY <1>1 DEF CatalogueInv, RowsInv, IdleRest, RowsPublished, ActiveRowsAreOneList
<1>4. ListsPublished' /\ ListsNewer'
  <2>1. \A c \in Callers, v \in Versions : update'[c].list[v] = 0
    BY <1>1, RestingIsUpdate
  <2>2. \A v \in Versions : published[v] \in Nat
    BY ListTypes DEF CatalogueInv, RowTypes
  <2>3. QED
    BY <1>1, <2>1, <2>2 DEF ListsPublished, ListsNewer, NewerThan
<1>5. QED
  BY <1>2, <1>3, <1>4 DEF CatalogueInv, RowsInv

LEMMA CatalogueStill == CatalogueInv /\ UNCHANGED versionVars => CatalogueInv'
  BY DEF versionVars, CatalogueInv, RowTypes, RowsInv, IdleRest, RowsPublished,
         ListsPublished, ListsNewer, NewerThan, ActiveRowsAreOneList

VersionInv == JarInv /\ CatalogueInv

LEMMA VersionInvInit == Init => VersionInv
<1> SUFFICES ASSUME Init PROVE VersionInv
  OBVIOUS
<1>1. RowTypes
  <2>1. update \in [Callers -> Updates] /\ attempts \in 0 .. MaxAttempts
    BY RestingIsUpdate, CatalogueConstants DEF Init
  <2>2. stale \in BOOLEAN /\ due \in BOOLEAN
    BY DEF Init
  <2>3. QED
    BY <2>1, <2>2, RestingIsUpdate DEF Init, RowTypes
<1>2. \A c \in Callers : update[c] = Resting /\ update[c].list = Nothing
  BY RestingIsUpdate DEF Init
<1>3. IdleRest /\ RowsPublished /\ ListsPublished /\ ListsNewer
  BY <1>2, RestingIsUpdate
     DEF Init, IdleRest, RowsPublished, ListsPublished, ListsNewer, NewerThan
<1>4. ActiveRowsAreOneList
  BY RestingIsUpdate DEF Init, ActiveRowsAreOneList
<1>5. JarInv
  BY JarInvInit DEF Init
<1>6. QED
  BY <1>1, <1>3, <1>4, <1>5 DEF VersionInv, CatalogueInv, RowsInv

LEMMA VersionInvStep == VersionInv /\ [Next]_vars => VersionInv'
<1> SUFFICES ASSUME VersionInv, [Next]_vars PROVE VersionInv'
  OBVIOUS
<1>1. JarInv /\ CatalogueInv
  BY DEF VersionInv
<1>2. CASE JarNext /\ UNCHANGED versionVars
  BY <1>1, <1>2, JarStep, CatalogueStill DEF VersionInv
<1>3. ASSUME NEW r \in JarRequests, NEW v \in Versions, GetServerJar(r, v) PROVE VersionInv'
  <2>1. rows[v].build \in Urls
    BY <1>1, <1>3, RowFields DEF GetServerJar, CatalogueInv, RowTypes
  <2>2. PICK young \in BOOLEAN : Ask(r, rows[v].build, young)
    BY <1>3 DEF GetServerJar
  <2>3. JarInv'
    BY <1>1, <2>1, <2>2, AskStep
  <2>4. UNCHANGED versionVars
    BY <1>3 DEF GetServerJar
  <2>5. QED
    BY <1>1, <2>3, <2>4, CatalogueStill DEF VersionInv
<1>4. ASSUME CatalogueInv', UNCHANGED jarVars PROVE VersionInv'
  BY <1>1, <1>4, JarStep DEF VersionInv
<1>5. ASSUME NEW v \in Versions, Publish(v) PROVE VersionInv'
  <2>1. UNCHANGED jarVars
    BY <1>5 DEF Publish
  <2>2. QED
    BY <1>1, <1>4, <1>5, <2>1, PublishStep
<1>6. ASSUME NEW c \in Callers, BeginUpdate(c) PROVE VersionInv'
  <2>1. UNCHANGED jarVars
    BY <1>6 DEF BeginUpdate
  <2>2. QED
    BY <1>1, <1>4, <1>6, <2>1, BeginUpdateStep
<1>7. ASSUME NEW c \in Callers, Manifest(c) \/ FetchForge(c) PROVE VersionInv'
  <2>1. UNCHANGED jarVars
    BY <1>7 DEF Manifest, FetchForge
  <2>2. QED
    BY <1>1, <1>4, <1>7, <2>1, ManifestStep, FetchForgeStep
<1>8. ASSUME NEW c \in Callers, NEW v \in Versions, FetchVersion(c, v) PROVE VersionInv'
  <2>1. UNCHANGED jarVars
    BY <1>8 DEF FetchVersion
  <2>2. QED
    BY <1>1, <1>4, <1>8, <2>1, FetchVersionStep
<1>9. ASSUME NEW c \in Callers, FinishFetch(c) \/ FetchFails(c)
      PROVE  VersionInv'
  <2>1. UNCHANGED jarVars
    BY <1>9 DEF FinishFetch, FetchFails
  <2>2. QED
    BY <1>1, <1>4, <1>9, <2>1, FinishStep
<1>10. CASE DayPasses \/ CacheExpires
  <2>1. UNCHANGED jarVars
    BY <1>10 DEF DayPasses, CacheExpires
  <2>2. QED
    BY <1>1, <1>4, <1>10, <2>1, ExpiryStep
<1>11. CASE CleanupVersions \/ ManagementCleanup
  <2>1. PICK some : Delete(some)
    BY <1>11 DEF CleanupVersions, ManagementCleanup
  <2>2. UNCHANGED jarVars
    BY <2>1 DEF Delete
  <2>3. QED
    BY <1>1, <1>4, <2>1, <2>2, DeleteStep
<1>12. CASE Restart
  <2>1. JarCrash
    BY <1>12 DEF Restart
  <2>2. QED
    BY <1>1, <1>12, <2>1, CrashStep, RestartStep DEF VersionInv
<1>13. CASE UNCHANGED vars
  BY <1>1, <1>13, JarStep, CatalogueStill DEF vars, VersionInv
<1>14. QED
  BY <1>2, <1>3, <1>5, <1>6, <1>7, <1>8, <1>9, <1>10, <1>11, <1>12, <1>13, CatalogueConstants
     DEF Next, BeginTriggered, BeginScheduled

LEMMA VersionInvAlways == Spec => []VersionInv
  BY VersionInvInit, VersionInvStep, PTL DEF Spec

\* The rows of the catalogue, the list in the cache, the updates and the
\* downloads keep their types, for any versions, callers, requests and inodes.
THEOREM VersionsTypeCorrect == Spec => []TypeOK
<1>1. VersionInv => TypeOK
  BY DEF VersionInv, JarInv, CatalogueInv, RowTypes, Updates, TypeOK
<1>2. QED
  BY <1>1, VersionInvAlways, PTL

\* However many updates overlap, and whatever they fetch, lose, store late or fail
\* to store, the active rows are the list that was committed last, less what a
\* clean-up deleted (upsert_version and deactivate_versions in one transaction).
THEOREM CatalogueIsOneList == Spec => []ActiveRowsAreOneList
<1>1. VersionInv => ActiveRowsAreOneList
  BY DEF VersionInv, CatalogueInv, RowsInv
<1>2. QED
  BY <1>1, VersionInvAlways, PTL

\* However many requests download and copy a JAR, whatever fails, is unlinked, is
\* evicted or crashes between them: what a server is delivered is every chunk of
\* one build, unless two requests wrote its file at the same time.
THEOREM JarsDeliveredWhole == Spec => []DeliveredWhole
<1>1. VersionInv => DeliveredWhole
  BY DeliveredFollows DEF VersionInv
<1>2. QED
  BY <1>1, VersionInvAlways, PTL

LEMMA BuildsRiseStep ==
    ASSUME VersionInv, Next, NEW v \in Versions,
           rows[v] # None, rows'[v] # None, rows'[v].build < rows[v].build
    PROVE  stale \/ \E c \in overtaken : update'[c] = Resting
<1>1. RowTypes /\ RowsInv /\ CatalogueInv
  BY DEF VersionInv, CatalogueInv
<1>2. rows # rows'
  BY <1>1, RowFields DEF RowTypes
<1>3. ASSUME NEW c \in Callers, NEW list \in Lists,
             \A w \in Versions : list[w] <= published[w],
             StoreVersions(c, list) \/ StoresNothing(c)
      PROVE  ~NewerThan(rows, list)
  BY <1>1, <1>3, CommitStep
<1>4. ASSUME NEW c \in Callers, BeginUpdate(c) PROVE stale
  <2>1. StoreVersions(c, cache) /\ cache # None
    BY <1>2, <1>4 DEF BeginUpdate, StoresNothing
  <2>2. cache \in Lists /\ \A w \in Versions : cache[w] <= published[w]
    BY <1>1, <2>1 DEF RowTypes, RowsInv, ListsPublished
  <2>3. ~NewerThan(rows, cache)
    BY <1>3, <2>1, <2>2
  <2>4. QED
    BY <1>1, <2>1, <2>3 DEF RowsInv, ListsNewer
<1>5. ASSUME NEW c \in Callers, FinishFetch(c) \/ FetchFails(c)
      PROVE  c \in overtaken /\ update'[c] = Resting
  <2>1. StoreVersions(c, update[c].list)
    BY <1>2, <1>5 DEF FinishFetch, FetchFails, StoresNothing
  <2>2. update[c].list \in Lists /\ \A w \in Versions : update[c].list[w] <= published[w]
    BY <1>1, CallerTypes
  <2>3. ~NewerThan(rows, update[c].list)
    BY <1>3, <2>1, <2>2
  <2>4. c \in overtaken
    BY <1>1, <2>3 DEF RowsInv, ListsNewer
  <2>5. update' = [update EXCEPT ![c] = Resting]
    BY <1>5 DEF FinishFetch, FetchFails, Ends, Succeeds, Raises
  <2>6. QED
    BY <1>1, <2>4, <2>5 DEF RowTypes
<1>6. ASSUME NEW some, Delete(some) PROVE FALSE
  <2>1. rows'[v] = None \/ rows'[v] = rows[v]
    BY <1>6 DEF Delete
  <2>2. QED
    BY <1>1, <2>1, RowFields DEF RowTypes
<1>7. ~UNCHANGED versionVars
  BY <1>2 DEF versionVars
<1>8. QED
  BY <1>2, <1>4, <1>5, <1>6, <1>7, CatalogueConstants
     DEF Next, GetServerJar, Publish, BeginTriggered, Manifest, FetchForge, FetchVersion,
         BeginScheduled, DayPasses, CacheExpires, CleanupVersions, ManagementCleanup, Restart

\* However updates overlap, retry and restart, a row goes back to an older build
\* only by an update that another one overtook, or by the list that such an update
\* left in the cache (update_versions, get_supported_versions).
THEOREM BuildsOnlyRise == Spec => BuildsRise
<1>1. VersionInv /\ [Next]_vars =>
        [\A v \in Versions :
            rows[v] # None /\ rows'[v] # None /\ rows'[v].build < rows[v].build
                => stale \/ \E c \in overtaken : update'[c] = Resting]_vars
  BY BuildsRiseStep
<1>2. QED
  BY <1>1, VersionInvAlways, PTL DEF Spec, BuildsRise

-----------------------------------------------------------------------------
(* The ports of servers and their daemons.                                   *)

StartStages == {"idle", "create", "restart", "syncing", "synced", "checked", "forked"}
StartRecord == [pc : StartStages, port : MaybePort]

PortTypes ==
    /\ row \in [Servers -> MaybePort]
    /\ file \in [Servers -> MaybePort]
    /\ active \in [Servers -> BOOLEAN]
    /\ start \in [Servers -> StartRecord]
    /\ daemon \in [Servers -> {"none", "loading", "serving"}]
    /\ bound \in [Servers -> MaybePort]
    /\ rcon \in [Servers -> RconPorts \cup {Unset}]
    /\ rconUp \in [Servers -> BOOLEAN]
    /\ excuse \in [Servers -> SUBSET Excuses]

(* What a server's row r, file f, activity a, start q, daemon d with its     *)
(* ports b, rc and up, and excuses e have to do with each other.             *)
Agree(r, f, a, q, d, b, rc, up, e) ==
    /\ q.pc = "create" => r = Unset
    /\ q.pc \notin {"create", "idle"} => r # Unset /\ q.port # Unset
    /\ q.pc \in {"create", "syncing", "synced", "checked", "forked"} => ~a
    /\ a => r # Unset
    /\ d # "none" => q.pc \in {"idle", "restart", "forked"} /\ r # Unset
    /\ q.pc \in {"restart", "synced", "checked", "forked"}
          => q.port = r \/ "edited" \in e
    /\ q.pc \in {"syncing", "synced"} => f = q.port \/ "edited" \in e
    /\ q.pc \in {"checked", "forked"} \/ d # "none"
          => f = r \/ "edited" \in e \/ "unread" \in e
    /\ d = "serving" <=> b # Unset
    /\ up => d = "serving" /\ rc # Unset
    /\ d = "serving" =>
          /\ b = r \/ "edited" \in e \/ "unread" \in e
          /\ up \/ rc = Unset \/ "rconOverlapped" \in e

AgreeAt(s) ==
    Agree(row[s], file[s], active[s], start[s], daemon[s], bound[s], rcon[s], rconUp[s],
          excuse[s])

(* Active, or past the check and about to be, or still being stopped.        *)
Busy(s) == active[s] \/ start[s].pc \in {"checked", "forked"} \/ daemon[s] # "none"

ApartOrExcused(s, t) ==
    (Busy(s) /\ Busy(t) /\ row[s] = row[t])
        => (excuse[s] \cup excuse[t]) \cap {"edited", "overlapped"} # {}

(* Whoever listens on the RCON port that s is about to take, or is about to  *)
(* take it as well, was overlooked.                                          *)
RconOrExcused(s, t) ==
    (/\ daemon[s] = "loading" /\ rcon[s] # Unset /\ rcon[t] = rcon[s]
     /\ rconUp[t] \/ daemon[t] = "loading")
        => "rconOverlapped" \in excuse[s]

PortsInv ==
    /\ PortTypes
    /\ \A s \in Servers : AgreeAt(s)
    /\ \A s, t \in Servers : s # t => ApartOrExcused(s, t) /\ RconOrExcused(s, t)

LEMMA PortConstants ==
    /\ Unset \notin Ports /\ Unset \notin RconPorts /\ Ports \subseteq Nat
    /\ RconPorts \subseteq Nat /\ DefaultPort \in Ports
    /\ Unset \in MaybePort /\ Ports \subseteq MaybePort /\ DefaultPort \in MaybePort
  BY PortsAssumption DEF MaybePort

LEMMA IdleIsStart == Idle \in StartRecord /\ Idle.pc = "idle" /\ Idle.port = Unset
  BY PortConstants DEF Idle, StartRecord, StartStages

LEMMA ServerTypes ==
    ASSUME PortTypes, NEW s \in Servers
    PROVE  /\ row[s] \in MaybePort /\ file[s] \in MaybePort /\ active[s] \in BOOLEAN
           /\ start[s] \in StartRecord /\ start[s].pc \in StartStages /\ start[s].port \in MaybePort
           /\ daemon[s] \in {"none", "loading", "serving"} /\ bound[s] \in MaybePort
           /\ rcon[s] \in RconPorts \cup {Unset} /\ rconUp[s] \in BOOLEAN
           /\ excuse[s] \in SUBSET Excuses
<1>1. start[s] \in StartRecord
  BY DEF PortTypes
<1>2. start[s].pc \in StartStages /\ start[s].port \in MaybePort
  BY <1>1 DEF StartRecord
<1>3. QED
  BY <1>1, <1>2 DEF PortTypes

(* What a step does to the other servers.                                    *)
OthersStay(s) ==
    \A t \in Servers : t # s =>
        /\ row'[t] = row[t] /\ file'[t] = file[t] /\ active'[t] = active[t]
        /\ start'[t] = start[t] /\ daemon'[t] = daemon[t] /\ bound'[t] = bound[t]
        /\ rcon'[t] = rcon[t] /\ rconUp'[t] = rconUp[t] /\ excuse[t] \subseteq excuse'[t]

LEMMA ServerMoves ==
    ASSUME PortsInv, NEW s \in Servers, PortTypes', OthersStay(s), AgreeAt(s)',
           \/ ~Busy(s)'
           \/ "edited" \in excuse'[s]
           \/ Busy(s) /\ row'[s] = row[s] /\ excuse[s] \subseteq excuse'[s]
           \/ \A t \in Servers \ {s} :
                 (Busy(t) /\ row[t] = row'[s]) => "overlapped" \in excuse'[s],
           \/ /\ daemon'[s] = daemon[s] /\ rcon'[s] = rcon[s] /\ rconUp'[s] = rconUp[s]
              /\ daemon[s] # "none" => excuse[s] \cap {"rconOverlapped"} \subseteq excuse'[s]
           \/ daemon'[s] # "loading" /\ ~rconUp'[s]
           \/ daemon[s] = "loading" /\ daemon'[s] # "loading" /\ rcon'[s] = rcon[s]
           \/ \A t \in Servers \ {s} : RconOrExcused(s, t)' /\ RconOrExcused(t, s)'
    PROVE  PortsInv'
<1>1. ASSUME NEW t \in Servers PROVE AgreeAt(t)'
  <2>1. CASE t = s
    BY <2>1
  <2>2. CASE t # s
    BY <2>2 DEF PortsInv, AgreeAt, Agree, OthersStay
  <2>3. QED
    BY <2>1, <2>2
<1>2. ASSUME NEW t \in Servers, t # s
      PROVE  ApartOrExcused(s, t)' /\ ApartOrExcused(t, s)'
  <2>1. Busy(t)' = Busy(t) /\ row'[t] = row[t] /\ excuse[t] \subseteq excuse'[t]
    BY <1>2 DEF OthersStay, Busy
  <2>2. ApartOrExcused(s, t)
    BY <1>2 DEF PortsInv
  <2>3. ASSUME Busy(s)', Busy(t), row'[s] = row[t]
        PROVE  (excuse'[s] \cup excuse'[t]) \cap {"edited", "overlapped"} # {}
    <3>1. CASE "edited" \in excuse'[s] \/ "overlapped" \in excuse'[s]
      BY <3>1
    <3>2. CASE Busy(s) /\ row'[s] = row[s] /\ excuse[s] \subseteq excuse'[s]
      BY <2>1, <2>2, <2>3, <3>2 DEF ApartOrExcused
    <3>3. QED
      BY <1>2, <2>3, <3>1, <3>2
  <2>4. QED
    BY <2>1, <2>3 DEF ApartOrExcused
<1>3. ASSUME NEW t \in Servers, t # s
      PROVE  RconOrExcused(s, t)' /\ RconOrExcused(t, s)'
  BY <1>3 DEF PortsInv, OthersStay, RconOrExcused
<1>4. ASSUME NEW t \in Servers, NEW u \in Servers, t # u, t # s, u # s
      PROVE  ApartOrExcused(t, u)' /\ RconOrExcused(t, u)'
  BY <1>4 DEF PortsInv, OthersStay, ApartOrExcused, RconOrExcused, Busy
<1>5. QED
  BY <1>1, <1>2, <1>3, <1>4 DEF PortsInv

(* A step of a request or of a client, which the daemons do not notice.      *)
LEMMA RequestMoves ==
    ASSUME PortsInv, NEW s \in Servers,
           NEW r \in MaybePort, NEW f \in MaybePort, NEW a \in BOOLEAN,
           NEW q \in StartRecord, NEW e \in SUBSET Excuses,
           row' = [row EXCEPT ![s] = r], file' = [file EXCEPT ![s] = f],
           active' = [active EXCEPT ![s] = a], start' = [start EXCEPT ![s] = q],
           excuse' = [excuse EXCEPT ![s] = e],
           UNCHANGED <<daemon, bound, rcon, rconUp>>,
           Agree(r, f, a, q, daemon[s], bound[s], rcon[s], rconUp[s], e),
           \/ ~a /\ q.pc \notin {"checked", "forked"} /\ daemon[s] = "none"
           \/ "edited" \in e
           \/ Busy(s) /\ r = row[s] /\ excuse[s] \subseteq e
           \/ \A t \in Servers \ {s} : (Busy(t) /\ row[t] = r) => "overlapped" \in e,
           daemon[s] # "none" => excuse[s] \cap {"rconOverlapped"} \subseteq e
    PROVE  PortsInv'
<1>1. PortTypes
  BY DEF PortsInv
<1>2. /\ row'[s] = r /\ file'[s] = f /\ active'[s] = a /\ start'[s] = q /\ excuse'[s] = e
      /\ \A t \in Servers : t # s =>
            /\ row'[t] = row[t] /\ file'[t] = file[t] /\ active'[t] = active[t]
            /\ start'[t] = start[t] /\ excuse'[t] = excuse[t]
  BY <1>1 DEF PortTypes
<1>3. PortTypes'
  BY <1>1 DEF PortTypes
<1>4. OthersStay(s)
  BY <1>2 DEF OthersStay
<1>5. AgreeAt(s)'
  BY <1>2 DEF AgreeAt
<1>6. \/ ~Busy(s)'
      \/ "edited" \in excuse'[s]
      \/ Busy(s) /\ row'[s] = row[s] /\ excuse[s] \subseteq excuse'[s]
      \/ \A t \in Servers \ {s} : (Busy(t) /\ row[t] = row'[s]) => "overlapped" \in excuse'[s]
  BY <1>2 DEF Busy
<1>7. /\ daemon'[s] = daemon[s] /\ rcon'[s] = rcon[s] /\ rconUp'[s] = rconUp[s]
      /\ daemon[s] # "none" => excuse[s] \cap {"rconOverlapped"} \subseteq excuse'[s]
  BY <1>2
<1>8. QED
  BY <1>3, <1>4, <1>5, <1>6, <1>7, ServerMoves

(* A variable that does not change at s.                                     *)
LEMMA Untouched ==
    ASSUME PortTypes, NEW s \in Servers
    PROVE  /\ row' = row => row' = [row EXCEPT ![s] = row[s]]
           /\ file' = file => file' = [file EXCEPT ![s] = file[s]]
           /\ active' = active => active' = [active EXCEPT ![s] = active[s]]
           /\ start' = start => start' = [start EXCEPT ![s] = start[s]]
           /\ excuse' = excuse => excuse' = [excuse EXCEPT ![s] = excuse[s]]
  BY DEF PortTypes

(* A request goes on or ends, and perhaps has overlooked something.          *)
LEMMA StartMoves ==
    ASSUME PortsInv, NEW s \in Servers, NEW q \in StartRecord, NEW e \in SUBSET Excuses,
           start' = [start EXCEPT ![s] = q],
           excuse' = [excuse EXCEPT ![s] = e] \/ (excuse' = excuse /\ e = excuse[s]),
           UNCHANGED <<row, file, active, daemon, bound, rcon, rconUp>>,
           Agree(row[s], file[s], active[s], q, daemon[s], bound[s], rcon[s], rconUp[s], e),
           \/ ~active[s] /\ q.pc \notin {"checked", "forked"} /\ daemon[s] = "none"
           \/ Busy(s) /\ excuse[s] \subseteq e
           \/ "edited" \in e
           \/ \A t \in Servers \ {s} : (Busy(t) /\ row[t] = row[s]) => "overlapped" \in e,
           daemon[s] # "none" => excuse[s] \cap {"rconOverlapped"} \subseteq e
    PROVE  PortsInv'
<1>1. PortTypes
  BY DEF PortsInv
<1>2. row[s] \in MaybePort /\ file[s] \in MaybePort /\ active[s] \in BOOLEAN
  BY <1>1, ServerTypes
<1>3. row' = [row EXCEPT ![s] = row[s]]
  BY <1>1, Untouched
<1>4. file' = [file EXCEPT ![s] = file[s]]
  BY <1>1, Untouched
<1>5. active' = [active EXCEPT ![s] = active[s]]
  BY <1>1, Untouched
<1>6. excuse' = [excuse EXCEPT ![s] = e]
  BY <1>1, Untouched
<1>7. UNCHANGED <<daemon, bound, rcon, rconUp>>
  OBVIOUS
<1>8. \/ ~active[s] /\ q.pc \notin {"checked", "forked"} /\ daemon[s] = "none"
      \/ "edited" \in e
      \/ Busy(s) /\ row[s] = row[s] /\ excuse[s] \subseteq e
      \/ \A t \in Servers \ {s} : (Busy(t) /\ row[t] = row[s]) => "overlapped" \in e
  OBVIOUS
<1>9. Agree(row[s], file[s], active[s], q, daemon[s], bound[s], rcon[s], rconUp[s], e)
  OBVIOUS
<1>10. daemon[s] # "none" => excuse[s] \cap {"rconOverlapped"} \subseteq e
  OBVIOUS
<1>11. start' = [start EXCEPT ![s] = q]
  OBVIOUS
<1>12. PortsInv
  OBVIOUS
<1>13. QED
  BY ONLY <1>2, <1>3, <1>4, <1>5, <1>6, <1>7, <1>8, <1>9, <1>10, <1>11, <1>12, RequestMoves

LEMMA FirstFreeTypes == FirstFree \in MaybePort
<1> DEFINE free == {p \in Ports : p >= DefaultPort /\ Holders(p) = {}}
<1>1. free \subseteq Nat /\ free \subseteq Ports
  BY PortConstants
<1>2. FirstFree = IF free = {} THEN Unset ELSE Min(free)
  BY DEF FirstFree
<1> HIDE DEF free
<1>3. free # {} => Min(free) \in Ports
  BY <1>1, LeastExists
<1>4. QED
  BY <1>2, <1>3, PortConstants

LEMMA RconChoiceFree ==
    ASSUME NEW s \in Servers
    PROVE  /\ RconChoice(s) \in RconPorts \cup {Unset}
           /\ RconChoice(s) # Unset => ~RconListening(RconChoice(s))
<1> DEFINE free == {p \in RconPorts : ~RconListening(p)}
<1>1. free \subseteq Nat
  BY PortConstants
<1>2. RconChoice(s) = IF free = {} THEN Unset ELSE Min(free)
  BY DEF RconChoice
<1>3. free # {} => Min(free) \in free
  <2> HIDE DEF free
  <2>1. QED
    BY <1>1, LeastExists
<1>4. QED
  BY <1>2, <1>3

LEMMA CreateStep ==
    ASSUME PortsInv, NEW s \in Servers,
           \/ \E p \in Requested : CreateChecks(s, p)
           \/ \E p \in MaybePort : CreateInserts(s, p)
           \/ CreateFails(s)
    PROVE  PortsInv'
<1>1. PortTypes /\ AgreeAt(s)
  BY DEF PortsInv
<1>2. CASE \E p \in Requested : CreateChecks(s, p)
  <2>1. PICK p \in Requested : CreateChecks(s, p)
    BY <1>2
  <2> DEFINE given == IF p = Unset THEN FirstFree ELSE p
             q == [pc |-> "create", port |-> given]
  <2>2. given \in MaybePort
    BY FirstFreeTypes DEF Requested, MaybePort
  <2>3. q \in StartRecord /\ q.pc = "create"
    BY <2>2 DEF StartRecord, StartStages
  <2>4. /\ row[s] = Unset /\ start[s].pc = "idle"
        /\ start' = [start EXCEPT ![s] = q]
        /\ UNCHANGED <<row, file, active, daemon, bound, rcon, rconUp, excuse>>
    BY <2>1 DEF CreateChecks, osVars
  <2> HIDE DEF q
  <2>5. Agree(row[s], file[s], active[s], q, daemon[s], bound[s], rcon[s], rconUp[s], excuse[s])
        /\ ~active[s] /\ daemon[s] = "none"
    BY <1>1, <2>3, <2>4 DEF AgreeAt, Agree
  <2>6. excuse[s] \in SUBSET Excuses /\ q.pc \notin {"checked", "forked"}
    BY <1>1, <2>3, ServerTypes
  <2>7. QED
    BY <2>3, <2>4, <2>5, <2>6, StartMoves
<1>3. CASE \E p \in MaybePort : CreateInserts(s, p)
  <2>1. PICK p \in MaybePort : CreateInserts(s, p)
    BY <1>3
  <2> DEFINE f == IF p = Unset THEN start[s].port ELSE p
  <2>2. f \in MaybePort
    BY <1>1, ServerTypes
  <2>3. /\ start[s].pc = "create"
        /\ row' = [row EXCEPT ![s] = start[s].port]
        /\ file' = [file EXCEPT ![s] = f]
        /\ start' = [start EXCEPT ![s] = Idle]
        /\ UNCHANGED <<active, daemon, bound, rcon, rconUp, excuse>>
    BY <2>1 DEF CreateInserts, osVars
  <2> HIDE DEF f
  <2>4. Agree(start[s].port, f, active[s], Idle, daemon[s], bound[s], rcon[s], rconUp[s],
              excuse[s])
        /\ ~active[s] /\ daemon[s] = "none"
    BY <1>1, <2>3, IdleIsStart DEF AgreeAt, Agree
  <2>5. active' = [active EXCEPT ![s] = active[s]] /\ excuse' = [excuse EXCEPT ![s] = excuse[s]]
    BY <1>1, <2>3, Untouched
  <2>6. /\ start[s].port \in MaybePort /\ active[s] \in BOOLEAN
        /\ excuse[s] \in SUBSET Excuses /\ Idle.pc \notin {"checked", "forked"}
    BY <1>1, ServerTypes, IdleIsStart
  <2>7. UNCHANGED <<daemon, bound, rcon, rconUp>>
    BY <2>3
  <2>8. QED
    BY <2>2, <2>3, <2>4, <2>5, <2>6, <2>7, IdleIsStart, RequestMoves
<1>4. CASE CreateFails(s)
  <2>1. /\ start[s].pc = "create"
        /\ start' = [start EXCEPT ![s] = Idle]
        /\ UNCHANGED <<row, file, active, daemon, bound, rcon, rconUp, excuse>>
    BY <1>4 DEF CreateFails, osVars
  <2>2. Agree(row[s], file[s], active[s], Idle, daemon[s], bound[s], rcon[s], rconUp[s],
              excuse[s])
        /\ ~active[s] /\ daemon[s] = "none"
    BY <1>1, <2>1, IdleIsStart DEF AgreeAt, Agree
  <2>3. excuse[s] \in SUBSET Excuses /\ Idle.pc \notin {"checked", "forked"}
    BY <1>1, ServerTypes, IdleIsStart
  <2>4. QED
    BY <2>1, <2>2, <2>3, IdleIsStart, StartMoves
<1>5. QED
  BY <1>2, <1>3, <1>4

(* A change of the row or the file, which a start under way is excused for.  *)
LEMMA EditMoves ==
    ASSUME PortsInv, NEW s \in Servers, NEW r \in MaybePort, NEW f \in MaybePort,
           row[s] # Unset, r # Unset,
           row' = [row EXCEPT ![s] = r], file' = [file EXCEPT ![s] = f],
           Edited(s), UNCHANGED <<active, start, daemon, bound, rcon, rconUp>>
    PROVE  PortsInv'
<1> DEFINE e == IF Unstarted(s) THEN {} ELSE {"edited"} \cup (excuse[s] \cap {"rconOverlapped"})
<1>1. PortTypes /\ AgreeAt(s)
  BY DEF PortsInv
<1>2. e \in SUBSET Excuses
  BY <1>1, ServerTypes DEF Excuses
<1>3. excuse' = [excuse EXCEPT ![s] = e]
  BY <1>1 DEF Edited, PortTypes
<1>4. Unstarted(s) \/ ("edited" \in e /\ excuse[s] \cap {"rconOverlapped"} \subseteq e)
  OBVIOUS
<1> HIDE DEF e
<1>5. Agree(r, f, active[s], start[s], daemon[s], bound[s], rcon[s], rconUp[s], e)
  BY <1>1, <1>4 DEF AgreeAt, Agree, Unstarted
<1>6. \/ ~active[s] /\ start[s].pc \notin {"checked", "forked"} /\ daemon[s] = "none"
      \/ "edited" \in e
      \/ Busy(s) /\ r = row[s] /\ excuse[s] \subseteq e
      \/ \A t \in Servers \ {s} : (Busy(t) /\ row[t] = r) => "overlapped" \in e
  BY <1>4 DEF Unstarted
<1>7. daemon[s] # "none" => excuse[s] \cap {"rconOverlapped"} \subseteq e
  BY <1>4 DEF Unstarted
<1>8. active' = [active EXCEPT ![s] = active[s]] /\ start' = [start EXCEPT ![s] = start[s]]
  BY <1>1, Untouched
<1>9. active[s] \in BOOLEAN /\ start[s] \in StartRecord
  BY <1>1, ServerTypes
<1>10. UNCHANGED <<daemon, bound, rcon, rconUp>>
  OBVIOUS
<1>11. row' = [row EXCEPT ![s] = r] /\ file' = [file EXCEPT ![s] = f]
  OBVIOUS
<1>12. PortsInv
  OBVIOUS
<1>13. QED
  BY ONLY <1>2, <1>3, <1>5, <1>6, <1>7, <1>8, <1>9, <1>10, <1>11, <1>12, RequestMoves

LEMMA EditStep ==
    ASSUME PortsInv, NEW s \in Servers,
           \/ \E p \in MaybePort : EditFile(s, p)
           \/ \E p \in Requested, q \in MaybePort : Update(s, p, q)
           \/ \E p \in Ports : UpdateFileOnly(s, p)
    PROVE  PortsInv'
<1>1. PortTypes
  BY DEF PortsInv
<1>2. row[s] \in MaybePort /\ file[s] \in MaybePort
  BY <1>1, ServerTypes
<1>3. CASE (\E p \in MaybePort : EditFile(s, p)) \/ (\E p \in Ports : UpdateFileOnly(s, p))
  <2>1. PICK p \in MaybePort : EditFile(s, p) \/ UpdateFileOnly(s, p)
    BY <1>3, PortConstants
  <2>2. row' = [row EXCEPT ![s] = row[s]]
    BY <1>1, <2>1, Untouched DEF EditFile, UpdateFileOnly
  <2>3. /\ row[s] # Unset /\ file' = [file EXCEPT ![s] = p] /\ Edited(s)
        /\ UNCHANGED <<active, start, daemon, bound, rcon, rconUp>>
    BY <2>1 DEF EditFile, UpdateFileOnly, osVars
  <2>4. QED
    BY <1>2, <2>2, <2>3, EditMoves
<1>4. CASE \E p \in Requested, q \in MaybePort : Update(s, p, q)
  <2>1. PICK p \in Requested, q \in MaybePort : Update(s, p, q)
    BY <1>4
  <2> DEFINE wanted == IF q # Unset /\ q # row[s] THEN q ELSE p
             new == IF wanted = Unset THEN row[s] ELSE wanted
             written == IF q = Unset THEN new ELSE q
  <2>2. /\ row[s] # Unset /\ row' = [row EXCEPT ![s] = new] /\ Edited(s)
        /\ UNCHANGED <<active, start, daemon, bound, rcon, rconUp>>
    BY <2>1 DEF Update, osVars
  <2>3. new \in MaybePort /\ new # Unset /\ written \in MaybePort
    BY <1>2, <2>2 DEF Requested, MaybePort
  <2>4. file' = [file EXCEPT ![s] = written] \/ file' = [file EXCEPT ![s] = file[s]]
    BY <1>1, <2>1, Untouched DEF Update
  <2> HIDE DEF new, written
  <2>5. PICK f \in MaybePort : file' = [file EXCEPT ![s] = f]
    BY <1>2, <2>3, <2>4
  <2>6. QED
    BY <2>2, <2>3, <2>5, EditMoves
<1>5. QED
  BY <1>3, <1>4

LEMMA RestartRequestStep ==
    ASSUME PortsInv, NEW s \in Servers, RestartBegins(s) \/ RestartFails(s)
    PROVE  PortsInv'
<1>1. PortTypes /\ AgreeAt(s)
  BY DEF PortsInv
<1>2. /\ active[s] \/ daemon[s] # "none"
      /\ start[s].pc \in {"idle", "restart"}
      /\ UNCHANGED <<row, file, active, daemon, bound, rcon, rconUp>> /\ excuse' = excuse
  BY DEF RestartBegins, RestartFails, osVars
<1>3. PICK q \in StartRecord :
         /\ q.pc \in {"idle", "restart"} /\ (q.pc = "restart" => q.port = row[s])
         /\ start' = [start EXCEPT ![s] = q]
  <2>1. CASE RestartBegins(s)
    <3> DEFINE q == [pc |-> "restart", port |-> row[s]]
    <3>1. q \in StartRecord /\ q.pc = "restart" /\ q.port = row[s]
      BY <1>1, ServerTypes DEF StartRecord, StartStages
    <3>2. start' = [start EXCEPT ![s] = q]
      BY <2>1 DEF RestartBegins
    <3> HIDE DEF q
    <3>3. QED
      BY <3>1, <3>2
  <2>2. CASE RestartFails(s)
    BY <2>2, IdleIsStart DEF RestartFails
  <2>3. QED
    BY <2>1, <2>2
<1>4. Agree(row[s], file[s], active[s], q, daemon[s], bound[s], rcon[s], rconUp[s], excuse[s])
  BY <1>1, <1>2, <1>3 DEF AgreeAt, Agree
<1>5. Busy(s) /\ excuse[s] \subseteq excuse[s] /\ excuse[s] \in SUBSET Excuses
  BY <1>1, <1>2, ServerTypes DEF Busy
<1>6. QED
  BY <1>2, <1>3, <1>4, <1>5, StartMoves

(* What a failed start leaves behind excuses nothing any more.               *)
LEMMA StartEnds ==
    ASSUME PortsInv, NEW s \in Servers,
           start[s].pc # "create", ~active[s], daemon[s] = "none",
           start' = [start EXCEPT ![s] = Idle], excuse' = [excuse EXCEPT ![s] = {}],
           UNCHANGED <<row, file, active, daemon, bound, rcon, rconUp>>
    PROVE  PortsInv'
<1>1. PortTypes /\ AgreeAt(s)
  BY DEF PortsInv
<1>2. Agree(row[s], file[s], active[s], Idle, daemon[s], bound[s], rcon[s], rconUp[s], {})
  BY <1>1, IdleIsStart DEF AgreeAt, Agree
<1>3. /\ {} \in SUBSET Excuses /\ ~active[s] /\ Idle.pc \notin {"checked", "forked"}
      /\ (daemon[s] # "none" => excuse[s] \cap {"rconOverlapped"} \subseteq {})
  BY IdleIsStart
<1>4. QED
  BY <1>2, <1>3, IdleIsStart, StartMoves

(* The port check of a start whose port is the row's and the file's, as far  *)
(* as it could know.                                                         *)
LEMMA CheckMoves ==
    ASSUME PortsInv, NEW s \in Servers, NEW p \in MaybePort,
           p # Unset, row[s] # Unset, start[s].pc # "create", ~active[s], daemon[s] = "none",
           p = row[s] \/ "edited" \in excuse[s],
           file[s] = p \/ FilePort(s) = Unset \/ "edited" \in excuse[s],
           Check(s, p, excuse[s]),
           UNCHANGED <<row, file, active, daemon, bound, rcon, rconUp>>
    PROVE  PortsInv'
<1>1. PortTypes /\ AgreeAt(s)
  BY DEF PortsInv
<1>2. CASE ~Available(s, p)
  <2>1. start' = [start EXCEPT ![s] = Idle] /\ excuse' = [excuse EXCEPT ![s] = {}]
    BY <1>2 DEF Check
  <2>2. QED
    BY <2>1, StartEnds
<1>3. CASE Available(s, p)
  <2> DEFINE q == [pc |-> "checked", port |-> p]
             e == IF "edited" \in excuse[s] THEN excuse[s] ELSE excuse[s] \cup Overlooked(s, p)
  <2>1. start' = [start EXCEPT ![s] = q] /\ excuse' = [excuse EXCEPT ![s] = e]
    BY <1>3 DEF Check
  <2>2. q \in StartRecord /\ q.pc = "checked" /\ q.port = p
    BY DEF StartRecord, StartStages
  <2>3. e \in SUBSET Excuses
    BY <1>1, ServerTypes DEF Overlooked, Excuses
  <2>4. /\ excuse[s] \subseteq e
        /\ (\E t \in Servers \ {s} :
               /\ row[t] = p
               /\ start[t].pc \in {"checked", "forked"} \/ (~active[t] /\ daemon[t] # "none"))
                  => "edited" \in e \/ "overlapped" \in e
        /\ FilePort(s) = Unset /\ file[s] # p => "edited" \in e \/ "unread" \in e
    BY DEF Overlooked
  <2> HIDE DEF q, e
  <2>5. Agree(row[s], file[s], active[s], q, daemon[s], bound[s], rcon[s], rconUp[s], e)
    BY <1>1, <2>2, <2>4 DEF AgreeAt, Agree
  <2>6. "edited" \in e \/ \A t \in Servers \ {s} : (Busy(t) /\ row[t] = row[s]) => "overlapped" \in e
    <3>1. CASE p # row[s]
      BY <2>4, <3>1
    <3>2. CASE p = row[s]
      <4>1. \A t \in Servers \ {s} : active[t] => row[t] # row[s]
        BY <1>3, <3>2 DEF Available, Holders
      <4>2. QED
        BY <2>4, <4>1 DEF Busy
    <3>3. QED
      BY <3>1, <3>2
  <2>7. \/ ~active[s] /\ q.pc \notin {"checked", "forked"} /\ daemon[s] = "none"
        \/ Busy(s) /\ excuse[s] \subseteq e
        \/ "edited" \in e
        \/ \A t \in Servers \ {s} : (Busy(t) /\ row[t] = row[s]) => "overlapped" \in e
    BY <2>6
  <2>8. daemon[s] # "none" => excuse[s] \cap {"rconOverlapped"} \subseteq e
    BY <2>4
  <2>9. PortsInv /\ UNCHANGED <<row, file, active, daemon, bound, rcon, rconUp>>
    OBVIOUS
  <2>10. start' = [start EXCEPT ![s] = q] /\ excuse' = [excuse EXCEPT ![s] = e]
    BY <2>1
  <2>11. q \in StartRecord
    BY <2>2
  <2>12. QED
    BY ONLY <2>3, <2>5, <2>7, <2>8, <2>9, <2>10, <2>11, StartMoves
<1>4. QED
  BY <1>2, <1>3

LEMMA FilePortRead == ASSUME NEW s \in Servers PROVE FilePort(s) # Unset => file[s] = FilePort(s)
  BY DEF FilePort

LEMMA CheckStep ==
    ASSUME PortsInv, NEW s \in Servers, BeginChecked(s) \/ CheckSynced(s)
    PROVE  PortsInv'
<1>1. PortTypes /\ AgreeAt(s)
  BY DEF PortsInv
<1>2. CASE BeginChecked(s)
  <2>1. /\ row[s] # Unset /\ ~active[s] /\ daemon[s] = "none"
        /\ start[s].pc \in {"idle", "restart"} /\ FilePort(s) \in {Unset, RowRead(s)}
        /\ Check(s, RowRead(s), excuse[s])
        /\ UNCHANGED <<row, file, active, daemon, bound, rcon, rconUp>>
    BY <1>2 DEF BeginChecked, Startable, osVars
  <2>2. RowRead(s) \in MaybePort /\ RowRead(s) # Unset
    BY <1>1, <2>1, ServerTypes DEF RowRead, AgreeAt, Agree
  <2>3. RowRead(s) = row[s] \/ "edited" \in excuse[s]
    BY <1>1, <2>1 DEF RowRead, AgreeAt, Agree
  <2>4. file[s] = RowRead(s) \/ FilePort(s) = Unset \/ "edited" \in excuse[s]
    BY <2>1, FilePortRead
  <2>5. start[s].pc # "create"
    BY <2>1
  <2>6. QED
    BY <2>1, <2>2, <2>3, <2>4, <2>5, CheckMoves
<1>3. CASE CheckSynced(s)
  <2>1. /\ start[s].pc = "synced" /\ Check(s, start[s].port, excuse[s])
        /\ UNCHANGED <<row, file, active, daemon, bound, rcon, rconUp>>
    BY <1>3 DEF CheckSynced, osVars
  <2>2. /\ start[s].port \in MaybePort /\ start[s].port # Unset /\ row[s] # Unset
        /\ ~active[s] /\ daemon[s] = "none"
        /\ start[s].port = row[s] \/ "edited" \in excuse[s]
        /\ file[s] = start[s].port \/ FilePort(s) = Unset \/ "edited" \in excuse[s]
    BY <1>1, <2>1, ServerTypes DEF AgreeAt, Agree
  <2>3. start[s].pc # "create"
    BY <2>1
  <2>4. QED
    BY <2>1, <2>2, <2>3, CheckMoves
<1>4. QED
  BY <1>2, <1>3

LEMMA SyncStep ==
    ASSUME PortsInv, NEW s \in Servers, BeginSync(s) \/ SyncCommits(s)
    PROVE  PortsInv'
<1>1. PortTypes /\ AgreeAt(s)
  BY DEF PortsInv
<1>2. excuse[s] \in SUBSET Excuses /\ start[s].port \in MaybePort /\ file[s] \in MaybePort
      /\ start[s] \in StartRecord /\ active[s] \in BOOLEAN
  BY <1>1, ServerTypes
<1>3. CASE BeginSync(s)
  <2> DEFINE q == [pc |-> "syncing", port |-> FilePort(s)]
  <2>1. /\ row[s] # Unset /\ ~active[s] /\ daemon[s] = "none"
        /\ FilePort(s) # Unset /\ start' = [start EXCEPT ![s] = q]
        /\ UNCHANGED <<row, file, active, daemon, bound, rcon, rconUp>> /\ excuse' = excuse
    BY <1>3 DEF BeginSync, Startable, osVars
  <2>2. file[s] = FilePort(s)
    BY <2>1, FilePortRead
  <2>3. q \in StartRecord /\ q.pc = "syncing" /\ q.port = file[s]
    BY <1>2, <2>2 DEF StartRecord, StartStages
  <2> HIDE DEF q
  <2>4. Agree(row[s], file[s], active[s], q, daemon[s], bound[s], rcon[s], rconUp[s], excuse[s])
    BY <1>1, <2>1, <2>2, <2>3 DEF AgreeAt, Agree
  <2>5. ~active[s] /\ q.pc \notin {"checked", "forked"} /\ daemon[s] = "none"
    BY <2>1, <2>3
  <2>6. QED
    BY <1>2, <2>1, <2>3, <2>4, <2>5, StartMoves
<1>4. CASE SyncCommits(s)
  <2> DEFINE q == [start[s] EXCEPT !.pc = "synced"]
  <2>1. /\ start[s].pc = "syncing" /\ row' = [row EXCEPT ![s] = start[s].port]
        /\ start' = [start EXCEPT ![s] = q]
        /\ UNCHANGED <<daemon, bound, rcon, rconUp>>
        /\ file' = file /\ active' = active /\ excuse' = excuse
    BY <1>4 DEF SyncCommits, osVars
  <2>2. q \in StartRecord /\ q.pc = "synced" /\ q.port = start[s].port
    BY <1>2 DEF StartRecord, StartStages
  <2> HIDE DEF q
  <2>3. Agree(start[s].port, file[s], active[s], q, daemon[s], bound[s], rcon[s], rconUp[s],
              excuse[s])
    BY <1>1, <2>1, <2>2 DEF AgreeAt, Agree
  <2>4. ~active[s] /\ q.pc \notin {"checked", "forked"} /\ daemon[s] = "none"
    BY <1>1, <2>1, <2>2 DEF AgreeAt, Agree
  <2>5. /\ file' = [file EXCEPT ![s] = file[s]] /\ active' = [active EXCEPT ![s] = active[s]]
        /\ excuse' = [excuse EXCEPT ![s] = excuse[s]]
    BY <1>1, <2>1, Untouched
  <2>6. row' = [row EXCEPT ![s] = start[s].port] /\ start' = [start EXCEPT ![s] = q]
        /\ UNCHANGED <<daemon, bound, rcon, rconUp>>
    BY <2>1
  <2>7. QED
    BY <1>2, <2>2, <2>3, <2>4, <2>5, <2>6, RequestMoves
<1>5. QED
  BY <1>3, <1>4

LEMMA GiveUpStep ==
    ASSUME PortsInv, NEW s \in Servers, SyncFails(s) \/ Refused(s) \/ StartDied(s)
    PROVE  PortsInv'
<1>1. AgreeAt(s)
  BY DEF PortsInv
<1>2. /\ start[s].pc \in {"syncing", "checked", "forked"}
      /\ start[s].pc = "forked" => daemon[s] = "none"
      /\ start' = [start EXCEPT ![s] = Idle] /\ excuse' = [excuse EXCEPT ![s] = {}]
      /\ UNCHANGED <<row, file, active, daemon, bound, rcon, rconUp>>
  BY DEF SyncFails, Refused, StartDied, osVars
<1>3. start[s].pc # "create" /\ ~active[s] /\ daemon[s] = "none"
  BY <1>1, <1>2 DEF AgreeAt, Agree
<1>4. QED
  BY <1>2, <1>3, StartEnds

LEMMA RememberedTypes ==
    ASSUME NEW s \in Servers
    PROVE  /\ Remembered(s) \in SUBSET Excuses
           /\ start[s].pc = "restart" /\ start[s].port # row[s] => "edited" \in Remembered(s)
  BY DEF Remembered, Excuses

LEMMA StatusStep ==
    ASSUME PortsInv, NEW s \in Servers,
           Registered(s) \/ SeenStopped(s) \/ StopBegins(s) \/ SeenRunning(s)
    PROVE  PortsInv'
<1>1. PortTypes /\ AgreeAt(s)
  BY DEF PortsInv
<1>2. row[s] \in MaybePort /\ file[s] \in MaybePort /\ start[s] \in StartRecord
      /\ excuse[s] \in SUBSET Excuses
  BY <1>1, ServerTypes
<1>3. row' = row /\ file' = file /\ UNCHANGED <<daemon, bound, rcon, rconUp>>
  BY DEF Registered, SeenStopped, StopBegins, SeenRunning, osVars
<1>4. row' = [row EXCEPT ![s] = row[s]] /\ file' = [file EXCEPT ![s] = file[s]]
  BY <1>1, <1>3, Untouched
<1>5. CASE Registered(s)
  <2>1. /\ start[s].pc = "forked" /\ start' = [start EXCEPT ![s] = Idle]
        /\ active' = [active EXCEPT ![s] = TRUE] /\ excuse' = excuse
    BY <1>5 DEF Registered
  <2>2. excuse' = [excuse EXCEPT ![s] = excuse[s]]
    BY <1>1, <2>1, Untouched
  <2>3. Agree(row[s], file[s], TRUE, Idle, daemon[s], bound[s], rcon[s], rconUp[s], excuse[s])
    BY <1>1, <2>1, IdleIsStart DEF AgreeAt, Agree
  <2>4. Busy(s) /\ row[s] = row[s] /\ excuse[s] \subseteq excuse[s] /\ TRUE \in BOOLEAN
    BY <2>1 DEF Busy
  <2>5. QED
    BY <1>2, <1>3, <1>4, <2>1, <2>2, <2>3, <2>4, IdleIsStart, RequestMoves
<1>6. CASE SeenStopped(s)
  <2> DEFINE e == Remembered(s)
  <2>1. /\ active[s] /\ daemon[s] = "none" /\ start' = start
        /\ active' = [active EXCEPT ![s] = FALSE] /\ excuse' = [excuse EXCEPT ![s] = e]
    BY <1>6 DEF SeenStopped
  <2>2. e \in SUBSET Excuses /\ ((start[s].pc = "restart" /\ start[s].port # row[s]) => "edited" \in e)
    BY RememberedTypes
  <2> HIDE DEF e
  <2>3. start' = [start EXCEPT ![s] = start[s]]
    BY <1>1, <2>1, Untouched
  <2>4. start[s].pc \in {"idle", "restart"}
    BY <1>1, <2>1, ServerTypes DEF AgreeAt, Agree, StartStages
  <2>5. Agree(row[s], file[s], FALSE, start[s], daemon[s], bound[s], rcon[s], rconUp[s], e)
    BY <1>1, <2>1, <2>2, <2>4 DEF AgreeAt, Agree
  <2>6. /\ ~FALSE /\ start[s].pc \notin {"checked", "forked"} /\ daemon[s] = "none"
        /\ FALSE \in BOOLEAN
        /\ (daemon[s] # "none" => excuse[s] \cap {"rconOverlapped"} \subseteq e)
    BY <2>1, <2>4
  <2>7. QED
    BY <1>2, <1>3, <1>4, <2>1, <2>2, <2>3, <2>5, <2>6, RequestMoves
<1>7. CASE StopBegins(s) \/ SeenRunning(s)
  <2>1. PICK a \in BOOLEAN :
           /\ active' = [active EXCEPT ![s] = a]
           /\ a => start[s].pc # "forked"
    BY <1>7 DEF StopBegins, SeenRunning
  <2>2. daemon[s] # "none" /\ start' = start /\ excuse' = excuse
    BY <1>7 DEF StopBegins, SeenRunning
  <2>3. start' = [start EXCEPT ![s] = start[s]] /\ excuse' = [excuse EXCEPT ![s] = excuse[s]]
    BY <1>1, <2>2, Untouched
  <2>4. Agree(row[s], file[s], a, start[s], daemon[s], bound[s], rcon[s], rconUp[s], excuse[s])
    BY <1>1, <2>1, <2>2 DEF AgreeAt, Agree
  <2>5. Busy(s) /\ row[s] = row[s] /\ excuse[s] \subseteq excuse[s]
    BY <2>2 DEF Busy
  <2>6. QED
    BY <1>2, <1>3, <1>4, <2>1, <2>3, <2>4, <2>5, RequestMoves
<1>8. QED
  BY <1>5, <1>6, <1>7

(* A daemon takes nothing from the requests.                                 *)
LEMMA RunningStage ==
    ASSUME PortsInv, NEW s \in Servers, daemon[s] # "none"
    PROVE  /\ Busy(s) /\ start[s].pc \in {"idle", "restart", "forked"} /\ row[s] # Unset
           /\ daemon[s] = "loading" => ~rconUp[s]
<1>1. AgreeAt(s) /\ start[s].pc \in StartStages
  BY ServerTypes DEF PortsInv
<1>2. QED
  BY <1>1 DEF AgreeAt, Agree, Busy, StartStages

LEMMA ServesStep ==
    ASSUME PortsInv, NEW s \in Servers, Serves(s)
    PROVE  PortsInv'
<1>1. PortTypes /\ AgreeAt(s)
  BY DEF PortsInv
<1>2. /\ Busy(s) /\ start[s].pc \in {"idle", "restart", "forked"} /\ row[s] # Unset
      /\ daemon[s] = "loading" /\ ~rconUp[s]
  BY RunningStage DEF Serves
<1>3. DaemonPort(s) \in Ports /\ DaemonPort(s) \in MaybePort /\ DaemonPort(s) # Unset
      /\ (file[s] # Unset => DaemonPort(s) = file[s])
  BY <1>1, ServerTypes, PortConstants DEF DaemonPort, MaybePort
<1>4. /\ daemon' = [daemon EXCEPT ![s] = "serving"]
      /\ bound' = [bound EXCEPT ![s] = DaemonPort(s)]
      /\ file' = [file EXCEPT ![s] = DaemonPort(s)]
      /\ rconUp' = [rconUp EXCEPT ![s] = rcon[s] # Unset /\ ~RconListening(rcon[s])]
      /\ UNCHANGED <<row, active, start, rcon, excuse>>
  BY DEF Serves
<1>5. PortTypes'
  <2>1. (rcon[s] # Unset /\ ~RconListening(rcon[s])) \in BOOLEAN
    OBVIOUS
  <2>2. QED
    BY <1>1, <1>3, <1>4, <2>1 DEF PortTypes
<1>6. /\ daemon'[s] = "serving" /\ bound'[s] = DaemonPort(s) /\ file'[s] = DaemonPort(s)
      /\ rconUp'[s] = (rcon[s] # Unset /\ ~RconListening(rcon[s]))
      /\ row'[s] = row[s] /\ active'[s] = active[s] /\ start'[s] = start[s]
      /\ rcon'[s] = rcon[s] /\ excuse'[s] = excuse[s]
  BY <1>1, <1>4 DEF PortTypes
<1>7. OthersStay(s)
  BY <1>1, <1>4 DEF PortTypes, OthersStay
<1>8. rcon[s] # Unset /\ RconListening(rcon[s]) => "rconOverlapped" \in excuse[s]
  <2> SUFFICES ASSUME rcon[s] # Unset, RconListening(rcon[s])
               PROVE  "rconOverlapped" \in excuse[s]
    OBVIOUS
  <2>1. PICK t \in Servers : rconUp[t] /\ rcon[t] = rcon[s]
    BY DEF RconListening
  <2>2. t # s /\ RconOrExcused(s, t)
    BY <1>2, <2>1 DEF PortsInv
  <2>3. QED
    BY <1>2, <2>1, <2>2 DEF RconOrExcused
<1>9. DaemonPort(s) = row[s] \/ "edited" \in excuse[s] \/ "unread" \in excuse[s]
  BY <1>1, <1>2, <1>3 DEF AgreeAt, Agree
<1>10. AgreeAt(s)'
  BY <1>1, <1>2, <1>3, <1>6, <1>8, <1>9 DEF AgreeAt, Agree
<1>11. QED
  BY <1>2, <1>5, <1>6, <1>7, <1>10, ServerMoves

LEMMA ExitsStep ==
    ASSUME PortsInv, NEW s \in Servers, Exits(s)
    PROVE  PortsInv'
<1>1. PortTypes /\ AgreeAt(s)
  BY DEF PortsInv
<1> DEFINE e == IF active[s] \/ start[s].pc = "forked" THEN excuse[s] ELSE Remembered(s)
<1>2. Busy(s) /\ start[s].pc \in {"idle", "restart", "forked"}
  BY RunningStage DEF Exits
<1>3. /\ daemon' = [daemon EXCEPT ![s] = "none"]
      /\ bound' = [bound EXCEPT ![s] = Unset]
      /\ rcon' = [rcon EXCEPT ![s] = Unset]
      /\ rconUp' = [rconUp EXCEPT ![s] = FALSE]
      /\ excuse' = [excuse EXCEPT ![s] = e]
      /\ UNCHANGED <<row, file, active, start>>
  BY <1>1 DEF Exits, PortTypes
<1>4. /\ e \in SUBSET Excuses
      /\ active[s] \/ start[s].pc = "forked" => e = excuse[s]
      /\ start[s].pc = "restart" => start[s].port = row[s] \/ "edited" \in e
  BY <1>1, ServerTypes, RememberedTypes DEF AgreeAt, Agree
<1> HIDE DEF e
<1>5. PortTypes'
  <2>1. bound' \in [Servers -> MaybePort] /\ rcon' \in [Servers -> RconPorts \cup {Unset}]
    BY <1>1, <1>3, PortConstants DEF PortTypes
  <2>2. /\ daemon' \in [Servers -> {"none", "loading", "serving"}]
        /\ rconUp' \in [Servers -> BOOLEAN] /\ excuse' \in [Servers -> SUBSET Excuses]
    BY <1>1, <1>3, <1>4 DEF PortTypes
  <2>3. QED
    BY <1>1, <1>3, <2>1, <2>2 DEF PortTypes
<1>6. /\ daemon'[s] = "none" /\ bound'[s] = Unset /\ file'[s] = file[s] /\ ~rconUp'[s]
      /\ row'[s] = row[s] /\ active'[s] = active[s] /\ start'[s] = start[s]
      /\ rcon'[s] = Unset /\ excuse'[s] = e
  BY <1>1, <1>3 DEF PortTypes
<1>7. OthersStay(s)
  BY <1>1, <1>3 DEF PortTypes, OthersStay
<1>8. AgreeAt(s)'
  BY <1>1, <1>2, <1>4, <1>6 DEF AgreeAt, Agree
<1>9. ~Busy(s)' \/ (Busy(s) /\ row'[s] = row[s] /\ excuse[s] \subseteq excuse'[s])
  BY <1>2, <1>4, <1>6 DEF Busy
<1>10. QED
  BY <1>5, <1>6, <1>7, <1>8, <1>9, ServerMoves

LEMMA SpawnStep ==
    ASSUME PortsInv, NEW s \in Servers, Spawn(s)
    PROVE  PortsInv'
<1> DEFINE q == [start[s] EXCEPT !.pc = "forked"]
           more(t) == {x \in {"rconOverlapped"} :
                          /\ RconPromised(s) # {}
                          /\ t \in RconPromised(s) \cup {s}}
<1>1. PortTypes /\ AgreeAt(s) /\ start[s] \in StartRecord
  BY ServerTypes DEF PortsInv
<1>2. /\ start[s].pc = "checked"
      /\ start' = [start EXCEPT ![s] = q]
      /\ daemon' = [daemon EXCEPT ![s] = "loading"]
      /\ rcon' = [rcon EXCEPT ![s] = RconChoice(s)]
      /\ excuse' = [t \in Servers |-> excuse[t] \cup more(t)]
      /\ UNCHANGED <<row, file, active, bound, rconUp>>
  BY DEF Spawn
<1>3. q \in StartRecord /\ q.pc = "forked" /\ q.port = start[s].port
  BY <1>1 DEF StartRecord, StartStages
<1>4. /\ \A t \in Servers : more(t) \subseteq Excuses
      /\ RconPromised(s) # {} => "rconOverlapped" \in more(s)
      /\ \A t \in RconPromised(s) : "rconOverlapped" \in more(t)
  BY DEF Excuses
<1> HIDE DEF q, more
<1>5. /\ RconChoice(s) \in RconPorts \cup {Unset}
      /\ RconChoice(s) # Unset => ~RconListening(RconChoice(s))
  BY RconChoiceFree
<1>6. PortTypes'
  <2>1. excuse' \in [Servers -> SUBSET Excuses]
    BY <1>1, <1>2, <1>4, ServerTypes
  <2>2. QED
    BY <1>1, <1>2, <1>3, <1>5, <2>1 DEF PortTypes
<1>7. /\ daemon'[s] = "loading" /\ bound'[s] = bound[s] /\ file'[s] = file[s]
      /\ rconUp'[s] = rconUp[s] /\ row'[s] = row[s] /\ active'[s] = active[s] /\ start'[s] = q
      /\ rcon'[s] = RconChoice(s) /\ excuse'[s] = excuse[s] \cup more(s)
  BY <1>1, <1>2 DEF PortTypes
<1>8. OthersStay(s)
  BY <1>1, <1>2 DEF PortTypes, OthersStay
<1>9. AgreeAt(s)'
  BY <1>1, <1>2, <1>3, <1>7 DEF AgreeAt, Agree
<1>10. ASSUME NEW t \in Servers \ {s} PROVE RconOrExcused(s, t)' /\ RconOrExcused(t, s)'
  <2>1. /\ rcon'[t] = rcon[t] /\ daemon'[t] = daemon[t] /\ rconUp'[t] = rconUp[t]
        /\ excuse'[t] = excuse[t] \cup more(t)
    BY <1>2, <1>8 DEF OthersStay
  <2>2. rcon[t] = RconChoice(s) /\ RconChoice(s) # Unset => ~rconUp[t]
    BY <1>5 DEF RconListening
  <2>3. rcon[t] = RconChoice(s) /\ daemon[t] = "loading" => t \in RconPromised(s)
    BY DEF RconPromised
  <2>4. QED
    BY <1>4, <1>7, <2>1, <2>2, <2>3 DEF RconOrExcused
<1>11. Busy(s) /\ row'[s] = row[s] /\ excuse[s] \subseteq excuse'[s]
  BY <1>2, <1>7 DEF Busy
<1>12. QED
  BY <1>6, <1>8, <1>9, <1>10, <1>11, ServerMoves

LEMMA PortsInvInit == PortsInit => PortsInv
<1> SUFFICES ASSUME PortsInit PROVE PortsInv
  OBVIOUS
<1>1. \A s \in Servers :
         /\ row[s] = Unset /\ ~active[s] /\ start[s] = Idle /\ daemon[s] = "none"
         /\ bound[s] = Unset /\ rconUp[s] = FALSE
  BY DEF PortsInit
<1>2. PortTypes
  <2>1. /\ row \in [Servers -> MaybePort] /\ file \in [Servers -> MaybePort]
        /\ bound \in [Servers -> MaybePort]
        /\ start \in [Servers -> StartRecord]
    BY PortConstants, IdleIsStart DEF PortsInit
  <2>2. /\ active \in [Servers -> BOOLEAN] /\ rconUp \in [Servers -> BOOLEAN]
        /\ daemon \in [Servers -> {"none", "loading", "serving"}]
        /\ rcon \in [Servers -> RconPorts \cup {Unset}]
        /\ excuse \in [Servers -> SUBSET Excuses]
    BY DEF PortsInit
  <2>3. QED
    BY <2>1, <2>2 DEF PortTypes
<1>3. \A s \in Servers : AgreeAt(s)
  BY <1>1, IdleIsStart DEF AgreeAt, Agree
<1>4. \A s, t \in Servers : ApartOrExcused(s, t) /\ RconOrExcused(s, t)
  BY <1>1, IdleIsStart DEF ApartOrExcused, RconOrExcused, Busy
<1>5. QED
  BY <1>2, <1>3, <1>4 DEF PortsInv

LEMMA OtherStepsKeep ==
    ASSUME PortsInv, NEW s \in Servers, OtherSteps(s)
    PROVE  PortsInv'
<1>1. CASE \E p \in Requested : CreateChecks(s, p)
  BY <1>1, CreateStep
<1>2. CASE \/ \E p \in MaybePort : EditFile(s, p)
           \/ \E p \in Requested, q \in MaybePort : Update(s, p, q)
           \/ \E p \in Ports : UpdateFileOnly(s, p)
  BY <1>2, EditStep
<1>3. CASE RestartBegins(s) \/ RestartFails(s)
  BY <1>3, RestartRequestStep
<1>4. CASE BeginChecked(s) \/ CheckSynced(s)
  BY <1>4, CheckStep
<1>5. CASE BeginSync(s) \/ SyncCommits(s)
  BY <1>5, SyncStep
<1>6. CASE SyncFails(s) \/ StartDied(s)
  BY <1>6, GiveUpStep
<1>7. CASE Registered(s) \/ SeenStopped(s) \/ StopBegins(s) \/ SeenRunning(s)
  BY <1>7, StatusStep
<1>8. CASE Serves(s)
  BY <1>8, ServesStep
<1>9. CASE Exits(s)
  BY <1>9, ExitsStep
<1>10. QED
  BY <1>1, <1>2, <1>3, <1>4, <1>5, <1>6, <1>7, <1>8, <1>9 DEF OtherSteps

LEMMA PortsInvStep == PortsInv /\ [PortsNext]_portsVars => PortsInv'
<1> SUFFICES ASSUME PortsInv, [PortsNext]_portsVars PROVE PortsInv'
  OBVIOUS
<1>1. CASE UNCHANGED portsVars
  BY <1>1 DEF portsVars, PortsInv, PortTypes, AgreeAt, ApartOrExcused, RconOrExcused, Busy
<1>2. CASE PortsNext
  <2>1. PICK s \in Servers :
           \/ OtherSteps(s)
           \/ \E p \in MaybePort : CreateInserts(s, p)
           \/ CreateFails(s)
           \/ Refused(s)
           \/ Spawn(s)
    BY <1>2 DEF PortsNext
  <2>2. CASE OtherSteps(s)
    BY <2>2, OtherStepsKeep
  <2>3. CASE (\E p \in MaybePort : CreateInserts(s, p)) \/ CreateFails(s)
    BY <2>3, CreateStep
  <2>4. CASE Refused(s)
    BY <2>4, GiveUpStep
  <2>5. CASE Spawn(s)
    BY <2>5, SpawnStep
  <2>6. QED
    BY <2>1, <2>2, <2>3, <2>4, <2>5
<1>3. QED
  BY <1>1, <1>2

(* With the search for Java added, the ports move as they do without it:     *)
(* the search only makes some of their steps wait or fail.                   *)
LEMMA SearchOnlyRestricts ==
    ASSUME scenario \in DOMAIN StartScenarios, [StartsNext]_startVars
    PROVE  [PortsNext]_portsVars /\ scenario' = scenario
<1>1. StartScenarios[scenario].servers \subseteq Servers
  BY StartsAssumption DEF Range
<1>2. CASE UNCHANGED startVars
  BY <1>2 DEF startVars, javaVars
<1>3. CASE \E p \in Paths, output \in Outputs \cup {Unset} : MachineChanges(p, output)
  BY <1>3 DEF MachineChanges
<1>4. ASSUME NEW s \in StartScenarios[scenario].servers,
             Looks(s) \/ \E last \in 1 .. Len(Places) : Skips(s, last)
      PROVE  [PortsNext]_portsVars /\ scenario' = scenario
  BY <1>4 DEF Looks, Skips, javaVars
<1>5. ASSUME NEW s \in StartScenarios[scenario].servers, ServerStep(s), UNCHANGED javaVars
      PROVE  [PortsNext]_portsVars /\ scenario' = scenario
  <2>1. s \in Servers
    BY <1>1
  <2>2. \/ OtherSteps(s)
        \/ \E p \in MaybePort : CreateInserts(s, p)
        \/ CreateFails(s)
        \/ Refused(s)
        \/ Spawn(s)
    BY <1>5 DEF ServerStep
  <2>3. QED
    BY <1>5, <2>1, <2>2 DEF PortsNext, javaVars
<1>6. QED
  BY <1>2, <1>3, <1>4, <1>5 DEF StartsNext

LEMMA PortsInvAlways == StartsSpec => []PortsInv
<1> DEFINE SInv == PortsInv /\ scenario \in DOMAIN StartScenarios
<1>1. StartsInit => SInv
  BY PortsInvInit DEF StartsInit
<1>2. SInv /\ [StartsNext]_startVars => SInv'
  BY SearchOnlyRestricts, PortsInvStep
<1>3. SInv => PortsInv
  OBVIOUS
<1> HIDE DEF SInv
<1>4. QED
  BY <1>1, <1>2, <1>3, PTL DEF StartsSpec

(* The search for Java only restricts what the port handling does: every     *)
(* behaviour of starts with their searches is one of the ports alone.  (The  *)
(* Java check sits between _validate_port_availability and the fork in       *)
(* start_server, and writes nothing that they read.)                         *)
THEOREM StartsImplementPorts == StartsSpec => PortsSpec
<1> DEFINE Named == scenario \in DOMAIN StartScenarios
<1>1. StartsInit => PortsInit /\ Named
  BY DEF StartsInit
<1>2. Named /\ [StartsNext]_startVars => [PortsNext]_portsVars /\ Named'
  BY SearchOnlyRestricts
<1> HIDE DEF Named
<1>3. QED
  BY <1>1, <1>2, PTL DEF StartsSpec, PortsSpec

(* Rows, files, requests and daemons have the types and ranges of the code's *)
(* columns and process states; in particular only a server with a row is     *)
(* started or active, and a daemon has RCON only where it serves.            *)
THEOREM PortsTypeCorrect == StartsSpec => []PortsTypeOK
<1>1. PortsInv => PortsTypeOK
  <2> SUFFICES ASSUME PortsInv PROVE PortsTypeOK
    OBVIOUS
  <2>1. PortTypes /\ \A s \in Servers : AgreeAt(s)
    BY DEF PortsInv
  <2>2. ASSUME NEW s \in Servers
        PROVE  /\ (row[s] = Unset) => (start[s].pc \in {"idle", "create"} /\ ~active[s])
               /\ (daemon[s] = "serving") <=> (bound[s] # Unset)
               /\ rconUp[s] => (daemon[s] = "serving" /\ rcon[s] # Unset)
    BY <2>1, ServerTypes DEF AgreeAt, Agree, StartStages
  <2>3. QED
    BY <2>1, <2>2 DEF PortsTypeOK, PortTypes, StartRecord, StartStages
<1>2. QED
  BY <1>1, PortsInvAlways, PTL

(* Two active servers share a port only if a port was changed since one of   *)
(* them started, or one was checked while the other was about to be active   *)
(* or was being stopped: _validate_port_availability, simplified_sync.py and *)
(* create_server let nothing else through.                                   *)
THEOREM PortsStayApart == StartsSpec => []PortsApart
<1>1. PortsInv => PortsApart
  BY DEF PortsInv, PortsApart, ApartOrExcused, Busy
<1>2. QED
  BY <1>1, PortsInvAlways, PTL

(* A serving daemon has the port that its start checked and the row shows,   *)
(* and its RCON port, except after an edit, with a file that names no port,  *)
(* or after a race for the RCON port: perform_simplified_sync makes row and  *)
(* file agree, _find_available_rcon_port probes what it gives out.           *)
THEOREM DaemonsServeAsStarted == StartsSpec => []ServesAsStarted
<1>1. PortsInv => ServesAsStarted
  BY DEF PortsInv, AgreeAt, Agree, ServesAsStarted
<1>2. QED
  BY <1>1, PortsInvAlways, PTL

-----------------------------------------------------------------------------
(* The search for Java.                                                      *)

Findings == [major : Nat, is : Nat, place : Nat]
Searches == [next : Nat, found : SUBSET Findings, steady : SUBSET Paths]

(* What is looked through in order: each configured major once, the JDKs,    *)
(* and the PATH at the end.                                                  *)
InOrder(places) ==
    /\ Len(places) \in Nat \ {0}
    /\ \A i \in 1 .. Len(places) :
          /\ places[i].path \in Paths
          /\ places[i].kind \in {"configured", "jdk", "system"}
          /\ places[i].kind = "system" <=> i = Len(places)
          /\ places[i].kind = "configured" =>
                \A j \in 1 .. i - 1 :
                    places[j].kind = "configured" /\ places[j].major # places[i].major

(* A place before the PATH that the search q can rely on.                    *)
Reliable(places, outputs, q, i) ==
    /\ i < Len(places)
    /\ places[i].path \in q.steady
    /\ outputs[places[i].path] # Unset
    /\ Suits(places[i], Parsed(outputs[places[i].path]))

(* One Java is kept for a major, from the first reliable place that has it;  *)
(* it still is what it was unless its path has been unsteady; and the PATH   *)
(* is only taken for want of anything else.                                  *)
FirstsFound(places, outputs, q) ==
    /\ q \in Searches
    /\ q.next \in 1 .. Len(places) + 1
    /\ \A f \in q.found :
          /\ f.place \in 1 .. q.next - 1
          /\ f.is = f.major
          /\ places[f.place].kind = "configured" => f.major = places[f.place].major
          /\ places[f.place].path \in q.steady =>
                /\ outputs[places[f.place].path] # Unset
                /\ Parsed(outputs[places[f.place].path]).major = f.major
          /\ f.place = Len(places) =>
                \A i \in 1 .. Len(places) : ~Reliable(places, outputs, q, i)
    /\ \A f, g \in q.found : f.major = g.major => f = g
    /\ \A i \in 1 .. q.next - 1 : Reliable(places, outputs, q, i) =>
          \E f \in q.found :
              f.major = Parsed(outputs[places[i].path]).major /\ f.place <= i

SearchInv ==
    /\ scenario \in DOMAIN StartScenarios
    /\ version \in Nat \cup {Unparsable}
    /\ machine \in Machines
    /\ DOMAIN search = Servers
    /\ \A s \in Servers : search[s] # Unset => FirstsFound(Places, machine, search[s])

LEMMA ParsedMajor ==
    ASSUME machine \in Machines, NEW p \in Paths, machine[p] # Unset
    PROVE  Parsed(machine[p]).major \in Nat
<1>1. machine[p] \in Outputs
  BY DEF Machines
<1>2. machine[p].major \in Nat
  BY <1>1, StartsAssumption
<1>3. QED
  BY <1>2 DEF Parsed

LEMMA OneAfterTheOther ==
    ASSUME NEW S, NEW a \in Seq(S), NEW b \in Seq(S), NEW c \in S
    PROVE  LET all == (a \o b) \o <<c>> IN
           /\ Len(all) = Len(a) + Len(b) + 1
           /\ \A i \in 1 .. Len(a) : all[i] = a[i]
           /\ \A i \in 1 .. Len(b) : all[Len(a) + i] = b[i]
           /\ all[Len(a) + Len(b) + 1] = c
<1>1. /\ a \o b \in Seq(S) /\ Len(a \o b) = Len(a) + Len(b)
      /\ \A i \in 1 .. Len(a) + Len(b) :
             (a \o b)[i] = IF i <= Len(a) THEN a[i] ELSE b[i - Len(a)]
  BY ConcatProperties
<1>2. /\ <<c>> \in Seq(S) /\ Len(<<c>>) = 1 /\ <<c>>[1] = c
      /\ Len(a) \in Nat /\ Len(b) \in Nat
  OBVIOUS
<1> DEFINE ab == a \o b
           one == <<c>>
<1>3. /\ ab \in Seq(S) /\ Len(ab) = Len(a) + Len(b)
      /\ one \in Seq(S) /\ Len(one) = 1 /\ one[1] = c
  BY <1>1, <1>2
<1>4. /\ \A i \in 1 .. Len(a) : ab[i] = a[i]
      /\ \A i \in 1 .. Len(b) : ab[Len(a) + i] = b[i]
  BY <1>1, <1>2
<1> HIDE DEF ab, one
<1>5. /\ Len(ab \o one) = Len(ab) + Len(one)
      /\ \A i \in 1 .. Len(ab) + Len(one) :
             (ab \o one)[i] = IF i <= Len(ab) THEN ab[i] ELSE one[i - Len(ab)]
  <2>1. \A x, y \in Seq(S) :
           /\ Len(x \o y) = Len(x) + Len(y)
           /\ \A i \in 1 .. Len(x) + Len(y) :
                  (x \o y)[i] = IF i <= Len(x) THEN x[i] ELSE y[i - Len(x)]
    BY ConcatProperties
  <2>2. QED
    BY <1>3, <2>1, Zenon
<1>6. /\ \A i \in 1 .. Len(ab) : (ab \o one)[i] = ab[i]
      /\ (ab \o one)[Len(ab) + 1] = one[1]
  <2>1. Len(ab) \in Nat
    BY <1>2, <1>3
  <2>2. Len(ab) + 1 \in 1 .. Len(ab) + Len(one) /\ Len(ab) + 1 - Len(ab) = 1
        /\ ~(Len(ab) + 1 <= Len(ab))
    BY <1>3, <2>1
  <2>3. QED
    BY <1>3, <1>5, <2>1, <2>2
<1>7. /\ \A i \in 1 .. Len(a) : i \in 1 .. Len(ab)
      /\ \A i \in 1 .. Len(b) : Len(a) + i \in 1 .. Len(ab)
  BY <1>2, <1>3
<1>8. QED
  BY <1>3, <1>4, <1>5, <1>6, <1>7 DEF ab, one

LEMMA PlacesInOrder ==
    ASSUME scenario \in DOMAIN StartScenarios
    PROVE  InOrder(Places)
<1> DEFINE configured == StartScenarios[scenario].configured
           jdks == StartScenarios[scenario].jdks
           own == [i \in DOMAIN configured |->
                      [kind |-> "configured", major |-> configured[i][1], path |-> configured[i][2]]]
           searched == [i \in DOMAIN jdks |-> [kind |-> "jdk", path |-> jdks[i]]]
           last == [kind |-> "system", path |-> SystemJava]
           Kinds == {own[i] : i \in DOMAIN configured} \cup {searched[i] : i \in DOMAIN jdks}
                        \cup {last}
<1>1. /\ configured \in Seq({7, 8, 11, 16, 17, 21, 25} \X Paths)
      /\ \A i, j \in DOMAIN configured : configured[i][1] = configured[j][1] => i = j
      /\ jdks \in Seq(Paths)
      /\ SystemJava \in Paths
  BY StartsAssumption DEF Range
<1>2. PICK n \in Nat : Len(configured) = n /\ DOMAIN configured = 1 .. n
  BY <1>1
<1>3. PICK m \in Nat : Len(jdks) = m /\ DOMAIN jdks = 1 .. m
  BY <1>1
<1>4. \A i \in 1 .. n : configured[i] \in {7, 8, 11, 16, 17, 21, 25} \X Paths
  BY <1>1, <1>2
<1>5. \A i \in 1 .. m : jdks[i] \in Paths
  BY <1>1, <1>3
<1>6. Places = (own \o searched) \o <<last>>
  BY DEF Places
<1>7. own \in Seq(Kinds) /\ searched \in Seq(Kinds) /\ <<last>> \in Seq(Kinds)
  <2>1. own \in [1 .. n -> Kinds] /\ searched \in [1 .. m -> Kinds]
    BY <1>2, <1>3
  <2>2. <<last>> \in [1 .. 1 -> Kinds]
    BY DEF Kinds
  <2> HIDE DEF own, searched, last, Kinds
  <2>3. \A k \in Nat : [1 .. k -> Kinds] \subseteq Seq(Kinds)
    BY SeqDef
  <2>4. QED
    BY <2>1, <2>2, <2>3
<1>8. Len(own) = n /\ Len(searched) = m /\ Len(<<last>>) = 1
  BY <1>2, <1>3
<1>9. /\ Len(Places) = n + m + 1
      /\ \A i \in 1 .. n : Places[i] = own[i]
      /\ \A i \in 1 .. m : Places[n + i] = searched[i]
      /\ Places[n + m + 1] = last
  <2>1. last \in Kinds
    BY DEF Kinds
  <2>2. own \in Seq(Kinds) /\ searched \in Seq(Kinds)
    BY <1>7
  <2> HIDE DEF own, searched, last, Kinds
  <2> DEFINE all == (own \o searched) \o <<last>>
  <2>3. /\ Len(all) = Len(own) + Len(searched) + 1
        /\ \A i \in 1 .. Len(own) : all[i] = own[i]
        /\ \A i \in 1 .. Len(searched) : all[Len(own) + i] = searched[i]
        /\ all[Len(own) + Len(searched) + 1] = last
    BY ONLY <2>1, <2>2, OneAfterTheOther
  <2> HIDE DEF all
  <2>4. Places = all
    BY ONLY <1>6 DEF all
  <2>5. QED
    BY ONLY <1>8, <2>3, <2>4, n \in Nat, m \in Nat
<1>10. Len(Places) = n + m + 1
  BY <1>9
<1>11. \A i \in 1 .. n : /\ Places[i].kind = "configured"
                         /\ Places[i].major = configured[i][1]
                         /\ Places[i].path = configured[i][2]
  <2>1. \A i \in 1 .. n : /\ own[i].kind = "configured"
                          /\ own[i].major = configured[i][1]
                          /\ own[i].path = configured[i][2]
    BY <1>2
  <2> HIDE DEF own, configured
  <2>2. QED
    BY <1>9, <2>1
<1>12. \A i \in n + 1 .. n + m : Places[i].kind = "jdk" /\ Places[i].path = jdks[i - n]
  <2>1. \A i \in 1 .. m : Places[n + i].kind = "jdk" /\ Places[n + i].path = jdks[i]
    <3>1. \A i \in 1 .. m : searched[i].kind = "jdk" /\ searched[i].path = jdks[i]
      BY <1>3
    <3> HIDE DEF searched, jdks
    <3>2. QED
      BY <1>9, <3>1
  <2>2. \A i \in n + 1 .. n + m : i - n \in 1 .. m /\ n + (i - n) = i
    OBVIOUS
  <2>3. QED
    BY <2>1, <2>2
<1>13. Places[n + m + 1].kind = "system" /\ Places[n + m + 1].path = SystemJava
  BY <1>9
<1> HIDE DEF own, searched, last
<1>14. ASSUME NEW i \in 1 .. Len(Places)
       PROVE  /\ Places[i].path \in Paths
              /\ Places[i].kind \in {"configured", "jdk", "system"}
              /\ Places[i].kind = "system" <=> i = Len(Places)
  <2>1. i \in 1 .. n \/ i \in n + 1 .. n + m \/ i = n + m + 1
    BY <1>10
  <2>2. CASE i \in 1 .. n
    BY <2>2, <1>4, <1>10, <1>11
  <2>3. CASE i \in n + 1 .. n + m
    BY <2>3, <1>5, <1>10, <1>12
  <2>4. CASE i = n + m + 1
    BY <2>4, <1>1, <1>10, <1>13
  <2>5. QED
    BY <2>1, <2>2, <2>3, <2>4
<1>15. ASSUME NEW i \in 1 .. Len(Places), Places[i].kind = "configured",
              NEW j \in 1 .. i - 1
       PROVE  Places[j].kind = "configured" /\ Places[j].major # Places[i].major
  <2>1. i \in 1 .. n
    BY <1>10, <1>12, <1>13, <1>15
  <2>2. j \in 1 .. n /\ i # j
    BY <2>1
  <2>3. configured[j][1] # configured[i][1]
    BY <1>1, <1>2, <2>1, <2>2
  <2>4. QED
    BY <1>11, <2>1, <2>2, <2>3
<1>16. QED
  BY <1>10, <1>14, <1>15 DEF InOrder

(* The fields of a search that a look has moved on.                          *)
Looked(places, outputs, q) ==
    [next |-> q.next + 1,
     found |-> IF /\ outputs[places[q.next].path] # Unset
                  /\ Takes(q.found, places[q.next], Parsed(outputs[places[q.next].path]))
               THEN q.found \cup
                      {[major |-> KeptAs(places[q.next], Parsed(outputs[places[q.next].path])),
                        is |-> Parsed(outputs[places[q.next].path]).major,
                        place |-> q.next]}
               ELSE q.found,
     steady |-> q.steady]

(* Nothing reliable is lost from sight when what is skipped is not steady.   *)
LEMMA SkipKeeps ==
    ASSUME NEW places, InOrder(places), NEW q, FirstsFound(places, machine, q),
           machine \in Machines, NEW last \in 1 .. Len(places), q.next <= last,
           NEW r \in Searches, r.next = last + 1, r.found = q.found,
           r.steady = q.steady \ {places[i].path : i \in q.next .. last}
    PROVE  FirstsFound(places, machine, r)
<1>1. /\ q \in Searches /\ q.next \in Nat /\ q.next \in 1 .. Len(places) + 1
      /\ Len(places) \in Nat
  BY DEF FirstsFound, Searches, InOrder
<1>2. \A i : Reliable(places, machine, r, i) =>
                Reliable(places, machine, q, i) /\ i \notin q.next .. last
  BY DEF Reliable
<1>3. \A f \in r.found :
         /\ f.place \in 1 .. r.next - 1
         /\ f.is = f.major
         /\ places[f.place].kind = "configured" => f.major = places[f.place].major
         /\ places[f.place].path \in r.steady =>
               /\ machine[places[f.place].path] # Unset
               /\ Parsed(machine[places[f.place].path]).major = f.major
         /\ f.place = Len(places) =>
               \A i \in 1 .. Len(places) : ~Reliable(places, machine, r, i)
  <2>1. \A f \in q.found : f.place \in 1 .. q.next - 1
    BY DEF FirstsFound
  <2>2. \A f \in r.found : f.place \in 1 .. r.next - 1
    BY <1>1, <2>1
  <2>3. QED
    BY <1>2, <2>2 DEF FirstsFound
<1>4. \A i \in 1 .. r.next - 1 : Reliable(places, machine, r, i) =>
          \E f \in r.found :
              f.major = Parsed(machine[places[i].path]).major /\ f.place <= i
  <2>1. \A i \in 1 .. r.next - 1 : i \in 1 .. q.next - 1 \/ i \in q.next .. last
    BY <1>1
  <2>2. QED
    BY <1>2, <2>1 DEF FirstsFound
<1>5. \A f, g \in r.found : f.major = g.major => f = g
  BY DEF FirstsFound
<1>6. r.next \in 1 .. Len(places) + 1
  BY <1>1
<1>7. QED
  BY <1>3, <1>4, <1>5, <1>6 DEF FirstsFound

(* A machine that changes at one path.                                       *)
LEMMA ChangeKeeps ==
    ASSUME NEW places, InOrder(places), NEW q, FirstsFound(places, machine, q),
           NEW p \in Paths, NEW output, machine \in Machines, NEW r, r \in Searches,
           r.next = q.next, r.found = q.found, r.steady = q.steady \ {p}
    PROVE  FirstsFound(places, [machine EXCEPT ![p] = output], r)
<1> DEFINE changed == [machine EXCEPT ![p] = output]
<1>1. \A path \in Paths : path # p => changed[path] = machine[path]
  BY DEF Machines
<1> HIDE DEF changed
<1>2. q \in Searches /\ q.next \in Nat /\ q.found \in SUBSET Findings /\ Len(places) \in Nat
  BY DEF FirstsFound, Searches, InOrder
<1>3. \A i \in 1 .. Len(places) : places[i].path \in Paths
  BY DEF InOrder
<1>4. \A i \in 1 .. Len(places) : Reliable(places, changed, r, i) =>
         Reliable(places, machine, q, i) /\ changed[places[i].path] = machine[places[i].path]
  BY <1>1, <1>3 DEF Reliable
<1>5. \A f \in r.found :
         /\ f.place \in 1 .. r.next - 1
         /\ f.is = f.major
         /\ places[f.place].kind = "configured" => f.major = places[f.place].major
         /\ places[f.place].path \in r.steady =>
               /\ changed[places[f.place].path] # Unset
               /\ Parsed(changed[places[f.place].path]).major = f.major
         /\ f.place = Len(places) =>
               \A i \in 1 .. Len(places) : ~Reliable(places, changed, r, i)
  <2> SUFFICES ASSUME NEW f \in q.found
               PROVE  /\ f.place \in 1 .. q.next - 1
                      /\ f.is = f.major
                      /\ places[f.place].kind = "configured" => f.major = places[f.place].major
                      /\ places[f.place].path \in r.steady =>
                            /\ changed[places[f.place].path] # Unset
                            /\ Parsed(changed[places[f.place].path]).major = f.major
                      /\ f.place = Len(places) =>
                            \A i \in 1 .. Len(places) : ~Reliable(places, changed, r, i)
    OBVIOUS
  <2>1. /\ f.place \in 1 .. q.next - 1
        /\ f.is = f.major
        /\ places[f.place].kind = "configured" => f.major = places[f.place].major
        /\ places[f.place].path \in q.steady =>
              /\ machine[places[f.place].path] # Unset
              /\ Parsed(machine[places[f.place].path]).major = f.major
        /\ f.place = Len(places) =>
              \A i \in 1 .. Len(places) : ~Reliable(places, machine, q, i)
    BY DEF FirstsFound
  <2>2. q.next \in 1 .. Len(places) + 1
    BY DEF FirstsFound
  <2>3. f.place \in 1 .. Len(places)
    BY <1>2, <2>1, <2>2
  <2>4. places[f.place].path \in r.steady =>
           changed[places[f.place].path] = machine[places[f.place].path]
    BY <1>1, <1>3, <2>3
  <2>5. QED
    BY <1>4, <2>1, <2>4
<1>6. \A i \in 1 .. r.next - 1 : Reliable(places, changed, r, i) =>
          \E f \in r.found :
              f.major = Parsed(changed[places[i].path]).major /\ f.place <= i
  <2>1. q.next \in 1 .. Len(places) + 1
    BY DEF FirstsFound
  <2>2. \A i \in 1 .. r.next - 1 : i \in 1 .. Len(places)
    BY <1>2, <2>1
  <2>3. QED
    BY <1>4, <2>2 DEF FirstsFound
<1>7. (\A f, g \in r.found : f.major = g.major => f = g) /\ r.next \in 1 .. Len(places) + 1
  BY DEF FirstsFound
<1>8. FirstsFound(places, changed, r)
  BY <1>5, <1>6, <1>7 DEF FirstsFound
<1>9. QED
  BY <1>8 DEF changed

(* What is taken is the only one of its major, and the PATH is taken alone.  *)
LEMMA TakenIsNew ==
    ASSUME NEW places, InOrder(places), NEW q, FirstsFound(places, machine, q),
           q.next <= Len(places), machine \in Machines,
           machine[places[q.next].path] # Unset,
           Takes(q.found, places[q.next], Parsed(machine[places[q.next].path]))
    PROVE  LET major == Parsed(machine[places[q.next].path]).major IN
           /\ KeptAs(places[q.next], Parsed(machine[places[q.next].path])) = major
           /\ places[q.next].kind = "configured" => major = places[q.next].major
           /\ \A f \in q.found : f.major # major
           /\ q.next = Len(places) => q.found = {}
<1> DEFINE place == places[q.next]
           info == Parsed(machine[place.path])
<1>1. /\ q.next \in 1 .. Len(places) /\ Len(places) \in Nat
      /\ \A f \in q.found : f.place \in 1 .. q.next - 1
      /\ \A f \in q.found : places[f.place].kind = "configured" => f.major = places[f.place].major
  BY DEF FirstsFound, InOrder
<1>2. /\ place.kind \in {"configured", "jdk", "system"}
      /\ place.kind = "system" <=> q.next = Len(places)
      /\ place.kind = "configured" =>
            \A j \in 1 .. q.next - 1 :
                places[j].kind = "configured" /\ places[j].major # place.major
  BY <1>1 DEF InOrder
<1>3. /\ place.kind = "configured" => info.major = place.major
      /\ place.kind = "jdk" => \A f \in q.found : f.major # info.major
      /\ place.kind = "system" => q.found = {}
  BY DEF Takes, Suits
<1>4. KeptAs(place, info) = info.major
  BY <1>3 DEF KeptAs
<1>5. \A f \in q.found : f.major # info.major
  <2>1. CASE place.kind = "configured"
    <3>1. \A f \in q.found : f.major = places[f.place].major /\ places[f.place].major # place.major
      BY <1>1, <1>2, <2>1
    <3>2. QED
      BY <1>3, <2>1, <3>1
  <2>2. QED
    BY <1>2, <1>3, <2>1
<1>6. QED
  BY <1>2, <1>3, <1>4, <1>5

LEMMA LookKeeps ==
    ASSUME NEW places, InOrder(places), NEW q, FirstsFound(places, machine, q),
           q.next <= Len(places), machine \in Machines
    PROVE  FirstsFound(places, machine, Looked(places, machine, q))
<1> DEFINE place == places[q.next]
           output == machine[place.path]
           info == Parsed(output)
           r == Looked(places, machine, q)
           new == [major |-> KeptAs(place, info), is |-> info.major, place |-> q.next]
<1>1. /\ q \in Searches /\ q.next \in Nat /\ q.found \in SUBSET Findings
      /\ q.steady \in SUBSET Paths /\ q.next \in 1 .. Len(places)
      /\ Len(places) \in Nat
  BY DEF FirstsFound, Searches, InOrder
<1>2. place.path \in Paths /\ (place.kind = "system" <=> q.next = Len(places))
      /\ place.kind \in {"configured", "jdk", "system"}
  BY <1>1 DEF InOrder
<1>3. output # Unset => info.major \in Nat
  BY <1>2, ParsedMajor
<1>4. /\ \A f \in q.found :
            /\ f.place \in 1 .. q.next - 1
            /\ f.is = f.major
            /\ places[f.place].kind = "configured" => f.major = places[f.place].major
            /\ places[f.place].path \in q.steady =>
                  /\ machine[places[f.place].path] # Unset
                  /\ Parsed(machine[places[f.place].path]).major = f.major
            /\ f.place = Len(places) =>
                  \A i \in 1 .. Len(places) : ~Reliable(places, machine, q, i)
      /\ \A f, g \in q.found : f.major = g.major => f = g
      /\ \A i \in 1 .. q.next - 1 : Reliable(places, machine, q, i) =>
            \E f \in q.found :
                f.major = Parsed(machine[places[i].path]).major /\ f.place <= i
  BY DEF FirstsFound
<1>5. CASE ~(output # Unset /\ Takes(q.found, place, info))
  <2>1. r.next = q.next + 1 /\ r.found = q.found /\ r.steady = q.steady
    BY <1>5 DEF Looked
  <2>2. r \in Searches
    BY <1>1, <2>1 DEF Looked, Searches
  <2> HIDE DEF r
  <2>3. \A i : Reliable(places, machine, r, i) <=> Reliable(places, machine, q, i)
    BY <2>1 DEF Reliable
  <2>4. Reliable(places, machine, q, q.next) =>
           \E f \in q.found : f.major = info.major /\ f.place <= q.next
    <3>1. ASSUME Reliable(places, machine, q, q.next)
          PROVE  \E f \in q.found : f.major = info.major
      BY <1>1, <1>2, <1>5, <3>1 DEF Reliable, Takes
    <3>2. \A f \in q.found : f.place <= q.next
      BY <1>1, <1>4
    <3>3. QED
      BY <3>1, <3>2
  <2>5. \A i \in 1 .. r.next - 1 : Reliable(places, machine, r, i) =>
            \E f \in r.found :
                f.major = Parsed(machine[places[i].path]).major /\ f.place <= i
    <3>1. \A i \in 1 .. r.next - 1 : i \in 1 .. q.next - 1 \/ i = q.next
      BY <1>1, <2>1
    <3>2. QED
      BY <1>4, <2>1, <2>3, <2>4, <3>1
  <2>6. \A f \in r.found : f.place \in 1 .. r.next - 1
    BY <1>1, <1>4, <2>1
  <2>7. r.next \in 1 .. Len(places) + 1
    BY <1>1, <2>1
  <2>8. FirstsFound(places, machine, r)
    BY <1>4, <2>1, <2>2, <2>3, <2>5, <2>6, <2>7 DEF FirstsFound
  <2>9. QED
    BY <2>8 DEF r
<1>6. CASE output # Unset /\ Takes(q.found, place, info)
  <2>1. r.next = q.next + 1 /\ r.found = q.found \cup {new} /\ r.steady = q.steady
    BY <1>6 DEF Looked
  <2>2. /\ KeptAs(place, info) = info.major
        /\ place.kind = "configured" => info.major = place.major
        /\ \A f \in q.found : f.major # info.major
        /\ q.next = Len(places) => q.found = {}
    BY <1>6, TakenIsNew
  <2>3. new.major = info.major /\ new.is = info.major /\ new.place = q.next /\ new \in Findings
    BY <1>1, <1>3, <1>6, <2>2 DEF Findings
  <2> HIDE DEF new
  <2>4. r \in Searches
    <3>1. q.found \cup {new} \in SUBSET Findings /\ q.next + 1 \in Nat
      BY <1>1, <2>3
    <3>2. r = [next |-> r.next, found |-> r.found, steady |-> r.steady]
      BY DEF Looked
    <3>3. QED
      BY <1>1, <2>1, <3>1, <3>2 DEF Searches
  <2> HIDE DEF r
  <2>5. \A i : Reliable(places, machine, r, i) <=> Reliable(places, machine, q, i)
    BY <2>1 DEF Reliable
  <2>6. ASSUME NEW f \in q.found
        PROVE  /\ f.place \in 1 .. r.next - 1
               /\ f.place = Len(places) =>
                     \A i \in 1 .. Len(places) : ~Reliable(places, machine, r, i)
    BY <1>1, <1>4, <2>1, <2>5
  <2>7. /\ new.place \in 1 .. r.next - 1
        /\ new.is = new.major
        /\ places[new.place].kind = "configured" => new.major = places[new.place].major
        /\ machine[places[new.place].path] # Unset
        /\ Parsed(machine[places[new.place].path]).major = new.major
    BY <1>1, <1>6, <2>1, <2>2, <2>3
  <2>8. new.place = Len(places) =>
           \A i \in 1 .. Len(places) : ~Reliable(places, machine, r, i)
    <3>1. ASSUME q.next = Len(places), NEW i \in 1 .. Len(places)
          PROVE  ~Reliable(places, machine, q, i)
      <4>1. i \in 1 .. q.next - 1 \/ i = Len(places)
        BY <1>1, <3>1
      <4>2. QED
        BY <1>4, <2>2, <3>1, <4>1 DEF Reliable
    <3>2. QED
      BY <2>3, <2>5, <3>1
  <2>9. \A f, g \in r.found : f.major = g.major => f = g
    BY <1>4, <2>1, <2>2, <2>3
  <2>10. \A i \in 1 .. r.next - 1 : Reliable(places, machine, r, i) =>
             \E f \in r.found :
                 f.major = Parsed(machine[places[i].path]).major /\ f.place <= i
    <3>1. \A i \in 1 .. r.next - 1 : i \in 1 .. q.next - 1 \/ i = q.next
      BY <1>1, <2>1
    <3>2. new \in r.found /\ q.found \subseteq r.found
      BY <2>1
    <3>3. q.next <= q.next
      BY <1>1
    <3>4. QED
      BY <1>4, <2>3, <2>5, <3>1, <3>2, <3>3
  <2>11. r.next \in 1 .. Len(places) + 1
    BY <1>1, <2>1
  <2>12. \A f \in r.found :
            /\ f.place \in 1 .. r.next - 1
            /\ f.is = f.major
            /\ places[f.place].kind = "configured" => f.major = places[f.place].major
            /\ places[f.place].path \in r.steady =>
                  /\ machine[places[f.place].path] # Unset
                  /\ Parsed(machine[places[f.place].path]).major = f.major
            /\ f.place = Len(places) =>
                  \A i \in 1 .. Len(places) : ~Reliable(places, machine, r, i)
    BY <1>4, <2>1, <2>6, <2>7, <2>8
  <2>13. FirstsFound(places, machine, r)
    BY <2>4, <2>9, <2>10, <2>11, <2>12 DEF FirstsFound
  <2>14. QED
    BY <2>13 DEF r
<1>7. QED
  BY <1>5, <1>6

LEMMA FreshIsGood ==
    ASSUME NEW places, InOrder(places), NEW outputs
    PROVE  FirstsFound(places, outputs, Fresh)
<1>1. Len(places) \in Nat /\ Len(places) > 0
  BY DEF InOrder
<1>2. Fresh.next = 1 /\ Fresh.found = {} /\ Fresh \in Searches
  BY DEF Fresh, Searches
<1>3. QED
  BY <1>1, <1>2 DEF FirstsFound

LEMMA SearchInvInit == StartsInit => SearchInv
<1> SUFFICES ASSUME StartsInit PROVE SearchInv
  OBVIOUS
<1>1. scenario \in DOMAIN StartScenarios
  BY DEF StartsInit
<1>2. /\ StartScenarios[scenario].versions \subseteq Nat \cup {Unparsable}
      /\ StartScenarios[scenario].machines \subseteq Machines
  BY <1>1, StartsAssumption DEF Range
<1>3. QED
  BY <1>1, <1>2 DEF StartsInit, SearchInv

(* A step of a request begins or ends its own search, if any.                *)
LEMMA RequestKeepsSearches ==
    ASSUME SearchInv, NEW s \in Servers, UNCHANGED javaVars,
           NEW r, search' = [search EXCEPT ![s] = r], r \in {search[s], Fresh, Unset}
    PROVE  SearchInv'
<1>1. InOrder(Places) /\ scenario' = scenario /\ version' = version /\ machine' = machine
  BY PlacesInOrder DEF SearchInv, javaVars
<1>2. Places' = Places
  BY <1>1 DEF Places
<1>3. ASSUME NEW t \in Servers, search'[t] # Unset
      PROVE  FirstsFound(Places, machine, search'[t])
  <2>1. search'[t] = search[t] \/ search'[t] = Fresh
    BY <1>3 DEF SearchInv
  <2>2. QED
    BY <1>1, <1>3, <2>1, FreshIsGood DEF SearchInv
<1>4. QED
  BY <1>1, <1>2, <1>3 DEF SearchInv

LEMMA LooksStep ==
    ASSUME SearchInv, NEW s \in Servers,
           Looks(s) \/ \E last \in 1 .. Len(Places) : Skips(s, last)
    PROVE  SearchInv'
<1> DEFINE q == search[s]
<1>1. /\ InOrder(Places) /\ machine \in Machines
      /\ scenario' = scenario /\ version' = version /\ machine' = machine
  BY PlacesInOrder DEF SearchInv, Looks, Skips, javaVars
<1>2. Places' = Places
  BY <1>1 DEF Places
<1>3. FirstsFound(Places, machine, q)
  BY DEF Looks, Skips, SearchInv
<1>4. PICK r : search' = [search EXCEPT ![s] = r] /\ FirstsFound(Places, machine, r)
  <2>1. CASE Looks(s)
    <3>1. q.next <= Len(Places) /\ search' = [search EXCEPT ![s] = Looked(Places, machine, q)]
      BY <2>1 DEF Looks, Looked
    <3>2. QED
      BY <1>1, <1>3, <3>1, LookKeeps
  <2>2. ASSUME NEW last \in 1 .. Len(Places), Skips(s, last)
        PROVE  \E r : search' = [search EXCEPT ![s] = r] /\ FirstsFound(Places, machine, r)
    <3> DEFINE gone == {Places[i].path : i \in q.next .. last}
               r == [q EXCEPT !.next = last + 1, !.steady = @ \ gone]
    <3>1. q \in Searches /\ last + 1 \in Nat
      BY <1>1, <1>3 DEF FirstsFound, InOrder
    <3>2. search' = [search EXCEPT ![s] = r]
      BY <2>2 DEF Skips
    <3>3. q.next <= last
      <4>1. q.next .. last # {} /\ q.next \in Nat
        BY <2>2, <3>1 DEF Skips, Searches
      <4>2. QED
        BY <4>1
    <3> HIDE DEF gone
    <3>4. r \in Searches /\ r.next = last + 1 /\ r.found = q.found /\ r.steady = q.steady \ gone
      BY <3>1 DEF Searches
    <3> HIDE DEF r
    <3>5. r.steady = q.steady \ {Places[i].path : i \in q.next .. last}
      BY <3>4 DEF gone
    <3> HIDE DEF q
    <3>6. FirstsFound(Places, machine, r)
      BY <1>1, <1>3, <3>3, <3>4, <3>5, SkipKeeps
    <3>7. QED
      BY <3>2, <3>6
  <2>3. QED
    BY <2>1, <2>2
<1> HIDE DEF q
<1>5. ASSUME NEW t \in Servers, search'[t] # Unset
      PROVE  FirstsFound(Places, machine, search'[t])
  <2>1. CASE t = s
    BY <1>4, <2>1 DEF SearchInv
  <2>2. CASE t # s
    BY <1>4, <1>5, <2>2 DEF SearchInv
  <2>3. QED
    BY <2>1, <2>2
<1>6. DOMAIN search' = Servers
  BY <1>4 DEF SearchInv
<1>7. QED
  BY <1>1, <1>2, <1>5, <1>6 DEF SearchInv

LEMMA MachineStep ==
    ASSUME SearchInv, NEW p \in Paths, NEW output \in Outputs \cup {Unset},
           MachineChanges(p, output)
    PROVE  SearchInv'
<1>1. /\ InOrder(Places) /\ machine \in Machines /\ scenario' = scenario /\ version' = version
      /\ machine' = [machine EXCEPT ![p] = output]
  BY PlacesInOrder DEF SearchInv, MachineChanges
<1>2. Places' = Places /\ machine' \in Machines
  BY <1>1 DEF Places, Machines
<1>3. ASSUME NEW t \in Servers, search'[t] # Unset
      PROVE  FirstsFound(Places, machine', search'[t])
  <2>1. search[t] # Unset /\ search'[t] = [search[t] EXCEPT !.steady = @ \ {p}]
    BY <1>3 DEF MachineChanges
  <2>2. search[t] \in Searches /\ FirstsFound(Places, machine, search[t])
    BY <2>1 DEF SearchInv, FirstsFound
  <2>3. search'[t] \in Searches /\ search'[t].next = search[t].next
        /\ search'[t].found = search[t].found /\ search'[t].steady = search[t].steady \ {p}
    BY <2>1, <2>2 DEF Searches
  <2>4. QED
    BY <1>1, <2>2, <2>3, ChangeKeeps
<1>4. DOMAIN search' = Servers
  BY DEF MachineChanges
<1>5. QED
  BY <1>1, <1>2, <1>3, <1>4 DEF SearchInv

LEMMA SearchInvStep == SearchInv /\ [StartsNext]_startVars => SearchInv'
<1> SUFFICES ASSUME SearchInv, [StartsNext]_startVars PROVE SearchInv'
  OBVIOUS
<1>1. StartScenarios[scenario].servers \subseteq Servers
  BY StartsAssumption DEF Range, SearchInv
<1>2. CASE UNCHANGED startVars
  BY <1>2 DEF startVars, javaVars, SearchInv, Places
<1>3. CASE \E p \in Paths, output \in Outputs \cup {Unset} : MachineChanges(p, output)
  BY <1>3, MachineStep
<1>4. ASSUME NEW s \in StartScenarios[scenario].servers,
             Looks(s) \/ \E last \in 1 .. Len(Places) : Skips(s, last)
      PROVE  SearchInv'
  BY <1>1, <1>4, LooksStep
<1>5. ASSUME NEW s \in StartScenarios[scenario].servers, ServerStep(s), UNCHANGED javaVars
      PROVE  SearchInv'
  <2>1. s \in Servers /\ DOMAIN search = Servers
    BY <1>1 DEF SearchInv
  <2>2. PICK r \in {search[s], Fresh, Unset} : search' = [search EXCEPT ![s] = r]
    BY <1>5, <2>1 DEF ServerStep, Begins, EndsSearch
  <2>3. QED
    BY <1>5, <2>1, <2>2, RequestKeepsSearches
<1>6. QED
  BY <1>2, <1>3, <1>4, <1>5 DEF StartsNext

LEMMA AcceptedMajors ==
    version \in Nat \cup {Unparsable} => DOMAIN Accepted \subseteq Nat \ {0}
<1> SUFFICES ASSUME version \in Nat \cup {Unparsable}
             PROVE  DOMAIN Accepted \subseteq Nat \ {0}
  OBVIOUS
<1>1. ASSUME NEW i \in 1 .. 6 PROVE DOMAIN Bands[i].accepted \subseteq Nat \ {0}
  BY DEF Bands
<1>2. Len(Bands) = 6 /\ DOMAIN Bands = 1 .. 6 /\ Bands[1].min = 0
  BY DEF Bands
<1>3. CASE version = Unparsable
  BY <1>1, <1>2, <1>3 DEF Accepted, Last
<1>4. CASE version # Unparsable
  <2> DEFINE below == {i \in DOMAIN Bands : Bands[i].min <= version}
  <2>1. below \subseteq 1 .. 6 /\ 1 \in below
    BY <1>2, <1>4
  <2>2. Accepted = Bands[Max(below)].accepted
    BY <1>4 DEF Accepted
  <2> HIDE DEF below
  <2>3. \E x \in below : \A y \in below : x >= y
    BY <2>1
  <2>4. Max(below) \in below
    BY <2>3 DEF Max
  <2>5. QED
    BY <1>1, <2>1, <2>2, <2>4
<1>5. QED
  BY <1>3, <1>4

LEMMA BestJavaFollows == SearchInv => BestJava
<1> SUFFICES ASSUME SearchInv, NEW s \in Servers, Searched(s)
             PROVE  /\ \A i \in DOMAIN Accepted : Offers(s, Accepted[i]) # {} =>
                           \E f \in Chosen(s), j \in 1 .. i : f.major = Accepted[j]
                    /\ \A f \in Chosen(s) :
                          LET path == Places[f.place].path IN
                          /\ \A i \in Offers(s, f.major) : f.place <= i
                          /\ f.place = Len(Places) => Usable(s) = {}
                          /\ path \in search[s].steady =>
                                /\ machine[path] # Unset
                                /\ Parsed(machine[path]).major \in Range(Accepted)
  BY DEF BestJava
<1> DEFINE q == search[s]
<1>1. InOrder(Places) /\ DOMAIN Accepted \subseteq Nat \ {0}
  BY PlacesInOrder, AcceptedMajors DEF SearchInv
<1>2. FirstsFound(Places, machine, q) /\ q.next > Len(Places)
  BY DEF SearchInv, Searched
<1>3. Len(Places) \in Nat /\ q.next = Len(Places) + 1
  BY <1>1, <1>2 DEF InOrder, FirstsFound
<1>4. \A i \in Usable(s) : i \in 1 .. Len(Places) /\ Reliable(Places, machine, q, i)
  BY <1>3 DEF Usable, Reliable
<1>5. /\ \A f \in q.found :
            /\ f.is = f.major
            /\ Places[f.place].path \in q.steady =>
                  /\ machine[Places[f.place].path] # Unset
                  /\ Parsed(machine[Places[f.place].path]).major = f.major
            /\ f.place = Len(Places) =>
                  \A i \in 1 .. Len(Places) : ~Reliable(Places, machine, q, i)
      /\ \A f, g \in q.found : f.major = g.major => f = g
      /\ \A i \in 1 .. q.next - 1 : Reliable(Places, machine, q, i) =>
            \E f \in q.found :
                f.major = Parsed(machine[Places[i].path]).major /\ f.place <= i
  BY <1>2 DEF FirstsFound
<1>6. \A f \in Chosen(s) : f \in q.found /\ f.is \in Range(Accepted)
  BY DEF Chosen, Preferred
<1>7. ASSUME NEW i \in Usable(s)
      PROVE  \E f \in q.found : f.major = Parsed(machine[Places[i].path]).major /\ f.place <= i
  BY <1>3, <1>4, <1>5
<1>8. ASSUME NEW i \in DOMAIN Accepted, Offers(s, Accepted[i]) # {}
      PROVE  \E f \in Chosen(s), j \in 1 .. i : f.major = Accepted[j]
  <2> DEFINE ranks == {j \in DOMAIN Accepted : \E g \in q.found : g.major = Accepted[j]}
  <2>1. PICK k \in Usable(s) : Parsed(machine[Places[k].path]).major = Accepted[i]
    BY <1>8 DEF Offers
  <2>2. i \in ranks /\ ranks \subseteq Nat
    BY <1>1, <1>7, <2>1
  <2>3. PICK j \in ranks : \A x \in ranks : j <= x
    <3> HIDE DEF ranks
    <3>1. Min(ranks) \in ranks /\ \A x \in ranks : Min(ranks) <= x
      BY <2>2, LeastExists
    <3>2. QED
      BY <3>1
  <2>4. PICK f \in q.found : f.major = Accepted[j]
    BY <2>3
  <2>5. f \in Preferred(s)
    BY <2>3, <2>4 DEF Preferred
  <2>6. f.is \in Range(Accepted)
    BY <1>5, <2>3, <2>4 DEF Range
  <2>7. f \in Chosen(s)
    BY <2>5, <2>6 DEF Chosen
  <2>8. j \in 1 .. i
    BY <1>1, <2>2, <2>3
  <2>9. QED
    BY <2>4, <2>7, <2>8
<1>9. ASSUME NEW f \in Chosen(s)
      PROVE  LET path == Places[f.place].path IN
             /\ \A i \in Offers(s, f.major) : f.place <= i
             /\ f.place = Len(Places) => Usable(s) = {}
             /\ path \in search[s].steady =>
                   /\ machine[path] # Unset
                   /\ Parsed(machine[path]).major \in Range(Accepted)
  <2>1. f \in q.found /\ f.is = f.major /\ f.is \in Range(Accepted)
    BY <1>5, <1>6
  <2>2. ASSUME NEW i \in Offers(s, f.major) PROVE f.place <= i
    BY <1>5, <1>7, <2>1 DEF Offers
  <2>3. f.place = Len(Places) => Usable(s) = {}
    BY <1>4, <1>5, <2>1
  <2>4. QED
    BY <1>5, <2>1, <2>2, <2>3
<1>10. QED
  BY <1>8, <1>9

(* However the machine changes during a search: a Java that stays and that   *)
(* the version accepts is found, in the order in which                       *)
(* discover_java_installations looks and get_java_for_minecraft prefers, and *)
(* a Java that is started is one that the version accepts.                   *)
THEOREM BestJavaIsChosen == StartsSpec => []BestJava
<1>1. QED
  BY SearchInvInit, SearchInvStep, BestJavaFollows, PTL DEF StartsSpec
=============================================================================
