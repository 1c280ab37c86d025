------------------------------ MODULE JarCache ------------------------------
(* The cache of server JARs (app/versions/application/                       *)
(* jar_cache_manager.py) and the copy of a cached JAR into the directory of  *)
(* a new server, for one cache key: files of distinct keys have nothing in   *)
(* common.                                                                   *)
(*                                                                           *)
(* A request suspends at every chunk, so two requests for one key share the  *)
(* temporary file, the cached file and its metadata.  What a descriptor      *)
(* writes or reads is an inode, which a name may or may not still lead to.   *)
(* A URL is the number of the build it leads to, the content of a file the   *)
(* builds its chunks were written from, 0 for a chunk nobody wrote.          *)
EXTENDS Naturals, Sequences

CONSTANTS
    None,
    MaxBuild,    \* bound: the URLs that a version ever has
    JarRequests, \* get_server_jar calls in flight
    Chunks,      \* bound: the chunks of a JAR
    Inodes       \* bound: numbers; two names and a descriptor per request
                 \* need no more

ASSUME JarCacheAssumption ==
    /\ {MaxBuild, Chunks} \subseteq Nat \ {0}
    /\ Inodes \subseteq Nat
    /\ None \notin Inodes \cup (1 .. MaxBuild)

VARIABLES
    jarReq,     \* request -> its stage, URL, descriptor, position and copy
    content,    \* inode -> the chunks written to it
    torn,       \* inodes that two requests have written at the same time
    tempJar,    \* the inode of <key>.tmp
    cachedJar,  \* the inode of <key>.jar
    metadata    \* the download_url in .metadata/<key>.json

jarVars == <<jarReq, content, torn, tempJar, cachedJar, metadata>>

Urls == 1 .. MaxBuild
Data == UNION {[1 .. n -> 0 .. MaxBuild] : n \in 0 .. Chunks}

JarStages == {"idle", "checking", "asking", "writing", "noting", "opening",
              "copying", "delivered"}

(* Types of the state.                                                       *)
JarTypeOK ==
    /\ jarReq \in [JarRequests -> [pc: JarStages, url: Urls \cup {None},
                                   fd: Inodes \cup {None}, at: 0 .. Chunks,
                                   copy: Data]]
    /\ content \in [Inodes -> Data]
    /\ torn \in SUBSET Inodes
    /\ {tempJar, cachedJar} \subseteq Inodes \cup {None}
    /\ metadata \in Urls \cup {None}

Quiet == [pc |-> "idle", url |-> None, fd |-> None, at |-> 0, copy |-> <<>>]

JarInit ==
    /\ jarReq = [r \in JarRequests |-> Quiet]
    /\ content = [i \in Inodes |-> <<>>]
    /\ torn = {}
    /\ tempJar = None
    /\ cachedJar = None
    /\ metadata = None

-----------------------------------------------------------------------------
(* Every chunk of one build.                                                 *)
Whole(c) ==
    /\ Len(c) = Chunks
    /\ \E u \in Urls : \A k \in 1 .. Chunks : c[k] = u

(* _verify_jar_integrity: the directory of a ZIP file is its last chunk.     *)
(* testzip reports a damaged member by its return value, which is ignored.   *)
Intact(c) == Len(c) = Chunks

(* The chunk at position k is written; a file that was shorter has a hole.   *)
Put(c, k, u) ==
    [n \in 1 .. (IF Len(c) > k THEN Len(c) ELSE k) |->
        IF n = k THEN u ELSE IF n <= Len(c) THEN c[n] ELSE 0]

(* The file system frees an inode that no name and no descriptor leads to.   *)
Settle(c, t) ==
    LET used == ({tempJar', cachedJar'} \cup {jarReq'[r].fd : r \in JarRequests})
                    \ {None}
    IN  /\ content' = [i \in Inodes |-> IF i \in used THEN c[i] ELSE <<>>]
        /\ torn' = t \cap used

Advance(r, new) == jarReq' = [jarReq EXCEPT ![r] = new]

(* get_or_download_jar finds a cached JAR that is young and intact, and      *)
(* reads its metadata, or begins to download.  young: a file of more than 30 *)
(* days is not used.                                                         *)
Ask(r, u, young) ==
    /\ jarReq[r].pc = "idle"
    /\ Advance(r, [Quiet EXCEPT !.url = u,
           !.pc = IF /\ young /\ cachedJar # None /\ metadata # None
                     /\ Intact(content[cachedJar])
                  THEN "checking" ELSE "asking"])
    /\ UNCHANGED <<content, torn, tempJar, cachedJar, metadata>>

(* The metadata is read: a missing file or another URL means a download.     *)
ReadMetadata(r) ==
    /\ jarReq[r].pc = "checking"
    /\ Advance(r, [jarReq[r] EXCEPT
           !.pc = IF metadata = jarReq[r].url THEN "opening" ELSE "asking"])
    /\ UNCHANGED <<content, torn, tempJar, cachedJar, metadata>>

Free == Inodes \ ({tempJar, cachedJar} \cup {jarReq[r].fd : r \in JarRequests})

(* The response is there and the temporary file is opened for writing: one   *)
(* that exists is emptied, whoever else is writing it.                       *)
OpenTemp(r) ==
    /\ jarReq[r].pc = "asking"
    /\ \E i \in Inodes :
        /\ IF tempJar # None
           THEN i = tempJar
           ELSE i \in Free /\ \A j \in Free : i <= j
        /\ tempJar' = i
        /\ Advance(r, [jarReq[r] EXCEPT !.pc = "writing", !.fd = i])
        /\ UNCHANGED <<cachedJar, metadata>>
        /\ Settle([content EXCEPT ![i] = <<>>],
                  IF \E o \in JarRequests : jarReq[o].pc = "writing" /\ jarReq[o].fd = i
                  THEN torn \cup {i} ELSE torn)

WriteChunk(r) ==
    /\ jarReq[r].pc = "writing"
    /\ jarReq[r].at < Chunks
    /\ LET k == jarReq[r].at + 1 IN
        /\ Advance(r, [jarReq[r] EXCEPT !.at = k])
        /\ content' = [content EXCEPT ![jarReq[r].fd] = Put(@, k, jarReq[r].url)]
    /\ UNCHANGED <<torn, tempJar, cachedJar, metadata>>

(* The handler of _download_and_cache unlinks the three files, whoever       *)
(* wrote them, and the creation of the server fails.                         *)
Abandon(r) ==
    /\ Advance(r, Quiet)
    /\ tempJar' = None
    /\ cachedJar' = None
    /\ metadata' = None
    /\ Settle(content, torn)

(* The request or the transfer fails, or the metadata cannot be written.     *)
DownloadFails(r) ==
    /\ jarReq[r].pc \in {"asking", "writing", "noting"}
    /\ Abandon(r)

(* Mutant: the downloaded file is not verified.                              *)
Install_Unverified(r) ==
    /\ jarReq[r].pc = "writing"
    /\ jarReq[r].at = Chunks
    /\ tempJar # None
    /\ cachedJar' = tempJar
    /\ tempJar' = None
    /\ Advance(r, [jarReq[r] EXCEPT !.pc = "noting", !.fd = None, !.at = 0])
    /\ UNCHANGED metadata
    /\ Settle(content, torn)

(* The transfer is over and the file of that name, whoever wrote it, is      *)
(* verified and renamed.                                                     *)
Install(r) ==
    /\ jarReq[r].pc = "writing"
    /\ jarReq[r].at = Chunks
    /\ IF tempJar # None /\ Intact(content[tempJar])
       THEN /\ cachedJar' = tempJar
            /\ tempJar' = None
            /\ Advance(r, [jarReq[r] EXCEPT !.pc = "noting", !.fd = None, !.at = 0])
            /\ UNCHANGED metadata
            /\ Settle(content, torn)
       ELSE Abandon(r)

WriteMetadata(r) ==
    /\ jarReq[r].pc = "noting"
    /\ metadata' = jarReq[r].url
    /\ Advance(r, [jarReq[r] EXCEPT !.pc = "opening"])
    /\ UNCHANGED <<content, torn, tempJar, cachedJar>>

(* copy_jar_to_server opens the path it was given.                           *)
OpenJar(r) ==
    /\ jarReq[r].pc = "opening"
    /\ IF cachedJar # None
       THEN Advance(r, [jarReq[r] EXCEPT !.pc = "copying", !.fd = cachedJar])
       ELSE Advance(r, Quiet)
    /\ UNCHANGED <<content, torn, tempJar, cachedJar, metadata>>

(* A chunk is read and written to server.jar; the copy is over where the     *)
(* file ends.                                                                *)
CopyChunk(r) ==
    /\ jarReq[r].pc = "copying"
    /\ LET q == jarReq[r]
           k == q.at + 1
       IN  IF k <= Len(content[q.fd])
           THEN Advance(r, [q EXCEPT !.at = k, !.copy = Append(@, content[q.fd][k])])
           ELSE Advance(r, [q EXCEPT !.pc = "delivered"])
    /\ UNCHANGED <<content, torn, tempJar, cachedJar, metadata>>

(* The files are closed and the request is over: the server is created with  *)
(* its copy, or the copy failed and the server's directory is removed.       *)
Leave(r) ==
    /\ jarReq[r].pc \in {"copying", "delivered"}
    /\ Advance(r, Quiet)
    /\ UNCHANGED <<tempJar, cachedJar, metadata>>
    /\ Settle(content, torn)

(* cleanup_old_cache, for a JAR that is old or in a cache that is too large. *)
Evict ==
    /\ cachedJar # None
    /\ cachedJar' = None
    /\ metadata' = None
    /\ UNCHANGED <<jarReq, tempJar>>
    /\ Settle(content, torn)

(* The process ends: descriptors are closed, files stay as they are.         *)
JarCrash ==
    /\ jarReq' = [r \in JarRequests |-> Quiet]
    /\ UNCHANGED <<tempJar, cachedJar, metadata>>
    /\ Settle(content, torn)

(* Every step but the request's first, which needs the URL of a version.     *)
JarNext ==
    \/ \E r \in JarRequests :
        \/ ReadMetadata(r) \/ OpenTemp(r) \/ WriteChunk(r) \/ DownloadFails(r)
        \/ Install(r) \/ WriteMetadata(r) \/ OpenJar(r) \/ CopyChunk(r) \/ Leave(r)
    \/ Evict
=============================================================================
