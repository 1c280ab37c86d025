---------------------------- MODULE GroupsProofs ----------------------------
(* The files of a server follow the groups that are attached to it, and a    *)
(* running server learns its whitelist, for any groups, servers, players and *)
(* requests, whatever fails and however the requests overlap.                *)
EXTENDS Groups, TLAPS

(* What is known of a request at each point of its work.                    *)
Sound(r) ==
    /\ r.pc = "idle" => r = NoOp
    /\ r.pc # "idle" => r.group \in GroupIds
    /\ r.pc \in {"sync", "sleep"} => r.stage = "sync"
    /\ r.pc = "tell" => r.stage = "tell"
    /\ r.pc = "sleep" => r.todo = {}
    /\ r.pc \in {"reload", "opping", "deopping"} => r.at \in Servers

(* The request is going to write the files of the server, or to have it read *)
(* its whitelist again.                                                      *)
Awaits(r, s) == r.stage = "sync" /\ s \in r.todo
Pending(r, s) ==
    \/ r.pc = "reload" /\ r.at = s
    \/ /\ r.pc # "idle" /\ TypeOf[r.group] = "whitelist"
       /\ \/ r.stage = "sync" /\ r.to = s
          \/ r.stage = "tell" /\ s \in r.todo

Nobody == [p \in Players |-> None]
Memberships == [GroupIds -> [Players -> Names \cup {None}]]
Unlisted(s, f, a) == ~HasType(a, s, "whitelist") => f[s]["whitelist"] = {}
Agrees(s) == memory[s]["whitelist"] = files[s]["whitelist"]

(* A file is behind only while a request has still to write it or its last  *)
(* write failed; a started server is behind its file only while a request   *)
(* has still to tell it or something was lost.  That nobody is left in a    *)
(* whitelist no group of which is attached is what makes it safe to send no *)
(* reload when a server has no such group any more.                         *)
GroupsInv ==
    /\ TypeOK
    /\ \A o \in Requests : Sound(op[o])
    /\ \A g \in GroupIds \ exists : members[g] = Nobody
    /\ FilesFollow
    /\ unwritten \subseteq untold
    /\ \A s \in Servers \ unwritten : Present(s) => Unlisted(s, files, attached)
    /\ \A s \in Servers \ untold :
          /\ phase[s] = "loaded" => Agrees(s)
          /\ Running(s) => Agrees(s) \/ \E o \in Requests : Pending(op[o], s)

LEMMA InvSuffices == GroupsInv => TypeOK /\ FilesFollow /\ WhitelistTold
<1> SUFFICES ASSUME GroupsInv, Quiet, NEW s \in Servers \ untold, Running(s)
             PROVE  Agrees(s)
  BY DEF GroupsInv, WhitelistTold, Agrees
<1>1. ASSUME NEW o \in Requests PROVE ~Pending(op[o], s)
  BY DEF Quiet, Pending
<1> QED
  BY <1>1 DEF GroupsInv

LEMMA InitInv == Init => GroupsInv
<1> SUFFICES ASSUME Init PROVE GroupsInv
  OBVIOUS
<1> USE DEF Init
<1>1. NoOp \in OpRecord
  BY DEF NoOp, OpRecord, Pc
<1>2. TypeOK
  BY <1>1 DEF TypeOK, Lists, NoLists, Phases
<1>3. \A s \in Servers : Derived(members, attached, s) = NoLists
  BY DEF Derived, NoLists
<1>4. FilesFollow
  BY <1>3 DEF FilesFollow
<1>5. \A s \in Servers : files[s]["whitelist"] = {}
  BY DEF NoLists, Types
<1>6. \A o \in Requests : Sound(op[o])
  BY DEF Sound, NoOp
<1>7. \A s \in Servers : phase[s] = "stopped"
  OBVIOUS
<1> QED
  BY <1>2, <1>4, <1>5, <1>6, <1>7 DEF GroupsInv, Unlisted, Running

-----------------------------------------------------------------------------
(* Operators of the model                                                    *)

LEMMA DerivedType ==
    ASSUME NEW m, NEW a, NEW s
    PROVE  /\ Derived(m, a, s) \in Lists
           /\ ~HasType(a, s, "whitelist") => Derived(m, a, s)["whitelist"] = {}
BY DEF Derived, Lists, HasType, Types

(* Neither the commands for a server nor their end change what a request    *)
(* has still to do.                                                         *)
SameTask(q, r) ==
    q.stage = r.stage /\ q.group = r.group /\ q.to = r.to /\ q.todo = r.todo

LEMMA BackIs ==
    ASSUME NEW r \in OpRecord
    PROVE  Back(r) \in OpRecord /\ Back(r).pc = r.stage /\ SameTask(Back(r), r)
BY DEF OpRecord, Pc, Back, SameTask

LEMMA BackIsSound ==
    ASSUME NEW r \in OpRecord, r.group \in GroupIds
    PROVE  Sound(Back(r)) /\ Back(r).pc \in {"sync", "tell"}
BY BackIs DEF Sound, SameTask, OpRecord

LEMMA OppingIs ==
    ASSUME NEW r \in OpRecord, NEW s \in Servers, NEW f, f[s]["op"] \subseteq Players,
           r.group \in GroupIds
    PROVE  /\ Opping(r, s, f) \in OpRecord
           /\ SameTask(Opping(r, s, f), r)
           /\ Sound(Opping(r, s, f))
           /\ Opping(r, s, f).pc \in {"opping", "sync", "tell"}
<1> DEFINE q == [r EXCEPT !.pc = "opping", !.at = s, !.ops = FALSE, !.names = f[s]["op"]]
<1>1. q \in OpRecord /\ SameTask(q, r) /\ q.pc = "opping" /\ q.at = s
  BY DEF OpRecord, Pc, SameTask
<1>2. Sound(q)
  BY <1>1 DEF Sound, SameTask
<1>3. Opping(r, s, f) \in {q, Back(r)}
  BY DEF Opping
<1> QED
  BY <1>1, <1>2, <1>3, BackIs, BackIsSound

(* A request with the same task has the same servers to write, and tells    *)
(* the same servers, but for the one that it was just telling.              *)
LEMMA SameTaskWaits ==
    ASSUME NEW q, NEW r, SameTask(q, r), NEW s
    PROVE  /\ Awaits(q, s) <=> Awaits(r, s)
           /\ Pending(r, s) /\ r.pc # "reload" /\ q.pc # "idle" => Pending(q, s)
BY DEF SameTask, Awaits, Pending

-----------------------------------------------------------------------------
(* GroupFileSyncer                                                           *)

(* A request that is about to go on with its sync, the database being m and *)
(* a from now on: a server whose files the change put behind is still to be *)
(* written, and if it has lost its last whitelist is to be told.            *)
Ready(o, r, m, a) ==
    /\ r \in OpRecord /\ r.pc = "sync" /\ r.stage = "sync" /\ r.group \in GroupIds
    /\ m \in Memberships /\ a \subseteq Servers \X GroupIds
    /\ \A g \in GroupIds \ exists : m[g] = Nobody
    /\ \A s \in Servers \ unwritten : Present(s) =>
          \/ files[s] = Derived(m, a, s)
          \/ s \in r.todo
          \/ \E p \in Requests \ {o} : Awaits(op[p], s)
    /\ \A s \in Servers : Pending(op[o], s) => Pending(r, s)
    /\ \A s \in Servers \ unwritten : Present(s) =>
          Unlisted(s, files, a) \/ (r.todo = {s} /\ Pending(r, s))

(* What a step of the sync leaves to be shown, once it is known what the    *)
(* request is after it and which server, if any, was visited.               *)
LEMMA Synced ==
    ASSUME GroupsInv, NEW o \in Requests, NEW r, NEW m, NEW a, Ready(o, r, m, a),
           members' = m, attached' = a, UNCHANGED <<exists, world>>,
           NEW q \in OpRecord, op' = [op EXCEPT ![o] = q], Sound(q),
           files' \in [Servers -> Lists], unwritten' \subseteq untold', untold' \subseteq Servers,
           untold \subseteq untold',
           \A s \in Servers \ unwritten' : Present(s) =>
              \/ files'[s] = Derived(m, a, s)
              \/ files'[s] = files[s] /\ s \notin unwritten /\ (s \in r.todo => Awaits(q, s)),
           \A s \in Servers \ unwritten' : Present(s) => Unlisted(s, files', a),
           \A s \in Servers \ untold' : phase[s] = "loaded" =>
              files'[s]["whitelist"] = files[s]["whitelist"],
           \A s \in Servers \ untold' : Running(s) =>
              files'[s]["whitelist"] = files[s]["whitelist"] \/ Pending(q, s),
           \A s \in Servers \ untold' : Running(s) /\ Pending(r, s) => Pending(q, s)
    PROVE  GroupsInv'
<1> USE DEF world
<1>1. op \in [Requests -> OpRecord] /\ op' \in [Requests -> OpRecord]
  BY DEF GroupsInv, TypeOK
<1>2. op'[o] = q /\ \A p \in Requests \ {o} : op'[p] = op[p]
  BY <1>1
<1>3. TypeOK'
  BY <1>1 DEF GroupsInv, TypeOK, Ready, Memberships
<1>4. \A p \in Requests : Sound(op'[p])
  BY <1>2 DEF GroupsInv
<1>5. (\A g \in GroupIds \ exists : members[g] = Nobody)'
  BY DEF Ready
<1>6. FilesFollow'
  <2> SUFFICES ASSUME NEW s \in Servers, Present(s), s \notin unwritten',
                      files'[s] # Derived(m, a, s)
               PROVE  \E p \in Requests : Awaits(op'[p], s)
    BY DEF FilesFollow, Present, Awaits
  <2>1. files'[s] = files[s] /\ s \notin unwritten /\ (s \in r.todo => Awaits(q, s))
    OBVIOUS
  <2>2. s \in r.todo \/ \E p \in Requests \ {o} : Awaits(op[p], s)
    BY <2>1 DEF Ready
  <2> QED
    BY <1>2, <2>1, <2>2
<1>7. (\A s \in Servers \ unwritten : Present(s) => Unlisted(s, files, attached))'
  BY DEF Present, Unlisted, HasType
<1>8. ASSUME NEW s \in Servers \ untold'
      PROVE  /\ phase[s] = "loaded" => memory[s]["whitelist"] = files'[s]["whitelist"]
             /\ Running(s) => \/ memory[s]["whitelist"] = files'[s]["whitelist"]
                              \/ \E p \in Requests : Pending(op'[p], s)
  <2>1. s \in Servers \ untold
    OBVIOUS
  <2>2. phase[s] = "loaded" => memory[s]["whitelist"] = files'[s]["whitelist"]
    BY <2>1 DEF GroupsInv, Agrees
  <2>3. ASSUME Running(s), memory[s]["whitelist"] # files'[s]["whitelist"]
        PROVE  \E p \in Requests : Pending(op'[p], s)
    <3>1. CASE Pending(q, s)
      BY <1>2, <3>1
    <3>2. CASE ~Pending(q, s)
      <4>1. memory[s]["whitelist"] # files[s]["whitelist"]
        BY <2>3, <3>2
      <4>2. PICK p \in Requests : Pending(op[p], s)
        BY <2>1, <2>3, <4>1 DEF GroupsInv, Agrees
      <4>3. p # o
        BY <2>3, <3>2, <4>2 DEF Ready
      <4> QED
        BY <1>2, <4>2, <4>3
    <3> QED
      BY <3>1, <3>2
  <2> QED
    BY <2>2, <2>3
<1>9. (\A s \in Servers \ untold :
          /\ phase[s] = "loaded" => Agrees(s)
          /\ Running(s) => Agrees(s) \/ \E p \in Requests : Pending(op[p], s))'
  BY <1>8 DEF Agrees, Running
<1>10. (unwritten \subseteq untold)'
  OBVIOUS
<1> QED
  BY <1>3, <1>4, <1>5, <1>6, <1>7, <1>9, <1>10 DEF GroupsInv

(* Of a request in its sync only the detached or attached server, if its    *)
(* group is a whitelist, is still to be told, and stays so.                 *)
LEMMA StaysPending ==
    ASSUME NEW r \in OpRecord, r.pc = "sync", r.stage = "sync", NEW q,
           q.pc # "idle", q.stage = "sync", q.group = r.group, q.to = r.to, NEW s
    PROVE  Pending(r, s) => Pending(q, s)
BY DEF Pending

LEMMA WritesKeeps ==
    ASSUME GroupsInv, NEW o \in Requests, NEW r, NEW m, NEW a, Ready(o, r, m, a),
           members' = m, attached' = a, UNCHANGED <<exists, world>>,
           NEW s \in r.todo, Writes(o, r, s, m, a)
    PROVE  GroupsInv'
<1> DEFINE d == [r EXCEPT !.todo = @ \ {s}, !.at = s, !.ops = HasType(a, s, "op")]
           f == [files EXCEPT ![s] = Derived(m, a, s)]
<1>1. /\ r \in OpRecord /\ r.pc = "sync" /\ r.stage = "sync" /\ r.group \in GroupIds
      /\ s \in Servers
  BY DEF Ready, OpRecord
<1>2. d \in OpRecord /\ d.group = r.group /\ d.to = r.to /\ d.stage = "sync"
      /\ d.todo = r.todo \ {s} /\ d.at = s /\ d.pc = "sync"
  BY <1>1 DEF OpRecord, HasType
<1>3. files \in [Servers -> Lists] /\ unwritten \subseteq untold /\ untold \subseteq Servers
  BY DEF GroupsInv, TypeOK
<1>4. f \in [Servers -> Lists] /\ f[s] = Derived(m, a, s)
      /\ \A t \in Servers \ {s} : f[t] = files[t]
  BY <1>1, <1>3, DerivedType
<1> HIDE DEF d, f
<1>5. /\ Back(d) \in OpRecord /\ Back(d).pc = "sync" /\ SameTask(Back(d), d)
      /\ Sound(Back(d))
  BY <1>1, <1>2, BackIs, BackIsSound
<1>6. ASSUME NEW q \in OpRecord, SameTask(q, d), q.pc # "idle", NEW t \in Servers
      PROVE  /\ Pending(r, t) => Pending(q, t)
             /\ t \in r.todo \ {s} => Awaits(q, t)
  BY <1>1, <1>2, <1>6, StaysPending DEF SameTask, Awaits
<1>7. CASE phase[s] = "deleted"
  <2>1. UNCHANGED <<files, unwritten, untold>> /\ op' = [op EXCEPT ![o] = Back(d)]
    BY <1>7 DEF Writes, Becomes, lapses, d
  <2>2. \A t \in Servers \ unwritten : Present(t) => t # s /\ Unlisted(t, files, a)
    BY <1>7 DEF Present, Ready
  <2> QED
    BY <1>3, <1>5, <1>6, <2>1, <2>2, Synced
<1>8. CASE phase[s] # "deleted"
  <2> DEFINE q == IF Running(s) /\ HasType(a, s, "whitelist")
                  THEN [d EXCEPT !.pc = "reload"]
                  ELSE IF d.ops THEN Opping(d, s, f) ELSE Back(d)
  <2>1. /\ files' = f
        /\ unwritten' = unwritten \ {s}
        /\ untold' = IF phase[s] = "loaded" THEN untold \cup {s} ELSE untold
        /\ op' = [op EXCEPT ![o] = q]
    BY <1>8 DEF Writes, Becomes, d, f
  <2>2. /\ q \in OpRecord /\ SameTask(q, d) /\ Sound(q) /\ q.pc # "idle"
        /\ Running(s) /\ HasType(a, s, "whitelist") => q.pc = "reload" /\ q.at = s
    <3>1. CASE Running(s) /\ HasType(a, s, "whitelist")
      <4> DEFINE e == [d EXCEPT !.pc = "reload"]
      <4>1. e \in OpRecord /\ SameTask(e, d) /\ e.pc = "reload" /\ e.at = s
            /\ e.group = d.group
        BY <1>2 DEF OpRecord, Pc, SameTask
      <4>2. q = e
        BY <3>1
      <4> QED
        BY <1>1, <1>2, <4>1, <4>2 DEF Sound
    <3>2. CASE ~(Running(s) /\ HasType(a, s, "whitelist")) /\ d.ops
      <4>1. f[s]["op"] \subseteq Players
        BY <1>1, <1>4 DEF Lists, Types
      <4>2. q = Opping(d, s, f)
        BY <3>2
      <4> QED
        BY <1>1, <1>2, <3>2, <4>1, <4>2, OppingIs
    <3>3. CASE ~(Running(s) /\ HasType(a, s, "whitelist")) /\ ~d.ops
      BY <1>5, <3>3
    <3> QED
      BY <3>1, <3>2, <3>3
  <2> HIDE DEF q
  <2>3. \A t \in Servers \ unwritten' : Present(t) =>
           \/ f[t] = Derived(m, a, t)
           \/ f[t] = files[t] /\ t \notin unwritten /\ (t \in r.todo => Awaits(q, t))
    BY <1>4, <1>6, <2>1, <2>2
  <2>4. \A t \in Servers \ unwritten' : Present(t) => Unlisted(t, f, a)
    <3> SUFFICES ASSUME NEW t \in Servers \ unwritten', Present(t) PROVE Unlisted(t, f, a)
      OBVIOUS
    <3>1. CASE t = s
      BY <1>4, <3>1, DerivedType DEF Unlisted
    <3>2. CASE t # s
      BY <1>4, <2>1, <3>2 DEF Ready, Unlisted
    <3> QED
      BY <3>1, <3>2
  <2>5. \A t \in Servers \ untold' : phase[t] = "loaded" => f[t]["whitelist"] = files[t]["whitelist"]
    BY <1>4, <2>1
  <2>6. \A t \in Servers \ untold' : Running(t) =>
           f[t]["whitelist"] = files[t]["whitelist"] \/ Pending(q, t)
    <3> SUFFICES ASSUME s \notin untold', Running(s), ~HasType(a, s, "whitelist"), ~Pending(q, s)
                 PROVE  f[s]["whitelist"] = files[s]["whitelist"]
      BY <1>4, <2>2 DEF Pending
    <3>1. s \notin unwritten
      BY <1>3, <2>1
    <3>2. ~Pending(r, s)
      BY <1>1, <1>6, <2>2
    <3>3. files[s]["whitelist"] = {}
      BY <1>1, <1>8, <3>1, <3>2 DEF Ready, Unlisted, Present
    <3> QED
      BY <1>4, <3>3, DerivedType
  <2>7. /\ files' \in [Servers -> Lists] /\ unwritten' \subseteq untold'
        /\ untold' \subseteq Servers /\ untold \subseteq untold'
    BY <1>1, <1>3, <1>4, <2>1
  <2>8. \A t \in Servers \ untold' : Running(t) /\ Pending(r, t) => Pending(q, t)
    BY <1>6, <2>2
  <2>9. op' = [op EXCEPT ![o] = q] /\ q \in OpRecord /\ Sound(q) /\ files' = f
    BY <2>1, <2>2
  <2> HIDE DEF q
  <2> QED
    BY <2>3, <2>4, <2>5, <2>6, <2>7, <2>8, <2>9, Synced
<1> QED
  BY <1>7, <1>8

LEMMA WriteFailsKeeps ==
    ASSUME GroupsInv, NEW o \in Requests, NEW r, NEW m, NEW a, Ready(o, r, m, a),
           members' = m, attached' = a, UNCHANGED <<exists, world>>,
           NEW s \in r.todo, WriteFails(o, r, s, m, a)
    PROVE  GroupsInv'
<1> DEFINE d == [r EXCEPT !.todo = @ \ {s}, !.failed = TRUE]
           q == Back(d)
<1>1. /\ r \in OpRecord /\ r.pc = "sync" /\ r.stage = "sync" /\ r.group \in GroupIds
      /\ s \in Servers
  BY DEF Ready, OpRecord
<1>2. d \in OpRecord /\ d.group = r.group /\ d.to = r.to /\ d.stage = "sync"
      /\ d.todo = r.todo \ {s}
  BY <1>1 DEF OpRecord
<1>3. files \in [Servers -> Lists] /\ unwritten \subseteq untold /\ untold \subseteq Servers
  BY DEF GroupsInv, TypeOK
<1>4. /\ op' = [op EXCEPT ![o] = q]
      /\ unwritten' = unwritten \cup {s} /\ untold' = untold \cup {s}
      /\ files' = files \/ files' = [files EXCEPT ![s]["op"] = Derived(m, a, s)["op"]]
  BY DEF WriteFails, Becomes
<1> HIDE DEF d
<1>5. q \in OpRecord /\ q.pc = "sync" /\ SameTask(q, d) /\ Sound(q)
  BY <1>1, <1>2, BackIs, BackIsSound
<1> HIDE DEF q
<1>6. Derived(m, a, s)["op"] \subseteq Players
  BY DerivedType DEF Lists, Types
<1>7. /\ files' \in [Servers -> Lists]
      /\ \A t \in Servers \ {s} : files'[t] = files[t]
      /\ files'[s]["whitelist"] = files[s]["whitelist"]
  BY <1>1, <1>3, <1>4, <1>6 DEF Lists, Types
<1>8. /\ unwritten' \subseteq untold' /\ untold' \subseteq Servers /\ untold \subseteq untold'
  BY <1>1, <1>3, <1>4
<1>9. \A t \in Servers \ unwritten' : Present(t) =>
         \/ files'[t] = Derived(m, a, t)
         \/ files'[t] = files[t] /\ t \notin unwritten /\ (t \in r.todo => Awaits(q, t))
  BY <1>2, <1>4, <1>5, <1>7 DEF Awaits, SameTask
<1>10. \A t \in Servers \ unwritten' : Present(t) => Unlisted(t, files', a)
  <2>1. \A t \in Servers \ unwritten' : t # s /\ t \in Servers \ unwritten /\ r.todo # {t}
    BY <1>4
  <2> QED
    BY <1>7, <2>1 DEF Ready, Unlisted
<1>11. \A t \in Servers \ untold' : phase[t] = "loaded" =>
          files'[t]["whitelist"] = files[t]["whitelist"]
  BY <1>7
<1>12. \A t \in Servers \ untold' : Running(t) =>
          files'[t]["whitelist"] = files[t]["whitelist"] \/ Pending(q, t)
  BY <1>7
<1>13. \A t \in Servers \ untold' : Running(t) /\ Pending(r, t) => Pending(q, t)
  BY <1>1, <1>2, <1>5, StaysPending DEF SameTask
<1> QED
  <2>1. op' = [op EXCEPT ![o] = q] /\ q \in OpRecord /\ Sound(q) /\ files' \in [Servers -> Lists]
    BY <1>4, <1>5, <1>7
  <2> QED
    BY <1>8, <1>9, <1>10, <1>11, <1>13, <1>12, <2>1, Synced

(* Every server was visited: the request waits for its retry, or comes to   *)
(* the commands of the change.                                              *)
LEMMA VisitedKeeps ==
    ASSUME GroupsInv, NEW o \in Requests, NEW r, NEW m, NEW a, Ready(o, r, m, a),
           members' = m, attached' = a, UNCHANGED <<exists, world>>,
           r.todo = {}, UNCHANGED <<files, lapses>>,
           NEW q \in OpRecord, op' = [op EXCEPT ![o] = q], Sound(q),
           \A s \in Servers : Pending(r, s) => Pending(q, s)
    PROVE  GroupsInv'
<1>1. UNCHANGED <<files, unwritten, untold>>
  BY DEF lapses
<1>2. /\ files' \in [Servers -> Lists] /\ unwritten' \subseteq untold'
      /\ untold' \subseteq Servers /\ untold \subseteq untold'
  BY <1>1 DEF GroupsInv, TypeOK
<1>3. \A t \in Servers \ unwritten' : Present(t) => Unlisted(t, files', a)
  BY <1>1 DEF Ready
<1> QED
  BY <1>1, <1>2, <1>3, Synced

LEMMA ProceedsKeeps ==
    ASSUME GroupsInv, NEW o \in Requests, NEW r, NEW m, NEW a, Ready(o, r, m, a),
           members' = m, attached' = a, UNCHANGED <<exists, world>>,
           Proceeds(o, r, m, a)
    PROVE  GroupsInv'
<1>1. /\ r \in OpRecord /\ r.pc = "sync" /\ r.stage = "sync" /\ r.group \in GroupIds
      /\ a \subseteq Servers \X GroupIds
  BY DEF Ready
<1>2. CASE \E s \in r.todo : Writes(o, r, s, m, a)
  BY <1>2, WritesKeeps
<1>3. CASE \E s \in r.todo : WriteFails(o, r, s, m, a)
  BY <1>3, WriteFailsKeeps
<1>4. CASE /\ r.todo = {} /\ r.failed /\ r.tries < Retries
           /\ Becomes(o, [r EXCEPT !.pc = "sleep"])
           /\ UNCHANGED <<files, lapses>>
  <2> DEFINE q == [r EXCEPT !.pc = "sleep"]
  <2>1. /\ q \in OpRecord /\ q.pc = "sleep" /\ q.stage = "sync" /\ q.group = r.group
        /\ q.to = r.to /\ q.todo = {} /\ op' = [op EXCEPT ![o] = q]
    BY <1>1, <1>4 DEF OpRecord, Pc, Becomes
  <2> HIDE DEF q
  <2>2. Sound(q)
    BY <1>1, <2>1 DEF Sound
  <2>3. \A s \in Servers : Pending(r, s) => Pending(q, s)
    BY <1>1, <2>1, StaysPending
  <2> QED
    BY <1>4, <2>1, <2>2, <2>3, VisitedKeeps
<1>5. CASE /\ r.todo = {} /\ ~(r.failed /\ r.tries < Retries)
           /\ Becomes(o, [NoOp EXCEPT !.pc = "tell", !.stage = "tell", !.group = r.group,
                            !.todo = IF r.to = None THEN Reached(a, r.group) ELSE {r.to},
                            !.gone = r.gone])
           /\ UNCHANGED <<files, lapses>>
  <2> DEFINE todo == IF r.to = None THEN Reached(a, r.group) ELSE {r.to}
             q == [NoOp EXCEPT !.pc = "tell", !.stage = "tell", !.group = r.group,
                               !.todo = todo, !.gone = r.gone]
  <2>1. todo \subseteq Servers /\ r.gone \subseteq Players /\ r.to \in Servers \cup {None}
    BY <1>1 DEF Reached, OpRecord
  <2>2. op' = [op EXCEPT ![o] = q]
    BY <1>5 DEF Becomes
  <2>3. \A s \in Servers : r.to = s => todo = {s}
    BY GroupAssumption
  <2> HIDE DEF todo
  <2>4. /\ q \in OpRecord /\ q.pc = "tell" /\ q.stage = "tell" /\ q.group = r.group
        /\ q.todo = todo
    BY <1>1, <2>1 DEF NoOp, OpRecord, Pc
  <2> HIDE DEF q
  <2>5. Sound(q)
    BY <1>1, <2>4 DEF Sound
  <2>6. \A s \in Servers : Pending(r, s) => Pending(q, s)
    BY <1>1, <2>3, <2>4 DEF Pending
  <2> QED
    BY <1>5, <2>2, <2>4, <2>5, <2>6, VisitedKeeps
<1> QED
  BY <1>2, <1>3, <1>4, <1>5 DEF Proceeds

-----------------------------------------------------------------------------
(* RealTimeServerCommands                                                    *)

(* A step of a request that sends a command, or finds none to send.         *)
LEMMA Commands ==
    ASSUME GroupsInv, NEW o \in Requests, UNCHANGED <<db, files, phase, unwritten>>,
           NEW q \in OpRecord, op' = [op EXCEPT ![o] = q], Sound(q),
           memory' \in [Servers -> Lists], unwritten \subseteq untold', untold' \subseteq Servers,
           \A s \in Servers : Awaits(op[o], s) => Awaits(q, s),
           \A s \in Servers \ untold' :
              \/ memory'[s]["whitelist"] = files[s]["whitelist"]
              \/ /\ s \notin untold /\ memory'[s]["whitelist"] = memory[s]["whitelist"]
                 /\ Running(s) /\ Pending(op[o], s) => Pending(q, s)
    PROVE  GroupsInv'
<1> USE DEF db
<1>1. op \in [Requests -> OpRecord] /\ op' \in [Requests -> OpRecord]
  BY DEF GroupsInv, TypeOK
<1>2. op'[o] = q /\ \A p \in Requests \ {o} : op'[p] = op[p]
  BY <1>1
<1>3. TypeOK'
  BY <1>1 DEF GroupsInv, TypeOK
<1>4. \A p \in Requests : Sound(op'[p])
  BY <1>2 DEF GroupsInv
<1>5. FilesFollow'
  <2> SUFFICES ASSUME NEW s \in Servers, Present(s), s \notin unwritten,
                      files[s] # Derived(members, attached, s)
               PROVE  \E p \in Requests : Awaits(op'[p], s)
    BY DEF FilesFollow, Present, Awaits
  <2>1. \E p \in Requests : Awaits(op[p], s)
    BY DEF GroupsInv, FilesFollow, Awaits
  <2> QED
    BY <1>2, <2>1
<1>6. ASSUME NEW s \in Servers \ untold'
      PROVE  /\ phase[s] = "loaded" => memory'[s]["whitelist"] = files[s]["whitelist"]
             /\ Running(s) => \/ memory'[s]["whitelist"] = files[s]["whitelist"]
                              \/ \E p \in Requests : Pending(op'[p], s)
  <2> SUFFICES ASSUME memory'[s]["whitelist"] # files[s]["whitelist"]
               PROVE  phase[s] # "loaded" /\ (Running(s) => \E p \in Requests : Pending(op'[p], s))
    OBVIOUS
  <2>1. /\ s \notin untold /\ memory'[s]["whitelist"] = memory[s]["whitelist"]
        /\ Running(s) /\ Pending(op[o], s) => Pending(q, s)
    OBVIOUS
  <2>2. phase[s] # "loaded" /\ (Running(s) => \E p \in Requests : Pending(op[p], s))
    BY <2>1 DEF GroupsInv, Agrees
  <2> QED
    BY <1>2, <2>1, <2>2
<1>7. (\A s \in Servers \ untold :
          /\ phase[s] = "loaded" => Agrees(s)
          /\ Running(s) => Agrees(s) \/ \E p \in Requests : Pending(op[p], s))'
  BY <1>6 DEF Agrees, Running
<1>8. (\A s \in Servers \ unwritten : Present(s) => Unlisted(s, files, attached))'
  BY DEF GroupsInv, Present
<1>9. (\A g \in GroupIds \ exists : members[g] = Nobody)' /\ (unwritten \subseteq untold)'
  BY DEF GroupsInv
<1> QED
  BY <1>3, <1>4, <1>5, <1>7, <1>8, <1>9 DEF GroupsInv

(* What a request knows while it sends commands.                            *)
LEMMA Commanding ==
    ASSUME GroupsInv, NEW o \in Requests, op[o].pc \in {"reload", "opping", "deopping"}
    PROVE  op[o] \in OpRecord /\ op[o].at \in Servers /\ op[o].group \in GroupIds
BY DEF GroupsInv, TypeOK, Sound

(* A command reaches its server, or fails, or is not sent.                  *)
LEMMA CommandedIs ==
    ASSUME GroupsInv, NEW o \in Requests, NEW s \in Servers, NEW t \in Types,
           NEW players \in SUBSET Players, Commanded(o, s, t, players)
    PROVE  /\ memory' \in [Servers -> Lists]
           /\ unwritten \subseteq untold' /\ untold' \subseteq Servers
           /\ \A u \in Servers \ untold' :
                 \/ t = "whitelist" /\ u = s /\ memory'[u]["whitelist"] = players
                 \/ /\ u \notin untold /\ memory'[u]["whitelist"] = memory[u]["whitelist"]
                    /\ t = "whitelist" /\ u = s => ~Running(s)
<1>1. /\ memory \in [Servers -> Lists] /\ unwritten \subseteq untold /\ untold \subseteq Servers
  BY DEF GroupsInv, TypeOK
<1>2. CASE Delivered(s, t, players)
  <2>1. memory' = [memory EXCEPT ![s][t] = players]
    BY <1>2 DEF Delivered
  <2>2. /\ memory' \in [Servers -> Lists] /\ memory'[s][t] = players
        /\ \A u \in Servers \ {s} : memory'[u] = memory[u]
        /\ t # "whitelist" => memory'[s]["whitelist"] = memory[s]["whitelist"]
    BY <1>1, <2>1 DEF Lists, Types
  <2>3. untold' = IF t = "whitelist" THEN untold \ ({s} \ unwritten) ELSE untold
    BY <1>2 DEF Delivered
  <2> QED
    BY <1>1, <2>2, <2>3
<1>3. CASE Undelivered(o, s, t)
  BY <1>1, <1>3 DEF Undelivered
<1>4. CASE ~Running(s) /\ UNCHANGED <<memory, untold>>
  BY <1>1, <1>4
<1> QED
  BY <1>2, <1>3, <1>4 DEF Commanded

LEMMA ReloadsKeeps == ASSUME GroupsInv, NEW o \in Requests, Reloads(o) PROVE GroupsInv'
<1> DEFINE r == op[o]
           q == IF r.ops THEN Opping(r, r.at, files) ELSE Back(r)
<1>1. /\ r.pc = "reload" /\ op' = [op EXCEPT ![o] = q]
      /\ Commanded(o, r.at, "whitelist", files[r.at]["whitelist"])
      /\ UNCHANGED <<db, files, phase, unwritten>>
  BY DEF Reloads, Becomes
<1>2. r \in OpRecord /\ r.at \in Servers /\ r.group \in GroupIds
  BY <1>1, Commanding
<1>3. files[r.at]["op"] \subseteq Players /\ files[r.at]["whitelist"] \in SUBSET Players
      /\ "whitelist" \in Types
  BY <1>2 DEF GroupsInv, TypeOK, Lists, Types
<1>4. q \in OpRecord /\ SameTask(q, r) /\ Sound(q) /\ q.pc # "idle"
  BY <1>2, <1>3, OppingIs, BackIs, BackIsSound
<1> HIDE DEF q
<1>5. \A s \in Servers : Awaits(r, s) => Awaits(q, s)
  BY <1>4, SameTaskWaits
<1>6. \A s \in Servers \ {r.at} : Pending(r, s) => Pending(q, s)
  BY <1>1, <1>4 DEF Pending, SameTask
<1>7. /\ memory' \in [Servers -> Lists]
      /\ unwritten \subseteq untold' /\ untold' \subseteq Servers
      /\ \A u \in Servers \ untold' :
            \/ u = r.at /\ memory'[u]["whitelist"] = files[r.at]["whitelist"]
            \/ /\ u \notin untold /\ memory'[u]["whitelist"] = memory[u]["whitelist"]
               /\ u = r.at => ~Running(u)
  BY <1>1, <1>2, <1>3, CommandedIs
<1>8. \A s \in Servers \ untold' :
         \/ memory'[s]["whitelist"] = files[s]["whitelist"]
         \/ /\ s \notin untold /\ memory'[s]["whitelist"] = memory[s]["whitelist"]
            /\ Running(s) /\ Pending(r, s) => Pending(q, s)
  BY <1>6, <1>7
<1> QED
  BY <1>1, <1>4, <1>5, <1>7, <1>8, Commands

(* One name has been sent for.                                              *)
LEMMA SentKeeps ==
    ASSUME GroupsInv, NEW o \in Requests, op[o].pc \in {"opping", "deopping"},
           UNCHANGED <<db, files, phase, unwritten>>,
           NEW p \in op[o].names, Sent(o, p),
           NEW players \in SUBSET Players, Commanded(o, op[o].at, "op", players)
    PROVE  GroupsInv'
<1> DEFINE r == op[o]
           d == [r EXCEPT !.names = r.names \ {p}]
           q == IF r.names \ {p} = {} THEN Back(r) ELSE d
<1>1. r \in OpRecord /\ r.at \in Servers /\ r.group \in GroupIds /\ r.pc \notin {"idle", "reload"}
  BY Commanding
<1>2. op' = [op EXCEPT ![o] = q]
  BY DEF Sent, Becomes
<1>3. d \in OpRecord /\ SameTask(d, r) /\ d.pc = r.pc /\ d.at = r.at
  BY <1>1 DEF OpRecord, SameTask
<1>4. Sound(d)
  BY <1>1, <1>3 DEF Sound, SameTask
<1> HIDE DEF d
<1>5. q \in OpRecord /\ SameTask(q, r) /\ Sound(q) /\ q.pc # "idle"
  BY <1>1, <1>3, <1>4, BackIs, BackIsSound
<1> HIDE DEF q
<1>6. \A s \in Servers : (Awaits(r, s) => Awaits(q, s)) /\ (Pending(r, s) => Pending(q, s))
  BY <1>1, <1>5, SameTaskWaits
<1>7. /\ memory' \in [Servers -> Lists]
      /\ unwritten \subseteq untold' /\ untold' \subseteq Servers
      /\ \A u \in Servers \ untold' :
            u \notin untold /\ memory'[u]["whitelist"] = memory[u]["whitelist"]
  BY <1>1, CommandedIs DEF Types
<1> QED
  BY <1>2, <1>5, <1>6, <1>7, Commands

LEMMA OpsKeeps == ASSUME GroupsInv, NEW o \in Requests, Ops(o) PROVE GroupsInv'
<1>1. PICK p \in op[o].names :
         Commanded(o, op[o].at, "op", memory[op[o].at]["op"] \cup {p}) /\ Sent(o, p)
  BY DEF Ops
<1>2. op[o].pc = "opping" /\ UNCHANGED <<db, files, phase, unwritten>>
  BY DEF Ops
<1>3. memory[op[o].at]["op"] \cup {p} \in SUBSET Players
  BY <1>2, Commanding DEF GroupsInv, TypeOK, OpRecord, Lists, Types
<1> QED
  BY <1>1, <1>2, <1>3, SentKeeps

LEMMA DeopsKeeps == ASSUME GroupsInv, NEW o \in Requests, Deops(o) PROVE GroupsInv'
<1>1. PICK p \in op[o].names :
         Commanded(o, op[o].at, "op", memory[op[o].at]["op"] \ {p}) /\ Sent(o, p)
  BY DEF Deops
<1>2. op[o].pc = "deopping" /\ UNCHANGED <<db, files, phase, unwritten>>
  BY DEF Deops
<1>3. memory[op[o].at]["op"] \ {p} \in SUBSET Players
  BY <1>2, Commanding DEF GroupsInv, TypeOK, OpRecord, Lists, Types
<1> QED
  BY <1>1, <1>2, <1>3, SentKeeps

(* A request that has written every file decides what to tell, or ends.     *)
LEMMA DecidesKeeps ==
    ASSUME GroupsInv, NEW o \in Requests, UNCHANGED <<db, files, world, lapses>>,
           op[o].stage = "tell",
           NEW q \in OpRecord, op' = [op EXCEPT ![o] = q], Sound(q),
           \A s \in Servers : Running(s) /\ Pending(op[o], s) => Pending(q, s)
    PROVE  GroupsInv'
<1>1. UNCHANGED <<db, files, phase, unwritten>> /\ memory' = memory /\ untold' = untold
  BY DEF world, lapses
<1>2. memory' \in [Servers -> Lists] /\ unwritten \subseteq untold' /\ untold' \subseteq Servers
  BY <1>1 DEF GroupsInv, TypeOK
<1>3. \A s \in Servers : Awaits(op[o], s) => Awaits(q, s)
  BY DEF Awaits
<1> QED
  BY <1>1, <1>2, <1>3, Commands

LEMMA TellsKeeps == ASSUME GroupsInv, NEW o \in Requests, Tells(o) PROVE GroupsInv'
<1>1. op[o] \in OpRecord /\ op[o].group \in GroupIds /\ op[o].pc = "tell" /\ op[o].stage = "tell"
      /\ UNCHANGED <<db, files, world, lapses>>
  BY DEF Tells, GroupsInv, TypeOK, Sound
<1>2. PICK s \in op[o].todo :
        LET r == [op[o] EXCEPT !.todo = @ \ {s}]
        IN  Becomes(o,
              IF ~Running(s) THEN r
              ELSE IF TypeOf[r.group] = "whitelist" THEN [r EXCEPT !.pc = "reload", !.at = s]
              ELSE IF r.gone # {} THEN [r EXCEPT !.pc = "deopping", !.at = s, !.names = r.gone]
              ELSE Opping(r, s, files))
  BY DEF Tells
<1> DEFINE r == [op[o] EXCEPT !.todo = @ \ {s}]
           w == [r EXCEPT !.pc = "reload", !.at = s]
           d == [r EXCEPT !.pc = "deopping", !.at = s, !.names = r.gone]
           q == IF ~Running(s) THEN r
                ELSE IF TypeOf[r.group] = "whitelist" THEN w
                ELSE IF r.gone # {} THEN d ELSE Opping(r, s, files)
<1>3. op' = [op EXCEPT ![o] = q]
  BY <1>2 DEF Becomes
<1>4. s \in Servers
  BY <1>1 DEF OpRecord
<1>5. /\ r \in OpRecord /\ r.pc = "tell" /\ r.stage = "tell" /\ r.group = op[o].group
      /\ r.todo = op[o].todo \ {s} /\ Sound(r)
  BY <1>1 DEF OpRecord, Sound
<1> HIDE DEF r
<1>6. /\ w \in OpRecord /\ SameTask(w, r) /\ w.pc = "reload" /\ w.at = s
      /\ d \in OpRecord /\ SameTask(d, r) /\ d.pc = "deopping" /\ d.at = s
  BY <1>4, <1>5 DEF OpRecord, Pc, SameTask
<1> HIDE DEF w, d
<1>7. Sound(w) /\ Sound(d)
  BY <1>1, <1>4, <1>5, <1>6 DEF Sound, SameTask
<1>8. files[s]["op"] \subseteq Players
  BY <1>4 DEF GroupsInv, TypeOK, Lists, Types
<1>9. /\ q \in OpRecord /\ SameTask(q, r) /\ Sound(q) /\ q.pc # "idle"
      /\ Running(s) /\ TypeOf[r.group] = "whitelist" => q.pc = "reload" /\ q.at = s
  <2>1. CASE ~Running(s)
    BY <1>5, <2>1 DEF SameTask
  <2>2. CASE Running(s) /\ TypeOf[r.group] = "whitelist"
    BY <1>6, <1>7, <2>2
  <2>3. CASE Running(s) /\ TypeOf[r.group] # "whitelist" /\ r.gone # {}
    BY <1>6, <1>7, <2>3
  <2>4. CASE Running(s) /\ TypeOf[r.group] # "whitelist" /\ r.gone = {}
    <3>1. q = Opping(r, s, files)
      BY <2>4
    <3> HIDE DEF q
    <3> QED
      BY <1>1, <1>4, <1>5, <1>8, <2>4, <3>1, OppingIs
  <2> QED
    BY <2>1, <2>2, <2>3, <2>4
<1> HIDE DEF q
<1>10. \A t \in Servers : Running(t) /\ Pending(op[o], t) => Pending(q, t)
  BY <1>1, <1>5, <1>9 DEF Pending, SameTask
<1> QED
  BY <1>1, <1>3, <1>9, <1>10, DecidesKeeps

LEMMA EndsKeeps == ASSUME GroupsInv, NEW o \in Requests, Ends(o) PROVE GroupsInv'
<1>1. op[o].pc = "tell" /\ op[o].stage = "tell" /\ op[o].todo = {}
      /\ op' = [op EXCEPT ![o] = NoOp] /\ UNCHANGED <<db, files, world, lapses>>
  BY DEF Ends, Becomes, GroupsInv, Sound
<1>2. NoOp \in OpRecord /\ Sound(NoOp)
  BY DEF NoOp, OpRecord, Pc, Sound
<1>3. \A s \in Servers : ~Pending(op[o], s)
  BY <1>1 DEF Pending
<1> QED
  BY <1>1, <1>2, <1>3, DecidesKeeps

-----------------------------------------------------------------------------
(* GroupService                                                              *)

LEMMA SyncContinuesKeeps ==
    ASSUME GroupsInv, NEW o \in Requests, SyncContinues(o) PROVE GroupsInv'
<1>1. /\ op[o] \in OpRecord /\ op[o].pc = "sync" /\ op[o].stage = "sync"
      /\ op[o].group \in GroupIds
  BY DEF SyncContinues, GroupsInv, TypeOK, Sound
<1>2. \A s \in Servers \ unwritten : Present(s) =>
         \/ files[s] = Derived(members, attached, s)
         \/ s \in op[o].todo
         \/ \E p \in Requests \ {o} : Awaits(op[p], s)
  BY DEF GroupsInv, FilesFollow, Awaits
<1>3. members \in Memberships /\ attached \subseteq Servers \X GroupIds
  BY DEF GroupsInv, TypeOK, Memberships
<1>4. Ready(o, op[o], members, attached)
  BY <1>1, <1>2, <1>3 DEF Ready, GroupsInv
<1> QED
  BY <1>4, ProceedsKeeps DEF SyncContinues, db

LEMMA RetryKeeps ==
    ASSUME GroupsInv, NEW o \in Requests, Retry(o) PROVE GroupsInv'
<1> DEFINE todo == IF op[o].to = None THEN Reached(attached, op[o].group) ELSE {op[o].to}
           r == [op[o] EXCEPT !.pc = "sync", !.tries = @ + 1, !.failed = FALSE, !.todo = todo]
<1>1. /\ op[o] \in OpRecord /\ op[o].pc = "sleep" /\ op[o].stage = "sync"
      /\ op[o].group \in GroupIds /\ op[o].todo = {}
  BY DEF Retry, GroupsInv, TypeOK, Sound
<1>2. todo \subseteq Servers
  BY <1>1 DEF Reached, OpRecord, GroupsInv, TypeOK
<1>3. Proceeds(o, r, members, attached) /\ UNCHANGED <<db, world>>
  BY DEF Retry
<1> HIDE DEF todo
<1>4. /\ r \in OpRecord /\ r.pc = "sync" /\ r.stage = "sync" /\ r.group = op[o].group
      /\ r.to = op[o].to
  <2> DEFINE tries == op[o].tries + 1
  <2>1. tries \in Nat /\ "sync" \in Pc
    BY <1>1 DEF OpRecord, Pc
  <2>2. r = [op[o] EXCEPT !.pc = "sync", !.tries = tries, !.failed = FALSE, !.todo = todo]
    BY <1>1 DEF OpRecord
  <2> HIDE DEF tries, r
  <2> QED
    BY <1>1, <1>2, <2>1, <2>2 DEF OpRecord
<1> HIDE DEF r
<1>5. \A s \in Servers \ unwritten : Present(s) =>
         \/ files[s] = Derived(members, attached, s)
         \/ s \in r.todo
         \/ \E p \in Requests \ {o} : Awaits(op[p], s)
  BY <1>1 DEF GroupsInv, FilesFollow, Awaits
<1>6. \A s \in Servers : Pending(op[o], s) => Pending(r, s)
  BY <1>1, <1>4 DEF Pending
<1>7. members \in Memberships /\ attached \subseteq Servers \X GroupIds
  BY DEF GroupsInv, TypeOK, Memberships
<1>8. Ready(o, r, members, attached)
  BY <1>1, <1>4, <1>5, <1>6, <1>7 DEF Ready, GroupsInv
<1> QED
  BY <1>3, <1>8, ProceedsKeeps DEF db

(* A change of the database: the request takes every server whose lists it  *)
(* changes, and a server that loses its last whitelist is its only one.     *)
LEMMA CommitsKeeps ==
    ASSUME GroupsInv, NEW o \in Requests, NEW r \in OpRecord, NEW m \in Memberships,
           NEW a \in SUBSET (Servers \X GroupIds), Commits(o, r, m, a),
           r.pc = "sync", r.stage = "sync", r.group \in GroupIds,
           \A g \in GroupIds \ exists : m[g] = Nobody,
           \A s \in Servers : s \in r.todo \/ Derived(m, a, s) = Derived(members, attached, s),
           \A s \in Servers : HasType(attached, s, "whitelist") =>
              HasType(a, s, "whitelist") \/ (r.todo = {s} /\ Pending(r, s))
    PROVE  GroupsInv'
<1>1. op[o] = NoOp
  BY DEF Commits, GroupsInv, Sound
<1>2. \A s \in Servers : ~Awaits(op[o], s) /\ ~Pending(op[o], s)
  BY <1>1 DEF NoOp, Awaits, Pending
<1>3. \A s \in Servers \ unwritten : Present(s) =>
         \/ files[s] = Derived(m, a, s)
         \/ s \in r.todo
         \/ \E p \in Requests \ {o} : Awaits(op[p], s)
  <2> SUFFICES ASSUME NEW s \in Servers \ unwritten, Present(s), s \notin r.todo,
                      files[s] # Derived(members, attached, s)
               PROVE  \E p \in Requests \ {o} : Awaits(op[p], s)
    OBVIOUS
  <2>1. \E p \in Requests : Awaits(op[p], s)
    BY DEF GroupsInv, FilesFollow, Awaits
  <2> QED
    BY <1>2, <2>1
<1>4. \A s \in Servers \ unwritten : Present(s) =>
         Unlisted(s, files, a) \/ (r.todo = {s} /\ Pending(r, s))
  BY DEF GroupsInv, Unlisted
<1>5. Ready(o, r, m, a)
  BY <1>2, <1>3, <1>4 DEF Ready
<1> QED
  BY <1>5, ProceedsKeeps DEF Commits

LEMMA ChangeIs ==
    ASSUME NEW g \in GroupIds
    PROVE  /\ Change(g) \in OpRecord /\ Change(g).pc = "sync" /\ Change(g).stage = "sync"
           /\ Change(g).group = g /\ Change(g).to = None
BY DEF Change, NoOp, OpRecord, Pc

(* A change of the players of a group concerns the servers that it reaches. *)
LEMMA UnreachedIs ==
    ASSUME GroupsInv, NEW g \in GroupIds, NEW players, NEW s \in Servers,
           s \notin Reached(attached, g)
    PROVE  Derived([members EXCEPT ![g] = players], attached, s) = Derived(members, attached, s)
<1> DEFINE m == [members EXCEPT ![g] = players]
<1>1. \A h \in GroupIds : <<s, h>> \in attached => h # g /\ m[h] = members[h]
  BY DEF Reached, GroupsInv, TypeOK
<1> HIDE DEF m
<1>2. Derived(m, attached, s) = Derived(members, attached, s)
  BY <1>1 DEF Derived, Holds
<1> QED
  BY <1>2 DEF m

LEMMA ReachedType ==
    ASSUME GroupsInv, NEW g \in GroupIds
    PROVE  Reached(attached, g) \subseteq Servers /\ members \in Memberships
           /\ attached \in SUBSET (Servers \X GroupIds)
BY DEF Reached, GroupsInv, TypeOK, Memberships

LEMMA AddPlayerKeeps ==
    ASSUME GroupsInv, NEW o \in Requests, NEW g \in GroupIds, NEW p \in Players,
           NEW n \in Names, AddPlayer(o, g, p, n)
    PROVE  GroupsInv'
<1> DEFINE r == [Change(g) EXCEPT !.todo = Reached(attached, g)]
           m == IF Holds(members, g, p) THEN members ELSE [members EXCEPT ![g][p] = n]
<1>1. g \in exists /\ Commits(o, r, m, attached)
  BY DEF AddPlayer
<1>2. /\ r \in OpRecord /\ r.pc = "sync" /\ r.stage = "sync" /\ r.group = g
      /\ r.todo = Reached(attached, g)
  BY ChangeIs, ReachedType DEF OpRecord
<1> HIDE DEF r
<1>3. m \in Memberships /\ \A h \in GroupIds \ exists : m[h] = members[h]
  BY <1>1, ReachedType DEF Memberships
<1>4. \A s \in Servers : s \in r.todo \/ Derived(m, attached, s) = Derived(members, attached, s)
  BY <1>2, UnreachedIs
<1> HIDE DEF m
<1> QED
  BY <1>1, <1>2, <1>3, <1>4, ReachedType, CommitsKeeps DEF GroupsInv

LEMMA RemovePlayerKeeps ==
    ASSUME GroupsInv, NEW o \in Requests, NEW g \in GroupIds, NEW p \in Players,
           RemovePlayer(o, g, p)
    PROVE  GroupsInv'
<1> DEFINE todo == Reached(attached, g)
           gone == {p}
           r == [Change(g) EXCEPT !.todo = todo, !.gone = gone]
           m == [members EXCEPT ![g][p] = None]
<1>1. g \in exists /\ Commits(o, r, m, attached)
  BY DEF RemovePlayer
<1>2. todo \in SUBSET Servers /\ gone \in SUBSET Players
  BY ReachedType
<1>3. /\ r \in OpRecord /\ r.pc = "sync" /\ r.stage = "sync" /\ r.group = g
      /\ r.todo = todo
  <2> DEFINE c == Change(g)
  <2>1. c \in OpRecord /\ c.pc = "sync" /\ c.stage = "sync" /\ c.group = g
    BY ChangeIs
  <2>2. r = [c EXCEPT !.todo = todo, !.gone = gone]
    OBVIOUS
  <2>3. todo \in SUBSET Servers
    BY <1>2
  <2>4. gone \in SUBSET Players
    BY <1>2
  <2> HIDE DEF todo, gone, c, r
  <2> QED
    BY <2>1, <2>2, <2>3, <2>4 DEF OpRecord
<1> HIDE DEF r
<1>4. m \in Memberships /\ \A h \in GroupIds \ exists : m[h] = members[h]
  BY <1>1, ReachedType DEF Memberships
<1>5. \A s \in Servers : s \in r.todo \/ Derived(m, attached, s) = Derived(members, attached, s)
  BY <1>3, UnreachedIs
<1> HIDE DEF m
<1> QED
  BY <1>1, <1>3, <1>4, <1>5, ReachedType, CommitsKeeps DEF GroupsInv

(* What is attached to other servers does not matter to a server.           *)
LEMMA ElsewhereIs ==
    ASSUME NEW m, NEW a, NEW b, NEW s,
           \A g \in GroupIds : <<s, g>> \in a <=> <<s, g>> \in b
    PROVE  /\ Derived(m, a, s) = Derived(m, b, s)
           /\ \A t \in Types : HasType(a, s, t) <=> HasType(b, s, t)
BY DEF Derived, HasType

LEMMA AttachGroupKeeps ==
    ASSUME GroupsInv, NEW o \in Requests, NEW g \in GroupIds, NEW s \in Servers,
           AttachGroup(o, s, g)
    PROVE  GroupsInv'
<1> DEFINE r == [Change(g) EXCEPT !.to = s, !.todo = {s}]
           a == attached \cup {<<s, g>>}
<1>1. Commits(o, r, members, a)
  BY DEF AttachGroup
<1>2. /\ r \in OpRecord /\ r.pc = "sync" /\ r.stage = "sync" /\ r.group = g
      /\ r.todo = {s}
  <2> DEFINE todo == {s}
  <2>1. todo \in SUBSET Servers /\ s \in Servers \cup {None}
    OBVIOUS
  <2> HIDE DEF todo
  <2>2. r = [Change(g) EXCEPT !.to = s, !.todo = todo]
    BY DEF todo
  <2>3. /\ r \in OpRecord /\ r.pc = "sync" /\ r.stage = "sync" /\ r.group = g
        /\ r.todo = todo
    BY <2>1, <2>2, ChangeIs DEF OpRecord
  <2> QED
    BY <2>3 DEF todo
<1> HIDE DEF r
<1>3. a \in SUBSET (Servers \X GroupIds) /\ members \in Memberships
  BY ReachedType
<1>4. \A t \in Servers : t \in r.todo \/ Derived(members, a, t) = Derived(members, attached, t)
  BY <1>2, ElsewhereIs
<1>5. \A t \in Servers : HasType(attached, t, "whitelist") => HasType(a, t, "whitelist")
  BY DEF HasType
<1> HIDE DEF a
<1> QED
  BY <1>1, <1>2, <1>3, <1>4, <1>5, CommitsKeeps DEF GroupsInv

LEMMA DetachGroupKeeps ==
    ASSUME GroupsInv, NEW o \in Requests, NEW g \in GroupIds, NEW s \in Servers,
           DetachGroup(o, s, g)
    PROVE  GroupsInv'
<1> DEFINE gone == IF TypeOf[g] = "op" THEN {p \in Players : Holds(members, g, p)} ELSE {}
           r == [Change(g) EXCEPT !.to = s, !.todo = {s}, !.tries = Retries, !.gone = gone]
           a == attached \ {<<s, g>>}
<1>1. Commits(o, r, members, a)
  BY DEF DetachGroup
<1>2. gone \subseteq Players /\ Retries \in Nat
  BY GroupAssumption
<1> HIDE DEF gone
<1>3. /\ r \in OpRecord /\ r.pc = "sync" /\ r.stage = "sync" /\ r.group = g
      /\ r.todo = {s} /\ r.to = s
  <2> DEFINE todo == {s}
  <2>1. todo \in SUBSET Servers /\ s \in Servers \cup {None}
    OBVIOUS
  <2> HIDE DEF todo
  <2>2. r = [Change(g) EXCEPT !.to = s, !.todo = todo, !.tries = Retries, !.gone = gone]
    BY DEF todo
  <2>3. /\ r \in OpRecord /\ r.pc = "sync" /\ r.stage = "sync" /\ r.group = g
        /\ r.todo = todo /\ r.to = s
    BY <1>2, <2>1, <2>2, ChangeIs DEF OpRecord
  <2> QED
    BY <2>3 DEF todo
<1> HIDE DEF r
<1>4. a \in SUBSET (Servers \X GroupIds) /\ members \in Memberships
  BY ReachedType
<1>5. \A t \in Servers : t \in r.todo \/ Derived(members, a, t) = Derived(members, attached, t)
  BY <1>3, ElsewhereIs
<1>6. ASSUME NEW t \in Servers, HasType(attached, t, "whitelist"), ~HasType(a, t, "whitelist")
      PROVE  t = s /\ TypeOf[g] = "whitelist"
  BY <1>6 DEF HasType
<1>7. TypeOf[g] = "whitelist" => Pending(r, s)
  BY <1>3 DEF Pending
<1> HIDE DEF a
<1> QED
  BY <1>1, <1>3, <1>4, <1>5, <1>6, <1>7, CommitsKeeps DEF GroupsInv

(* A group comes or goes with no players and no servers, which changes no    *)
(* list of any server.                                                       *)
LEMMA EmptiedKeeps ==
    ASSUME GroupsInv, NEW g \in GroupIds, exists' \in SUBSET GroupIds,
           members' = [members EXCEPT ![g] = Nobody],
           \A h \in GroupIds \ exists' : h = g \/ h \notin exists,
           members[g] = Nobody \/ Reached(attached, g) = {},
           UNCHANGED <<attached, files, world, op, lapses>>
    PROVE  GroupsInv'
<1> USE DEF world, lapses
<1>1. members \in Memberships
  BY ReachedType
<1>2. \A s \in Servers : Derived(members', attached, s) = Derived(members, attached, s)
  <2>1. CASE members[g] = Nobody
    BY <1>1, <2>1 DEF Memberships
  <2>2. CASE Reached(attached, g) = {}
    BY <2>2, UnreachedIs
  <2> QED
    BY <2>1, <2>2
<1>3. Nobody \in [Players -> Names \cup {None}]
  BY DEF Nobody
<1>4. members' \in [GroupIds -> [Players -> Names \cup {None}]]
  BY <1>1, <1>3 DEF Memberships
<1>5. TypeOK'
  BY <1>4 DEF GroupsInv, TypeOK
<1>6. FilesFollow'
  BY <1>2 DEF GroupsInv, FilesFollow, Present
<1>7. (\A h \in GroupIds \ exists : members[h] = Nobody)'
  BY <1>1 DEF GroupsInv, Memberships
<1>8. (\A o \in Requests : Sound(op[o]))' /\ (unwritten \subseteq untold)'
  BY DEF GroupsInv
<1>9. (\A s \in Servers \ unwritten : Present(s) => Unlisted(s, files, attached))'
  BY DEF GroupsInv, Present
<1>10. (\A s \in Servers \ untold :
          /\ phase[s] = "loaded" => Agrees(s)
          /\ Running(s) => Agrees(s) \/ \E o \in Requests : Pending(op[o], s))'
  BY DEF GroupsInv, Agrees, Running
<1> QED
  BY <1>5, <1>6, <1>7, <1>8, <1>9, <1>10 DEF GroupsInv

LEMMA GroupsComeAndGo ==
    ASSUME GroupsInv, NEW g \in GroupIds, CreateGroup(g) \/ DeleteGroup(g)
    PROVE  GroupsInv'
<1>1. exists \subseteq GroupIds
  BY DEF GroupsInv, TypeOK
<1>2. CASE CreateGroup(g)
  <2>1. exists' \in SUBSET GroupIds /\ \A h \in GroupIds \ exists' : h \notin exists
    BY <1>1, <1>2 DEF CreateGroup
  <2>2. members' = [members EXCEPT ![g] = Nobody] /\ members[g] = Nobody
    BY <1>2 DEF CreateGroup, Nobody, GroupsInv
  <2> QED
    BY <1>2, <2>1, <2>2, EmptiedKeeps DEF CreateGroup
<1>3. CASE DeleteGroup(g)
  <2>1. exists' \in SUBSET GroupIds /\ \A h \in GroupIds \ exists' : h = g \/ h \notin exists
    BY <1>1, <1>3 DEF DeleteGroup
  <2>2. members' = [members EXCEPT ![g] = Nobody] /\ Reached(attached, g) = {}
    BY <1>3 DEF DeleteGroup, Nobody
  <2> QED
    BY <1>3, <2>1, <2>2, EmptiedKeeps DEF DeleteGroup
<1> QED
  BY <1>2, <1>3

-----------------------------------------------------------------------------
(* The Minecraft servers                                                     *)

(* A server that starts to run has just read its files.                     *)
LEMMA ServerMoves ==
    ASSUME GroupsInv, NEW s \in Servers, UNCHANGED <<db, files, op, unwritten>>,
           NEW new \in Phases, phase' = [phase EXCEPT ![s] = new],
           phase[s] = "deleted" => new = "deleted",
           NEW lists \in Lists, memory' = [memory EXCEPT ![s] = lists],
           untold' \subseteq untold, untold \ {s} \subseteq untold', unwritten \subseteq untold',
           new \in {"loaded", "running"} /\ s \notin untold'
              => lists["whitelist"] = files[s]["whitelist"]
    PROVE  GroupsInv'
<1> USE DEF db
<1>1. /\ phase' \in [Servers -> Phases] /\ phase'[s] = new
      /\ \A t \in Servers \ {s} : phase'[t] = phase[t]
      /\ memory' \in [Servers -> Lists] /\ memory'[s] = lists
      /\ \A t \in Servers \ {s} : memory'[t] = memory[t]
  BY DEF GroupsInv, TypeOK
<1>2. TypeOK'
  BY <1>1 DEF GroupsInv, TypeOK
<1>3. \A t \in Servers : phase'[t] # "deleted" => phase[t] # "deleted"
  BY <1>1
<1>4. FilesFollow'
  BY <1>3 DEF GroupsInv, FilesFollow, Present
<1>5. (\A t \in Servers \ unwritten : Present(t) => Unlisted(t, files, attached))'
  BY <1>3 DEF GroupsInv, Present
<1>6. (\A t \in Servers \ untold :
          /\ phase[t] = "loaded" => Agrees(t)
          /\ Running(t) => Agrees(t) \/ \E o \in Requests : Pending(op[o], t))'
  <2> SUFFICES ASSUME NEW t \in Servers \ untold'
               PROVE  /\ phase'[t] = "loaded" => memory'[t]["whitelist"] = files[t]["whitelist"]
                      /\ phase'[t] = "running" => \/ memory'[t]["whitelist"] = files[t]["whitelist"]
                                                  \/ \E o \in Requests : Pending(op[o], t)
    BY DEF Agrees, Running
  <2>1. CASE t = s
    BY <1>1, <2>1
  <2>2. CASE t # s
    <3>1. t \in Servers \ untold
      BY <2>2
    <3> QED
      BY <1>1, <2>2, <3>1 DEF GroupsInv, Agrees, Running
  <2> QED
    BY <2>1, <2>2
<1>7. /\ (\A o \in Requests : Sound(op[o]))'
      /\ (\A g \in GroupIds \ exists : members[g] = Nobody)'
      /\ (unwritten \subseteq untold)'
  BY DEF GroupsInv
<1> QED
  BY <1>2, <1>4, <1>5, <1>6, <1>7 DEF GroupsInv

LEMMA ServersKeep == ASSUME GroupsInv, NEW s \in Servers, ServerStep(s) PROVE GroupsInv'
<1>1. /\ memory \in [Servers -> Lists] /\ files \in [Servers -> Lists]
      /\ unwritten \subseteq untold
  BY DEF GroupsInv, TypeOK
<1>2. memory[s] \in Lists /\ memory = [memory EXCEPT ![s] = memory[s]]
  BY <1>1
<1>3. CASE Starts(s)
  BY <1>1, <1>2, <1>3, ServerMoves DEF Starts, lapses, Phases
<1>4. CASE Loads(s)
  BY <1>1, <1>4, ServerMoves DEF Loads, Phases
<1>5. CASE IsReady(s)
  <2>1. s \notin untold => memory[s]["whitelist"] = files[s]["whitelist"]
    BY <1>5 DEF IsReady, GroupsInv, Agrees
  <2> QED
    BY <1>1, <1>2, <1>5, <2>1, ServerMoves DEF IsReady, lapses, Phases
<1>6. CASE Stops(s)
  <2>1. NoLists \in Lists
    BY DEF NoLists, Lists
  <2> QED
    BY <1>1, <1>6, <2>1, ServerMoves DEF Stops, lapses, Phases
<1>7. CASE DeletesServer(s)
  BY <1>1, <1>2, <1>7, ServerMoves DEF DeletesServer, lapses, Phases
<1> QED
  BY <1>3, <1>4, <1>5, <1>6, <1>7 DEF ServerStep

-----------------------------------------------------------------------------

LEMMA NextKeeps == GroupsInv /\ [Next]_vars => GroupsInv'
<1> SUFFICES ASSUME GroupsInv, [Next]_vars PROVE GroupsInv'
  OBVIOUS
<1>1. CASE UNCHANGED vars
  BY <1>1 DEF vars, db, world, lapses, GroupsInv, TypeOK, FilesFollow, Present, Agrees, Running
<1>2. ASSUME NEW o \in Requests, Begins(o) PROVE GroupsInv'
  BY <1>2, RemovePlayerKeeps, AddPlayerKeeps, AttachGroupKeeps, DetachGroupKeeps DEF Begins
<1>3. ASSUME NEW o \in Requests, RequestStep(o) PROVE GroupsInv'
  BY <1>3, SyncContinuesKeeps, RetryKeeps, ReloadsKeeps, OpsKeeps, DeopsKeeps, TellsKeeps,
     EndsKeeps DEF RequestStep
<1> QED
  BY <1>1, <1>2, <1>3, GroupsComeAndGo, ServersKeep DEF Next

LEMMA InvHolds == Spec => []GroupsInv
BY InitInv, NextKeeps, PTL DEF Spec

(* The state of the groups, files, servers and requests keeps its types.    *)
(* (GroupService, GroupFileSyncer, RealTimeServerCommands.)                 *)
THEOREM GroupsTypeCorrect == Spec => []TypeOK
<1>1. GroupsInv => TypeOK
  BY InvSuffices
<1> QED
  BY InvHolds, <1>1, PTL

(* The files of a server are what its groups say, unless a request has still *)
(* to write them or the last write failed, however many requests overlap,   *)
(* whatever fails and whenever servers start, stop and are deleted.         *)
(* (update_server_files, _build_ops_and_whitelist.)                         *)
THEOREM FilesAlwaysFollow == Spec => []FilesFollow
<1>1. GroupsInv => FilesFollow
  BY InvSuffices
<1> QED
  BY InvHolds, <1>1, PTL

(* With no request in progress a running server has the whitelist of its    *)
(* file, unless it missed a change and has not read it since.               *)
(* (handle_group_change_commands, reload_whitelist_if_running.)             *)
THEOREM WhitelistAlwaysTold == Spec => []WhitelistTold
<1>1. GroupsInv => WhitelistTold
  BY InvSuffices
<1> QED
  BY InvHolds, <1>1, PTL
=============================================================================
