---------------------------- MODULE HealthChecks ----------------------------
(* The health of the process (app/health/) while it serves sockets: probes  *)
(* that are answered from a cache, or by an evaluation of all components    *)
(* under a lock and with time limits.                                       *)
(*                                                                          *)
(* Time passes in ticks, in which the event loop runs what is ready, timers *)
(* included, or while a handler blocks the loop: nothing runs then but the  *)
(* threads, and what is late is found late.  The executor is assumed to have *)
(* a thread for each check; the checks in threads take as long as they like. *)
EXTENDS Lifespan, Sequences, FiniteSetsExt

CONSTANTS
    Probes,           \* clients of the health endpoints
    Kinds,            \* the endpoints they may call, a subset of AllKinds
    CacheTTL,         \* HEALTH_CHECK_CACHE_TTL_SECONDS
    ComponentTimeout, \* HEALTH_CHECK_PER_COMPONENT_TIMEOUT_SECONDS
    GlobalTimeout,    \* HEALTH_CHECK_GLOBAL_TIMEOUT_SECONDS
    MaxStalled,       \* bound: for how long the loop is blocked while a
                      \* probe waits, QueuePool's timeout or a multiple of it
    Scenarios         \* bound: who takes part, a set of sets of clients;
                      \* {everyone} excludes nothing

AllKinds == {"readyz", "legacy", "detail", "metrics"}

ASSUME HealthAssumption ==
    /\ IsFiniteSet(Probes)
    /\ Kinds \subseteq AllKinds
    /\ {CacheTTL, ComponentTimeout, GlobalTimeout} \subseteq Nat \ {0}
    /\ MaxStalled \in Nat
    /\ None \notin AllKinds

VARIABLES
    present,    \* the scenario, which no step changes
    queue,      \* the probes that have or wait for _cache_lock, in order
    kind,       \* probe -> the endpoint it waits for, or None
    waited,     \* probe -> for how long, with the loop running,
    stalled,    \* and for how long with the loop blocked
    evaluation, \* the run of the checks by the head of the queue, or None
    cache,      \* _cache: how old, and what it says, or None
    answer      \* the answer that the last step gave, or None

healthVars == <<present, queue, kind, waited, stalled, evaluation, cache>>
appVars == <<vars, lifespanVars, healthVars, answer>>

Critical == {"database", "filesystem"}
Components == Critical \cup Optional

(* What a run of the checks has found, for how long the loop has run and    *)
(* for how long it was blocked meanwhile.                                   *)
Evaluations ==
    [running : SUBSET Critical, failing : SUBSET Components, elapsed : Nat, stalled : Nat]

ASSUME NoneIsNoEvaluation == None \notin Evaluations

(* An evaluation is due after this time.                                    *)
TimeLimit == Min({ComponentTimeout, GlobalTimeout})

Times == 0 .. TimeLimit * Cardinality(Probes)

HealthTypeOK ==
    /\ LifespanTypeOK
    /\ present \in Scenarios
    /\ queue \in Seq(Probes)
    /\ kind \in [Probes -> Kinds \cup {None}]
    /\ waited \in [Probes -> Times]
    /\ stalled \in [Probes -> 0 .. MaxStalled]
    /\ evaluation # None => evaluation \in Evaluations /\ evaluation.elapsed <= TimeLimit
    /\ cache \in {None} \cup
         [failing : SUBSET Components, span : 0 .. TimeLimit, stalled : 0 .. MaxStalled,
          age : 0 .. CacheTTL + 1]
    /\ answer \in {None} \cup
         [kind : Kinds, code : {200, 503}, age : Nat, stalled : 0 .. MaxStalled, waited : Nat]

AppInit ==
    /\ Init
    /\ LifespanInit
    /\ present \in Scenarios
    /\ queue = <<>>
    /\ kind = [q \in Probes |-> None]
    /\ waited = [q \in Probes |-> 0]
    /\ stalled = [q \in Probes |-> 0]
    /\ evaluation = None
    /\ cache = None
    /\ answer = None

-----------------------------------------------------------------------------
(* An administrator who asks for details holds the connection by which he   *)
(* was authenticated, as sockets do.                                        *)
FreeConnection ==
    Cardinality(pool) + Cardinality({q \in Probes : kind[q] = "detail"}) < PoolSize

(* What the checks that do not suspend find.                                *)
NotRunning ==
    ({"integration"} \ ready) \cup ({"backups", "websockets", "versions"} \ Running)

UsesCache(k) == k \in {"readyz", "legacy"}

(* is_ready, build_legacy_payload, health_detail, metrics.                  *)
StatusCode(k, failing) ==
    IF \/ k = "readyz" /\ failing \cap Critical # {}
       \/ k = "legacy" /\ "database" \in failing
    THEN 503
    ELSE 200

(* Mutant: an entry that has expired is read.                               *)
Cached_Forever == cache # None

Cached == cache # None /\ cache.age <= CacheTTL

(* An answer from a run of the checks that ended this long ago, to a request *)
(* that has waited for this time: so old is what it says at most.           *)
Answers(k, failing, ended, span, blocked, time) ==
    answer' = [kind |-> k, code |-> StatusCode(k, failing), age |-> ended + span + blocked,
               stalled |-> blocked, waited |-> time]

Silent == answer' = None

(* A request is answered at once if there is a fresh entry and it may use   *)
(* it, and otherwise waits for the lock.                                    *)
Ask(q, k) ==
    /\ phase = "serving"
    /\ q \in present
    /\ kind[q] = None
    /\ k = "detail" => FreeConnection
    /\ IF UsesCache(k) /\ Cached
       THEN /\ Answers(k, cache.failing, cache.age, cache.span, cache.stalled, 0)
            /\ UNCHANGED <<queue, kind>>
       ELSE /\ queue' = Append(queue, q)
            /\ kind' = [kind EXCEPT ![q] = k]
            /\ Silent
    /\ UNCHANGED <<vars, lifespanVars, present, waited, stalled, evaluation, cache>>

(* The head of the queue gives the lock to the next one.                    *)
Leaves(q, failing, ended, span, blocked) ==
    /\ queue' = Tail(queue)
    /\ Answers(kind[q], failing, ended, span, blocked, waited[q] + stalled[q])
    /\ kind' = [kind EXCEPT ![q] = None]
    /\ waited' = [waited EXCEPT ![q] = 0]
    /\ stalled' = [stalled EXCEPT ![q] = 0]

(* Another request has filled the cache meanwhile.                          *)
ReadsCache ==
    /\ queue # <<>> /\ evaluation = None
    /\ UsesCache(kind[Head(queue)]) /\ Cached
    /\ Leaves(Head(queue), cache.failing, cache.age, cache.span, cache.stalled)
    /\ UNCHANGED <<vars, lifespanVars, present, evaluation, cache>>

(* All checks begin together; those that need no thread are done at once.   *)
BeginsChecks ==
    /\ queue # <<>> /\ evaluation = None
    /\ UsesCache(kind[Head(queue)]) => ~Cached
    /\ evaluation' = [running |-> Critical, failing |-> NotRunning, elapsed |-> 0, stalled |-> 0]
    /\ UNCHANGED <<vars, lifespanVars, present, queue, kind, waited, stalled, cache>>
    /\ Silent

(* Mutant: the checks run one after the other, each with its own limit.     *)
CheckEnds_Sequential(component, works) ==
    /\ evaluation # None
    /\ component \in evaluation.running
    /\ component = "database" => FreeConnection
    /\ evaluation' = [evaluation EXCEPT
           !.running = @ \ {component},
           !.failing = IF works THEN @ ELSE @ \cup {component},
           !.elapsed = 0, !.stalled = 0]
    /\ UNCHANGED <<vars, lifespanVars, present, queue, kind, waited, stalled, cache>>
    /\ Silent

(* The check of a component ends and has found that it works, or not.  That *)
(* of the database needs a connection of the pool.                          *)
CheckEnds(component, works) ==
    /\ evaluation # None
    /\ component \in evaluation.running
    /\ component = "database" => FreeConnection
    /\ evaluation' = [evaluation EXCEPT
           !.running = @ \ {component},
           !.failing = IF works THEN @ ELSE @ \cup {component}]
    /\ UNCHANGED <<vars, lifespanVars, present, queue, kind, waited, stalled, cache>>
    /\ Silent

(* The result is stored and given to the request.                           *)
Concludes(failing) ==
    /\ cache' = [failing |-> failing, span |-> evaluation.elapsed,
                  stalled |-> evaluation.stalled, age |-> 0]
    /\ evaluation' = None
    /\ Leaves(Head(queue), failing, 0, evaluation.elapsed, evaluation.stalled)
    /\ UNCHANGED <<vars, lifespanVars, present>>

AllReported ==
    /\ evaluation # None
    /\ evaluation.running = {}
    /\ Concludes(evaluation.failing)

(* For how long the checks have run, by the clock.                          *)
Clock == evaluation.elapsed + evaluation.stalled

(* A check that is late has failed; when all of them together are, every    *)
(* component has.  After the loop was blocked both may be so.               *)
TimesOut ==
    /\ evaluation # None
    /\ \/ /\ ComponentTimeout < GlobalTimeout
          /\ Clock >= ComponentTimeout
          /\ Concludes(evaluation.failing \cup evaluation.running)
       \/ /\ Clock >= GlobalTimeout
          /\ Concludes(Components)

(* What the event loop will do before it waits.                             *)
Urgent ==
    /\ queue # <<>>
    /\ evaluation = None \/ evaluation.running = {} \/ Clock >= TimeLimit

Aged(time) ==
    cache' = IF cache = None THEN None
             ELSE [cache EXCEPT !.age = Min({@ + time, CacheTTL + 1})]

Tick ==
    /\ ~Urgent
    /\ queue # <<>> \/ (cache # None /\ cache.age <= CacheTTL)
    /\ waited' = [q \in Probes |-> IF kind[q] = None THEN 0 ELSE waited[q] + 1]
    /\ evaluation' = IF evaluation = None THEN None
                     ELSE [evaluation EXCEPT !.elapsed = @ + 1]
    /\ Aged(1)
    /\ UNCHANGED <<vars, lifespanVars, present, queue, kind, stalled>>
    /\ Silent

(* A handler blocks the event loop, whatever is ready: a socket's           *)
(* authentication, an audit flush or a query after a commit waits for a     *)
(* connection of the pool or for the database.  While no probe waits this   *)
(* is time like any other.                                                  *)
Blocks(time) ==
    /\ phase = "serving"
    /\ queue # <<>>
    /\ \A q \in Probes : stalled[q] + time <= MaxStalled
    /\ stalled' = [q \in Probes |-> IF kind[q] = None THEN 0 ELSE stalled[q] + time]
    /\ evaluation' = IF evaluation = None THEN None
                     ELSE [evaluation EXCEPT !.stalled = @ + time]
    /\ Aged(time)
    /\ UNCHANGED <<vars, lifespanVars, present, queue, kind, waited>>
    /\ Silent

(* Sockets and administrators share the connections.                        *)
Serves ==
    /\ phase = "serving"
    /\ SocketNext
    /\ pool' \subseteq pool \/ FreeConnection
    /\ \A s \in Sockets \ present : pc'[s] = "idle"
    /\ UNCHANGED <<lifespanVars, healthVars>>
    /\ Silent

(* Shutdown waits for the requests, too.                                    *)
ServicesStep ==
    /\ LifespanNext
    /\ queue = <<>>
    /\ cache' = IF phase' = "ended" THEN None ELSE cache
    /\ Silent
    /\ UNCHANGED <<present, queue, kind, waited, stalled, evaluation>>

(* The requests go with the process.                                        *)
Dies ==
    /\ ProcessDies
    /\ queue' = <<>>
    /\ kind' = [q \in Probes |-> None]
    /\ waited' = [q \in Probes |-> 0]
    /\ stalled' = [q \in Probes |-> 0]
    /\ evaluation' = None
    /\ cache' = None
    /\ Silent
    /\ UNCHANGED <<present>>

AppNext ==
    \/ \E q \in Probes, k \in Kinds : Ask(q, k)
    \/ ReadsCache \/ BeginsChecks \/ AllReported \/ TimesOut \/ Tick
    \/ \E time \in 1 .. MaxStalled : Blocks(time)
    \/ \E c \in Critical, works \in BOOLEAN : CheckEnds(c, works)
    \/ Serves \/ ServicesStep \/ Dies

AppSpec == AppInit /\ [][AppNext]_appVars

-----------------------------------------------------------------------------
(* No answer is older than it may be: what the endpoints with a cache say   *)
(* was found within the cache's time to live and one evaluation, also for a *)
(* request that waited behind others, and longer ago only by the time for   *)
(* which that evaluation found the loop blocked; what the other two say was *)
(* found after the request had come in.  (readiness, use_cache.)            *)
AnswersFresh ==
    answer # None =>
        IF UsesCache(answer.kind)
        THEN answer.age <= CacheTTL + TimeLimit + answer.stalled
        ELSE answer.age <= answer.waited

(* However long the database or the file system takes, and if sockets have  *)
(* used up the connections that the check needs: apart from the time for    *)
(* which handlers block the event loop (a checkout on the loop does for up  *)
(* to the pool's timeout, which no limit of the checks can shorten), a      *)
(* request waits for no longer than one evaluation for each request there   *)
(* can be.  What a blocked loop has made late is ended, not begun again.    *)
AnsweredInTime ==
    \A q \in Probes : waited[q] <= TimeLimit * Cardinality(Probes)
=============================================================================
