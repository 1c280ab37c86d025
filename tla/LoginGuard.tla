---------------------------- MODULE LoginGuard ----------------------------
(* The brute-force protection of the login endpoint                         *)
(* (app/auth/application/brute_force_service.py).  Failed attempts are      *)
(* counted in two sliding windows, by user name and by source address.  A   *)
(* name that reaches its threshold gets a lockout of exponentially growing  *)
(* length; an address is blocked as long as its window holds a threshold of *)
(* failures.                                                                *)
(*                                                                          *)
(* Time is relative: a failure has an age and a lockout a time left, in     *)
(* seconds, and Tick moves all of them.  The rows of login_attempts that    *)
(* have left both windows, and those that no window counts (successes and   *)
(* authentication errors), are not kept.                                    *)
EXTENDS Integers, FiniteSetsExt

CONSTANTS
    Names,          \* the user names typed into the login form
    Ips,            \* the addresses the attempts come from
    NameThreshold,  \* BRUTE_FORCE_USERNAME_THRESHOLD
    NameWindow,     \* BRUTE_FORCE_USERNAME_WINDOW_SECONDS
    IpThreshold,    \* BRUTE_FORCE_IP_THRESHOLD
    IpWindow,       \* BRUTE_FORCE_IP_WINDOW_SECONDS
    LockoutBase,    \* BRUTE_FORCE_LOCKOUT_BASE_SECONDS
    LockoutMax,     \* BRUTE_FORCE_LOCKOUT_MAX_SECONDS
    MaxLockouts     \* bound: lockout_count is not told apart beyond it

ASSUME GuardAssumption ==
    /\ {NameThreshold, NameWindow, IpThreshold, IpWindow} \subseteq Nat \ {0}
    /\ {LockoutBase, LockoutMax, MaxLockouts} \subseteq Nat \ {0}

VARIABLES
    failures,  \* the failed attempts (login_attempts)
    lockLeft,  \* name -> seconds until locked_until, 0 when not locked
    lockouts,  \* name -> lockout_count
    lockedBy   \* history: name -> the attempt that began the active lock

guardVars == <<failures, lockLeft, lockouts, lockedBy>>

Ages == 0 .. Max({NameWindow, IpWindow}) - 1

(* The number tells the attempts of one second apart.                       *)
Attempts == [name : Names, ip : Ips, age : Ages, number : Nat \ {0}]

GuardTypeOK ==
    /\ failures \subseteq Attempts /\ IsFiniteSet(failures)
    /\ lockLeft \in [Names -> Nat]
    /\ lockouts \in [Names -> 0 .. MaxLockouts]
    /\ lockedBy \in [Names -> {"nobody", "failure", "error"}]

GuardInit ==
    /\ failures = {}
    /\ lockLeft = [n \in Names |-> 0]
    /\ lockouts = [n \in Names |-> 0]
    /\ lockedBy = [n \in Names |-> "nobody"]

NameFailures(attempts, n) == {a \in attempts : a.name = n /\ a.age < NameWindow}

IpFailures(attempts, i) == {a \in attempts : a.ip = i /\ a.age < IpWindow}

(* The age of the oldest failure in the window of an address.               *)
OldestAge(attempts, i) == Max({a.age : a \in IpFailures(attempts, i)})

(* Seconds a client is told to wait for the name, 0 when it is not locked.  *)
NameRetry(left, n) == IF left[n] > 0 THEN left[n] + 1 ELSE 0

(* Mutant: one second too few is announced.                                 *)
IpRetry_OffByOne(attempts, i) ==
    IF Cardinality(IpFailures(attempts, i)) < IpThreshold THEN 0
    ELSE Max({1, Min({IpWindow, IpWindow - OldestAge(attempts, i) - 1})})

(* Seconds a client is told to wait for the address, 0 when it is free.     *)
IpRetry(attempts, i) ==
    IF Cardinality(IpFailures(attempts, i)) < IpThreshold THEN 0
    ELSE Max({1, Min({IpWindow, IpWindow - OldestAge(attempts, i)})})

Retry(attempts, left, n, i) == Max({NameRetry(left, n), IpRetry(attempts, i)})

Locked(n, i) == Retry(failures, lockLeft, n, i) > 0

Duration(count) == Min({LockoutMax, LockoutBase * 2 ^ Min({count - 1, 16})})

Counted(n, i) ==
    LET before == {a \in failures : a.name = n /\ a.ip = i /\ a.age = 0} IN
    failures \cup
        {[name |-> n, ip |-> i, age |-> 0, number |-> Cardinality(before) + 1]}

(* _maybe_lock_username: a lock begins, unless the threshold is not reached *)
(* or a lock is active.                                                     *)
MaybeLock(attempts, n, attempt) ==
    IF Cardinality(NameFailures(attempts, n)) < NameThreshold \/ lockLeft[n] > 0
    THEN UNCHANGED <<lockLeft, lockouts, lockedBy>>
    ELSE LET count == Min({lockouts[n] + 1, MaxLockouts}) IN
         /\ lockouts' = [lockouts EXCEPT ![n] = count]
         /\ lockLeft' = [lockLeft EXCEPT ![n] = Duration(count)]
         /\ lockedBy' = [lockedBy EXCEPT ![n] = attempt]

(* record_attempt after wrong credentials: the attempt counts.              *)
RecordFailure(n, i) ==
    /\ failures' = Counted(n, i)
    /\ MaybeLock(Counted(n, i), n, "failure")

(* Mutant: authentication errors count.                                     *)
RecordError_Counted(n, i) ==
    /\ failures' = Counted(n, i)
    /\ MaybeLock(Counted(n, i), n, "error")

(* record_attempt after a 403: no window counts the attempt, but the        *)
(* threshold is tested again.                                               *)
RecordError(n, i) ==
    /\ UNCHANGED failures
    /\ MaybeLock(failures, n, "error")

(* record_attempt after a success.                                          *)
RecordSuccess(n) ==
    /\ lockLeft' = [lockLeft EXCEPT ![n] = 0]
    /\ lockedBy' = [lockedBy EXCEPT ![n] = "nobody"]
    /\ UNCHANGED <<failures, lockouts>>

Older(a, d) == [a EXCEPT !.age = @ + d]

AfterTime(attempts, d) == {Older(a, d) : a \in {b \in attempts : b.age + d \in Ages}}

LeftAfter(left, d) == [n \in Names |-> Max({0, left[n] - d})]

(* A second passes.                                                         *)
Tick ==
    /\ failures' = AfterTime(failures, 1)
    /\ lockLeft' = LeftAfter(lockLeft, 1)
    /\ lockedBy' = [n \in Names |->
                       IF lockLeft'[n] = 0 THEN "nobody" ELSE lockedBy[n]]
    /\ UNCHANGED lockouts

(* Nothing is remembered against anybody.                                   *)
Calm ==
    /\ failures = {}
    /\ \A n \in Names : lockLeft[n] = 0

(* Retry-After is honest: a client that was refused and waits for as many   *)
(* seconds as it was told is let in, if nobody tried the name or the        *)
(* address meanwhile.  (check_lockout and _ip_window_remaining: the latter  *)
(* waits for one failure to leave the window, which is enough only because  *)
(* the window never holds more than the threshold.)                         *)
RetryHonest ==
    \A n \in Names, i \in Ips :
        LET wait == Retry(failures, lockLeft, n, i) IN
        Retry(AfterTime(failures, wait), LeftAfter(lockLeft, wait), n, i) = 0

(* A lockout begins only when wrong credentials are presented, never by the *)
(* attempt of a user who waits for approval, and an active lockout is never *)
(* prolonged.  (record_attempt, _count_failures, _maybe_lock_username; it   *)
(* takes a lockout that lasts at least as long as the window.)              *)
OnlyFailuresLock ==
    [][\A n \in Names : lockLeft'[n] > lockLeft[n] =>
          lockLeft[n] = 0 /\ lockedBy'[n] = "failure"]_guardVars
============================================================================
