------------------------------ MODULE AuthThrottle ------------------------------
(* The failure lockout of the login, registration, exchange and refresh endpoints, as it  *)
(* is when it is switched on (core/ratelimit.py, endpoints/auth.py).  Several processes   *)
(* share the counters and locks in Redis, and each of their calls to Redis is a step.     *)
EXTENDS Integers, FiniteSets, Sequences

CONSTANTS
    ThrottleKeys,    \* endpoint, address and name in small letters
    AttemptSlots,    \* bound: requests at the same time
    MaxAttempts, WindowSeconds, LockoutSeconds,
    MaxThrottleTime, \* bound: seconds
    MaxFailures      \* bound: failed attempts of a key

ASSUME ThrottleAssumption == /\ MaxAttempts \in Nat /\ WindowSeconds \in Nat \ {0}
                             /\ LockoutSeconds \in Nat \ {0}
                             /\ MaxThrottleTime \in Nat /\ MaxFailures \in Nat

VARIABLES
    counter,      \* [ThrottleKeys -> Counter]
    lock,         \* [ThrottleKeys -> Nat]: the second the lockout ends in
    attempt,      \* [AttemptSlots -> Attempt]
    throttleTime,
    failedAt      \* history: when each attempt of a key failed

throttleVars == <<counter, lock, attempt, throttleTime, failedAt>>

Counter == [count : 0 .. MaxFailures, until : 0 .. MaxThrottleTime + WindowSeconds]
Fresh == [count |-> 0, until |-> 0]
NoKey == "no key"
Attempt == [state : {"none", "checked", "exceeded"}, key : {NoKey} \cup ThrottleKeys]
NoAttempt == [state |-> "none", key |-> NoKey]

ThrottleTypeOK ==
    /\ counter \in [ThrottleKeys -> Counter]
    /\ lock \in [ThrottleKeys -> 0 .. MaxThrottleTime + LockoutSeconds]
    /\ attempt \in [AttemptSlots -> Attempt]
    /\ throttleTime \in 0 .. MaxThrottleTime
    /\ \A k \in ThrottleKeys : Len(failedAt[k]) <= MaxFailures

ThrottleInit ==
    /\ counter = [k \in ThrottleKeys |-> Fresh]
    /\ lock = [k \in ThrottleKeys |-> 0]
    /\ attempt = [s \in AttemptSlots |-> NoAttempt]
    /\ throttleTime = 0
    /\ failedAt = [k \in ThrottleKeys |-> <<>>]
-------------------------------------------------------------------------------
IsLocked(k) == lock[k] > throttleTime

\* precheck: a key that is locked is answered 429 and counts nothing.
Precheck(s, k) ==
    /\ attempt[s] = NoAttempt /\ ~IsLocked(k)
    /\ attempt' = [attempt EXCEPT ![s] = [state |-> "checked", key |-> k]]
    /\ UNCHANGED <<counter, lock, throttleTime, failedAt>>

\* The credentials are right, or the request ends otherwise than by a failed login; or the
\* process ends.  Neither gives back what has been counted.
EndAttempt(s) ==
    /\ attempt[s].state # "none"
    /\ attempt' = [attempt EXCEPT ![s] = NoAttempt]
    /\ UNCHANGED <<counter, lock, throttleTime, failedAt>>

FaultCounted(k) == [counter[k] EXCEPT !.count = @ + 1]
\* incr_with_ttl: INCR and EXPIRE NX in one transaction; the window is the first failure's.
Counted(k) ==
    IF counter[k].until > throttleTime
    THEN [counter[k] EXCEPT !.count = @ + 1]
    ELSE [count |-> 1, until |-> throttleTime + WindowSeconds]

\* register_failure
RegisterFailure(s) ==
    LET k == attempt[s].key IN
    /\ attempt[s].state = "checked" /\ Len(failedAt[k]) < MaxFailures
    /\ counter' = [counter EXCEPT ![k] = Counted(k)]
    /\ attempt' = [attempt EXCEPT ![s] = IF Counted(k).count > MaxAttempts
                                         THEN [@ EXCEPT !.state = "exceeded"] ELSE NoAttempt]
    /\ failedAt' = [failedAt EXCEPT ![k] = Append(@, throttleTime)]
    /\ UNCHANGED <<lock, throttleTime>>

\* set_lockout: also of a key that another attempt has locked meanwhile.
SetLockout(s) ==
    /\ attempt[s].state = "exceeded"
    /\ lock' = [lock EXCEPT ![attempt[s].key] = throttleTime + LockoutSeconds]
    /\ attempt' = [attempt EXCEPT ![s] = NoAttempt]
    /\ UNCHANGED <<counter, throttleTime, failedAt>>

\* Redis keeps neither counters nor locks for certain.
RedisRestarts ==
    /\ counter' = [k \in ThrottleKeys |-> Fresh]
    /\ lock' = [k \in ThrottleKeys |-> 0]
    /\ UNCHANGED <<attempt, throttleTime, failedAt>>

ThrottleTick ==
    /\ throttleTime < MaxThrottleTime
    /\ throttleTime' = throttleTime + 1
    /\ UNCHANGED <<counter, lock, attempt, failedAt>>

ThrottleNext ==
    \/ \E s \in AttemptSlots : EndAttempt(s) \/ RegisterFailure(s) \/ SetLockout(s)
                               \/ \E k \in ThrottleKeys : Precheck(s, k)
    \/ RedisRestarts \/ ThrottleTick

ThrottleSpec == ThrottleInit /\ [][ThrottleNext]_throttleVars
-------------------------------------------------------------------------------
\* A key is locked only if more attempts than allowed have failed within one window, and
\* not because of attempts that succeeded, that were answered 429, or that failed at longer
\* intervals: whatever requests overlap or end halfway.
LockedOnlyForFailures ==
    \A k \in ThrottleKeys : IsLocked(k) =>
        \E i \in DOMAIN failedAt[k] :
            Cardinality({j \in DOMAIN failedAt[k] :
                            failedAt[k][j] - failedAt[k][i] \in 0 .. WindowSeconds - 1}) > MaxAttempts
=================================================================================
