----------------------------- MODULE RateLimiter -----------------------------
(***************************************************************************)
(* The rate limiter (src/app/gateway/rate_limiter.py): per API key at most *)
(* rate_limit_per_minute checks are let through in any 60 seconds.  It     *)
(* keeps the times of past checks in a deque, or, when Redis answered at   *)
(* start-up, in a sorted set there.                                        *)
(*                                                                         *)
(* check() is called on the event loop without an await, so a check is one *)
(* step.  A time matters only through its distance to the present: ages    *)
(* are counted in ticks, and saturate where they cannot be told apart.     *)
(*                                                                         *)
(* granted is not in the code.  It is the history the limiter is judged    *)
(* by: how many ticks ago the last checks were let through.                *)
(***************************************************************************)
EXTENDS Integers, Sequences, FiniteSets

CONSTANTS Key,      \* the API keys
          Limit,    \* settings.rate_limit_per_minute
          Window    \* 60 seconds, in ticks

ASSUME LimitAssumption == Limit \in Nat \ {0} /\ Window \in Nat \ {0}

VARIABLES redis,    \* _use_redis
          bucket,   \* _buckets: per key a deque of ages, the oldest first
          zset,     \* ratelimit:<key> in Redis: the ages of its latest members
          granted,  \* per key and n, how long ago the n-th last check was let through
          verdict   \* per key, what the last check of this tick said

vars == <<redis, bucket, zset, granted, verdict>>

Verdict == {"none", "admitted", "refused", "error"}

TypeOK ==
    /\ redis \in BOOLEAN
    /\ bucket \in [Key -> Seq(0 .. Window + 1)]
    /\ \A k \in Key : Len(bucket[k]) <= Limit
    /\ zset \in [Key -> [1 .. Limit + 1 -> 0 .. Window]]
    /\ granted \in [Key -> [1 .. Limit + 1 -> 0 .. Window + 1]]
    /\ verdict \in [Key -> Verdict]

NoneGranted == [k \in Key |-> [n \in 1 .. Limit + 1 |-> Window + 1]]

Init ==
    /\ redis \in BOOLEAN
    /\ bucket = [k \in Key |-> <<>>]
    /\ zset = [k \in Key |-> [n \in 1 .. Limit + 1 |-> Window]]
    /\ granted = NoneGranted
    /\ verdict = [k \in Key |-> "none"]

------------------------------------------------------------------------------
(* Mutants: plausible slips in check.                                       *)
StaleTooSoon(a) == a >= Window
FullTooLate(b) == Len(b) > Limit
CountsRefused(b) == Append(b, 0)
NeverStale(a) == FALSE

------------------------------------------------------------------------------
(* In memory: bucket[0] < window_start.  An entry that is exactly 60        *)
(* seconds old still counts.                                                *)
Stale(a) == a > Window

(* Entries are dropped from the left until the first that is not stale.     *)
Pruned(b) ==
    LET dropped == {i \in DOMAIN b : \A j \in 1 .. i : Stale(b[j])}
    IN  SubSeq(b, Cardinality(dropped) + 1, Len(b))

Full(b) == Len(b) >= Limit

(* What a refused check leaves of the deque: it is not counted.             *)
Refusing(b) == b

Say(k, v) == verdict' = [verdict EXCEPT ![k] = v]
Grant(k) ==
    granted' = [granted EXCEPT ![k] = [n \in 1 .. Limit + 1 |-> IF n = 1 THEN 0 ELSE @[n - 1]]]

MemoryAdmits(k) ==
    /\ ~redis /\ ~Full(Pruned(bucket[k]))
    /\ bucket' = [bucket EXCEPT ![k] = Append(Pruned(@), 0)]
    /\ Grant(k) /\ Say(k, "admitted")
    /\ UNCHANGED <<redis, zset>>

MemoryRefuses(k) ==
    /\ ~redis /\ Full(Pruned(bucket[k]))
    /\ bucket' = [bucket EXCEPT ![k] = Refusing(Pruned(@))]
    /\ Say(k, "refused")
    /\ UNCHANGED <<redis, zset, granted>>

(* In Redis one transaction drops the members that are 60 seconds old or    *)
(* more, adds this check, let through or not, and counts.  Whether there    *)
(* are more members than the limit, the Limit + 1 latest of them tell: the  *)
(* n-th is younger than 60 seconds or there are fewer.  (The members are    *)
(* times, and no two checks of a key read the same: each waits for Redis.)  *)
WithThisCheck(z) == [n \in 1 .. Limit + 1 |-> IF n = 1 THEN 0 ELSE z[n - 1]]
Over(z) == z[Limit + 1] < Window

RedisChecks(k) ==
    LET z == WithThisCheck(zset[k]) IN
    /\ redis
    /\ zset' = [zset EXCEPT ![k] = z]
    /\ IF Over(z) THEN Say(k, "refused") /\ UNCHANGED granted
       ELSE Say(k, "admitted") /\ Grant(k)
    /\ UNCHANGED <<redis, bucket>>

(* The connection fails, before or after the transaction took place: the    *)
(* request ends with an error.  (FailsOpen is a mutant: it lets the request *)
(* through.)                                                                *)
FailsOpen(k) ==
    /\ redis
    /\ Grant(k) /\ Say(k, "admitted")
    /\ UNCHANGED <<redis, bucket, zset>>

RedisFails(k) ==
    /\ redis
    /\ \E z \in {zset[k], WithThisCheck(zset[k])} : zset' = [zset EXCEPT ![k] = z]
    /\ Say(k, "error")
    /\ UNCHANGED <<redis, bucket, granted>>

Older(a, most) == IF a < most THEN a + 1 ELSE most

(* Time passes.  That Redis drops the whole set after 60 seconds without a  *)
(* check makes no difference: all its members are stale by then.            *)
Tick ==
    /\ bucket' = [k \in Key |-> [i \in DOMAIN bucket[k] |-> Older(bucket[k][i], Window + 1)]]
    /\ zset' = [k \in Key |-> [n \in 1 .. Limit + 1 |-> Older(zset[k][n], Window)]]
    /\ granted' = [k \in Key |-> [n \in 1 .. Limit + 1 |-> Older(granted[k][n], Window + 1)]]
    /\ verdict' = [k \in Key |-> "none"]
    /\ UNCHANGED redis

(* The deques are lost with the process, the sorted sets are not.  Whether  *)
(* Redis is used is decided anew by a ping.  The history starts over unless *)
(* it goes on in Redis.                                                     *)
Restart ==
    /\ redis' \in BOOLEAN
    /\ bucket' = [k \in Key |-> <<>>]
    /\ granted' = IF redis /\ redis' THEN granted ELSE NoneGranted
    /\ verdict' = [k \in Key |-> "none"]
    /\ UNCHANGED zset

Check(k) == MemoryAdmits(k) \/ MemoryRefuses(k) \/ RedisChecks(k) \/ RedisFails(k)

Next ==
    \/ \E k \in Key : Check(k)
    \/ Tick
    \/ Restart

Spec == Init /\ [][Next]_vars

------------------------------------------------------------------------------
(* No key gets more than its limit in any 60 seconds: the deque, pruned     *)
(* from one end only and only when it is asked, or the sorted set, which    *)
(* outlives the process, never lose an entry that still counts.  In memory  *)
(* that includes both ends of the 60 seconds, in Redis one of them.         *)
AtMostLimit ==
    \A k \in Key : granted[k][Limit + 1] > IF redis THEN Window - 1 ELSE Window

(* In memory nobody is refused without having had the limit in the last 60  *)
(* seconds: stale entries and refused checks do not count.  (In Redis they  *)
(* do count.)                                                               *)
RefusedOnlyWhenFull ==
    ~redis => \A k \in Key : verdict[k] = "refused" => granted[k][Limit] <= Window

(* A client that keeps asking, however often, is let through again and      *)
(* again.  In Redis, where refused checks count, a client that asks more    *)
(* often than its limit allows is shut out for as long as it does.          *)
AskersGetThrough ==
    <>[]~redis => \A k \in Key :
        []<>(verdict[k] # "none") => []<>(verdict[k] = "admitted")
==============================================================================
