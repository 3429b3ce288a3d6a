------------------------------ MODULE RateLimit ------------------------------
(***************************************************************************)
(* foundation/RateLimiter.cpp over the lock, the key and the clock of      *)
(* RedisProvider.cpp: one bucket, shared by several callers.  A call is a  *)
(* chain of Redis round trips; the lock may lapse between any two of them. *)
(* Tokens and time are counted in one unit: what is refilled while a unit  *)
(* of time passes.  A token is Token units and a millisecond is Millisecond*)
(* units, so Token / Millisecond is refillInterval, and a unit may be as   *)
(* small a fraction of a token as one likes.  The row of the bucket is text*)
(* in which the tokens have six significant digits: Precision is 10^6.     *)
(* The error of double arithmetic itself (2^-53) is left out.              *)
(***************************************************************************)
EXTENDS Naturals, Sequences, SequencesExt

CONSTANTS Callers, Costs, Capacity, LockTtl,
          Token, Millisecond,      \* units in a token, and in a millisecond
          Precision,        \* the significant digits of the row hold the numbers below it
          Places,           \* what the last digit may stand for: a unit, ten units, ...
          MaxClock, MaxRedis, MaxCalls

ASSUME RateAssumption ==
    /\ Costs \subseteq Nat /\ {Capacity, LockTtl} \subseteq Nat
    /\ {Token, Millisecond, Precision} \subseteq Nat \ {0}
    /\ Places \subseteq Nat \ {0} /\ 1 \in Places
    /\ \E p \in Places : Capacity * Token < Precision * p
    /\ MaxClock \in Nat \ {0}

VARIABLES
    bucket,             \* the row "rate:<key>": [tokens, lastTouch], or NoBucket
    lock,               \* the row "rate:<key>:lock": [token, expiresAt]
    lockTokenSeq, redisNow,
    clock,              \* nowFn_
    call,               \* caller -> where its tryConsume is
    calls,
    granted,            \* history: the calls granted since the last reset: [cost, now, spent,
                        \* gained], where spent is their sum so far and gained as it was
    gained              \* history: what the bucket gained by rounding up, all in all

rateVars == <<bucket, lock, lockTokenSeq, redisNow, clock, call, calls, granted, gained>>

NoBucket == [tokens |-> 0, lastTouch |-> 0]
NoLock == [token |-> 0, expiresAt |-> 0]
NoCall == [at |-> "idle", cost |-> 0, token |-> 0, now |-> 0, read |-> NoBucket]

RateInit ==
    /\ bucket = NoBucket /\ lock = NoLock /\ lockTokenSeq = 0
    /\ redisNow = 0 /\ clock = 1
    /\ call = [c \in Callers |-> NoCall] /\ calls = 0 /\ granted = << >>
    /\ gained = 0

InCall(c, where) == call[c].at = where
Goes(c, where) == call' = [call EXCEPT ![c].at = where]

RedisStays == UNCHANGED <<bucket, lock, lockTokenSeq, gained>>
ClocksStay == UNCHANGED <<redisNow, clock>>

\* reapExpired runs before every look at a lock.
LockIsFree == redisNow >= lock.expiresAt

Owns(c) == ~LockIsFree /\ lock.token = call[c].token

-----------------------------------------------------------------------------
(* tryConsume *)

Ask(c, cost) ==
    /\ InCall(c, "idle") /\ calls < MaxCalls /\ calls' = calls + 1
    /\ call' = [call EXCEPT ![c] = [NoCall EXCEPT !.at = "locking", !.cost = cost]]
    /\ UNCHANGED granted /\ RedisStays /\ ClocksStay

Lock(c) ==
    /\ InCall(c, "locking") /\ LockIsFree
    /\ lockTokenSeq' = lockTokenSeq + 1
    /\ lock' = [token |-> lockTokenSeq', expiresAt |-> redisNow + LockTtl]
    /\ call' = [call EXCEPT ![c].at = "locked", ![c].token = lockTokenSeq']
    /\ UNCHANGED <<bucket, calls, granted, gained>> /\ ClocksStay

GiveUp(c) ==
    /\ InCall(c, "locking") /\ ~LockIsFree
    /\ call' = [call EXCEPT ![c] = NoCall]
    /\ UNCHANGED <<calls, granted>> /\ RedisStays /\ ClocksStay

ReadClock(c) ==
    /\ InCall(c, "locked")
    /\ call' = [call EXCEPT ![c].at = "timed", ![c].now = clock]
    /\ UNCHANGED <<calls, granted>> /\ RedisStays /\ ClocksStay

GetBucket(c) ==
    /\ InCall(c, "timed")
    /\ call' = [call EXCEPT ![c].at = "read", ![c].read = bucket]
    /\ UNCHANGED <<calls, granted>> /\ RedisStays /\ ClocksStay

RenewLock(c) ==
    /\ InCall(c, "read")
    /\ IF Owns(c)
       THEN lock' = [lock EXCEPT !.expiresAt = redisNow + LockTtl] /\ Goes(c, "renewed")
       ELSE UNCHANGED lock /\ Goes(c, "leaving")
    /\ UNCHANGED <<bucket, lockTokenSeq, calls, granted, gained>> /\ ClocksStay

Full == Capacity * Token

\* The first touch fills the bucket; time that ran backwards refills nothing.
Refilled(c) ==
    LET read == call[c].read IN
    IF read = NoBucket THEN Full
    ELSE Min({Full, read.tokens + (IF call[c].now > read.lastTouch
                                   THEN call[c].now - read.lastTouch ELSE 0)})

Price(c) == call[c].cost * Token

Spent == IF granted = << >> THEN 0 ELSE Last(granted).spent

Grant(c) == [cost |-> Price(c), now |-> call[c].now, spent |-> Spent + Price(c),
             gained |-> gained]

\* encode writes the tokens with a fixed number of significant digits, so that the
\* last of them stands for more than a unit when there are many tokens.
Place(tokens) ==
    CHOOSE p \in Places : /\ tokens < Precision * p
                          /\ \A q \in Places : tokens < Precision * q => p <= q

\* What decode reads of it: the nearest number with those digits, either one of two
\* that are as near (which one depends on the binary fraction).
Encoded(tokens) ==
    LET p == Place(tokens)
    IN  {t \in 0 .. tokens + p : t % p = 0 /\ 2 * t <= 2 * tokens + p /\ 2 * tokens <= 2 * t + p}

\* Mutant: the bucket is written without a look at the lock.
AnyoneMayWrite(c) == TRUE

MayWrite(c) == Owns(c)

\* setIfLockOwner: the owner's token is checked and the bucket written in one step.
WriteBack(c) ==
    LET enough == Refilled(c) >= Price(c)
        rest == Refilled(c) - (IF enough THEN Price(c) ELSE 0)
    IN
    /\ InCall(c, "renewed")
    /\ IF MayWrite(c)
       THEN /\ \E t \in Encoded(rest) :
                 /\ bucket' = [tokens |-> t, lastTouch |-> call[c].now]
                 /\ gained' = gained + (IF t > rest THEN t - rest ELSE 0)
            /\ lock' = [lock EXCEPT !.expiresAt = redisNow + LockTtl]
            /\ granted' = IF enough THEN Append(granted, Grant(c)) ELSE granted
       ELSE UNCHANGED <<bucket, lock, granted, gained>>
    /\ Goes(c, "leaving")
    /\ UNCHANGED <<lockTokenSeq, calls>> /\ ClocksStay

\* UnlockGuard: a lock that was lost to another caller is left alone.
Unlock(c) ==
    /\ InCall(c, "leaving")
    /\ lock' = IF lock.token = call[c].token THEN NoLock ELSE lock
    /\ call' = [call EXCEPT ![c] = NoCall]
    /\ UNCHANGED <<bucket, lockTokenSeq, calls, granted, gained>> /\ ClocksStay

-----------------------------------------------------------------------------
(* Outside the lock *)

\* reset deletes the row without the lock: a call under way may write it back.
Reset ==
    /\ bucket # NoBucket /\ bucket' = NoBucket /\ granted' = << >>
    /\ UNCHANGED <<lock, lockTokenSeq, call, calls, gained>> /\ ClocksStay

TimeGoes == /\ clock + Millisecond <= MaxClock /\ clock' = clock + Millisecond
            /\ UNCHANGED <<redisNow, call, calls, granted>> /\ RedisStays

AdvanceClock == /\ redisNow < MaxRedis /\ redisNow' = redisNow + 1
                /\ UNCHANGED <<clock, call, calls, granted>> /\ RedisStays

RateNext ==
    \/ \E c \in Callers :
          \/ \E cost \in Costs : Ask(c, cost)
          \/ Lock(c) \/ GiveUp(c) \/ ReadClock(c) \/ GetBucket(c) \/ RenewLock(c)
          \/ WriteBack(c) \/ Unlock(c)
    \/ Reset \/ TimeGoes \/ AdvanceClock

-----------------------------------------------------------------------------
(* Properties *)

RateTypeOK ==
    /\ bucket.tokens \in Nat /\ bucket.lastTouch \in 0 .. MaxClock
    /\ lock.token \in 0 .. lockTokenSeq
    /\ \A c \in Callers : call[c].cost \in Costs \cup {0}

SpentBetween(i, j) == granted[j].spent - granted[i].spent + granted[i].cost

\* In no stretch of time do callers, together, get more than a full bucket, what that
\* time refills and what the bucket gained meanwhile because its row is rounded up
\* (nothing below Precision), wherever the lock lapses under them.
RateIsKept ==
    /\ RateTypeOK
    /\ \A i, j \in DOMAIN granted :
         i <= j => SpentBetween(i, j) <= Full + (granted[j].now - granted[i].now)
                                              + (granted[j].gained - granted[i].gained)
    /\ Full < Precision => gained = 0
=============================================================================
