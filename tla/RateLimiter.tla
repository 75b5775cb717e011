----------------------------- MODULE RateLimiter -----------------------------
(***************************************************************************)
(* The rate limiter of internal/api: one token bucket per client, refilled *)
(* when it is looked at, and a sweep that forgets the idle ones on the way *)
(* of some request.  Beside each bucket runs an exact one that is never    *)
(* forgotten and is charged for what the limiter lets through.             *)
(* Time is counted in the ticks that refill one Unit-th of a token; the    *)
(* readings of the clock during one request are one.                       *)
(***************************************************************************)
EXTENDS Integers, Sequences

CONSTANTS
  Clients,           \* the addresses clients have
  Proxy,             \* the address of the reverse proxy
  TrustProxyHeader,  \* the server is behind it and believes its header
  Capacity,          \* the burst
  Unit,              \* ticks in which one token comes back
  TTL, SweepEvery,   \* bucketIdleTTL, sweepEvery
  MaxTime,           \* bound: ticks of an instance
  NoBucket, Never

ASSUME RateLimiterAssumption ==
  /\ Proxy \notin Clients /\ TrustProxyHeader \in BOOLEAN
  /\ Capacity \in Nat \ {0} /\ Unit \in Nat \ {0}
  /\ TTL \in Nat \ {0} /\ SweepEvery \in Nat \ {0} /\ MaxTime \in Nat
  /\ Never \notin Nat /\ NoBucket \notin [tokens : Int, last : Int]

FullBucket == Capacity * Unit
Keys == Clients \cup {Proxy}

\* A bucket that is idle for longer than the TTL is full, with a token to
\* spare.  The defaults see to it (31 tokens at 5 a second against 10 minutes);
\* the configuration does not check it.
RefilledInTime == FullBucket + Unit <= TTL

VARIABLES
  now,
  buckets,    \* key -> what is left of its tokens, and when it was last seen
  inserts,    \* new buckets since the last sweep
  lastSwept,
  credit      \* client -> the tokens of its exact bucket

limiterVars == <<now, buckets, inserts, lastSwept, credit>>

NewRateLimiter ==
  /\ now = 0
  /\ buckets = [k \in Keys |-> NoBucket]
  /\ inserts = 0 /\ lastSwept = Never
  /\ credit = [c \in Clients |-> FullBucket]

\* The tokens t after d ticks.
Refill(t, d) == IF t + d > FullBucket THEN FullBucket ELSE t + d

\* A slip: it trusts the first entry, the one an earlier hop may have written.
FirstHop(peer, forwarded) ==
  IF TrustProxyHeader /\ forwarded # <<>> THEN forwarded[1] ELSE peer

\* Whom a request is charged to: the last entry of a header that can be
\* believed, or else the address it came from.
ClientKey(peer, forwarded) ==
  IF TrustProxyHeader /\ forwarded # <<>> THEN forwarded[Len(forwarded)] ELSE peer

\* The bucket of a key, made full if there is none.
Found(k) == IF buckets[k] = NoBucket THEN [tokens |-> FullBucket, last |-> now] ELSE buckets[k]

\* allow: the bucket after a request, and whether the request may pass.
Tokens(b)   == Refill(b.tokens, now - b.last)
Allowed(b)  == Tokens(b) >= Unit
Charged(b)  == [tokens |-> IF Allowed(b) THEN Tokens(b) - Unit ELSE Tokens(b), last |-> now]

\* maybeSweepLocked: whether to sweep after so many inserts, and what to forget.
SweepDue(fresh) ==
  lastSwept # Never /\ (fresh >= SweepEvery \/ now - lastSwept >= TTL)
Idle(k) == buckets[k] # NoBucket /\ buckets[k].last < now - TTL

\* A slip: the clock of the sweeps stays unset until the first sweep.
SweptByItself(due) == IF due THEN now ELSE lastSwept

\* When the clock of the sweeps is set: by the first request, and by a sweep.
SweptAt(due) == IF lastSwept = Never \/ due THEN now ELSE lastSwept

\* A request of c passes the limiter, all of it under the mutex.  Its bucket is
\* looked up before the sweep and charged after it, swept or not.
Request(c, via) ==
  LET peer      == IF TrustProxyHeader THEN Proxy ELSE c
      forwarded == IF TrustProxyHeader THEN Append(via, c) ELSE via
      key       == ClientKey(peer, forwarded)
      fresh     == IF buckets[key] = NoBucket THEN inserts + 1 ELSE inserts
      due       == SweepDue(fresh)
  IN /\ buckets' = [k \in Keys |->
                      IF due /\ Idle(k) THEN NoBucket
                      ELSE IF k = key THEN Charged(Found(k)) ELSE buckets[k]]
     /\ inserts' = IF due THEN 0 ELSE fresh
     /\ lastSwept' = SweptAt(due)
     /\ credit' = IF Allowed(Found(key)) THEN [credit EXCEPT ![c] = @ - Unit] ELSE credit
     /\ UNCHANGED now

Elapse ==
  /\ now < MaxTime
  /\ now' = now + 1
  /\ credit' = [c \in Clients |-> Refill(credit[c], 1)]
  /\ UNCHANGED <<buckets, inserts, lastSwept>>

\* What the hops before ours may have written into the header.
Vias == {<<>>} \cup {<<c>> : c \in Clients}

Requested == \E c \in Clients, via \in Vias : Request(c, via)
LimiterNext == Requested \/ Elapse
LimiterSpec == NewRateLimiter /\ [][LimiterNext]_limiterVars

-----------------------------------------------------------------------------
Bucket == [tokens : 0..FullBucket, last : Nat]

LimiterTypes ==
  /\ now \in Nat
  /\ buckets \in [Keys -> Bucket \cup {NoBucket}]
  /\ \A k \in Keys : buckets[k] # NoBucket => buckets[k].last <= now
  /\ inserts \in Nat
  /\ lastSwept \in Nat \cup {Never} /\ (lastSwept # Never => lastSwept <= now)
  /\ credit \in [Clients -> Int]

\* What a client could use now, as the limiter counts it.
Level(c) == Tokens(Found(c))

\* Forgetting a bucket gives its client one token at most, ever, and takes
\* none: however requests and sweeps fall, and whoever wrote into the header, a
\* client is one token ahead of the exact bucket at the most.  So in any d ticks
\* no more than Capacity + 1 + d / Unit of its requests pass (ratelimit.go's
\* eviction and clientKey).
OneTokenAtMost ==
  \A c \in Clients : Level(c) - credit[c] \in 0..Unit

\* The same with no token given, as the comment above bucketIdleTTL has it:
\* "dropping it changes nothing about what its owner may do next".
DroppingIsExact == \A c \in Clients : Level(c) = credit[c]

\* After any request no bucket is left that was last seen two TTLs before,
\* though the sweeps ride on requests and forget only what is idle when they
\* run (ratelimit.go's two triggers).
IdleAreForgotten ==
  [][Requested =>
       \A k \in Keys : buckets'[k] # NoBucket => buckets'[k].last > now - 2 * TTL]_limiterVars

=============================================================================
