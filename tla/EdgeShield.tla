----------------------------- MODULE EdgeShield -----------------------------
(***************************************************************************)
(* The reverse proxy of the edge service in front of the daemon            *)
(* (internal/edgeproxy, mounted by cmd/edge): it resolves the address of   *)
(* the client behind trusted proxies, refuses blocked addresses, bounds    *)
(* the requests in flight, limits the rate of each address with token      *)
(* buckets that are evicted when idle, and bans an address after too many  *)
(* failures.  Requests run concurrently; the buckets, the ledger of        *)
(* failures and the bans have a lock each.  A tick of the clock gives each *)
(* bucket Rate tokens; a request is abandoned at its deadline.             *)
(***************************************************************************)
EXTENDS Nil, Integers, Sequences, FiniteSets

CONSTANTS
  Requests,       \* requests in flight at a time
  Clients,        \* addresses of clients
  Proxies,        \* addresses of trusted proxies (TrustedCIDRs)
  Denied,         \* BannedCIDRs, and what AllowedCIDRs leaves out
  Rate, Burst,    \* of a bucket: tokens per tick, and at most
  IdleTTL,        \* ticks after which an idle bucket may be evicted
  MaxConcurrent,  \* size of the semaphore
  Threshold,      \* BanThreshold
  Duration,       \* BanDuration
  MaxTime,        \* bound on the clock
  MaxSent         \* bound on the requests ever sent

VARIABLES
  clock, sent,
  buckets,  \* <<kind, address>> -> [tokens, at, last], or NULL
  fails,    \* address -> failures counted since it was last banned
  until,    \* address -> end of its ban, or NULL
  where,    \* per request: the middleware it is in
  req,      \* per request: where it comes from and what is known of it
  granted   \* <<kind, address>> -> times of the requests let through

\* A client is no trusted proxy; a burst of none would let no request through.
ShieldConstants ==
  /\ Clients \intersect Proxies = {} /\ NULL \notin Clients \union Proxies
  /\ Rate \in Nat /\ Burst \in Nat \ {0} /\ IdleTTL \in Nat /\ Threshold \in Int
  /\ Duration \in Nat /\ MaxTime \in Nat
  /\ NULL \notin [tokens : 0 .. Burst, at : Nat, last : Nat]
ASSUME ShieldAssumption == ShieldConstants

shieldVars == <<clock, sent, buckets, fails, until, where, req, granted>>
-----------------------------------------------------------------------------
Limited  == {"api", "webhook"}
Keys     == Limited \X Clients
Stages   == {"idle", "block", "shield", "limit", "upstream", "count", "ban", "forget"}
Statuses == {"none", "ok", "refused", "throttled"}
NoReq    == [kind |-> "health", origin |-> NULL, ip |-> NULL,
             status |-> "none", asked |-> 0]

\* RealIP: the peer follows the hops of X-Forwarded-For; walking from the right, the
\* client is the first that is not trusted, or the leftmost.  The faulty variant
\* believes the left end of the header.
FirstHop(peer, xff) == IF peer \in Proxies /\ xff # <<>> THEN Head(xff) ELSE peer
RealIP(peer, xff) ==
  LET chain     == Append(xff, peer)
      untrusted == {i \in DOMAIN chain : chain[i] \notin Proxies}
  IN  IF untrusted = {} THEN chain[1]
      ELSE chain[CHOOSE i \in untrusted : \A j \in untrusted : j <= i]

\* Whom the daemon takes for the client of a request (realIPFromTrusted): the edge is a
\* peer it trusts, so that it reads True-Client-IP first, the address named there by the
\* client if any, which the edge passes on, then X-Real-IP, which reverseProxy sets to ip;
\* without either it takes the edge.
DaemonSees(named, ip) ==
  CASE named # NULL              -> named
    [] named = NULL /\ ip # NULL -> ip
    [] OTHER                     -> CHOOSE p \in Proxies : TRUE

ShieldInit ==
  /\ clock = 0 /\ sent = 0
  /\ buckets = [k \in Keys |-> NULL] /\ granted = [k \in Keys |-> <<>>]
  /\ fails = [c \in Clients |-> 0] /\ until = [c \in Clients |-> NULL]
  /\ where = [r \in Requests |-> "idle"] /\ req = [r \in Requests |-> NoReq]
-----------------------------------------------------------------------------
MoveTo(r, stage) == where' = [where EXCEPT ![r] = stage]
Leave(r) == MoveTo(r, "idle") /\ req' = [req EXCEPT ![r] = NoReq]

Pass == /\ clock < MaxTime /\ clock' = clock + 1
        /\ UNCHANGED <<sent, buckets, fails, until, where, req, granted>>

\* A request of client c, directly or through Traefik, which appends the address of
\* its peer to whatever header the client sent.
Arrive(r, c, kind, forged, through) ==
  /\ where[r] = "idle" /\ sent < MaxSent
  /\ sent' = sent + 1
  /\ MoveTo(r, "block")
  /\ req' = [req EXCEPT ![r] =
       [NoReq EXCEPT !.kind = kind, !.origin = c,
          !.ip = IF through = NULL THEN RealIP(c, forged)
                                   ELSE RealIP(through, Append(forged, c))]]
  /\ UNCHANGED <<clock, buckets, fails, until, granted>>

\* isBlocked: 403 for a banned or a denied address, before anything is counted.
Banned(ip)  == until[ip] # NULL /\ clock <= until[ip]
Blocked(ip) == Banned(ip) \/ ip \in Denied

Block(r) ==
  LET ip == req[r].ip
  IN  /\ where[r] = "block"
      /\ until' = [until EXCEPT ![ip] = IF Banned(ip) THEN @ ELSE NULL]
      /\ IF Blocked(ip) THEN Leave(r) ELSE MoveTo(r, "shield") /\ UNCHANGED req
      /\ UNCHANGED <<clock, sent, buckets, fails, granted>>

\* The semaphore: 503 when it is full.
Held == {r \in Requests : where[r] \notin {"idle", "block", "shield"}}

Acquire(r) ==
  /\ where[r] = "shield"
  /\ IF Cardinality(Held) < MaxConcurrent
       THEN MoveTo(r, IF req[r].kind = "health" THEN "upstream" ELSE "limit") /\ UNCHANGED req
       ELSE Leave(r)
  /\ UNCHANGED <<clock, sent, buckets, fails, until, granted>>

\* The buckets after allow has looked at that of k: idle ones of the same limiter are
\* evicted when a new one is made.  The faulty variants keep the time of the first
\* request, and one bucket for both limiters.
Filled(b) == LET t == b.tokens + Rate * (clock - b.at) IN IF t > Burst THEN Burst ELSE t
Bucket(k) == IF buckets[k] # NULL THEN Filled(buckets[k]) ELSE Burst
Idle(j)   == buckets[j] # NULL /\ clock - buckets[j].last > IdleTTL
FirstSeen(k) ==
  [j \in Keys |->
     IF j = k THEN [tokens |-> IF Bucket(k) > 0 THEN Bucket(k) - 1 ELSE 0, at |-> clock,
                    last |-> IF buckets[k] = NULL THEN clock ELSE buckets[k].last]
     ELSE IF buckets[k] = NULL /\ j[1] = k[1] /\ Idle(j) THEN NULL ELSE buckets[j]]
SharedBucket(k) ==
  [j \in Keys |->
     IF j[2] = k[2] THEN [tokens |-> IF Bucket(k) > 0 THEN Bucket(k) - 1 ELSE 0,
                          at |-> clock, last |-> clock]
     ELSE buckets[j]]
Taken(k) ==
  [j \in Keys |->
     IF j = k THEN [tokens |-> IF Bucket(k) > 0 THEN Bucket(k) - 1 ELSE 0,
                    at |-> clock, last |-> clock]
     ELSE IF buckets[k] = NULL /\ j[1] = k[1] /\ Idle(j) THEN NULL ELSE buckets[j]]

\* RateLimiter: 429 when the bucket is empty.
Limit(r) ==
  LET k == <<req[r].kind, req[r].ip>>
  IN  /\ where[r] = "limit"
      /\ buckets' = Taken(k)
      /\ IF Bucket(k) > 0
           THEN /\ MoveTo(r, "upstream") /\ UNCHANGED req
                /\ granted' = [granted EXCEPT ![k] = Append(@, clock)]
           ELSE /\ MoveTo(r, "count") /\ UNCHANGED granted
                /\ req' = [req EXCEPT ![r].status = "throttled", ![r].asked = clock]
      /\ UNCHANGED <<clock, sent, fails, until>>

\* The daemon answers, or the deadline of the request passes: 401 and 403 count.
Answer(r, status) ==
  /\ where[r] = "upstream"
  /\ IF status = "refused"
       THEN MoveTo(r, "count") /\ req' = [req EXCEPT ![r].status = status]
       ELSE Leave(r)
  /\ UNCHANGED <<clock, sent, buckets, fails, until, granted>>

\* recordFailure: count, ban and forget, each under a lock of its own.  The faulty
\* variant bans only beyond the threshold.
BeyondThreshold(n) == n > Threshold
Offends(n) == Threshold > 0 /\ n >= Threshold

Count(r) ==
  LET ip == req[r].ip
      n == fails[ip] + 1
  IN  /\ where[r] = "count"
      /\ fails' = [fails EXCEPT ![ip] = IF Threshold <= 0 THEN @ ELSE n]
      /\ IF Offends(n) THEN MoveTo(r, "ban") /\ UNCHANGED req ELSE Leave(r)
      /\ UNCHANGED <<clock, sent, buckets, until, granted>>

Ban(r) ==
  /\ where[r] = "ban"
  /\ until' = [until EXCEPT ![req[r].ip] = clock + Duration]
  /\ MoveTo(r, "forget")
  /\ UNCHANGED <<clock, sent, buckets, fails, req, granted>>

Forget(r) ==
  /\ where[r] = "forget"
  /\ fails' = [fails EXCEPT ![req[r].ip] = 0]
  /\ Leave(r)
  /\ UNCHANGED <<clock, sent, buckets, until, granted>>

ShieldNext ==
  \/ Pass
  \/ \E r \in Requests :
       \/ \E c \in Clients, kind \in Limited \union {"health"}, through \in Proxies \union {NULL} :
            \E forged \in {<<>>} \union {<<d>> : d \in Clients \union Proxies} :
              Arrive(r, c, kind, forged, through)
       \/ Block(r) \/ Acquire(r) \/ Limit(r) \/ Count(r) \/ Ban(r) \/ Forget(r)
       \/ \E status \in {"ok", "refused"} : Answer(r, status)

ShieldSpec == ShieldInit /\ [][ShieldNext]_shieldVars
-----------------------------------------------------------------------------
\* Whatever X-Forwarded-For a client sends, directly or through a trusted proxy, limits
\* and bans of the edge are held against the client's own address (RealIP: "stop at the
\* first untrusted hop").  The daemon takes a request without a True-Client-IP, which
\* reverseProxy would leave as it is, for that client's as well.
GenuineAddress ==
  \A r \in Requests : where[r] # "idle" =>
    /\ req[r].ip = req[r].origin
    /\ DaemonSees(NULL, req[r].ip) = req[r].origin

\* In no span of time is an address let through more often than the burst and the rate
\* of that span allow: no eviction of an idle bucket gives back tokens that were spent
\* (perIPLimiter.allow).  Burst <= Rate * IdleTTL, as with every default.
RateHolds ==
  Burst <= Rate * IdleTTL =>
    \A k \in Keys : \A i, j \in DOMAIN granted[k] :
      i <= j => j - i + 1 <= Burst + Rate * (granted[k][j] - granted[k][i])

\* An address is only throttled when it has used up what its own requests of that kind
\* may use: a noisy webhook does not starve the API (config.go), nor one client another.
ThrottledIsSpent ==
  \A r \in Requests : req[r].status = "throttled" =>
    LET g == granted[<<req[r].kind, req[r].ip>>]
        now == req[r].asked
    IN  \E i \in DOMAIN g :
          Cardinality({j \in DOMAIN g : j >= i /\ g[j] <= now}) >= Burst + Rate * (now - g[i])

\* The two together: the limit is neither more nor less than what is configured.
RateIsExact == RateHolds /\ ThrottledIsSpent

\* Failures never pile up beyond the threshold: when nobody is about to ban an address
\* or to forget its failures, it has fewer than the threshold (recordFailure, whose
\* steps of concurrent requests interleave).
OffendersAreBanned ==
  \A c \in Clients : Threshold > 0 /\ fails[c] >= Threshold =>
    \E r \in Requests : where[r] \in {"ban", "forget"} /\ req[r].ip = c
=============================================================================
