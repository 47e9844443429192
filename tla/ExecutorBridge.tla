--------------------------- MODULE ExecutorBridge ---------------------------
(***************************************************************************)
(* The executor bridge (executor_bridge.py): signed requests, the table of *)
(* nonces that keeps a request from being run twice, and the client that   *)
(* matches the receipt with its request.                                   *)
(*                                                                         *)
(* Every delivery of a request is handled by a thread of its own           *)
(* (ThreadingHTTPServer).  A thread reads the clock to validate the        *)
(* request, reads it again in ReplayGuard.claim, then waits for the lock   *)
(* and the database; only the transaction itself is atomic.  A request may *)
(* be delivered more than once, the server may be restarted at any time,   *)
(* and the table of nonces outlives it.                                    *)
(*                                                                         *)
(* A request is identified with its nonce, which is 128 random bits.  The  *)
(* checks of its other fields do not depend on the state and are left out. *)
(***************************************************************************)
EXTENDS Integers, Sequences

CONSTANTS
    Requests,   \* the requests that may be made
    Handlers,   \* threads that serve requests
    Ttls,       \* lifetimes given to requests
    Skews,      \* the signer's clock minus the executor's
    MaxTtl,     \* MAX_TTL_SECONDS
    ClockSkew,  \* CLOCK_SKEW_SECONDS
    MaxStall,   \* longest time from validation to the end of the claim
    MaxClock,   \* bound: the clock stops here
    None        \* no request, no time

ASSUME BridgeAssumption ==
    /\ Ttls \subseteq Int /\ Skews \subseteq Int
    /\ MaxTtl \in Nat /\ ClockSkew \in Nat /\ MaxStall \in Nat /\ MaxClock \in Nat
    /\ None \notin Requests \cup Int

VARIABLES
    clock,      \* the executor's clock, in seconds
    sent,       \* request -> its times and whether the executor knows its key
    nonces,     \* table nonces: request -> expires_at
    handlers,   \* thread -> what it is doing
    claims,     \* request -> when each successful claim of its nonce committed
    runs,       \* request -> which of these claims had its workload started
    receipts,   \* requests a signed receipt was issued for
    outcome     \* request -> what its client knows, and from whose receipt

vars == <<clock, sent, nonces, handlers, claims, runs, receipts, outcome>>

Sent == [issued_at : Int, expires_at : Int, signed : BOOLEAN]

\* A thread has validated the request, has read the clock inside the claim, has
\* claimed the nonce, or is running the workload.
Phases == {"idle", "validated", "claiming", "claimed", "running"}

Threads == [phase : Phases, request : Requests \cup {None},
            validated_at : Int \cup {None}, now : Int \cup {None}, claim : Nat]

Idle == [phase |-> "idle", request |-> None, validated_at |-> None, now |-> None, claim |-> 0]

Outcomes == [status : {"none", "waiting", "failed", "answered"}, from : Requests \cup {None}]

Known(status) == [status |-> status, from |-> None]

Init ==
    /\ clock = 0
    /\ sent = [r \in Requests |-> None]
    /\ nonces = [r \in Requests |-> None]
    /\ handlers = [h \in Handlers |-> Idle]
    /\ claims = [r \in Requests |-> << >>]
    /\ runs = [r \in Requests |-> {}]
    /\ receipts = {}
    /\ outcome = [r \in Requests |-> Known("none")]

\* No thread is kept from its claim for longer than MaxStall.
Tick ==
    /\ clock < MaxClock
    /\ \A h \in Handlers : handlers[h].phase \in {"validated", "claiming"} =>
                              clock - handlers[h].validated_at < MaxStall
    /\ clock' = clock + 1
    /\ UNCHANGED <<sent, nonces, handlers, claims, runs, receipts, outcome>>

----------------------------------------------------------------------------
(* The client                                                              *)

Issue(at, ttl, signed) == [issued_at |-> at, expires_at |-> at + ttl, signed |-> signed]

Send(r, ttl, skew, signed) ==
    /\ sent[r] = None
    /\ sent' = [sent EXCEPT ![r] = Issue(clock + skew, ttl, signed)]
    /\ outcome' = [outcome EXCEPT ![r] = Known("waiting")]
    /\ UNCHANGED <<clock, nonces, handlers, claims, runs, receipts>>

\* Mutant: any receipt with a good signature will do.
MatchesAny(q, r) == TRUE

\* The receipt for q names the operation and the hash of request r.
Matches(q, r) == q = r

\* The client reads a response and accepts the receipt in it.
Accept(r, q) ==
    /\ outcome[r].status = "waiting"
    /\ q \in receipts
    /\ Matches(q, r)
    /\ outcome' = [outcome EXCEPT ![r] = [status |-> "answered", from |-> q]]
    /\ UNCHANGED <<clock, sent, nonces, handlers, claims, runs, receipts>>

\* The client times out or is sent an error.
GiveUp(r) ==
    /\ outcome[r].status = "waiting"
    /\ outcome' = [outcome EXCEPT ![r] = Known("failed")]
    /\ UNCHANGED <<clock, sent, nonces, handlers, claims, runs, receipts>>

----------------------------------------------------------------------------
(* The executor                                                            *)

\* Mutant: the lifetime is not limited.
ValidForEver(q, now) == q.issued_at <= now + ClockSkew /\ q.expires_at >= now

Valid(q, now) ==
    /\ q.expires_at - q.issued_at \in 1..MaxTtl
    /\ q.issued_at <= now + ClockSkew
    /\ q.expires_at >= now

\* execute_signed, up to the call of ReplayGuard.claim.
Validate(h, r) ==
    /\ handlers[h].phase = "idle"
    /\ sent[r] # None
    /\ sent[r].signed
    /\ Valid(sent[r], clock)
    /\ handlers' = [handlers EXCEPT ![h] = [Idle EXCEPT !.phase = "validated", !.request = r,
                                                        !.validated_at = clock]]
    /\ UNCHANGED <<clock, sent, nonces, claims, runs, receipts, outcome>>

ReadClock(h) ==
    /\ handlers[h].phase = "validated"
    /\ handlers' = [handlers EXCEPT ![h].phase = "claiming", ![h].now = clock]
    /\ UNCHANGED <<clock, sent, nonces, claims, runs, receipts, outcome>>

\* DELETE FROM nonces WHERE expires_at < now
Purged(now) ==
    [r \in Requests |-> IF nonces[r] # None /\ nonces[r] < now THEN None ELSE nonces[r]]

\* Mutant: the time of the claim is stored.
RememberClaimTime(table, r, expires, now) == [table EXCEPT ![r] = now]

\* INSERT INTO nonces(nonce, expires_at)
Remember(table, r, expires, now) == [table EXCEPT ![r] = expires]

Claim(h) ==
    LET r == handlers[h].request
        table == Purged(handlers[h].now)
    IN  /\ handlers[h].phase = "claiming"
        /\ table[r] = None
        /\ nonces' = Remember(table, r, sent[r].expires_at, handlers[h].now)
        /\ claims' = [claims EXCEPT ![r] = Append(@, clock)]
        /\ handlers' = [handlers EXCEPT ![h].phase = "claimed", ![h].claim = Len(claims[r]) + 1]
        /\ UNCHANGED <<clock, sent, runs, receipts, outcome>>

\* The insertion fails because the nonce is there, and what was purged is rolled
\* back; or the database stays locked for longer than sqlite waits.
Refuse(h) ==
    /\ handlers[h].phase = "claiming"
    /\ handlers' = [handlers EXCEPT ![h] = Idle]
    /\ UNCHANGED <<clock, sent, nonces, claims, runs, receipts, outcome>>

Start(h) ==
    /\ handlers[h].phase = "claimed"
    /\ runs' = [runs EXCEPT ![handlers[h].request] = @ \cup {handlers[h].claim}]
    /\ handlers' = [handlers EXCEPT ![h].phase = "running"]
    /\ UNCHANGED <<clock, sent, nonces, claims, receipts, outcome>>

\* The workspace is missing, or the adapter raises before or during the run.
Fail(h) ==
    /\ handlers[h].phase \in {"claimed", "running"}
    /\ handlers' = [handlers EXCEPT ![h] = Idle]
    /\ UNCHANGED <<clock, sent, nonces, claims, runs, receipts, outcome>>

Finish(h) ==
    /\ handlers[h].phase = "running"
    /\ receipts' = receipts \cup {handlers[h].request}
    /\ handlers' = [handlers EXCEPT ![h] = Idle]
    /\ UNCHANGED <<clock, sent, nonces, claims, runs, outcome>>

\* Mutant: the nonces are kept in memory.
RestartForgets ==
    /\ handlers' = [h \in Handlers |-> Idle]
    /\ nonces' = [r \in Requests |-> None]
    /\ UNCHANGED <<clock, sent, claims, runs, receipts, outcome>>

\* The server process ends and starts again.
Restart ==
    /\ handlers' = [h \in Handlers |-> Idle]
    /\ UNCHANGED <<clock, sent, nonces, claims, runs, receipts, outcome>>

Thread(h) ==
    \/ \E r \in Requests : Validate(h, r)
    \/ ReadClock(h) \/ Claim(h) \/ Refuse(h) \/ Start(h) \/ Fail(h) \/ Finish(h)

Next ==
    \/ Tick
    \/ \E r \in Requests :
       \/ \E ttl \in Ttls, skew \in Skews, signed \in BOOLEAN : Send(r, ttl, skew, signed)
       \/ \E q \in Requests : Accept(r, q)
       \/ GiveUp(r)
    \/ \E h \in Handlers : Thread(h)
    \/ Restart

Spec == Init /\ [][Next]_vars

----------------------------------------------------------------------------
(* Properties                                                              *)

\* Every variable holds values of its type.
TypeOK ==
    /\ clock \in 0..MaxClock
    /\ sent \in [Requests -> Sent \cup {None}]
    /\ nonces \in [Requests -> Int \cup {None}]
    /\ handlers \in [Handlers -> Threads]
    /\ claims \in [Requests -> Seq(Int)]
    /\ runs \in [Requests -> SUBSET Nat]
    /\ receipts \subseteq Requests
    /\ outcome \in [Requests -> Outcomes]

\* A claim is durable before the workload starts, and stays so through restarts
\* and other threads' purges for as long as the request would be accepted.
ClaimsAreRemembered ==
    \A r \in Requests : claims[r] # << >> /\ clock <= sent[r].expires_at =>
                           nonces[r] = sent[r].expires_at

\* Of all claims of a nonce, by any threads before and after any restart, at most
\* one commits within the lifetime of the request.
OnceWhileValid ==
    \A r \in Requests : \A m, n \in DOMAIN claims[r] :
        claims[r][m] <= sent[r].expires_at /\ claims[r][n] <= sent[r].expires_at => m = n

\* A request is claimed no earlier than the allowed clock skew before it was
\* issued, and no later than the longest lifetime plus the longest stall after.
LifetimeIsBounded ==
    \A r \in Requests : \A n \in DOMAIN claims[r] :
        /\ sent[r].signed
        /\ sent[r].issued_at - ClockSkew <= claims[r][n]
        /\ claims[r][n] <= sent[r].issued_at + MaxTtl + MaxStall

\* A client that reports an answer has the receipt of its own request, and the
\* workload of that request was started.
AnswersAreOwn ==
    \A r \in Requests : outcome[r].status = "answered" => outcome[r].from = r /\ runs[r] # {}

\* A request is run at most once.
ReplayStaysBlocked == \A r \in Requests : \A m, n \in runs[r] : m = n
=============================================================================
