------------------------ MODULE ExecutorBridgeProofs ------------------------
(***************************************************************************)
(* Proofs about ExecutorBridge, for any requests, threads, lifetimes and   *)
(* stalls.  The inductive invariant says what a thread knows in each of    *)
(* its phases (it validated its request at a time that is not older than   *)
(* MaxStall while it has not claimed) and that the table of nonces never   *)
(* holds anything but the deadline of a request.                           *)
(***************************************************************************)
EXTENDS ExecutorBridge, TLAPS

ThreadOK(x) ==
    /\ x.phase # "idle" =>
          /\ x.request \in Requests /\ sent[x.request] # None
          /\ sent[x.request].signed /\ x.validated_at \in Int
          /\ x.validated_at <= clock /\ Valid(sent[x.request], x.validated_at)
    /\ x.phase \in {"validated", "claiming"} => clock - x.validated_at <= MaxStall
    /\ x.phase = "claiming" => x.now \in Int /\ x.now <= clock
    /\ x.phase \in {"claimed", "running"} => x.claim \in DOMAIN claims[x.request]
    /\ x.phase = "running" => x.claim \in runs[x.request]

ThreadsOK == \A h \in Handlers : ThreadOK(handlers[h])

TableOK ==
    \A r \in Requests :
        /\ nonces[r] # None => sent[r] # None /\ nonces[r] = sent[r].expires_at
        /\ claims[r] # << >> => sent[r] # None

\* A claim commits at most MaxStall after its request expires.
LateAtMost ==
    \A r \in Requests : \A n \in DOMAIN claims[r] :
        claims[r][n] <= sent[r].expires_at + MaxStall

RunsOK == /\ \A r \in Requests : runs[r] \subseteq DOMAIN claims[r]
          /\ \A r \in receipts : runs[r] # {}

IInv == /\ TypeOK /\ ThreadsOK /\ TableOK /\ LateAtMost /\ RunsOK
        /\ ClaimsAreRemembered /\ OnceWhileValid /\ LifetimeIsBounded /\ AnswersAreOwn

LEMMA Initially == Init => IInv
<1> SUFFICES ASSUME Init PROVE IInv
  OBVIOUS
<1> USE BridgeAssumption DEF Init
<1>1. TypeOK
  BY DEF TypeOK, Threads, Idle, Phases, Outcomes, Known
<1>2. ThreadsOK
  BY DEF ThreadsOK, ThreadOK, Idle
<1>3. TableOK /\ LateAtMost /\ RunsOK /\ ClaimsAreRemembered /\ OnceWhileValid
      /\ LifetimeIsBounded /\ AnswersAreOwn
  BY DEF TableOK, LateAtMost, RunsOK, ClaimsAreRemembered, OnceWhileValid,
         LifetimeIsBounded, AnswersAreOwn, Known
<1> QED
  BY <1>1, <1>2, <1>3 DEF IInv

----------------------------------------------------------------------------
(* The actions.  `Rest' is what an action that claims nothing cannot       *)
(* disturb unless it changes the clock or the requests.                    *)

LEMMA TickKeeps == IInv /\ Tick => IInv'
<1> SUFFICES ASSUME IInv, Tick PROVE IInv'
  OBVIOUS
<1> USE BridgeAssumption DEF IInv, Tick
<1>1. TypeOK'
  BY DEF TypeOK
<1>2. clock \in Int /\ clock' = clock + 1
  BY DEF TypeOK
<1>3. ThreadsOK'
  <2> SUFFICES ASSUME NEW h \in Handlers PROVE ThreadOK(handlers[h])'
    BY DEF ThreadsOK
  <2>1. ThreadOK(handlers[h])
    BY DEF ThreadsOK
  <2>2. handlers[h].phase \in {"validated", "claiming"} => handlers[h].validated_at \in Int
    BY <2>1 DEF ThreadOK
  <2> QED
    BY <1>2, <2>1, <2>2 DEF ThreadOK, Valid
<1>4. TableOK' /\ LateAtMost' /\ RunsOK' /\ OnceWhileValid' /\ LifetimeIsBounded' /\ AnswersAreOwn'
  BY DEF TableOK, LateAtMost, RunsOK, OnceWhileValid, LifetimeIsBounded, AnswersAreOwn
<1>5. ClaimsAreRemembered'
  <2> SUFFICES ASSUME NEW r \in Requests, claims[r] # << >>, clock + 1 <= sent[r].expires_at
               PROVE  nonces[r] = sent[r].expires_at
    BY DEF ClaimsAreRemembered
  <2>1. sent[r] \in Sent
    BY DEF TypeOK, TableOK
  <2> QED
    BY <1>2, <2>1 DEF ClaimsAreRemembered, Sent
<1> QED
  BY <1>1, <1>3, <1>4, <1>5

LEMMA SendKeeps ==
    ASSUME NEW r \in Requests, NEW ttl \in Ttls, NEW skew \in Skews, NEW signed \in BOOLEAN,
           IInv, Send(r, ttl, skew, signed)
    PROVE  IInv'
<1> USE BridgeAssumption DEF IInv, Send
<1>1. Issue(clock + skew, ttl, signed) \in Sent
  BY DEF TypeOK, Issue, Sent
<1>2. TypeOK'
  BY <1>1 DEF TypeOK, Outcomes, Known
<1>3. claims[r] = << >> /\ nonces[r] = None
  BY DEF TableOK
<1>4. sent' \in [Requests -> Sent \cup {None}] /\ \A q \in Requests \ {r} : sent'[q] = sent[q]
  BY <1>1 DEF TypeOK
<1>5. ThreadsOK'
  <2> SUFFICES ASSUME NEW h \in Handlers PROVE ThreadOK(handlers[h])'
    BY DEF ThreadsOK
  <2>1. ThreadOK(handlers[h])
    BY DEF ThreadsOK
  <2>2. handlers[h].phase # "idle" => handlers[h].request \in Requests \ {r}
    BY <2>1 DEF ThreadOK
  <2> QED
    BY <1>4, <2>1, <2>2 DEF ThreadOK, Valid
<1>6. TableOK' /\ LateAtMost' /\ RunsOK' /\ ClaimsAreRemembered' /\ OnceWhileValid'
      /\ LifetimeIsBounded'
  BY <1>3, <1>4 DEF TableOK, LateAtMost, RunsOK, ClaimsAreRemembered, OnceWhileValid,
                    LifetimeIsBounded
<1>7. AnswersAreOwn'
  BY DEF AnswersAreOwn, TypeOK, Known
<1> QED
  BY <1>2, <1>5, <1>6, <1>7

\* Steps of the client and of the server that leave the clock, the requests, the
\* table and the claims alone and end with a thread that is in order.
LEMMA QuietKeeps ==
    ASSUME IInv, UNCHANGED <<clock, sent, nonces, claims>>, TypeOK',
           \A h \in Handlers : ThreadOK(handlers[h])', RunsOK', AnswersAreOwn'
    PROVE  IInv'
BY DEF IInv, ThreadsOK, TableOK, LateAtMost, ClaimsAreRemembered, OnceWhileValid,
       LifetimeIsBounded

LEMMA ClientKeeps ==
    ASSUME NEW r \in Requests, IInv, GiveUp(r) \/ \E q \in Requests : Accept(r, q)
    PROVE  IInv'
<1>1. TypeOK'
  <2>1. CASE GiveUp(r)
    BY <2>1 DEF IInv, TypeOK, GiveUp, Known, Outcomes
  <2>2. ASSUME NEW q \in Requests, Accept(r, q) PROVE TypeOK'
    BY <2>2 DEF IInv, TypeOK, Accept, Outcomes
  <2> QED
    BY <2>1, <2>2
<1>2. /\ UNCHANGED <<clock, sent, nonces, claims, handlers, runs, receipts>>
  BY DEF GiveUp, Accept
<1>3. AnswersAreOwn'
  <2>1. CASE GiveUp(r)
    BY <2>1 DEF IInv, TypeOK, AnswersAreOwn, GiveUp, Known
  <2>2. ASSUME NEW q \in Requests, Accept(r, q) PROVE AnswersAreOwn'
    BY <2>2 DEF IInv, TypeOK, RunsOK, AnswersAreOwn, Accept, Matches
  <2> QED
    BY <2>1, <2>2
<1>4. (\A h \in Handlers : ThreadOK(handlers[h])') /\ RunsOK'
  BY <1>2 DEF IInv, ThreadsOK, ThreadOK, RunsOK, Valid
<1> QED
  BY <1>1, <1>2, <1>3, <1>4, QuietKeeps

\* A step of one thread that claims nothing: it is in order if the thread is.
LEMMA ThreadKeeps ==
    ASSUME NEW h \in Handlers, NEW x \in Threads, IInv,
           handlers' = [handlers EXCEPT ![h] = x], ThreadOK(handlers[h])',
           UNCHANGED <<clock, sent, nonces, claims, outcome>>,
           runs' \in [Requests -> SUBSET Nat], receipts' \subseteq Requests,
           \A r \in Requests : runs[r] \subseteq runs'[r], RunsOK'
    PROVE  IInv'
<1>1. TypeOK'
  BY DEF IInv, TypeOK
<1>2. \A g \in Handlers : ThreadOK(handlers[g])'
  <2> SUFFICES ASSUME NEW g \in Handlers PROVE ThreadOK(handlers[g])'
    OBVIOUS
  <2>1. CASE g = h
    BY <2>1
  <2>2. CASE g # h
    <3>1. handlers'[g] = handlers[g] /\ ThreadOK(handlers[g])
      BY <2>2 DEF IInv, TypeOK, ThreadsOK
    <3> QED
      BY <3>1 DEF ThreadOK, Valid
  <2> QED
    BY <2>1, <2>2
<1>3. AnswersAreOwn'
  BY DEF IInv, AnswersAreOwn
<1> QED
  BY <1>1, <1>2, <1>3, QuietKeeps

LEMMA IdleIsThread == Idle \in Threads
BY DEF Idle, Threads, Phases

LEMMA ValidateKeeps ==
    ASSUME NEW h \in Handlers, NEW r \in Requests, IInv, Validate(h, r)
    PROVE  IInv'
<1> DEFINE x == [Idle EXCEPT !.phase = "validated", !.request = r, !.validated_at = clock]
<1>1. clock \in Int /\ sent[r] \in Sent
  BY DEF IInv, TypeOK, Validate
<1>2. x \in Threads
  BY <1>1 DEF Idle, Threads, Phases
<1>3. x.phase = "validated" /\ x.request = r /\ x.validated_at = clock
  BY DEF Idle
<1>4. /\ handlers' = [handlers EXCEPT ![h] = x]
      /\ UNCHANGED <<clock, sent, nonces, claims, runs, receipts, outcome>>
  BY DEF Validate
<1> HIDE DEF x
<1>5. handlers'[h] = x
  BY <1>4 DEF IInv, TypeOK
<1>6. ThreadOK(handlers[h])'
  BY <1>1, <1>3, <1>4, <1>5, BridgeAssumption DEF ThreadOK, Validate, Valid
<1> QED
  BY <1>2, <1>4, <1>6, ThreadKeeps DEF IInv, TypeOK, RunsOK

LEMMA ReadClockKeeps ==
    ASSUME NEW h \in Handlers, IInv, ReadClock(h)
    PROVE  IInv'
<1> DEFINE x == [handlers[h] EXCEPT !.phase = "claiming", !.now = clock]
<1>1. clock \in Int /\ handlers[h] \in Threads /\ ThreadOK(handlers[h])
  BY DEF IInv, TypeOK, ThreadsOK
<1>2. x \in Threads
  BY <1>1 DEF Threads, Phases
<1>3. /\ x.phase = "claiming" /\ x.now = clock /\ x.request = handlers[h].request
      /\ x.validated_at = handlers[h].validated_at
  BY <1>1 DEF Threads
<1>4. /\ handlers' = [handlers EXCEPT ![h] = x]
      /\ UNCHANGED <<clock, sent, nonces, claims, runs, receipts, outcome>>
  BY DEF ReadClock, IInv, TypeOK
<1> HIDE DEF x
<1>5. handlers'[h] = x
  BY <1>4 DEF IInv, TypeOK
<1>6. ThreadOK(handlers[h])'
  <2>1. /\ handlers[h].phase = "validated" /\ handlers'[h].phase = "claiming"
        /\ handlers'[h].request = handlers[h].request /\ handlers'[h].now = clock
        /\ handlers'[h].validated_at = handlers[h].validated_at
    BY <1>3, <1>5 DEF ReadClock
  <2> QED
    BY <1>1, <1>4, <2>1 DEF ThreadOK
<1> QED
  BY <1>2, <1>4, <1>6, ThreadKeeps DEF IInv, TypeOK, RunsOK

LEMMA StartKeeps ==
    ASSUME NEW h \in Handlers, IInv, Start(h)
    PROVE  IInv'
<1> DEFINE x == [handlers[h] EXCEPT !.phase = "running"]
           r == handlers[h].request
           n == handlers[h].claim
<1>1. /\ handlers[h] \in Threads /\ ThreadOK(handlers[h]) /\ handlers[h].phase = "claimed"
      /\ runs \in [Requests -> SUBSET Nat]
  BY DEF IInv, TypeOK, ThreadsOK, Start
<1>2. r \in Requests /\ n \in Nat /\ n \in DOMAIN claims[r]
  BY <1>1 DEF ThreadOK, Threads
<1>3. x \in Threads
  BY <1>1 DEF Threads, Phases
<1>4. /\ x.phase = "running" /\ x.request = r /\ x.claim = n
      /\ x.validated_at = handlers[h].validated_at
  BY <1>1 DEF Threads
<1>5. /\ handlers' = [handlers EXCEPT ![h] = x]
      /\ runs' = [runs EXCEPT ![r] = @ \cup {n}]
      /\ UNCHANGED <<clock, sent, nonces, claims, receipts, outcome>>
  BY DEF Start, IInv, TypeOK
<1> HIDE DEF x, r, n
<1>6. /\ runs' \in [Requests -> SUBSET Nat] /\ runs'[r] = runs[r] \cup {n}
      /\ \A q \in Requests : runs[q] \subseteq runs'[q]
      /\ \A q \in Requests \ {r} : runs'[q] = runs[q]
  BY <1>1, <1>2, <1>5
<1>7. RunsOK'
  BY <1>2, <1>5, <1>6 DEF IInv, RunsOK, TypeOK
<1>8. handlers'[h] = x
  BY <1>5 DEF IInv, TypeOK
<1>9. ThreadOK(handlers[h])'
  <2>1. /\ handlers'[h].phase = "running" /\ handlers'[h].request = r
        /\ handlers'[h].validated_at = handlers[h].validated_at
        /\ handlers'[h].claim = n /\ n \in runs'[r]
    BY <1>4, <1>6, <1>8
  <2> QED
    BY <1>1, <1>2, <1>5, <2>1 DEF ThreadOK, r, n
<1> QED
  BY <1>3, <1>5, <1>6, <1>7, <1>9, ThreadKeeps DEF IInv, TypeOK

LEMMA EndKeeps ==
    ASSUME NEW h \in Handlers, IInv, Refuse(h) \/ Fail(h) \/ Finish(h)
    PROVE  IInv'
<1>1. /\ handlers' = [handlers EXCEPT ![h] = Idle]
      /\ UNCHANGED <<clock, sent, nonces, claims, runs, outcome>>
  BY DEF Refuse, Fail, Finish
<1>2. receipts' \subseteq Requests /\ RunsOK'
  <2>1. CASE UNCHANGED receipts
    BY <1>1, <2>1 DEF IInv, TypeOK, RunsOK
  <2>2. CASE Finish(h)
    BY <2>2 DEF Finish, IInv, TypeOK, RunsOK, ThreadsOK, ThreadOK
  <2> QED
    BY <2>1, <2>2 DEF Refuse, Fail
<1>3. ThreadOK(handlers[h])'
  BY <1>1 DEF IInv, TypeOK, ThreadOK, Idle
<1> QED
  BY <1>1, <1>2, <1>3, IdleIsThread, ThreadKeeps DEF IInv, TypeOK

LEMMA RestartKeeps == IInv /\ Restart => IInv'
<1> SUFFICES ASSUME IInv, Restart PROVE IInv'
  OBVIOUS
<1>1. TypeOK' /\ RunsOK' /\ AnswersAreOwn'
  BY IdleIsThread DEF IInv, Restart, TypeOK, RunsOK, AnswersAreOwn
<1>2. \A h \in Handlers : ThreadOK(handlers[h])'
  BY DEF Restart, ThreadOK, Idle
<1> QED
  BY <1>1, <1>2, QuietKeeps DEF Restart

----------------------------------------------------------------------------
(* The claim of a nonce                                                    *)

LEMMA ClaimKeeps ==
    ASSUME NEW h \in Handlers, IInv, Claim(h)
    PROVE  IInv'
<1> DEFINE r == handlers[h].request
           now == handlers[h].now
           table == Purged(now)
           k == Len(claims[r]) + 1
           x == [handlers[h] EXCEPT !.phase = "claimed", !.claim = k]
<1>1. /\ handlers[h] \in Threads /\ ThreadOK(handlers[h]) /\ handlers[h].phase = "claiming"
      /\ clock \in Int /\ nonces \in [Requests -> Int \cup {None}]
      /\ claims \in [Requests -> Seq(Int)]
  BY DEF IInv, TypeOK, ThreadsOK, Claim
<1>2. /\ r \in Requests /\ now \in Int /\ now <= clock /\ sent[r] # None
      /\ sent[r].signed /\ handlers[h].validated_at \in Int
      /\ Valid(sent[r], handlers[h].validated_at) /\ handlers[h].validated_at <= clock
      /\ clock - handlers[h].validated_at <= MaxStall
  BY <1>1 DEF ThreadOK
<1>3. sent[r] \in Sent /\ sent[r].expires_at \in Int /\ sent[r].issued_at \in Int
  BY <1>2 DEF IInv, TypeOK, Sent
<1>4. claims[r] \in Seq(Int) /\ k \in Nat
  BY <1>1, <1>2
<1>5. x \in Threads
  BY <1>1, <1>4 DEF Threads, Phases
<1>6. /\ x.phase = "claimed" /\ x.claim = k /\ x.request = r
      /\ x.validated_at = handlers[h].validated_at
  BY <1>1 DEF Threads
<1>7. /\ table[r] = None
      /\ nonces' = [table EXCEPT ![r] = sent[r].expires_at]
      /\ claims' = [claims EXCEPT ![r] = Append(@, clock)]
      /\ handlers' = [handlers EXCEPT ![h] = x]
      /\ UNCHANGED <<clock, sent, runs, receipts, outcome>>
  BY DEF Claim, Remember, IInv, TypeOK
<1>8. /\ table \in [Requests -> Int \cup {None}]
      /\ \A q \in Requests : nonces[q] # None /\ table[q] = None => nonces[q] < now
      /\ \A q \in Requests : table[q] # None => table[q] = nonces[q]
  BY <1>1 DEF Purged
<1> HIDE DEF x, r, now, table, k
<1>9. /\ nonces' \in [Requests -> Int \cup {None}] /\ nonces'[r] = sent[r].expires_at
      /\ \A q \in Requests \ {r} : nonces'[q] = table[q]
  BY <1>2, <1>3, <1>7, <1>8
<1>10. /\ claims' \in [Requests -> Seq(Int)] /\ claims'[r] = Append(claims[r], clock)
       /\ \A q \in Requests \ {r} : claims'[q] = claims[q]
  BY <1>1, <1>2, <1>7
<1>11. /\ DOMAIN claims'[r] = DOMAIN claims[r] \cup {k}
       /\ claims'[r][k] = clock /\ claims'[r] # << >>
       /\ \A n \in DOMAIN claims[r] : claims'[r][n] = claims[r][n] /\ n # k
  <2> DEFINE c == claims[r]
  <2>1. c \in Seq(Int) /\ claims'[r] = Append(c, clock) /\ k = Len(c) + 1 /\ clock \in Int
    BY <1>1, <1>4, <1>10 DEF k
  <2>2. \A n \in DOMAIN c : n \in 1..Len(c)
    BY <2>1
  <2> HIDE DEF c
  <2>3. /\ Append(c, clock) \in Seq(Int) /\ Len(Append(c, clock)) = k
        /\ \A n \in 1..Len(c) : Append(c, clock)[n] = c[n]
        /\ Append(c, clock)[k] = clock
    BY <2>1
  <2>4. DOMAIN Append(c, clock) = 1..k /\ DOMAIN c = 1..Len(c) /\ Len(c) \in Nat
    BY <2>1, <2>3
  <2>5. DOMAIN Append(c, clock) = DOMAIN c \cup {k} /\ \A n \in DOMAIN c : n # k
    BY <2>1, <2>4
  <2>6. Append(c, clock) # << >>
    BY <2>1, <2>3
  <2> QED
    BY <2>1, <2>2, <2>3, <2>5, <2>6 DEF c
<1>12. clock <= sent[r].expires_at => claims[r] = << >>
  <2> SUFFICES ASSUME clock <= sent[r].expires_at, claims[r] # << >> PROVE FALSE
    OBVIOUS
  <2>1. nonces[r] = sent[r].expires_at
    BY <1>2 DEF IInv, ClaimsAreRemembered
  <2>2. nonces[r] # None
    BY <1>3, <2>1, BridgeAssumption
  <2> QED
    BY <1>1, <1>2, <1>3, <1>7, <1>8, <2>1, <2>2
<1>13. TypeOK'
  BY <1>5, <1>7, <1>9, <1>10 DEF IInv, TypeOK
<1>14. ThreadsOK'
  <2> SUFFICES ASSUME NEW g \in Handlers PROVE ThreadOK(handlers[g])'
    BY DEF ThreadsOK
  <2>1. CASE g = h
    <3>1. handlers'[g] = x
      BY <1>7, <2>1 DEF IInv, TypeOK
    <3> QED
      BY <1>2, <1>6, <1>7, <1>11, <3>1 DEF ThreadOK, Valid
  <2>2. CASE g # h
    <3>1. handlers'[g] = handlers[g] /\ ThreadOK(handlers[g])
      BY <1>7, <2>2 DEF IInv, TypeOK, ThreadsOK
    <3>2. \A q \in Requests : DOMAIN claims[q] \subseteq DOMAIN claims'[q]
      BY <1>10, <1>11
    <3> QED
      BY <1>7, <3>1, <3>2 DEF ThreadOK, Valid
  <2> QED
    BY <2>1, <2>2
<1>15. TableOK'
  <2> SUFFICES ASSUME NEW q \in Requests
               PROVE  /\ nonces'[q] # None => sent[q] # None /\ nonces'[q] = sent[q].expires_at
                      /\ claims'[q] # << >> => sent[q] # None
    BY <1>7 DEF TableOK
  <2>1. CASE q = r
    BY <1>2, <1>9, <2>1
  <2>2. CASE q # r
    BY <1>8, <1>9, <1>10, <2>2 DEF IInv, TableOK
  <2> QED
    BY <2>1, <2>2
<1>16. LateAtMost' /\ LifetimeIsBounded'
  <2> DEFINE v == handlers[h].validated_at
             i == sent[r].issued_at
             e == sent[r].expires_at
  <2>1. /\ v \in Int /\ i \in Int /\ e \in Int /\ clock \in Int /\ e - i <= MaxTtl
        /\ i <= v + ClockSkew /\ v <= e /\ v <= clock /\ clock - v <= MaxStall
    BY <1>1, <1>2, <1>3, BridgeAssumption DEF Valid
  <2> HIDE DEF v, i, e
  <2>2. clock <= e + MaxStall /\ i - ClockSkew <= clock /\ clock <= i + MaxTtl + MaxStall
    BY <2>1, BridgeAssumption
  <2>3. /\ claims'[r][k] <= sent'[r].expires_at + MaxStall
        /\ sent'[r].issued_at - ClockSkew <= claims'[r][k]
        /\ claims'[r][k] <= sent'[r].issued_at + MaxTtl + MaxStall
    BY <1>7, <1>11, <2>2 DEF i, e
  <2>4. \A n \in DOMAIN claims'[r] : n = k \/ (n \in DOMAIN claims[r] /\ claims'[r][n] = claims[r][n])
    BY <1>11
  <2>5. LateAtMost'
    BY <1>2, <1>7, <1>10, <2>3, <2>4 DEF IInv, LateAtMost
  <2>6. LifetimeIsBounded'
    BY <1>2, <1>7, <1>10, <2>3, <2>4 DEF IInv, LifetimeIsBounded
  <2> QED
    BY <2>5, <2>6
<1>17. RunsOK'
  BY <1>7, <1>10, <1>11 DEF IInv, RunsOK, TypeOK
<1>18. ClaimsAreRemembered'
  <2> SUFFICES ASSUME NEW q \in Requests, claims'[q] # << >>, clock <= sent[q].expires_at
               PROVE  nonces'[q] = sent[q].expires_at
    BY <1>7 DEF ClaimsAreRemembered
  <2>1. CASE q = r
    BY <1>9, <2>1
  <2>2. CASE q # r
    <3>1. nonces[q] = sent[q].expires_at /\ sent[q] \in Sent
      BY <1>10, <2>2 DEF IInv, ClaimsAreRemembered, TableOK, TypeOK
    <3>2. nonces[q] \in Int /\ nonces[q] # None /\ now <= nonces[q]
      BY <1>1, <1>2, <3>1, BridgeAssumption DEF Sent
    <3>3. table[q] = nonces[q]
      BY <1>2, <1>8, <3>2
    <3> QED
      BY <1>9, <2>2, <3>1, <3>3
  <2> QED
    BY <2>1, <2>2
<1>19. OnceWhileValid'
  <2> SUFFICES ASSUME NEW q \in Requests, NEW m \in DOMAIN claims'[q], NEW n \in DOMAIN claims'[q],
                      claims'[q][m] <= sent[q].expires_at, claims'[q][n] <= sent[q].expires_at
               PROVE  m = n
    BY <1>7 DEF OnceWhileValid
  <2>1. CASE q = r
    <3>1. CASE m = k \/ n = k
      <4>1. clock <= sent[r].expires_at
        BY <1>11, <2>1, <3>1
      <4>2. DOMAIN claims'[r] = {k}
        BY <1>11, <1>12, <4>1
      <4> QED
        BY <2>1, <4>2
    <3>2. CASE m # k /\ n # k
      BY <1>11, <2>1, <3>2 DEF IInv, OnceWhileValid
    <3> QED
      BY <3>1, <3>2
  <2>2. CASE q # r
    BY <1>10, <2>2 DEF IInv, OnceWhileValid
  <2> QED
    BY <2>1, <2>2
<1>20. AnswersAreOwn'
  BY <1>7 DEF IInv, AnswersAreOwn
<1> QED
  BY <1>13, <1>14, <1>15, <1>16, <1>17, <1>18, <1>19, <1>20 DEF IInv

----------------------------------------------------------------------------
(* The theorems                                                            *)

LEMMA StepKeeps == IInv /\ [Next]_vars => IInv'
<1> SUFFICES ASSUME IInv, [Next]_vars PROVE IInv'
  OBVIOUS
<1>1. CASE Tick
  BY <1>1, TickKeeps
<1>2. ASSUME NEW r \in Requests, NEW ttl \in Ttls, NEW skew \in Skews, NEW signed \in BOOLEAN,
             Send(r, ttl, skew, signed)
      PROVE  IInv'
  BY <1>2, SendKeeps
<1>3. ASSUME NEW r \in Requests, GiveUp(r) \/ \E q \in Requests : Accept(r, q) PROVE IInv'
  BY <1>3, ClientKeeps
<1>4. ASSUME NEW h \in Handlers, Thread(h) PROVE IInv'
  <2>1. ASSUME NEW r \in Requests, Validate(h, r) PROVE IInv'
    BY <2>1, ValidateKeeps
  <2>2. CASE ReadClock(h)
    BY <2>2, ReadClockKeeps
  <2>3. CASE Claim(h)
    BY <2>3, ClaimKeeps
  <2>4. CASE Start(h)
    BY <2>4, StartKeeps
  <2>5. CASE Refuse(h) \/ Fail(h) \/ Finish(h)
    BY <2>5, EndKeeps
  <2> QED
    BY <1>4, <2>1, <2>2, <2>3, <2>4, <2>5 DEF Thread
<1>5. CASE Restart
  BY <1>5, RestartKeeps
<1>6. CASE UNCHANGED vars
  <2>1. UNCHANGED <<clock, sent, nonces, claims, handlers, runs, receipts, outcome>>
    BY <1>6 DEF vars
  <2>2. TypeOK' /\ RunsOK' /\ AnswersAreOwn'
    BY <2>1 DEF IInv, TypeOK, RunsOK, AnswersAreOwn
  <2>3. \A h \in Handlers : ThreadOK(handlers[h])'
    BY <2>1 DEF IInv, ThreadsOK, ThreadOK, Valid
  <2> QED
    BY <2>1, <2>2, <2>3, QuietKeeps
<1> QED
  BY <1>1, <1>2, <1>3, <1>4, <1>5, <1>6 DEF Next

\* The inductive invariant holds throughout.
THEOREM Invariance == Spec => []IInv
  BY Initially, StepKeeps, PTL DEF Spec

\* Every variable of the bridge holds values of its type.
THEOREM BridgeTypeCorrect == Spec => []TypeOK
<1>1. IInv => TypeOK
  BY DEF IInv
<1> QED
  BY <1>1, Invariance, PTL

\* While a request would still be accepted, its claim is in the table.
THEOREM NoncesAreKept == Spec => []ClaimsAreRemembered
<1>1. IInv => ClaimsAreRemembered
  BY DEF IInv
<1> QED
  BY <1>1, Invariance, PTL

\* A nonce is claimed at most once within the lifetime of its request.
THEOREM ClaimedOnce == Spec => []OnceWhileValid
<1>1. IInv => OnceWhileValid
  BY DEF IInv
<1> QED
  BY <1>1, Invariance, PTL

\* A request is claimed only within a bounded time around its issue.
THEOREM LifetimeBound == Spec => []LifetimeIsBounded
<1>1. IInv => LifetimeIsBounded
  BY DEF IInv
<1> QED
  BY <1>1, Invariance, PTL

\* An answered client has the receipt of its own request, which was run.
THEOREM OwnAnswers == Spec => []AnswersAreOwn
<1>1. IInv => AnswersAreOwn
  BY DEF IInv
<1> QED
  BY <1>1, Invariance, PTL

\* If no second passes between the validation of a request and the commit of its
\* claim, no request is run twice.  The run ExecutorBridge_replay shows that
\* this assumption, which the code does not enforce, is needed.
THEOREM PromptClaimsBlockReplay ==
    ASSUME MaxStall = 0 PROVE Spec => []ReplayStaysBlocked
<1>1. IInv => ReplayStaysBlocked
  <2> SUFFICES ASSUME IInv, NEW r \in Requests, NEW m \in runs[r], NEW n \in runs[r] PROVE m = n
    BY DEF ReplayStaysBlocked
  <2>1. m \in DOMAIN claims[r] /\ n \in DOMAIN claims[r]
    BY DEF IInv, RunsOK
  <2>2. sent[r] \in Sent
    BY <2>1 DEF IInv, TypeOK, TableOK
  <2>3. claims[r][m] <= sent[r].expires_at /\ claims[r][n] <= sent[r].expires_at
    BY <2>1, <2>2 DEF IInv, LateAtMost, Sent
  <2> QED
    BY <2>1, <2>3 DEF IInv, OnceWhileValid
<1> QED
  BY <1>1, Invariance, PTL
=============================================================================
