-------------------------- MODULE RateLimitProofs --------------------------
(***************************************************************************)
(* For any number of clients and goroutines, any rates and bursts and any  *)
(* grain of time: the types, that the local limiter's lazy buckets are     *)
(* token buckets, how much a client gets from one in a window of time, and *)
(* how much it gets when it moves between them and Redis.                  *)
(***************************************************************************)
EXTENDS RateLimit, FiniteSetTheorems, TLAPS

\* A goroutine that is about to ask a bucket has found one.
BucketMade == \A s \in Slots : pc[s] = "bucket" => tokens[ClientOf[s]] # None

\* The strengthening of WindowBound: what was granted and what is there to be
\* granted.
Reserve ==
    \A c \in Clients :
        granted[c] * Unit + Level[c] <= Full(c) + Rate[c] * (clock - since)

\* Answers of Redis on their way to a handler that will let its request through.
Allowed(c) == {s \in Slots : ClientOf[s] = c /\ pc[s] = "answer" /\ got[s] = "allowed"}

\* The strengthening of TwiceTheLimit: what was let through, what Redis has
\* allowed, and what is there to be allowed on either side.
Promised(c) == passed[c] + Cardinality(Allowed(c))

Both ==
    \A c \in Clients :
        Promised(c) * Unit + Level[c] + store[c]
            <= (2 + losses) * Full(c) + 2 * (Rate[c] * (clock - since))
               + Cardinality(Mine(c)) * Unit

Base == TypeOK /\ BucketMade

IInv == Base /\ Reserve /\ Both

-----------------------------------------------------------------------------
\* The configured limits are numbers, and no bucket is too small for a token.
LEMMA Limits ==
    \A c \in Clients : Rate[c] \in Nat /\ Burst[c] \in Nat \ {0} /\ Full(c) \in Nat /\ Full(c) >= Unit
  <1> SUFFICES ASSUME NEW c \in Clients
               PROVE  Rate[c] \in Nat /\ Burst[c] \in Nat \ {0} /\ Full(c) \in Nat /\ Full(c) >= Unit
    OBVIOUS
  <1>1. Rate[c] \in Nat  BY RateLimitAssumption DEF Rate
  <1>2. Burst[c] \in Nat \ {0}  BY RateLimitAssumption DEF Burst
  <1>3. \A b, u \in Nat \ {0} : b * u \in Nat /\ b * u >= u
    OBVIOUS
  <1> QED  BY <1>1, <1>2, <1>3, RateLimitAssumption DEF Full

\* A gateway that has just started has no buckets.
LEMMA InitBase == Init => Base
  BY RateLimitAssumption, Limits DEF Init, Base, TypeOK, BucketMade

\* The refill of a bucket is a number of parts within its capacity.
LEMMA RefilledType ==
    ASSUME TypeOK, NEW c \in Clients, tokens[c] # None
    PROVE  Refilled(c) \in Nat /\ Refilled(c) <= Full(c)
  <1>1. tokens[c] \in Nat /\ clock - last[c] \in Nat  BY DEF TypeOK
  <1>2. (clock - last[c]) * Rate[c] \in Nat  BY <1>1, Limits
  <1> QED  BY <1>1, <1>2, Limits DEF Refilled, Capped

\* Every step keeps the types.
LEMMA NextBase == Base /\ [Next]_vars => Base'
  <1> SUFFICES ASSUME Base, [Next]_vars PROVE Base'
    OBVIOUS
  <1> USE RateLimitAssumption DEF Base, BucketMade, localVars, handlerVars, window
  <1>1. ASSUME NEW s \in Slots, Arrive(s) PROVE Base'
    BY <1>1 DEF Arrive, TypeOK
  <1>2. ASSUME NEW s \in Slots, AtRedis(s) PROVE Base'
    BY <1>2, Limits DEF AtRedis, TypeOK
  <1>3. ASSUME NEW s \in Slots, RedisFails(s) PROVE Base'
    BY <1>3 DEF RedisFails, TypeOK
  <1>4. ASSUME NEW s \in Slots, Answered(s) PROVE Base'
    <2>1. passed' \in [Clients -> Nat]  BY <1>4 DEF Answered, Finish, TypeOK
    <2> QED  BY <1>4, <2>1 DEF Answered, Finish, TypeOK
  <1>5. ASSUME NEW s \in Slots, Failed(s) PROVE Base'
    BY <1>5 DEF Failed, TypeOK
  <1>6. ASSUME NEW s \in Slots, Find(s) PROVE Base'
    BY <1>6, Limits DEF Find, TypeOK
  <1>7. ASSUME NEW s \in Slots, Decide(s) PROVE Base'
    <2> DEFINE c == ClientOf[s]
    <2>1. c \in Clients /\ tokens[c] # None  BY <1>7 DEF Decide
    <2>2. Refilled(c) \in Nat /\ Refilled(c) <= Full(c) /\ Full(c) \in Nat
      BY <2>1, RefilledType, Limits
    <2>3. \E n \in Nat : n <= Full(c) /\ tokens' = [tokens EXCEPT ![c] = n]
      <3>1. CASE Refilled(c) >= Unit
        <4>1. tokens' = [tokens EXCEPT ![c] = Refilled(c) - Unit]
          BY <1>7, <3>1 DEF Decide, Verdict
        <4>2. Refilled(c) - Unit \in Nat /\ Refilled(c) - Unit <= Full(c)
          BY <2>2, <3>1
        <4> QED  BY <4>1, <4>2
      <3>2. CASE ~(Refilled(c) >= Unit)
        <4>1. tokens' = [tokens EXCEPT ![c] = Refilled(c)]
          BY <1>7, <3>2 DEF Decide, Verdict
        <4> QED  BY <2>2, <4>1
      <3> QED  BY <3>1, <3>2
    <2>4. /\ granted' \in [Clients -> Nat] /\ passed' \in [Clients -> Nat]
          /\ said' \in [Clients -> {"nothing", "allowed", "denied"}]
      BY <1>7, <2>1 DEF Decide, Verdict, Finish, TypeOK
    <2>5. /\ last' = [last EXCEPT ![c] = clock] /\ clock' = clock /\ since' = since
          /\ pc' = [pc EXCEPT ![s] = "idle"] /\ got' = got
          /\ UNCHANGED <<redisHealthy, store, losses>>
      BY <1>7 DEF Decide, Verdict, Finish
    <2>6. TypeOK'
      BY <2>1, <2>2, <2>3, <2>4, <2>5 DEF TypeOK, Full
    <2>7. BucketMade'
      BY <2>1, <2>3, <2>5 DEF TypeOK
    <2> QED  BY <2>6, <2>7
  <1>8. CASE Tick
    <2>1. store' \in [Clients -> Nat] /\ \A c \in Clients : store'[c] <= Full(c)
      BY <1>8, Limits DEF Tick, TypeOK, Capped
    <2> QED  BY <1>8, <2>1 DEF Tick, TypeOK
  <1>9. CASE Forget
    <2>1. store' \in [Clients -> Nat] /\ \A c \in Clients : store'[c] <= Full(c)
      BY <1>9, Limits DEF Forget
    <2> QED  BY <1>9, <2>1 DEF Forget, TypeOK
  <1>10. CASE Observe  BY <1>10 DEF Observe, TypeOK
  <1>11. CASE Reported  BY <1>11 DEF Reported, TypeOK
  <1>12. CASE UNCHANGED vars  BY <1>12 DEF vars, TypeOK
  <1> QED
    BY <1>1, <1>2, <1>3, <1>4, <1>5, <1>6, <1>7, <1>8, <1>9, <1>10, <1>11, <1>12 DEF Next, Handle

-----------------------------------------------------------------------------
(* The level of a bucket, step by step.                                    *)

\* A level is a number of parts within the capacity.
LEMMA LevelType ==
    ASSUME TypeOK
    PROVE  /\ DOMAIN Level = Clients
           /\ \A c \in Clients : Level[c] \in Nat /\ Level[c] <= Full(c)
  BY RefilledType, Limits DEF Level

\* Time adds the rate, up to the capacity.
LEMMA LevelTick ==
    ASSUME Base, Tick
    PROVE  Level' = [c \in Clients |-> TB!Capped(Level[c] + Rate[c], c)]
  <1> SUFFICES ASSUME NEW c \in Clients
               PROVE  Level'[c] = TB!Capped(Level[c] + Rate[c], c)
    BY DEF Level
  <1>1. /\ clock' = clock + 1 /\ tokens' = tokens /\ last' = last
        /\ clock \in Nat /\ last[c] \in Nat /\ last[c] <= clock
    BY DEF Tick, localVars, Base, TypeOK
  <1>2. Rate[c] \in Nat /\ Full(c) \in Nat /\ Full(c) = Burst[c] * Unit
    BY Limits DEF Full
  <1>3. CASE tokens[c] = None
    BY <1>1, <1>2, <1>3 DEF Level, TB!Capped
  <1>4. CASE tokens[c] # None
    <2> DEFINE x == (clock - last[c]) * Rate[c]
    <2>1. tokens[c] \in Nat /\ clock - last[c] \in Nat  BY <1>1, <1>4 DEF Base, TypeOK
    <2>2. x \in Nat  BY <2>1, <1>2
    <2>3. \A m, n \in Nat : (m + 1) * n = m * n + n
      OBVIOUS
    <2>4. (clock' - last'[c]) * Rate[c] = x + Rate[c]
      <3>1. clock' - last'[c] = (clock - last[c]) + 1  BY <1>1
      <3> QED  BY <3>1, <2>1, <1>2, <2>3
    <2>5. Level[c] = IF tokens[c] + x > Full(c) THEN Full(c) ELSE tokens[c] + x
      BY <1>4 DEF Level, Refilled, Capped
    <2>6. Level'[c] = IF tokens[c] + (x + Rate[c]) > Full(c) THEN Full(c) ELSE tokens[c] + (x + Rate[c])
      BY <1>1, <1>4, <2>4 DEF Level, Refilled, Capped
    <2> HIDE DEF x
    <2> QED  BY <1>2, <2>1, <2>2, <2>5, <2>6 DEF TB!Capped
  <1> QED  BY <1>3, <1>4

\* Making a bucket does not change its level.
LEMMA LevelFind ==
    ASSUME Base, NEW s \in Slots, Find(s)
    PROVE  Level' = Level
  <1> DEFINE c == ClientOf[s]
  <1>0. c \in Clients  BY RateLimitAssumption
  <1>1. CASE tokens[c] # None
    <2>1. tokens' = tokens /\ last' = last /\ clock' = clock  BY <1>1 DEF Find, localVars
    <2> QED  BY <2>1 DEF Level, Refilled
  <1>2. CASE tokens[c] = None
    <2>1. /\ tokens' = [tokens EXCEPT ![c] = Full(c)] /\ last' = [last EXCEPT ![c] = clock]
          /\ clock' = clock
      BY <1>2 DEF Find
    <2>2. /\ tokens'[c] = Full(c) /\ last'[c] = clock
          /\ \A d \in Clients : d # c => tokens'[d] = tokens[d] /\ last'[d] = last[d]
      BY <1>0, <2>1 DEF Base, TypeOK
    <2>3. Level'[c] = Full(c)
      <3>1. (clock' - last'[c]) * Rate[c] = 0  BY <2>1, <2>2, <1>0, Limits DEF Base, TypeOK
      <3> QED  BY <3>1, <2>2, <1>0, Limits DEF Level, Refilled, Capped
    <2>4. Level[c] = Full(c)  BY <1>0, <1>2 DEF Level
    <2>5. \A d \in Clients : d # c => Level'[d] = Level[d]
      BY <2>1, <2>2 DEF Level, Refilled
    <2> QED  BY <2>3, <2>4, <2>5 DEF Level
  <1> QED  BY <1>1, <1>2

\* A decision takes a whole token if there is one, and says so.
LEMMA LevelDecide ==
    ASSUME Base, NEW s \in Slots, Decide(s)
    PROVE  LET c == ClientOf[s] IN
           \/ /\ Level[c] >= Unit
              /\ Level' = [Level EXCEPT ![c] = @ - Unit]
              /\ said' = [said EXCEPT ![c] = "allowed"]
              /\ granted' = [granted EXCEPT ![c] = @ + 1]
              /\ passed' = [passed EXCEPT ![c] = @ + 1]
           \/ /\ Level[c] < Unit
              /\ Level' = Level
              /\ said' = [said EXCEPT ![c] = "denied"]
              /\ granted' = granted
              /\ passed' = passed
  <1> DEFINE c == ClientOf[s]
  <1>0. c \in Clients /\ tokens[c] # None
    BY RateLimitAssumption DEF Base, BucketMade, Decide
  <1>1. Level[c] = Refilled(c) /\ Refilled(c) \in Nat /\ Refilled(c) <= Full(c) /\ Full(c) \in Nat
    BY <1>0, RefilledType, Limits DEF Level, Base
  <1>2. clock' = clock /\ last' = [last EXCEPT ![c] = clock] /\ clock \in Nat
    BY DEF Decide, Verdict, Base, TypeOK
  <1>3. ASSUME NEW n \in Nat, n <= Full(c), tokens' = [tokens EXCEPT ![c] = n]
        PROVE  Level' = [Level EXCEPT ![c] = n]
    <2>1. /\ tokens'[c] = n /\ last'[c] = clock
          /\ \A d \in Clients : d # c => tokens'[d] = tokens[d] /\ last'[d] = last[d]
      BY <1>0, <1>2, <1>3 DEF Base, TypeOK
    <2>2. Level'[c] = n
      <3>1. (clock' - last'[c]) * Rate[c] = 0  BY <1>0, <1>2, <2>1, Limits
      <3>2. n # None  BY RateLimitAssumption
      <3> QED  BY <3>1, <3>2, <2>1, <1>0, <1>1, <1>3 DEF Level, Refilled, Capped, Full
    <2>3. \A d \in Clients : d # c => Level'[d] = Level[d]
      BY <1>2, <2>1 DEF Level, Refilled
    <2> QED  BY <2>2, <2>3 DEF Level
  <1>4. CASE Refilled(c) >= Unit
    <2>1. /\ tokens' = [tokens EXCEPT ![c] = Refilled(c) - Unit]
          /\ said' = [said EXCEPT ![c] = "allowed"] /\ granted' = [granted EXCEPT ![c] = @ + 1]
          /\ passed' = [passed EXCEPT ![c] = @ + 1]
      BY <1>4 DEF Decide, Verdict, Finish
    <2>2. Refilled(c) - Unit \in Nat /\ Refilled(c) - Unit <= Full(c)
      BY <1>1, <1>4, RateLimitAssumption
    <2> QED  BY <1>1, <1>3, <1>4, <2>1, <2>2
  <1>5. CASE ~(Refilled(c) >= Unit)
    <2>1. /\ tokens' = [tokens EXCEPT ![c] = Refilled(c)]
          /\ said' = [said EXCEPT ![c] = "denied"] /\ granted' = granted
          /\ passed' = passed
      BY <1>5 DEF Decide, Verdict, Finish
    <2>2. Level' = [Level EXCEPT ![c] = Level[c]]  BY <1>1, <1>3, <2>1
    <2>3. Level' = Level  BY <2>2 DEF Level
    <2> QED  BY <1>1, <1>5, <2>1, <2>3, RateLimitAssumption
  <1> QED  BY <1>4, <1>5

\* What else happens leaves the levels and the verdicts alone.
LEMMA LevelOthers ==
    ASSUME \/ \E s \in Slots : \/ Arrive(s) \/ AtRedis(s) \/ RedisFails(s)
                              \/ Answered(s) \/ Failed(s)
           \/ Forget \/ Reported \/ UNCHANGED vars
    PROVE  Level' = Level /\ UNCHANGED <<said, granted, clock, since>>
  <1>1. UNCHANGED <<clock, since, tokens, last, said, granted>>
    BY DEF Arrive, AtRedis, RedisFails, Answered, Failed, Forget, Reported, vars, localVars, window
  <1> QED  BY <1>1 DEF Level, Refilled

-----------------------------------------------------------------------------
\* In the beginning there is no more than a burst to be granted.
LEMMA InitReserve == Init => Reserve
  <1> SUFFICES ASSUME Init, NEW c \in Clients
               PROVE  granted[c] * Unit + Level[c] <= Full(c) + Rate[c] * (clock - since)
    BY DEF Reserve
  <1>1. Level[c] = Full(c)  BY DEF Init, Level
  <1>2. granted[c] * Unit = 0  BY RateLimitAssumption DEF Init
  <1>3. Rate[c] * (clock - since) = 0  BY Limits DEF Init
  <1> QED  BY <1>1, <1>2, <1>3, Limits

\* Every step keeps the reserve: time adds the rate to what is there and to the
\* bound, and a decision turns what is there into what was granted.
LEMMA NextReserve == IInv /\ [Next]_vars => Reserve'
  <1> SUFFICES ASSUME IInv, [Next]_vars, NEW c \in Clients
               PROVE  granted'[c] * Unit + Level'[c] <= Full(c) + Rate[c] * (clock' - since')
    BY DEF Reserve, Rate, Full, Burst
  <1>0. /\ Base /\ TypeOK
        /\ granted[c] * Unit + Level[c] <= Full(c) + Rate[c] * (clock - since)
        /\ Level[c] \in Nat /\ Level[c] <= Full(c) /\ Full(c) \in Nat /\ Rate[c] \in Nat
        /\ granted[c] \in Nat /\ Unit \in Nat /\ clock - since \in Nat
    BY LevelType, Limits, RateLimitAssumption DEF IInv, Base, Reserve, TypeOK
  <1>m. \A m, n \in Nat : /\ m * n \in Nat
                          /\ (m + 1) * n = m * n + n
                          /\ n * (m + 1) = n * m + n
    OBVIOUS
  <1>1. ASSUME Level' = Level, UNCHANGED <<granted, clock, since>>
        PROVE  granted'[c] * Unit + Level'[c] <= Full(c) + Rate[c] * (clock' - since')
    BY <1>0, <1>1
  <1>2. ASSUME NEW s \in Slots, Handle(s)
        PROVE  granted'[c] * Unit + Level'[c] <= Full(c) + Rate[c] * (clock' - since')
    <2>1. CASE Find(s)
      <3>1. Level' = Level  BY <1>0, <2>1, LevelFind
      <3>2. UNCHANGED <<granted, clock, since>>  BY <2>1 DEF Find, window
      <3> QED  BY <1>1, <3>1, <3>2
    <2>2. CASE Decide(s)
      <3> DEFINE d == ClientOf[s]
      <3>1. d \in Clients /\ clock' = clock /\ since' = since
        BY <2>2, RateLimitAssumption DEF Decide, Verdict
      <3>2. CASE Level' = Level /\ granted' = granted
        BY <1>1, <3>1, <3>2
      <3>3. CASE /\ Level[d] >= Unit
                 /\ Level' = [Level EXCEPT ![d] = @ - Unit]
                 /\ granted' = [granted EXCEPT ![d] = @ + 1]
        <4>1. CASE c = d
          <5>1. Level'[c] = Level[c] - Unit /\ granted'[c] = granted[c] + 1
            BY <1>0, <3>3, <4>1, LevelType DEF TypeOK
          <5>2. granted'[c] * Unit = granted[c] * Unit + Unit /\ granted[c] * Unit \in Nat
            <6>1. granted[c] \in Nat /\ Unit \in Nat  BY <1>0
            <6>2. (granted[c] + 1) * Unit = granted[c] * Unit + Unit /\ granted[c] * Unit \in Nat
              BY <1>m, <6>1, Zenon
            <6> QED  BY <5>1, <6>2
          <5> QED  BY <1>0, <3>1, <5>1, <5>2
        <4>2. CASE c # d
          <5>1. Level'[c] = Level[c] /\ granted'[c] = granted[c]
            BY <1>0, <3>3, <4>2, LevelType DEF TypeOK
          <5> QED  BY <1>0, <3>1, <5>1
        <4> QED  BY <4>1, <4>2
      <3> QED  BY <1>0, <2>2, <3>2, <3>3, LevelDecide
    <2>3. CASE Arrive(s) \/ AtRedis(s) \/ RedisFails(s) \/ Answered(s) \/ Failed(s)
      BY <2>3, <1>1, LevelOthers
    <2> QED  BY <1>2, <2>1, <2>2, <2>3 DEF Handle
  <1>3. CASE Tick
    <2>1. clock' - since' = (clock - since) + 1 /\ granted' = granted
      BY <1>0, <1>3 DEF Tick, window, TypeOK
    <2>2. \/ Level'[c] = Level[c] + Rate[c]
          \/ Level[c] + Rate[c] > Full(c) /\ Level'[c] = Full(c)
      <3>1. Level'[c] = TB!Capped(Level[c] + Rate[c], c)  BY <1>0, <1>3, LevelTick
      <3> QED  BY <3>1 DEF TB!Capped, Full
    <2>3. Level'[c] \in Nat  BY <1>0, <2>2
    <2>4. Rate[c] * (clock' - since') = Rate[c] * (clock - since) + Rate[c]
      BY <1>0, <1>m, <2>1
    <2>5. granted[c] * Unit \in Nat /\ Rate[c] * (clock - since) \in Nat
      BY <1>0, <1>m
    <2> QED  BY <1>0, <2>1, <2>2, <2>3, <2>4, <2>5
  <1>4. CASE Observe
    <2>1. Level' = Level  BY <1>4 DEF Observe, localVars, Level, Refilled
    <2>2. granted'[c] = 0 /\ clock' - since' = 0  BY <1>0, <1>4 DEF Observe, TypeOK
    <2>3. granted'[c] * Unit = 0 /\ Rate[c] * (clock' - since') = 0  BY <1>0, <2>2
    <2> QED  BY <1>0, <2>1, <2>3
  <1>5. CASE Forget \/ Reported \/ UNCHANGED vars
    BY <1>5, <1>1, LevelOthers
  <1> QED  BY <1>2, <1>3, <1>4, <1>5 DEF Next

-----------------------------------------------------------------------------
(* Both limiters together.                                                 *)

\* The bound of TwiceTheLimit.
Bound(c) ==
    (2 + losses) * Full(c) + 2 * (Rate[c] * (clock - since)) + Cardinality(Mine(c)) * Unit

\* Answers on their way are among the client's requests.
LEMMA AllowedFinite ==
    ASSUME NEW c \in Clients
    PROVE  /\ IsFiniteSet(Allowed(c)) /\ Cardinality(Allowed(c)) \in Nat
           /\ IsFiniteSet(Allowed(c)') /\ Cardinality(Allowed(c)') \in Nat
           /\ IsFiniteSet(Mine(c)) /\ Cardinality(Mine(c)) \in Nat
           /\ Cardinality(Allowed(c)) <= Cardinality(Mine(c))
  <1>1. Mine(c) \subseteq Slots  BY DEF Mine
  <1>2. IsFiniteSet(Mine(c))  BY <1>1, FS_Subset, RateLimitAssumption
  <1>3. Allowed(c) \subseteq Mine(c) /\ Allowed(c)' \subseteq Mine(c)  BY DEF Allowed, Mine
  <1>4. /\ IsFiniteSet(Allowed(c)) /\ Cardinality(Allowed(c)) <= Cardinality(Mine(c))
        /\ IsFiniteSet(Allowed(c)')
    BY <1>2, <1>3, FS_Subset
  <1> QED  BY <1>2, <1>4, FS_CardinalityType

\* In the beginning both sides hold a burst, and nothing is let through.
LEMMA InitBoth == Init => Both
  <1> SUFFICES ASSUME Init, NEW c \in Clients
               PROVE  Promised(c) * Unit + Level[c] + store[c] <= Bound(c)
    BY DEF Both, Bound
  <1>1. Level[c] = Full(c) /\ store[c] = Full(c) /\ Full(c) \in Nat  BY Limits DEF Init, Level
  <1>2. Allowed(c) = {}  BY DEF Init, Allowed
  <1>3. Promised(c) = 0  BY <1>2, FS_EmptySet DEF Init, Promised
  <1>4. Rate[c] * (clock - since) = 0  BY Limits DEF Init
  <1>5. Cardinality(Mine(c)) * Unit \in Nat  BY AllowedFinite, RateLimitAssumption
  <1>6. Bound(c) = 2 * Full(c) + 0 + Cardinality(Mine(c)) * Unit
    BY <1>1, <1>4, <1>5 DEF Init, Bound
  <1> HIDE DEF Init
  <1> DEFINE full == Full(c)
             mine == Cardinality(Mine(c)) * Unit
  <1> HIDE DEF full, mine
  <1>7. Promised(c) * Unit = 0  BY <1>3, RateLimitAssumption
  <1>8. full \in Nat /\ mine \in Nat /\ Level[c] = full /\ store[c] = full
        /\ Bound(c) = 2 * full + 0 + mine
    BY <1>1, <1>5, <1>6 DEF full, mine
  <1> QED  BY <1>7, <1>8

\* A request that moves changes what was promised to its client by what it takes
\* with it, and nobody else's.
LEMMA AllowedMoves ==
    ASSUME TypeOK, NEW s \in Slots, NEW c \in Clients,
           \A q \in Slots \ {s} : pc'[q] = pc[q] /\ got'[q] = got[q]
    PROVE  /\ s \in Allowed(c) /\ s \notin Allowed(c)'
                => Cardinality(Allowed(c)') = Cardinality(Allowed(c)) - 1
           /\ s \notin Allowed(c) /\ s \in Allowed(c)'
                => Cardinality(Allowed(c)') = Cardinality(Allowed(c)) + 1
           /\ (s \in Allowed(c) <=> s \in Allowed(c)')
                => Cardinality(Allowed(c)') = Cardinality(Allowed(c))
  <1>1. Allowed(c)' \ {s} = Allowed(c) \ {s}  BY DEF Allowed
  <1>2. IsFiniteSet(Allowed(c)) /\ IsFiniteSet(Allowed(c)')
        /\ Cardinality(Allowed(c)) \in Nat /\ Cardinality(Allowed(c)') \in Nat
    BY AllowedFinite
  <1> DEFINE A == Allowed(c)
             B == Allowed(c)'
  <1> HIDE DEF A, B
  <1>3. /\ IsFiniteSet(A) /\ IsFiniteSet(B) /\ B \ {s} = A \ {s}
        /\ Cardinality(A) \in Nat /\ Cardinality(B) \in Nat
    BY <1>1, <1>2 DEF A, B
  <1>4. Cardinality(A \ {s}) = IF s \in A THEN Cardinality(A) - 1 ELSE Cardinality(A)
    BY <1>3, FS_RemoveElement
  <1>5. Cardinality(B \ {s}) = IF s \in B THEN Cardinality(B) - 1 ELSE Cardinality(B)
    BY <1>3, FS_RemoveElement
  <1> QED  BY <1>3, <1>4, <1>5 DEF A, B

\* What a request promises its client: nothing new without a token of a bucket.
LEMMA NextBoth == IInv /\ [Next]_vars => Both'
  <1> SUFFICES ASSUME IInv, [Next]_vars, NEW c \in Clients
               PROVE  Promised(c)' * Unit + Level'[c] + store'[c] <= Bound(c)'
    BY DEF Both, Bound, Rate, Full, Burst, Mine
  <1> DEFINE rest == Cardinality(Mine(c)) * Unit
             gain == Rate[c] * (clock - since)
  <1>0. /\ Base /\ TypeOK
        /\ Level[c] \in Nat /\ Level[c] <= Full(c) /\ Full(c) \in Nat /\ Rate[c] \in Nat
        /\ store[c] \in Nat /\ store[c] <= Full(c)
        /\ passed[c] \in Nat /\ losses \in Nat /\ Unit \in Nat /\ clock - since \in Nat
        /\ Cardinality(Allowed(c)) \in Nat /\ Cardinality(Mine(c)) \in Nat
        /\ Promised(c) \in Nat
    BY LevelType, Limits, RateLimitAssumption, AllowedFinite DEF IInv, Base, TypeOK, Promised
  <1>m. \A m, n \in Nat : /\ m * n \in Nat
                          /\ (m + 1) * n = m * n + n
                          /\ n * (m + 1) = n * m + n
    OBVIOUS
  <1>b. /\ rest \in Nat /\ gain \in Nat /\ losses * Full(c) \in Nat /\ Promised(c) * Unit \in Nat
        /\ (2 + losses) * Full(c) = 2 * Full(c) + losses * Full(c)
    BY <1>0, <1>m
  <1>i. Promised(c) * Unit + Level[c] + store[c] <= (2 + losses) * Full(c) + 2 * gain + rest
    BY DEF IInv, Both
  <1>s. /\ Full(c)' = Full(c) /\ Rate' = Rate /\ Mine(c)' = Mine(c)
        /\ Promised(c)' = passed'[c] + Cardinality(Allowed(c)')
    BY DEF Full, Burst, Rate, Mine, Promised
  <1>1. ASSUME UNCHANGED <<clock, since, losses>>,
               \/ Promised(c)' = Promised(c)
               \/ Promised(c)' = Promised(c) - 1 /\ Promised(c)' \in Nat,
               Level'[c] = Level[c], store'[c] = store[c]
        PROVE  Promised(c)' * Unit + Level'[c] + store'[c] <= Bound(c)'
    <2>1. Bound(c)' = (2 + losses) * Full(c) + 2 * gain + rest
      BY <1>1, <1>s DEF Bound
    <2>2. Promised(c)' * Unit \in Nat /\ Promised(c)' * Unit <= Promised(c) * Unit
      <3>1. CASE Promised(c)' = Promised(c)  BY <3>1, <1>b
      <3>2. CASE Promised(c)' = Promised(c) - 1 /\ Promised(c)' \in Nat
        <4>1. Promised(c) = Promised(c)' + 1  BY <1>0, <3>2
        <4>2. Promised(c) * Unit = Promised(c)' * Unit + Unit  BY <1>0, <1>m, <3>2, <4>1
        <4> QED  BY <1>0, <1>m, <3>2, <4>2
      <3> QED  BY <1>1, <3>1, <3>2
    <2> HIDE DEF rest, gain
    <2> QED  BY <1>0, <1>1, <1>b, <1>i, <2>1, <2>2
  <1>2. ASSUME UNCHANGED <<clock, since, losses>>,
               Promised(c)' = Promised(c) + 1,
               \/ Level'[c] = Level[c] - Unit /\ store'[c] = store[c]
               \/ Level'[c] = Level[c] /\ store'[c] = store[c] - Unit
        PROVE  Promised(c)' * Unit + Level'[c] + store'[c] <= Bound(c)'
    <2>1. Bound(c)' = (2 + losses) * Full(c) + 2 * gain + rest
      BY <1>2, <1>s DEF Bound
    <2>2. Promised(c)' * Unit = Promised(c) * Unit + Unit
      BY <1>0, <1>2, <1>m
    <2> HIDE DEF rest, gain
    <2> QED  BY <1>0, <1>2, <1>b, <1>i, <2>1, <2>2
  <1>3. ASSUME NEW s \in Slots, Handle(s)
        PROVE  Promised(c)' * Unit + Level'[c] + store'[c] <= Bound(c)'
    <2>0. /\ \A q \in Slots \ {s} : pc'[q] = pc[q] /\ got'[q] = got[q]
          /\ UNCHANGED <<clock, since, losses>>
      BY <1>3, <1>0
         DEF Handle, Arrive, AtRedis, RedisFails, Answered, Failed, Find, Decide, Verdict, Finish,
             window, TypeOK
    <2>1. CASE Arrive(s) \/ RedisFails(s) \/ Failed(s)
      <3>1. passed' = passed /\ store' = store
        BY <2>1 DEF Arrive, RedisFails, Failed, window
      <3>2. s \notin Allowed(c)'
        BY <2>1, <1>0 DEF Arrive, RedisFails, Failed, Allowed, TypeOK
      <3>3. \/ Promised(c)' = Promised(c)
            \/ Promised(c)' = Promised(c) - 1 /\ Promised(c)' \in Nat
        <4>1. Cardinality(Allowed(c)') \in Nat  BY AllowedFinite
        <4>2. \/ Cardinality(Allowed(c)') = Cardinality(Allowed(c)) - 1
              \/ Cardinality(Allowed(c)') = Cardinality(Allowed(c))
          BY <1>0, <2>0, <3>2, AllowedMoves
        <4>3. passed'[c] = passed[c] /\ Promised(c) = passed[c] + Cardinality(Allowed(c))
          BY <3>1 DEF Promised
        <4> QED  BY <1>0, <1>s, <4>1, <4>2, <4>3
      <3>4. Level' = Level  BY <2>1, LevelOthers
      <3> QED  BY <1>1, <2>0, <3>1, <3>3, <3>4
    <2>2. CASE AtRedis(s)
      <3>1. /\ passed' = passed /\ s \notin Allowed(c)
            /\ pc' = [pc EXCEPT ![s] = "answer"]
        BY <2>2 DEF AtRedis, window, Allowed
      <3>2. Level' = Level  BY <2>2, LevelOthers
      <3>3. CASE got' = [got EXCEPT ![s] = "denied"] /\ store' = store
        <4>1. s \notin Allowed(c)'  BY <1>0, <3>3 DEF Allowed, TypeOK
        <4>2. Promised(c)' = Promised(c)
          BY <1>0, <1>s, <2>0, <3>1, <4>1, AllowedMoves DEF Promised
        <4> QED  BY <1>1, <2>0, <3>2, <3>3, <4>2
      <3>4. CASE /\ got' = [got EXCEPT ![s] = "allowed"]
                 /\ store' = [store EXCEPT ![ClientOf[s]] = @ - Unit]
        <4>1. CASE c = ClientOf[s]
          <5>1. s \in Allowed(c)'  BY <1>0, <3>1, <3>4, <4>1 DEF Allowed, TypeOK
          <5>2. Promised(c)' = Promised(c) + 1
            BY <1>0, <1>s, <2>0, <3>1, <5>1, AllowedMoves DEF Promised
          <5>3. store'[c] = store[c] - Unit  BY <1>0, <3>4, <4>1 DEF TypeOK
          <5> QED  BY <1>2, <2>0, <3>2, <5>2, <5>3
        <4>2. CASE c # ClientOf[s]
          <5>1. s \notin Allowed(c)'  BY <4>2 DEF Allowed
          <5>2. Promised(c)' = Promised(c)
            BY <1>0, <1>s, <2>0, <3>1, <5>1, AllowedMoves DEF Promised
          <5>3. store'[c] = store[c]  BY <1>0, <3>4, <4>2 DEF TypeOK
          <5> QED  BY <1>1, <2>0, <3>2, <5>2, <5>3
        <4> QED  BY <4>1, <4>2
      <3> QED  BY <2>2, <3>3, <3>4 DEF AtRedis
    <2>3. CASE Answered(s)
      <3>1. /\ store' = store /\ s \notin Allowed(c)' /\ pc[s] = "answer"
            /\ passed' = IF got[s] = "allowed" THEN [passed EXCEPT ![ClientOf[s]] = @ + 1]
                                               ELSE passed
        BY <2>3, <1>0 DEF Answered, Finish, Allowed, TypeOK
      <3>2. Level' = Level  BY <2>3, LevelOthers
      <3>3. Promised(c)' = Promised(c)
        <4>1. CASE s \in Allowed(c)
          <5>1. passed'[c] = passed[c] + 1  BY <1>0, <3>1, <4>1 DEF Allowed, TypeOK
          <5>2. Cardinality(Allowed(c)') = Cardinality(Allowed(c)) - 1
            BY <1>0, <2>0, <3>1, <4>1, AllowedMoves
          <5> QED  BY <1>0, <1>s, <5>1, <5>2 DEF Promised
        <4>2. CASE s \notin Allowed(c)
          <5>1. passed'[c] = passed[c]  BY <1>0, <3>1, <4>2 DEF Allowed, TypeOK
          <5>2. Cardinality(Allowed(c)') = Cardinality(Allowed(c))
            BY <1>0, <2>0, <3>1, <4>2, AllowedMoves
          <5> QED  BY <1>s, <5>1, <5>2 DEF Promised
        <4> QED  BY <4>1, <4>2
      <3> QED  BY <1>1, <2>0, <3>1, <3>2, <3>3
    <2>4. CASE Find(s)
      <3>1. passed' = passed /\ store' = store /\ s \notin Allowed(c) /\ s \notin Allowed(c)'
        BY <2>4, <1>0 DEF Find, window, Allowed, TypeOK
      <3>2. Level' = Level  BY <2>4, <1>0, LevelFind
      <3>3. Promised(c)' = Promised(c)
        BY <1>0, <1>s, <2>0, <3>1, AllowedMoves DEF Promised
      <3> QED  BY <1>1, <2>0, <3>1, <3>2, <3>3
    <2>5. CASE Decide(s)
      <3> DEFINE d == ClientOf[s]
      <3>1. store' = store /\ s \notin Allowed(c) /\ s \notin Allowed(c)'
        BY <2>5, <1>0 DEF Decide, Verdict, Finish, Allowed, TypeOK
      <3>2. Cardinality(Allowed(c)') = Cardinality(Allowed(c))
        BY <1>0, <2>0, <3>1, AllowedMoves
      <3>3. CASE passed'[c] = passed[c] /\ Level'[c] = Level[c]
        <4>1. Promised(c)' = Promised(c)  BY <1>s, <3>2, <3>3 DEF Promised
        <4> QED  BY <1>1, <2>0, <3>1, <3>3, <4>1
      <3>4. CASE passed'[c] = passed[c] + 1 /\ Level'[c] = Level[c] - Unit
        <4>1. Promised(c)' = Promised(c) + 1  BY <1>0, <1>s, <3>2, <3>4 DEF Promised
        <4> QED  BY <1>2, <2>0, <3>1, <3>4, <4>1
      <3>5. \/ passed'[c] = passed[c] /\ Level'[c] = Level[c]
            \/ passed'[c] = passed[c] + 1 /\ Level'[c] = Level[c] - Unit
        <4>1. \/ Level' = Level /\ passed' = passed
              \/ /\ Level' = [Level EXCEPT ![d] = @ - Unit]
                 /\ passed' = [passed EXCEPT ![d] = @ + 1]
          BY <1>0, <2>5, LevelDecide
        <4>2. DOMAIN Level = Clients /\ DOMAIN passed = Clients  BY <1>0, LevelType DEF TypeOK
        <4> QED  BY <4>1, <4>2
      <3> QED  BY <3>3, <3>4, <3>5
    <2> QED  BY <1>3, <2>1, <2>2, <2>3, <2>4, <2>5 DEF Handle
  <1>4. CASE Tick
    <2>1. clock' - since' = (clock - since) + 1 /\ losses' = losses
      BY <1>0, <1>4 DEF Tick, window, TypeOK
    <2>2. Promised(c)' = Promised(c)
      BY <1>4 DEF Tick, window, handlerVars, Promised, Allowed
    <2>3. Level'[c] \in Nat /\ Level'[c] <= Level[c] + Rate[c]
      <3>1. Level'[c] = TB!Capped(Level[c] + Rate[c], c)  BY <1>0, <1>4, LevelTick
      <3> QED  BY <1>0, <3>1 DEF TB!Capped, Full
    <2>4. store'[c] \in Nat /\ store'[c] <= store[c] + Rate[c]
      BY <1>0, <1>4 DEF Tick, Capped
    <2>5. Rate[c] * (clock' - since') = gain + Rate[c]
      BY <1>0, <1>m, <2>1
    <2>6. Bound(c)' = (2 + losses) * Full(c) + 2 * (gain + Rate[c]) + rest
      BY <1>s, <2>1, <2>5 DEF Bound
    <2> HIDE DEF rest, gain
    <2> QED  BY <1>0, <1>b, <1>i, <2>2, <2>3, <2>4, <2>6
  <1>5. CASE Forget
    <2>1. Promised(c)' = Promised(c)
      BY <1>5 DEF Forget, handlerVars, Promised, Allowed
    <2>2. Level' = Level  BY <1>5, LevelOthers
    <2>3. store'[c] = Full(c) /\ losses' = losses + 1 /\ UNCHANGED <<clock, since>>
      BY <1>5 DEF Forget
    <2>4. (2 + losses') * Full(c) = (2 + losses) * Full(c) + Full(c)
      <3>1. 2 + losses' = (2 + losses) + 1 /\ 2 + losses \in Nat  BY <1>0, <2>3
      <3> QED  BY <1>0, <1>m, <3>1
    <2>5. Bound(c)' = (2 + losses) * Full(c) + Full(c) + 2 * gain + rest
      BY <1>s, <2>3, <2>4 DEF Bound
    <2> HIDE DEF rest, gain
    <2> QED  BY <1>0, <1>b, <1>i, <2>1, <2>2, <2>3, <2>5
  <1>6. CASE Observe
    <2>1. Level' = Level /\ store' = store
      BY <1>6 DEF Observe, localVars, Level, Refilled
    <2>2. /\ passed'[c] = 0 /\ losses' = 0 /\ clock' - since' = 0
          /\ Allowed(c)' = Allowed(c)
      BY <1>0, <1>6 DEF Observe, handlerVars, TypeOK, Allowed
    <2>3. Promised(c)' = Cardinality(Allowed(c)) /\ Cardinality(Allowed(c)) <= Cardinality(Mine(c))
      BY <1>0, <1>s, <2>2, AllowedFinite
    <2>4. Promised(c)' * Unit \in Nat /\ Promised(c)' * Unit <= rest
      <3>1. \A m, n, k \in Nat : m <= n => m * k <= n * k
        OBVIOUS
      <3> QED  BY <1>0, <1>m, <2>3, <3>1
    <2>5. Rate[c] * (clock' - since') = 0 /\ (2 + losses') * Full(c) = 2 * Full(c)
      BY <1>0, <2>2
    <2>6. Bound(c)' = 2 * Full(c) + 2 * 0 + rest
      BY <1>s, <2>5 DEF Bound
    <2> HIDE DEF rest, gain
    <2> QED  BY <1>0, <1>b, <2>1, <2>4, <2>6
  <1>7. CASE Reported \/ UNCHANGED vars
    <2>1. UNCHANGED <<clock, since, losses, store>>
      BY <1>7 DEF Reported, vars, window
    <2>2. Promised(c)' = Promised(c)
      BY <1>7 DEF Reported, vars, window, handlerVars, Promised, Allowed
    <2>3. Level' = Level  BY <1>7, LevelOthers
    <2> QED  BY <1>1, <2>1, <2>2, <2>3
  <1> QED  BY <1>3, <1>4, <1>5, <1>6, <1>7 DEF Next

\* The inductive invariant holds in every behaviour.
LEMMA Inductive == Spec => []IInv
  <1>1. Init => IInv  BY InitBase, InitReserve, InitBoth DEF IInv
  <1>2. IInv /\ [Next]_vars => IInv'  BY NextBase, NextReserve, NextBoth DEF IInv
  <1> QED  BY <1>1, <1>2, PTL DEF Spec

-----------------------------------------------------------------------------
\* Types; in particular no local bucket ever holds more than its burst.
THEOREM TypeCorrect == Spec => []TypeOK
  <1>1. IInv => TypeOK  BY DEF IInv, Base
  <1> QED  BY <1>1, Inductive, PTL

\* However Redis comes and goes, a client gets from the local limiter in any
\* window at most its burst and what its rate adds in that time.
THEOREM WindowKept == Spec => []WindowBound
  <1>1. IInv => WindowBound
    <2> SUFFICES ASSUME IInv, NEW c \in Clients
                 PROVE  granted[c] * Unit <= Full(c) + Rate[c] * (clock - since)
      BY DEF WindowBound
    <2>1. /\ granted[c] * Unit + Level[c] <= Full(c) + Rate[c] * (clock - since)
          /\ Level[c] \in Nat /\ granted[c] \in Nat /\ Unit \in Nat /\ Full(c) \in Nat
          /\ Rate[c] \in Nat /\ clock - since \in Nat
      BY LevelType, Limits, RateLimitAssumption DEF IInv, Base, Reserve, TypeOK
    <2>2. granted[c] * Unit \in Nat /\ Rate[c] * (clock - since) \in Nat  BY <2>1
    <2> QED  BY <2>1, <2>2
  <1> QED  BY <1>1, Inductive, PTL

\* However a client moves between Redis and the local limiter and however its calls
\* fail, it gets at most what both give together.
THEOREM TwiceKept == Spec => []TwiceTheLimit
  <1>1. IInv => TwiceTheLimit
    <2> SUFFICES ASSUME IInv, NEW c \in Clients
                 PROVE  passed[c] * Unit <= Bound(c)
      BY DEF TwiceTheLimit, Bound
    <2>1. /\ Promised(c) * Unit + Level[c] + store[c] <= Bound(c)
          /\ Level[c] \in Nat /\ store[c] \in Nat /\ Unit \in Nat
          /\ passed[c] \in Nat /\ Cardinality(Allowed(c)) \in Nat
      BY LevelType, RateLimitAssumption, AllowedFinite DEF IInv, Base, Both, Bound, TypeOK
    <2>2. /\ Promised(c) * Unit = passed[c] * Unit + Cardinality(Allowed(c)) * Unit
          /\ passed[c] * Unit \in Nat /\ Cardinality(Allowed(c)) * Unit \in Nat
      BY <2>1 DEF Promised
    <2>3. Bound(c) \in Nat
      <3>1. /\ 2 + losses \in Nat /\ Full(c) \in Nat /\ Rate[c] \in Nat /\ clock - since \in Nat
            /\ Cardinality(Mine(c)) \in Nat /\ Unit \in Nat
        BY Limits, AllowedFinite, RateLimitAssumption DEF IInv, Base, TypeOK
      <3>2. \A m, n \in Nat : m * n \in Nat  OBVIOUS
      <3>3. /\ (2 + losses) * Full(c) \in Nat /\ Rate[c] * (clock - since) \in Nat
            /\ Cardinality(Mine(c)) * Unit \in Nat
        BY <3>1, <3>2
      <3>4. 2 * (Rate[c] * (clock - since)) \in Nat  BY <3>2, <3>3
      <3> QED  BY <3>3, <3>4 DEF Bound
    <2> QED  BY <2>1, <2>2, <2>3
  <1> QED  BY <1>1, Inductive, PTL

\* The limiter's lazily refilled buckets are token buckets: a client is never
\* let through early and never turned away with a token in its bucket.
THEOREM LocalBuckets == Spec => LocalIsBucket
  <1>1. Init => TB!Init
    BY RateLimitAssumption DEF Init, TB!Init, Level, Full
  <1>2. IInv /\ [Next]_vars => [TB!Next]_(TB!bucketVars)
    <2> SUFFICES ASSUME IInv, [Next]_vars
                 PROVE  [TB!Next]_(TB!bucketVars)
      OBVIOUS
    <2>0. Base  BY DEF IInv
    <2>1. ASSUME NEW s \in Slots, Handle(s)
          PROVE  [TB!Next]_(TB!bucketVars)
      <3>1. CASE Find(s)
        <4>1. Level' = Level  BY <2>0, <3>1, LevelFind
        <4>2. said' = said  BY <3>1 DEF Find
        <4> QED  BY <4>1, <4>2 DEF TB!bucketVars
      <3>2. CASE Decide(s)
        <4>1. ClientOf[s] \in Clients  BY RateLimitAssumption
        <4>2. TB!Allow(ClientOf[s]) \/ TB!Deny(ClientOf[s])
          BY <2>0, <3>2, LevelDecide DEF TB!Allow, TB!Deny
        <4> QED  BY <4>1, <4>2 DEF TB!Next
      <3>3. CASE Arrive(s) \/ AtRedis(s) \/ RedisFails(s) \/ Answered(s) \/ Failed(s)
        BY <3>3, LevelOthers DEF TB!bucketVars
      <3> QED  BY <2>1, <3>1, <3>2, <3>3 DEF Handle
    <2>2. CASE Tick
      <3>1. TB!Tick  BY <2>0, <2>2, LevelTick DEF TB!Tick, Tick, localVars
      <3> QED  BY <3>1 DEF TB!Next
    <2>3. CASE Observe
      BY <2>3 DEF Observe, localVars, Level, Refilled, TB!bucketVars
    <2>4. CASE Forget \/ Reported \/ UNCHANGED vars
      BY <2>4, LevelOthers DEF TB!bucketVars
    <2> QED  BY <2>1, <2>2, <2>3, <2>4 DEF Next
  <1> QED  BY <1>1, <1>2, Inductive, PTL DEF Spec, LocalIsBucket, TB!Spec
=============================================================================
