------------------------ MODULE ResponseCacheProofs ------------------------
(***************************************************************************)
(* Theorems about ResponseCache, for any number of requests and keys and   *)
(* however often Redis goes down.  What holds of the Coalescer holds of    *)
(* the one in here, by the lemmas of CoalescerProofs.                      *)
(***************************************************************************)
EXTENDS ResponseCache, TLAPS

CP == INSTANCE CoalescerProofs WITH Results <- Responses

\* The coalescer in here is one that CoalescerProofs is about.
LEMMA CoalescerApplies ==
    /\ KeyOf \in [Requests -> Keys]
    /\ None \notin Requests \cup Responses
    /\ Cancelled \notin Responses
    /\ Cancelled # None
    /\ MayPanic \in BOOLEAN
BY ValuesAssumption

LEMMA CoalescerInit == C!Init => CP!IInv
<1>1. CP!Init => CP!IInv
  BY CoalescerApplies, CP!InitIInv
<1>2. C!Init => CP!Init
  BY DEF C!Init, CP!Init
<1> QED
  BY <1>1, <1>2

LEMMA CoalescerStep ==
    ASSUME CP!IInv, [C!Next]_coalescerVars
    PROVE  CP!IInv'
<1>1. CP!IInv /\ [CP!Next]_(CP!coalescerVars) => CP!IInv'
  BY CoalescerApplies, CP!NextIInv
<1>2. CASE C!Next
  <2>1. CP!Next
    BY <1>2 DEF C!Next, CP!Next, C!Step, CP!Step, C!Lead, CP!Lead, C!Follow, CP!Follow,
         C!Publish, CP!Publish, C!Return, CP!Return, C!Select, CP!Select, C!Receive,
         CP!Receive, C!GiveUp, CP!GiveUp, C!Leave, CP!Leave, C!Panic, CP!Panic
  <2> QED
    BY <1>1, <2>1
<1>3. CASE UNCHANGED coalescerVars
  <2>1. UNCHANGED CP!coalescerVars
    BY <1>3 DEF CP!coalescerVars, coalescerVars
  <2> QED
    BY <1>1, <2>1
<1> QED
  BY <1>2, <1>3

-----------------------------------------------------------------------------
\* Every step of the composition is one of the coalescer, or leaves it alone.
LEMMA StepCoalescer ==
    ASSUME [Next]_vars
    PROVE  [C!Next]_coalescerVars
<1>1. ASSUME NEW r \in Requests, Coalesce(r)
      PROVE  C!Next
  <2>1. \A kind \in Kinds : [by |-> r, kind |-> kind] \in Responses
    BY DEF Responses
  <2> QED
    BY <1>1, <2>1 DEF Coalesce, C!Next, C!Step
<1>2. ASSUME NEW r \in Requests, Deliver(r)
      PROVE  C!Next
  BY <1>2 DEF Deliver, C!Next, C!Step, C!Select
<1>3. ASSUME NEW r \in Requests, PanicIn(r) \/ Leave(r)
      PROVE  C!Next
  BY <1>3 DEF PanicIn, Leave, C!Next
<1>4. ASSUME NEW r \in Requests,
             \/ \E kind \in Kinds : PassThrough(r, kind) \/ ExecuteDirect(r, kind)
             \/ CheckRedis(r) \/ Get(r) \/ Hit(r) \/ Miss(r) \/ GetFailed(r)
             \/ Audit(r) \/ Set(r) \/ SetReport(r)
      PROVE  UNCHANGED coalescerVars
  BY <1>4 DEF PassThrough, ExecuteDirect, CheckRedis, Get, Hit, Miss, GetFailed,
              Audit, Set, SetReport
<1>5. CASE Monitor \/ OthersFail \/ RedisDown \/ RedisUp \/ \E k \in Keys : Expire(k)
  BY <1>5 DEF Monitor, Ping, Mark, OthersFail, RedisDown, RedisUp, Expire
<1>6. CASE UNCHANGED vars
  BY <1>6 DEF vars
<1> QED
  BY <1>1, <1>2, <1>3, <1>4, <1>5, <1>6 DEF Next, Handler

-----------------------------------------------------------------------------
(* Where a request is, and what it cannot have yet.                        *)
Placed ==
    \A r \in Requests :
        /\ pc[r] # "done" => audit[r] = "none" /\ store[r] = "none" /\ reply[r] = None
        /\ pc[r] # "done" => direct[r] = None
        /\ pc[r] \in {"get", "got", "execute"} => ~Bypass(r)
        /\ pc[r] = "got" => got[r] # None
        /\ at[r] # "new" => conf.coalesce /\ pc[r] \in {"execute", "done"}
        /\ direct[r] # None => at[r] = "new" /\ direct[r].by = r
        /\ resp[r] # None => at[r] # "new" /\ resp[r].by = r

\* v may be replayed: the upstream gave it, it was storable, and whoever caused
\* it was billed for it or is about to be, if that was possible.
Replayable(v) ==
    /\ v \in Responses
    /\ Executed(v.by) = v
    /\ Storable(v)
    /\ v.kind = "ok" => audit[v.by] \in {"todo", "billed"}

\* Who pays and who stores has executed.
Accounts ==
    \A r \in Requests :
        /\ audit[r] \in {"todo", "billed", "unparsed"} => Executed(r) # None
        /\ store[r] # "none" => Executed(r) # None /\ Replayable(Executed(r))

\* What is in Redis, and what came from it.
Replays ==
    /\ \A k \in Keys : redis[k] # None => Replayable(redis[k])
    /\ \A r \in Requests :
          /\ got[r] \in Responses => Replayable(got[r])
          /\ reply[r] # None =>
                /\ Executed(reply[r].resp.by) = reply[r].resp
                /\ reply[r].how = "HIT" =>
                      Replayable(reply[r].resp) /\ reply[r].resp.kind # "empty"

IInv ==
    /\ CP!IInv
    /\ TypeOK
    /\ Placed
    /\ Accounts
    /\ Replays

-----------------------------------------------------------------------------
\* A start with an empty Redis meets the inductive invariant.
LEMMA InitIInv == Init => IInv
<1> SUFFICES ASSUME Init PROVE IInv
  OBVIOUS
<1>1. CP!IInv
  BY CoalescerInit DEF Init
<1>2. TypeOK
  BY <1>1, ResponseCacheAssumption DEF Init, TypeOK, CP!IInv, CP!TypeOK, C!TypeOK
<1>3. Placed
  BY DEF Init, Placed, C!Init
<1>4. Accounts /\ Replays
  BY ValuesAssumption DEF Init, Accounts, Replays
<1> QED
  BY <1>1, <1>2, <1>3, <1>4 DEF IInv

\* A response of a request that the coalescer has run or that it bypassed.
LEMMA ResponseTyped ==
    ASSUME NEW r \in Requests, NEW kind \in Kinds
    PROVE  /\ [by |-> r, kind |-> kind] \in Responses
           /\ [by |-> r, kind |-> kind] # None
BY ValuesAssumption DEF Responses

\* What an audit can come to.
LEMMA AuditsOutcomes ==
    ASSUME NEW v
    PROVE  /\ Audits(v) \subseteq {"billed", "zero", "unparsed"}
           /\ v.kind = "ok" => Audits(v) = {"billed"}
BY DEF Audits

\* What the coalescer hands to the handler that it returns to.
LEMMA Returned ==
    ASSUME IInv, NEW r \in Requests, pc[r] = "execute", C!Return(r) \/ C!Receive(r)
    PROVE  /\ UNCHANGED <<calls, follows, resp, gone>>
           /\ ret'[r] \in Responses
           /\ ret'[r].by \in Requests
           /\ Executed(ret'[r].by) = ret'[r]
           /\ C!Return(r) => ret'[r].by = r /\ Executed(r) = ret'[r]
<1> USE DEF IInv, TypeOK, C!TypeOK, Placed, Executed
<1>1. CASE C!Return(r)
  <2>1. resp[r] # None /\ ret'[r] = resp[r]
    BY <1>1 DEF C!Return, CP!IInv, CP!PublishersFilled
  <2>2. ret'[r] \in Responses /\ ret'[r].by = r /\ direct[r] = None
    BY <2>1
  <2> QED
    BY <1>1, <2>1, <2>2 DEF C!Return
<1>2. CASE C!Receive(r)
  <2>1. /\ at[r] = "waiting" /\ follows[r] \in Requests
        /\ resp[follows[r]] # None /\ ret'[r] = resp[follows[r]]
    BY <1>2 DEF C!Receive, CP!IInv, CP!NoLostWakeup
  <2>2. ret'[r] \in Responses /\ ret'[r].by = follows[r] /\ direct[follows[r]] = None
    BY <2>1
  <2> QED
    BY <1>2, <2>1, <2>2 DEF C!Receive, C!Return
<1> QED
  BY <1>1, <1>2

\* Every step keeps the types.
LEMMA StepType ==
    ASSUME IInv, Next
    PROVE  TypeOK'
<1>0. CP!IInv' /\ C!TypeOK'
  <2>1. CP!IInv'
    BY StepCoalescer, CoalescerStep DEF IInv
  <2> QED
    BY <2>1 DEF CP!IInv, CP!TypeOK, C!TypeOK
<1> USE <1>0 DEF IInv, TypeOK, redisVars
<1>1. ASSUME NEW r \in Requests, NEW kind \in Kinds, PassThrough(r, kind)
      PROVE  TypeOK'
  BY <1>1, ResponseTyped DEF PassThrough
<1>2. ASSUME NEW r \in Requests, NEW kind \in Kinds, ExecuteDirect(r, kind)
      PROVE  TypeOK'
  BY <1>2, ResponseTyped DEF ExecuteDirect, Continue
<1>3. ASSUME NEW r \in Requests, CheckRedis(r) \/ Miss(r) \/ GetFailed(r)
      PROVE  TypeOK'
  BY <1>3 DEF CheckRedis, Miss, GetFailed
<1>4. ASSUME NEW r \in Requests, Get(r)
      PROVE  TypeOK'
  BY <1>4, ValuesAssumption DEF Get
<1>5. ASSUME NEW r \in Requests, Hit(r)
      PROVE  TypeOK'
  <2>1. got[r] \in Responses
    BY <1>5 DEF Hit, IsHit, Placed
  <2> QED
    BY <1>5, <2>1 DEF Hit
<1>6. ASSUME NEW r \in Requests, Coalesce(r) \/ PanicIn(r) \/ Leave(r)
      PROVE  TypeOK'
  BY <1>6 DEF Coalesce, PanicIn, Leave, handlerVars
<1>7. ASSUME NEW r \in Requests, Deliver(r)
      PROVE  TypeOK'
  <2>1. CASE C!GiveUp(r) /\ UNCHANGED <<readable, reply, audit, store>>
    BY <1>7, <2>1 DEF Deliver
  <2>2. CASE \/ C!Return(r) /\ Continue(r, ret'[r], "MISS")
             \/ C!Receive(r) /\ Continue(r, ret'[r], "SHARED")
    <3>1. ret'[r] \in Responses
      BY <1>7, <2>2, Returned DEF Deliver
    <3>2. \E how \in {"MISS", "SHARED"} : Continue(r, ret'[r], how)
      BY <2>2
    <3>3. /\ readable' \in [Requests -> BOOLEAN]
          /\ audit' \in [Requests -> {"none", "todo", "billed", "zero", "unparsed"}]
          /\ store' \in [Requests -> {"none", "todo", "stored", "failed", "done"}]
      BY <3>2 DEF Continue
    <3>4. reply' \in [Requests ->
                        [resp : Responses, how : {"HIT", "MISS", "SHARED", "BYPASS"}] \cup {None}]
      BY <3>1, <3>2 DEF Continue
    <3> QED
      BY <1>7, <3>3, <3>4 DEF Deliver
  <2> QED
    BY <1>7, <2>1, <2>2 DEF Deliver
<1>8. ASSUME NEW r \in Requests, Audit(r)
      PROVE  TypeOK'
  BY <1>8, AuditsOutcomes DEF Audit
<1>9. ASSUME NEW r \in Requests, Set(r)
      PROVE  TypeOK'
  <2>1. redis' \in [Keys -> Responses \cup {None}]
    BY <1>9, ValuesAssumption DEF Set, Executed, C!TypeOK
  <2>2. store' \in [Requests -> {"none", "todo", "stored", "failed", "done"}]
    BY <1>9 DEF Set
  <2> QED
    BY <1>9, <2>1, <2>2 DEF Set
<1>10. ASSUME NEW r \in Requests, SetReport(r)
       PROVE  TypeOK'
  <2>1. redisHealthy' \in BOOLEAN
    BY <1>10, Zenon DEF SetReport
  <2> QED
    BY <1>10, <2>1 DEF SetReport
<1>11. CASE Monitor \/ OthersFail \/ RedisDown \/ RedisUp
  <2>1. CASE Mark
    <3>1. redisHealthy' \in BOOLEAN
      BY <2>1, Zenon DEF Mark
    <3> QED
      BY <2>1, <3>1 DEF Mark, handlerVars
  <2>2. CASE RedisDown
    <3>1. outages \in 0 .. MaxOutages /\ MaxOutages \in Nat
      BY ResponseCacheAssumption
    <3>2. outages' \in 0 .. MaxOutages
      BY <2>2, <3>1 DEF RedisDown
    <3> QED
      BY <2>2, <3>2 DEF RedisDown, handlerVars
  <2>3. CASE RedisUp
    BY <2>3 DEF RedisUp, handlerVars
  <2>4. CASE Ping
    BY <2>4 DEF Ping, handlerVars
  <2>5. CASE OthersFail
    BY <2>5 DEF OthersFail, handlerVars
  <2> QED
    BY <1>11, <2>1, <2>2, <2>3, <2>4, <2>5 DEF Monitor
<1>12. CASE \E k \in Keys : Expire(k)
  BY <1>12 DEF Expire, handlerVars
<1> QED
  BY <1>1, <1>2, <1>3, <1>4, <1>5, <1>6, <1>7, <1>8, <1>9, <1>10, <1>11, <1>12
     DEF Next, Handler

\* Every step keeps what a request has to where it is.
LEMMA StepPlaced ==
    ASSUME IInv, Next
    PROVE  Placed'
<1>0. CP!IInv'
  BY StepCoalescer, CoalescerStep DEF IInv
<1> USE DEF IInv, TypeOK, C!TypeOK, Placed, Bypass, redisVars
<1>1. ASSUME NEW r \in Requests, NEW kind \in Kinds, PassThrough(r, kind)
      PROVE  Placed'
  BY <1>1, ResponseTyped DEF PassThrough, coalescerVars
<1>2. ASSUME NEW r \in Requests, NEW kind \in Kinds, ExecuteDirect(r, kind)
      PROVE  Placed'
  BY <1>2, ResponseTyped DEF ExecuteDirect, Continue, coalescerVars
<1>3. ASSUME NEW r \in Requests, CheckRedis(r) \/ Hit(r) \/ Miss(r) \/ GetFailed(r)
      PROVE  Placed'
  BY <1>3 DEF CheckRedis, Hit, Miss, GetFailed, coalescerVars
<1>4. ASSUME NEW r \in Requests, Get(r)
      PROVE  Placed'
  BY <1>4, ValuesAssumption DEF Get, coalescerVars
<1>5. ASSUME NEW r \in Requests, Coalesce(r)
      PROVE  Placed'
  BY <1>5, ResponseTyped
     DEF Coalesce, C!Lead, C!Follow, C!Publish, handlerVars, CP!IInv, CP!LeadersEntered
<1>6. ASSUME NEW r \in Requests, PanicIn(r) \/ Leave(r)
      PROVE  Placed'
  BY <1>6 DEF PanicIn, Leave, C!Panic, C!Leave, handlerVars
<1>7. ASSUME NEW r \in Requests, Deliver(r)
      PROVE  Placed'
  BY <1>7 DEF Deliver, Continue, C!Return, C!Receive, C!GiveUp
<1>8. ASSUME NEW r \in Requests, Audit(r) \/ Set(r) \/ SetReport(r)
      PROVE  Placed'
  BY <1>8 DEF Audit, Set, SetReport, coalescerVars
<1>9. CASE Monitor \/ OthersFail \/ RedisDown \/ RedisUp \/ \E k \in Keys : Expire(k)
  BY <1>9 DEF Monitor, Ping, Mark, OthersFail, RedisDown, RedisUp, Expire, coalescerVars, handlerVars
<1> QED
  BY <1>1, <1>2, <1>3, <1>4, <1>5, <1>6, <1>7, <1>8, <1>9 DEF Next, Handler

\* The values of Executed and Replayable after a step, of an argument from before it.
ExecutedNext(r) == IF direct'[r] # None THEN direct'[r] ELSE resp'[r]

ReplayableNext(v) ==
    /\ v \in Responses
    /\ ExecutedNext(v.by) = v
    /\ Storable(v)
    /\ v.kind = "ok" => audit'[v.by] \in {"todo", "billed"}

\* What the upstream gave a request stays what it gave.
LEMMA ExecutedKept ==
    ASSUME IInv, Next, NEW q \in Requests, Executed(q) # None
    PROVE  ExecutedNext(q) = Executed(q)
<1> USE DEF IInv, TypeOK, C!TypeOK, Placed, Executed, ExecutedNext
<1>1. ASSUME NEW r \in Requests, NEW kind \in Kinds, PassThrough(r, kind) \/ ExecuteDirect(r, kind)
      PROVE  ExecutedNext(q) = Executed(q)
  <2>1. direct[r] = None /\ resp[r] = None
    BY <1>1 DEF PassThrough, ExecuteDirect, Bypass
  <2> QED
    BY <1>1, <2>1 DEF PassThrough, ExecuteDirect, coalescerVars
<1>2. ASSUME NEW r \in Requests, Coalesce(r)
      PROVE  ExecutedNext(q) = Executed(q)
  BY <1>2 DEF Coalesce, C!Lead, C!Follow, C!Publish, handlerVars, CP!IInv, CP!LeadersEntered
<1>3. ASSUME NEW r \in Requests,
             CheckRedis(r) \/ Get(r) \/ Hit(r) \/ Miss(r) \/ GetFailed(r) \/ Deliver(r)
             \/ PanicIn(r) \/ Leave(r) \/ Audit(r) \/ Set(r) \/ SetReport(r)
      PROVE  ExecutedNext(q) = Executed(q)
  BY <1>3 DEF CheckRedis, Get, Hit, Miss, GetFailed, Deliver, PanicIn, Leave, Audit, Set,
              SetReport, C!Return, C!Receive, C!GiveUp, C!Panic, C!Leave,
              coalescerVars, handlerVars
<1>4. CASE Monitor \/ OthersFail \/ RedisDown \/ RedisUp \/ \E k \in Keys : Expire(k)
  BY <1>4 DEF Monitor, Ping, Mark, OthersFail, RedisDown, RedisUp, Expire, coalescerVars, handlerVars
<1> QED
  BY <1>1, <1>2, <1>3, <1>4 DEF Next, Handler

\* Who was billed for a whole response, or is about to be, stays so.
LEMMA BillKept ==
    ASSUME IInv, Next, NEW q \in Requests, Executed(q) # None, Executed(q).kind = "ok",
           audit[q] \in {"todo", "billed"}
    PROVE  audit'[q] \in {"todo", "billed"}
<1> USE DEF IInv, TypeOK, Placed
<1>1. ASSUME NEW r \in Requests, Audit(r)
      PROVE  audit'[q] \in {"todo", "billed"}
  BY <1>1, AuditsOutcomes DEF Audit
<1>2. ASSUME NEW r \in Requests, pc[r] # "done"
      PROVE  r # q
  BY <1>2
<1>3. ASSUME NEW r \in Requests, Deliver(r) \/ Hit(r)
                 \/ \E kind \in Kinds : PassThrough(r, kind) \/ ExecuteDirect(r, kind)
      PROVE  audit'[q] = audit[q]
  <2>1. r # q
    BY <1>2, <1>3 DEF Deliver, Hit, PassThrough, ExecuteDirect
  <2>2. CASE Deliver(r)
    BY <2>1, <2>2 DEF Deliver, Continue
  <2>3. ASSUME NEW kind \in Kinds, PassThrough(r, kind)
        PROVE  audit'[q] = audit[q]
    BY <2>1, <2>3 DEF PassThrough
  <2>4. ASSUME NEW kind \in Kinds, ExecuteDirect(r, kind)
        PROVE  audit'[q] = audit[q]
    BY <2>1, <2>4 DEF ExecuteDirect, Continue
  <2> QED
    BY <1>3, <2>1, <2>2, <2>3, <2>4 DEF Hit
<1>4. ASSUME NEW r \in Requests,
             CheckRedis(r) \/ Get(r) \/ Miss(r) \/ GetFailed(r) \/ Coalesce(r)
             \/ PanicIn(r) \/ Leave(r) \/ Set(r) \/ SetReport(r)
      PROVE  audit' = audit
  BY <1>4 DEF CheckRedis, Get, Miss, GetFailed, Coalesce, PanicIn, Leave, Set, SetReport,
              handlerVars
<1>5. CASE Monitor \/ OthersFail \/ RedisDown \/ RedisUp \/ \E k \in Keys : Expire(k)
  BY <1>5 DEF Monitor, Ping, Mark, OthersFail, RedisDown, RedisUp, Expire, handlerVars
<1> QED
  BY <1>1, <1>3, <1>4, <1>5 DEF Next, Handler

\* So what may be replayed may be replayed from then on.
LEMMA ReplayableKept ==
    ASSUME IInv, Next, NEW v, Replayable(v)
    PROVE  ReplayableNext(v)
<1>1. v.by \in Requests /\ v # None
  BY ValuesAssumption DEF Replayable, ReplayableNext, Responses
<1>2. Executed(v.by) # None /\ ExecutedNext(v.by) = Executed(v.by)
  BY <1>1, ExecutedKept DEF Replayable, ReplayableNext
<1>3. v.kind = "ok" => audit'[v.by] \in {"todo", "billed"}
  BY <1>1, <1>2, BillKept DEF Replayable, ReplayableNext
<1> QED
  BY <1>2, <1>3 DEF Replayable, ReplayableNext

\* A response that the upstream just gave to r alone, and what else that changes.
LEMMA DirectlyExecuted ==
    ASSUME IInv, NEW r \in Requests, NEW kind \in Kinds,
           PassThrough(r, kind) \/ ExecuteDirect(r, kind)
    PROVE  /\ ExecutedNext(r) = [by |-> r, kind |-> kind]
           /\ ExecutedNext(r) \in Responses
           /\ ExecutedNext(r) # None
           /\ \A q \in Requests \ {r} : audit'[q] = audit[q] /\ store'[q] = store[q]
<1> USE DEF IInv, TypeOK, Executed, ExecutedNext
<1>1. CASE PassThrough(r, kind)
  BY <1>1, ResponseTyped DEF PassThrough
<1>2. CASE ExecuteDirect(r, kind)
  BY <1>2, ResponseTyped DEF ExecuteDirect, Continue
<1> QED
  BY <1>1, <1>2

\* Every step keeps payers and storers executors, and what they store replayable.
LEMMA StepAccounts ==
    ASSUME IInv, Next
    PROVE  Accounts'
<1> DEFINE Fine(q) == /\ audit'[q] \in {"todo", "billed", "unparsed"} => ExecutedNext(q) # None
                      /\ store'[q] # "none" => ExecutedNext(q) # None /\ ReplayableNext(ExecutedNext(q))
<1>1. ASSUME NEW q \in Requests, store[q] # "none"
      PROVE  ExecutedNext(q) # None /\ ReplayableNext(ExecutedNext(q))
  <2>1. Executed(q) # None /\ ExecutedNext(q) = Executed(q) /\ Replayable(Executed(q))
    BY <1>1, ExecutedKept DEF IInv, Accounts
  <2> QED
    BY <2>1, ReplayableKept DEF Replayable, ReplayableNext
<1>2. ASSUME NEW q \in Requests, audit[q] \in {"todo", "billed", "unparsed"}
      PROVE  ExecutedNext(q) # None
  BY <1>2, ExecutedKept DEF IInv, Accounts
<1>3. ASSUME NEW q \in Requests, audit'[q] = audit[q], store'[q] = store[q]
      PROVE  Fine(q)
  BY <1>1, <1>2, <1>3
<1>4. ASSUME NEW r \in Requests, NEW kind \in Kinds, PassThrough(r, kind)
      PROVE  \A q \in Requests : Fine(q)
  <2>1. store'[r] = "none"
    BY <1>4 DEF PassThrough, IInv, Placed
  <2>2. Fine(r)
    BY <1>4, <2>1, DirectlyExecuted
  <2> QED
    BY <1>3, <1>4, <2>2, DirectlyExecuted
<1>5. ASSUME NEW r \in Requests, NEW kind \in Kinds, ExecuteDirect(r, kind)
      PROVE  \A q \in Requests : Fine(q)
  <2>1. audit'[r] = "todo"
    BY <1>5 DEF ExecuteDirect, Continue, IInv, TypeOK
  <2>2. store'[r] # "none" => Storable([by |-> r, kind |-> kind])
    BY <1>5, DirectlyExecuted DEF ExecuteDirect, Continue, IInv, TypeOK, Storable
  <2>3. Fine(r)
    BY <1>5, <2>1, <2>2, DirectlyExecuted DEF Replayable, ReplayableNext, Storable
  <2> QED
    BY <1>3, <1>5, <2>3, DirectlyExecuted
<1>6. ASSUME NEW r \in Requests, Deliver(r)
      PROVE  \A q \in Requests : Fine(q)
  <2>1. \A q \in Requests \ {r} : audit'[q] = audit[q] /\ store'[q] = store[q]
    BY <1>6 DEF Deliver, Continue, IInv, TypeOK
  <2>2. CASE C!GiveUp(r) /\ UNCHANGED <<readable, reply, audit, store>>
    BY <1>3, <2>2
  <2>3. CASE C!Receive(r) /\ Continue(r, ret'[r], "SHARED")
    <3>1. audit'[r] = "zero" /\ store'[r] = "none"
      BY <2>3 DEF Continue, IInv, TypeOK
    <3> QED
      BY <1>3, <2>1, <3>1
  <2>4. CASE C!Return(r) /\ Continue(r, ret'[r], "MISS")
    <3>1. Executed(r) = ret'[r] /\ Executed(r) \in Responses /\ Executed(r).by = r
      BY <1>6, <2>4, Returned DEF Deliver
    <3>2. ExecutedNext(r) = Executed(r) /\ Executed(r) # None
      BY <3>1, ExecutedKept, ValuesAssumption
    <3>3. audit'[r] = "todo"
      BY <2>4 DEF Continue, IInv, TypeOK
    <3>4. store'[r] # "none" => Storable(Executed(r))
      BY <2>4, <3>1 DEF Continue, IInv, TypeOK, Storable
    <3>5. store'[r] # "none" => ReplayableNext(ExecutedNext(r))
      BY <3>1, <3>2, <3>3, <3>4 DEF Replayable, ReplayableNext, Storable
    <3> QED
      BY <1>3, <2>1, <3>2, <3>5
  <2> QED
    BY <1>6, <2>2, <2>3, <2>4 DEF Deliver
<1>7. ASSUME NEW r \in Requests, Hit(r)
      PROVE  \A q \in Requests : Fine(q)
  <2>1. audit'[r] = "zero" /\ store' = store
    BY <1>7 DEF Hit, IInv, TypeOK
  <2>2. \A q \in Requests \ {r} : audit'[q] = audit[q]
    BY <1>7 DEF Hit, IInv, TypeOK
  <2> QED
    BY <1>1, <1>3, <2>1, <2>2
<1>8. ASSUME NEW r \in Requests, Audit(r)
      PROVE  \A q \in Requests : Fine(q)
  <2>1. audit[r] = "todo" /\ store' = store
    BY <1>8 DEF Audit
  <2>2. \A q \in Requests \ {r} : audit'[q] = audit[q]
    BY <1>8 DEF Audit, IInv, TypeOK
  <2> QED
    BY <1>1, <1>2, <1>3, <2>1, <2>2
<1>9. ASSUME NEW r \in Requests, Set(r) \/ SetReport(r)
      PROVE  \A q \in Requests : Fine(q)
  <2>1. store[r] # "none" /\ audit' = audit
    BY <1>9 DEF Set, SetReport
  <2>2. \A q \in Requests \ {r} : store'[q] = store[q]
    BY <1>9 DEF Set, SetReport, IInv, TypeOK
  <2> QED
    BY <1>1, <1>2, <1>3, <2>1, <2>2
<1>10. ASSUME NEW r \in Requests,
              CheckRedis(r) \/ Get(r) \/ Miss(r) \/ GetFailed(r) \/ Coalesce(r)
              \/ PanicIn(r) \/ Leave(r)
       PROVE  \A q \in Requests : Fine(q)
  BY <1>3, <1>10 DEF CheckRedis, Get, Miss, GetFailed, Coalesce, PanicIn, Leave, handlerVars
<1>11. ASSUME Monitor \/ OthersFail \/ RedisDown \/ RedisUp \/ \E k \in Keys : Expire(k)
       PROVE  \A q \in Requests : Fine(q)
  BY <1>3, <1>11 DEF Monitor, Ping, Mark, OthersFail, RedisDown, RedisUp, Expire, handlerVars
<1>12. \A q \in Requests : Fine(q)
  <2> HIDE DEF Fine
  <2> QED
    BY <1>4, <1>5, <1>6, <1>7, <1>8, <1>9, <1>10, <1>11 DEF Next, Handler
<1> QED
  BY <1>12 DEF Accounts, Replayable, ReplayableNext, Executed, ExecutedNext

\* Every step keeps Redis, and what was read from it, replayable.
LEMMA StepStored ==
    ASSUME IInv, Next
    PROVE  /\ \A k \in Keys : redis'[k] # None => ReplayableNext(redis'[k])
           /\ \A r \in Requests : got'[r] \in Responses => ReplayableNext(got'[r])
<1> DEFINE Fine(v) == v \in Responses => ReplayableNext(v)
<1>1. \A k \in Keys : Fine(redis[k])
  BY ReplayableKept, ValuesAssumption DEF IInv, Replays
<1>2. \A r \in Requests : Fine(got[r])
  BY ReplayableKept DEF IInv, Replays
<1>3. Fine(None) /\ Fine(NotFound) /\ Fine(Failed)
  BY ValuesAssumption
<1>4. \A r \in Requests : store[r] # "none" => Fine(Executed(r))
  BY ReplayableKept DEF IInv, Accounts
<1>5. TypeOK'
  BY StepType
<1> HIDE DEF Fine
<1>6. \A k \in Keys : Fine(redis'[k])
  <2>1. ASSUME NEW r \in Requests, Set(r)
        PROVE  \A k \in Keys : Fine(redis'[k])
    BY <1>1, <1>4, <2>1 DEF Set, IInv, TypeOK
  <2>2. ASSUME NEW k \in Keys, Expire(k)
        PROVE  \A j \in Keys : Fine(redis'[j])
    BY <1>1, <1>3, <2>2 DEF Expire, IInv, TypeOK
  <2>3. ASSUME NEW r \in Requests,
               \/ \E kind \in Kinds : PassThrough(r, kind) \/ ExecuteDirect(r, kind)
               \/ CheckRedis(r) \/ Get(r) \/ Hit(r) \/ Miss(r) \/ GetFailed(r) \/ Coalesce(r)
               \/ Deliver(r) \/ Audit(r) \/ SetReport(r) \/ PanicIn(r) \/ Leave(r)
        PROVE  redis' = redis
    BY <2>3 DEF PassThrough, ExecuteDirect, CheckRedis, Get, Hit, Miss, GetFailed, Coalesce,
                Deliver, Audit, SetReport, PanicIn, Leave, redisVars
  <2>4. ASSUME Monitor \/ OthersFail \/ RedisDown \/ RedisUp
        PROVE  redis' = redis
    BY <2>4 DEF Monitor, Ping, Mark, OthersFail, RedisDown, RedisUp
  <2> QED
    BY <1>1, <2>1, <2>2, <2>3, <2>4 DEF Next, Handler
<1>7. \A r \in Requests : Fine(got'[r])
  <2>1. ASSUME NEW r \in Requests, Get(r)
        PROVE  \A q \in Requests : Fine(got'[q])
    <3>1. KeyOf[r] \in Keys
      BY ValuesAssumption
    <3>2. Fine(got'[r])
      BY <1>1, <1>3, <2>1, <3>1 DEF Get, IInv, TypeOK
    <3> QED
      BY <1>2, <2>1, <3>2 DEF Get, IInv, TypeOK
  <2>2. ASSUME NEW r \in Requests, Hit(r) \/ Miss(r) \/ GetFailed(r)
        PROVE  \A q \in Requests : Fine(got'[q])
    BY <1>2, <1>3, <2>2 DEF Hit, Miss, GetFailed, IInv, TypeOK
  <2>3. ASSUME NEW r \in Requests,
               \/ \E kind \in Kinds : PassThrough(r, kind) \/ ExecuteDirect(r, kind)
               \/ CheckRedis(r) \/ Coalesce(r) \/ Deliver(r) \/ Audit(r) \/ Set(r)
               \/ SetReport(r) \/ PanicIn(r) \/ Leave(r)
        PROVE  got' = got
    BY <2>3 DEF PassThrough, ExecuteDirect, CheckRedis, Coalesce, Deliver, Audit, Set,
                SetReport, PanicIn, Leave, handlerVars
  <2>4. ASSUME Monitor \/ OthersFail \/ RedisDown \/ RedisUp \/ \E k \in Keys : Expire(k)
        PROVE  got' = got
    BY <2>4 DEF Monitor, Ping, Mark, OthersFail, RedisDown, RedisUp, Expire, handlerVars
  <2> QED
    BY <1>2, <2>1, <2>2, <2>3, <2>4 DEF Next, Handler
<1> USE DEF Fine
<1>8. \A k \in Keys : redis'[k] # None => ReplayableNext(redis'[k])
  BY <1>5, <1>6 DEF TypeOK
<1> QED
  BY <1>7, <1>8

\* Every step sends a client only what was executed, and replays only the replayable.
LEMMA StepReplied ==
    ASSUME IInv, Next, NEW q \in Requests, reply'[q] # None
    PROVE  /\ ExecutedNext(reply'[q].resp.by) = reply'[q].resp
           /\ reply'[q].how = "HIT" =>
                 ReplayableNext(reply'[q].resp) /\ reply'[q].resp.kind # "empty"
<1> DEFINE Fine(a) == /\ ExecutedNext(a.resp.by) = a.resp
                      /\ a.how = "HIT" => ReplayableNext(a.resp) /\ a.resp.kind # "empty"
<1>1. reply[q] # None => Fine(reply[q])
  <2>1. SUFFICES ASSUME reply[q] # None PROVE Fine(reply[q])
    OBVIOUS
  <2>2. reply[q].resp \in Responses /\ Executed(reply[q].resp.by) = reply[q].resp
    BY <2>1 DEF IInv, TypeOK, Replays
  <2>3. reply[q].resp.by \in Requests /\ reply[q].resp # None
    BY <2>2, ValuesAssumption DEF Responses
  <2>4. ExecutedNext(reply[q].resp.by) = reply[q].resp
    BY <2>2, <2>3, ExecutedKept
  <2> QED
    BY <2>1, <2>4, ReplayableKept DEF IInv, Replays
<1>2. ASSUME reply'[q] = reply[q]
      PROVE  Fine(reply'[q])
  BY <1>1, <1>2
<1>3. ASSUME NEW r \in Requests, NEW kind \in Kinds, PassThrough(r, kind) \/ ExecuteDirect(r, kind)
      PROVE  Fine(reply'[q])
  <2>1. CASE q = r
    <3>1. /\ reply'[r].resp = [by |-> r, kind |-> kind]
          /\ reply'[r].how # "HIT"
      BY <1>3 DEF PassThrough, ExecuteDirect, Continue, IInv, TypeOK
    <3> QED
      BY <1>3, <2>1, <3>1, DirectlyExecuted
  <2>2. CASE q # r
    BY <1>2, <1>3, <2>2 DEF PassThrough, ExecuteDirect, Continue, IInv, TypeOK
  <2> QED
    BY <2>1, <2>2
<1>4. ASSUME NEW r \in Requests, Deliver(r)
      PROVE  Fine(reply'[q])
  <2>1. CASE reply'[q] = reply[q]
    BY <1>2, <2>1
  <2>2. CASE reply'[q] # reply[q]
    <3>1. \E how \in {"MISS", "SHARED"} : Continue(r, ret'[r], how)
      BY <1>4, <2>2 DEF Deliver
    <3>2. C!Return(r) \/ C!Receive(r)
      BY <1>4, <2>2 DEF Deliver
    <3>3. q = r /\ reply'[r].resp = ret'[r] /\ reply'[r].how # "HIT"
      BY <2>2, <3>1 DEF Continue, IInv, TypeOK
    <3>4. ret'[r] # None /\ ret'[r].by \in Requests /\ Executed(ret'[r].by) = ret'[r]
      BY <1>4, <3>2, Returned, ValuesAssumption DEF Deliver
    <3>5. ExecutedNext(ret'[r].by) = ret'[r]
      <4> DEFINE v == ret'[r]
      <4>1. v # None /\ v.by \in Requests /\ Executed(v.by) = v
        BY <3>4
      <4>2. ExecutedNext(v.by) = v
        BY <4>1, ExecutedKept
      <4> QED
        BY <4>2
    <3> QED
      BY <3>3, <3>5
  <2> QED
    BY <2>1, <2>2
<1>5. ASSUME NEW r \in Requests, Hit(r)
      PROVE  Fine(reply'[q])
  <2>1. got[r] \in Responses /\ got[r].kind # "empty"
    BY <1>5 DEF Hit, IsHit, IInv, TypeOK, Placed
  <2>2. Replayable(got[r]) /\ ReplayableNext(got[r])
    BY <2>1, ReplayableKept DEF IInv, Replays
  <2>3. CASE q = r
    <3>1. reply'[r] = [resp |-> got[r], how |-> "HIT"]
      BY <1>5 DEF Hit, IInv, TypeOK
    <3> QED
      BY <2>1, <2>2, <2>3, <3>1 DEF Replayable, ReplayableNext
  <2>4. CASE q # r
    BY <1>2, <1>5, <2>4 DEF Hit, IInv, TypeOK
  <2> QED
    BY <2>3, <2>4
<1>6. ASSUME NEW r \in Requests,
             CheckRedis(r) \/ Get(r) \/ Miss(r) \/ GetFailed(r) \/ Coalesce(r) \/ Audit(r)
             \/ Set(r) \/ SetReport(r) \/ PanicIn(r) \/ Leave(r)
      PROVE  reply' = reply
  BY <1>6 DEF CheckRedis, Get, Miss, GetFailed, Coalesce, Audit, Set, SetReport, PanicIn,
              Leave, handlerVars
<1>7. ASSUME Monitor \/ OthersFail \/ RedisDown \/ RedisUp \/ \E k \in Keys : Expire(k)
      PROVE  reply' = reply
  BY <1>7 DEF Monitor, Ping, Mark, OthersFail, RedisDown, RedisUp, Expire, handlerVars
<1> HIDE DEF Fine
<1>8. Fine(reply'[q])
  BY <1>2, <1>3, <1>4, <1>5, <1>6, <1>7 DEF Next, Handler
<1> QED
  BY <1>8 DEF Fine

\* Every step, or none, keeps the inductive invariant.
LEMMA NextIInv == IInv /\ [Next]_vars => IInv'
<1> SUFFICES ASSUME IInv, [Next]_vars PROVE IInv'
  OBVIOUS
<1>1. CP!IInv'
  BY StepCoalescer, CoalescerStep DEF IInv
<1>2. CASE Next
  <2>1. Replays'
    <3>1. ASSUME NEW k \in Keys, redis'[k] # None
          PROVE  Replayable(redis[k])'
      BY <1>2, <3>1, StepStored DEF Replayable, ReplayableNext, Executed, ExecutedNext
    <3>2. ASSUME NEW r \in Requests, got'[r] \in Responses
          PROVE  Replayable(got[r])'
      BY <1>2, <3>2, StepStored DEF Replayable, ReplayableNext, Executed, ExecutedNext
    <3>3. ASSUME NEW r \in Requests, reply'[r] # None
          PROVE  /\ Executed(reply[r].resp.by)' = reply'[r].resp
                 /\ reply'[r].how = "HIT" =>
                       Replayable(reply[r].resp)' /\ reply'[r].resp.kind # "empty"
      BY <1>2, <3>3, StepReplied DEF Replayable, ReplayableNext, Executed, ExecutedNext
    <3> QED
      BY <3>1, <3>2, <3>3 DEF Replays
  <2> QED
    BY <1>1, <1>2, <2>1, StepType, StepPlaced, StepAccounts DEF IInv
<1>3. CASE UNCHANGED vars
  BY <1>1, <1>3 DEF vars, coalescerVars, redisVars, handlerVars, IInv, TypeOK, C!TypeOK, Placed,
                    Bypass, Accounts, Replays, Replayable, Executed
<1> QED
  BY <1>2, <1>3

\* The inductive invariant holds in every behaviour.
LEMMA Inductive == Spec => []IInv
BY InitIInv, NextIInv, PTL DEF Spec

-----------------------------------------------------------------------------
\* Types, those of the coalescer inside included.
THEOREM TypeCorrect == Spec => []TypeOK
<1>1. IInv => TypeOK
  BY DEF IInv
<1> QED
  BY <1>1, Inductive, PTL

\* Every answer was given by the upstream to some execution, and no error and
\* nothing over max_payload_bytes comes from the cache.
THEOREM AnswersSound == Spec => []RepliesSound
<1>1. IInv => RepliesSound
  BY DEF IInv, Replays, Replayable, ReplayableNext, Storable, RepliesSound
<1> QED
  BY <1>1, Inductive, PTL

\* One request pays for an execution, the one that caused it, and nothing that
\* could be billed is replayed before it is.
THEOREM PayersExecuted == Spec => []ExecutorPays
<1>1. ASSUME IInv, NEW r \in Requests, Executed(r) # None
      PROVE  Executed(r).by = r
  BY <1>1 DEF IInv, Placed, Executed
<1>2. ASSUME IInv, NEW r \in Requests, reply[r] # None, reply[r].how = "HIT"
      PROVE  audit[reply[r].resp.by] \in {"todo", "billed"} \/ reply[r].resp.kind = "mute"
  BY <1>2 DEF IInv, Replays, Replayable, ReplayableNext, Storable
<1>3. IInv => ExecutorPays
  BY <1>1, <1>2 DEF IInv, Accounts, ExecutorPays
<1> QED
  BY <1>3, Inductive, PTL
=============================================================================
