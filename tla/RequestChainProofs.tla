------------------------- MODULE RequestChainProofs -------------------------
(***************************************************************************)
(* What holds of RequestChain for any number of requests and keys.         *)
(*                                                                         *)
(* The inductive invariant IInv says, of each request: Placed, which layer *)
(* can have answered it, given where it is; Recorded, what has been logged *)
(* and counted of it by then; Identified, whose identifiers its response   *)
(* bears.  Executions ties the coalescer to the executors: who executes has*)
(* its key to itself, and what is owed to anybody bears the right          *)
(* identifiers.  Sums has each counter as the number of the requests that  *)
(* are past it.                                                            *)
(*                                                                         *)
(* A step moves one request (Others, OthersExecute), so the first three are*)
(* shown for that one only (StepPlaced, StepRecorded, StepIdentified).  For*)
(* the counters Moves reduces the actions to six kinds of move, and OneMore*)
(* counts sets that differ in one request.                                 *)
(***************************************************************************)
EXTENDS RequestChain, FiniteSetTheorems, TLAPS

\* The places of the layers.
LEMMA Places ==
    /\ DOMAIN Chain = 1 .. 9
    /\ Len(Chain) = 9
    /\ Chain[1] = "RequestMeta" /\ Chain[2] = "AccessLog" /\ Chain[3] = "Auth"
    /\ Chain[4] = "RateLimit" /\ Chain[5] = "Body" /\ Chain[6] = "ModelRouter"
    /\ Chain[7] = "Metrics" /\ Chain[8] = "Cache" /\ Chain[9] = "Proxy"
BY DEF Chain

LEMMA Positions ==
    /\ Position("RequestMeta") = 1 /\ Position("AccessLog") = 2 /\ Position("Auth") = 3
    /\ Position("RateLimit") = 4 /\ Position("Body") = 5 /\ Position("ModelRouter") = 6
    /\ Position("Metrics") = 7 /\ Position("Cache") = 8 /\ Position("Proxy") = 9
<1>1. \A i \in 1 .. 9 : i \in {1, 2, 3, 4, 5, 6, 7, 8, 9}
  OBVIOUS
<1>2. ASSUME NEW i \in 1 .. 9, NEW j \in 1 .. 9, Chain[i] = Chain[j]
      PROVE  i = j
  BY <1>1, <1>2, Places
<1>3. \A i \in 1 .. 9 : Position(Chain[i]) = i
  BY <1>2, Places DEF Position
<1> QED
  BY <1>3, Places

\* A layer is where its place says.
LEMMA PlaceOf ==
    ASSUME NEW i \in 1 .. 9
    PROVE  /\ Chain[i] = "RequestMeta" <=> i = 1
           /\ Chain[i] = "AccessLog" <=> i = 2
           /\ Chain[i] = "Auth" <=> i = 3
           /\ Chain[i] = "RateLimit" <=> i = 4
           /\ Chain[i] = "Body" <=> i = 5
           /\ Chain[i] = "ModelRouter" <=> i = 6
           /\ Chain[i] = "Metrics" <=> i = 7
           /\ Chain[i] = "Cache" <=> i = 8
           /\ Chain[i] = "Proxy" <=> i = 9
<1>1. i \in {1, 2, 3, 4, 5, 6, 7, 8, 9}
  OBVIOUS
<1> QED
  BY <1>1, Places

LEMMA Contexts ==
    /\ "meta" \in Sees("AccessLog")
    /\ "auth" \in Sees("RateLimit")
    /\ "body" \in Sees("ModelRouter")
    /\ "body" \in Sees("Cache")
    /\ {"gateway", "body"} \subseteq Sees("Proxy")
    /\ "gateway" \in Sees("Metrics")
<1>1. \A l \in {"RequestMeta", "Auth", "Body", "ModelRouter"} : l \in DOMAIN Attaches
  BY DEF Attaches
<1>2. /\ Attaches["RequestMeta"] = "meta" /\ Attaches["Auth"] = "auth"
      /\ Attaches["Body"] = "body" /\ Attaches["ModelRouter"] = "gateway"
  BY DEF Attaches
<1> QED
  BY <1>1, <1>2, Positions DEF Sees

-----------------------------------------------------------------------------
(* The inductive invariant.                                                *)

Refusers == {"Auth", "RateLimit", "Body", "ModelRouter"}

Refused(r) == reply[r] # None /\ reply[r].by \in Refusers

\* Counted as accepted; refused by the limiter; on the gauge; through the metrics.
Accepted(r) == ~(pc[r] \in {"down", "panicked"} /\ pos[r] <= 3)
               /\ ~(reply[r] # None /\ reply[r].by = "Auth")
Limited(r) == reply[r] # None /\ reply[r].by = "RateLimit"
Within(r) == \/ pc[r] = "down" /\ pos[r] > 7
             \/ pc[r] = "wait"
             \/ pc[r] = "up" /\ pos[r] >= 7
Through(r) == pc[r] \in {"up", "done"} /\ pos[r] < 7 /\ ~Refused(r)

\* An answer comes from further down, and is never that a context is missing.
Answerable(r) ==
    reply[r] # None =>
        /\ reply[r].by = "Auth" => pos[r] < 3
        /\ reply[r].by = "RateLimit" => pos[r] < 4
        /\ reply[r].by = "Body" => pos[r] < 5
        /\ reply[r].by = "ModelRouter" => pos[r] < 6
        /\ reply[r].code # "500"

\* Where a request is, what it can have got so far, and what is known of it.
Placed(r) ==
    /\ pc[r] \in {"down", "panicked"} => reply[r] = None
    /\ pc[r] \in {"down", "panicked"} /\ pos[r] <= 8 => how[r] = None
    /\ pc[r] = "down" /\ pos[r] = 9 => how[r] \in {"through", "captured", "lead"}
    /\ pc[r] = "wait" => pos[r] = 8 /\ how[r] \in {"lead", "follow"}
    /\ pc[r] = "up" => pos[r] <= 8
    /\ pc[r] = "up" /\ pos[r] = 8 =>
          /\ how[r] \in {"through", "captured", "lead"}
          /\ reply[r] \in [by : {"Proxy"}, code : {"200", "503"},
                           ids : SUBSET (Requests \cup {Upstream})]
    /\ pc[r] = "done" => pos[r] = 1
    /\ Answerable(r)

Recorded(r) ==
    /\ scope[r] # "ip"
    /\ logged[r] # <<>> =>
          /\ pc[r] = "done" \/ (pc[r] = "up" /\ pos[r] = 1)
          /\ \E e : logged[r] = <<e>> /\ e.id
    /\ counted[r] # <<>> <=> Through(r)
    /\ counted[r] # <<>> => \E e : counted[r] = <<e>> /\ e.route

\* The identifiers that an answer given to the request by can have.
Bears(ids, by) ==
    \/ ids = {}
    \/ ids = {Upstream} /\ echo = "own"
    \/ ids = {by} /\ echo = "same"

Named(r) ==
    \/ header[r] = {r}
    \/ how[r] = "through" /\ r \in header[r]
    \/ how[r] \in {"captured", "lead", "follow"} /\ header[r] = {Upstream} /\ echo = "own"
    \/ how[r] = "follow" /\ echo = "same"

Identified(r) ==
    /\ pc[r] \in {"down", "wait"} /\ pos[r] >= 2 => header[r] = {r}
    /\ pc[r] = "up" /\ pos[r] = 8 =>
          /\ Bears(reply[r].ids, r)
          /\ how[r] # "through" => header[r] = {r}
    /\ pc[r] \in {"up", "done"} => Named(r)

\* The executor of a key is the one whose execution is running.
Executing(r) ==
    /\ how[r] = "lead"
    /\ pc[r] # "wait" /\ pos[r] >= 8

Owed(r) ==
    /\ Executing(r) => KeyOf[r] \in running /\ r \in asked /\ due[r] = None
    /\ how[r] = None => r \notin asked
    /\ r \in asked /\ how[r] = "lead" /\ ~Executing(r) => due[r] # None /\ due[r].by = r
    /\ due[r] # None => r \in asked /\ Bears(due[r].ids, due[r].by)

Executions ==
    /\ due \in [Requests -> Answers \cup {None}]
    /\ \A r \in Requests : Owed(r)
    /\ \A r, q \in Requests :
          Executing(r) /\ Executing(q) /\ KeyOf[r] = KeyOf[q] => r = q

Sums ==
    /\ accepted = Cardinality({r \in Requests : Accepted(r)})
    /\ rejected = Cardinality({r \in Requests : Limited(r)})
    /\ inFlight = Cardinality({r \in Requests : Within(r)})

Typed ==
    /\ echo \in {"no", "own", "same"}
    /\ pos \in [Requests -> 1 .. 9]
    /\ pc \in [Requests -> {"down", "wait", "up", "done", "panicked"}]
    /\ how \in [Requests -> {None, "hit", "through", "captured", "lead", "follow"}]
    /\ header \in [Requests -> SUBSET (Requests \cup {Upstream})]
    /\ reply \in [Requests -> Replies \cup {None}]
    /\ scope \in [Requests -> {None, "token", "ip"}]
    /\ DOMAIN logged = Requests /\ logged = [r \in Requests |-> logged[r]]
    /\ DOMAIN counted = Requests /\ counted = [r \in Requests |-> counted[r]]

IInv ==
    /\ Typed
    /\ \A r \in Requests : Placed(r) /\ Recorded(r) /\ Identified(r)
    /\ Executions
    /\ Sums

-----------------------------------------------------------------------------
\* A request at a layer is at its place.
LEMMA Here ==
    ASSUME Typed, NEW r \in Requests
    PROVE  /\ pos[r] \in 1 .. 9
           /\ At(r, "RequestMeta") => pos[r] = 1
           /\ At(r, "AccessLog") => pos[r] = 2
           /\ At(r, "Auth") => pos[r] = 3
           /\ At(r, "RateLimit") => pos[r] = 4
           /\ At(r, "Body") => pos[r] = 5
           /\ At(r, "ModelRouter") => pos[r] = 6
           /\ At(r, "Metrics") => pos[r] = 7
           /\ At(r, "Cache") => pos[r] = 8
           /\ At(r, "Proxy") => pos[r] = 9
           /\ Back(r) => pos[r] = 8
           /\ \A layer : At(r, layer) => pc[r] = "down"
<1>1. pos[r] \in 1 .. 9
  BY DEF Typed
<1> QED
  BY <1>1, PlaceOf DEF At, Back

\* What a layer may answer.
LEMMA Answered ==
    ASSUME Typed, NEW r \in Requests,
           NEW code \in Codes
    PROVE  [by |-> Chain[pos[r]], code |-> code] \in Replies
<1>1. pos[r] \in DOMAIN Chain
  BY Places DEF Typed
<1> QED
  BY <1>1 DEF Replies

\* The upstream does not change its ways.
LEMMA OnlyTheWay ==
    ASSUME NEW r \in Requests, Handle(r) \/ Abandon(r) \/ Panic(r)
    PROVE  echo' = echo
BY Zenon DEF Handle, RequestMeta, AccessLog, Auth, RateLimit, Body, ModelRouter, Metrics, Cache,
             Proxy, Finish, Write, Return, Up, Abandon, Panic

\* A step of a request is its own.
LEMMA Others ==
    ASSUME Typed, NEW r \in Requests, Handle(r) \/ Abandon(r) \/ Panic(r),
           NEW q \in Requests \ {r}
    PROVE  /\ echo' = echo
           /\ pos'[q] = pos[q] /\ pc'[q] = pc[q] /\ how'[q] = how[q]
           /\ header'[q] = header[q] /\ reply'[q] = reply[q] /\ scope'[q] = scope[q]
           /\ logged'[q] = logged[q] /\ counted'[q] = counted[q]
<1> USE DEF Typed, CallNext, Refuse, recordVars, requestVars
<1>1. CASE RequestMeta(r) \/ AccessLog(r)
  BY <1>1 DEF RequestMeta, AccessLog
<1>2. CASE Auth(r)
  BY <1>2 DEF Auth
<1>3. CASE RateLimit(r)
  BY <1>3 DEF RateLimit
<1>4. CASE Body(r) \/ ModelRouter(r)
  BY <1>4 DEF Body, ModelRouter
<1>5. CASE Metrics(r)
  BY <1>5 DEF Metrics
<1>6. CASE Cache(r)
  BY <1>6 DEF Cache
<1>7. CASE Proxy(r)
  BY <1>7 DEF Proxy
<1>8. CASE Finish(r) \/ Write(r) \/ Abandon(r)
  BY <1>8 DEF Finish, Write, Abandon
<1>9. CASE Return(r)
  BY <1>9 DEF Return
<1>10. CASE Up(r)
  BY <1>10 DEF Up
<1>11. CASE Panic(r)
  BY <1>11 DEF Panic
<1> QED
  BY <1>1, <1>2, <1>3, <1>4, <1>5, <1>6, <1>7, <1>8, <1>9, <1>10, <1>11 DEF Handle

\* Every step keeps the types.
LEMMA StepTyped ==
    ASSUME Typed, Executions, NEW r \in Requests, Placed(r),
           Handle(r) \/ Abandon(r) \/ Panic(r)
    PROVE  Typed'
<1>0. pos[r] \in 1 .. 9
  BY Here
<1> USE DEF Typed, CallNext, recordVars, requestVars
<1>1. ASSUME pos[r] < 9
      PROVE  pos[r] + 1 \in 1 .. 9
  BY <1>1
<1>2. ASSUME pos[r] > 1
      PROVE  pos[r] - 1 \in 1 .. 9
  BY <1>2
<1> DEFINE Moved == /\ pos' \in [Requests -> 1 .. 9]
                    /\ pc' \in [Requests -> {"down", "wait", "up", "done", "panicked"}]
                    /\ reply' \in [Requests -> Replies \cup {None}]
<1>3. ASSUME NEW code \in Codes, Refuse(r, code), pos[r] > 1
      PROVE  Moved
  BY <1>2, <1>3, Answered DEF Refuse
<1>18. ASSUME CallNext(r), pos[r] < 9
      PROVE  Moved
  BY <1>1, <1>18
<1> HIDE DEF Moved
<1>4. CASE RequestMeta(r) \/ AccessLog(r)
  BY <1>1, <1>4, Here DEF RequestMeta, AccessLog
<1>5. CASE Auth(r)
  <2>0. pos[r] = 3
    BY <1>5, Here DEF Auth
  <2>1. pos[r] = 3 /\ pos[r] > 1 /\ pos[r] < 9
    BY <2>0
  <2>2. Refuse(r, "401") \/ Refuse(r, "403") \/ CallNext(r)
    BY <1>5 DEF Auth
  <2>3. Moved
    BY <1>3, <1>18, <2>1, <2>2, Zenon DEF Codes
  <2> QED
    BY <1>5, <2>3 DEF Auth, Moved
<1>6. CASE RateLimit(r)
  <2>0. pos[r] = 4
    BY <1>6, Here DEF RateLimit
  <2>1. pos[r] = 4 /\ pos[r] > 1 /\ pos[r] < 9
    BY <2>0
  <2>2. Refuse(r, "429") \/ CallNext(r)
    BY <1>6 DEF RateLimit
  <2>3. Moved
    BY <1>3, <1>18, <2>1, <2>2, Zenon DEF Codes
  <2>4. scope' \in [Requests -> {None, "token", "ip"}]
    BY <1>6 DEF RateLimit
  <2> QED
    BY <1>6, <2>3, <2>4 DEF RateLimit, Moved
<1>7. CASE Body(r)
  <2>0. pos[r] = 5
    BY <1>7, Here DEF Body
  <2>1. pos[r] = 5 /\ pos[r] > 1 /\ pos[r] < 9
    BY <2>0
  <2>2. Refuse(r, "400") \/ Refuse(r, "413") \/ CallNext(r)
    BY <1>7 DEF Body
  <2>3. Moved
    BY <1>3, <1>18, <2>1, <2>2, Zenon DEF Codes
  <2> QED
    BY <1>7, <2>3 DEF Body, Moved
<1>8. CASE ModelRouter(r)
  <2>0. pos[r] = 6
    BY <1>8, Here DEF ModelRouter
  <2>1. pos[r] = 6 /\ pos[r] > 1 /\ pos[r] < 9
    BY <2>0
  <2>2. Refuse(r, "400") \/ Refuse(r, "404") \/ CallNext(r)
    BY <1>8, Contexts DEF ModelRouter
  <2>3. Moved
    BY <1>3, <1>18, <2>1, <2>2, Zenon DEF Codes
  <2> QED
    BY <1>8, <2>3 DEF ModelRouter, Moved
<1>9. CASE Metrics(r)
  <2>1. pos[r] = 7
    BY <1>9, Here DEF Metrics
  <2> QED
    BY <1>1, <1>9, <2>1 DEF Metrics
<1>10. CASE Cache(r)
  <2>0. pos[r] = 8
    BY <1>10, Here DEF Cache
  <2>1. pos[r] = 8 /\ pos[r] > 1 /\ pos[r] < 9
    BY <2>0
  <2>2. /\ echo' = echo /\ header' = header /\ scope' = scope
        /\ logged' = logged /\ counted' = counted
    BY <1>10 DEF Cache
  <2>3. how' \in [Requests -> {None, "hit", "through", "captured", "lead", "follow"}]
    BY <1>10 DEF Cache
  <2>4. Moved
    <3>1. \/ Refuse(r, "200")
          \/ CallNext(r)
          \/ pc' = [pc EXCEPT ![r] = "wait"] /\ UNCHANGED <<pos, reply>>
      BY <1>10, Contexts DEF Cache
    <3>2. CASE pc' = [pc EXCEPT ![r] = "wait"] /\ UNCHANGED <<pos, reply>>
      BY <3>2 DEF Moved
    <3> QED
      BY <1>3, <1>18, <2>1, <3>1, <3>2, Zenon DEF Codes
  <2> QED
    BY <2>2, <2>3, <2>4 DEF Moved
<1>11. CASE Proxy(r)
  <2>1. pos[r] = 9
    BY <1>11, Here DEF Proxy
  <2>2. PICK code \in {"200", "503"} :
           /\ reply' = [reply EXCEPT ![r] =
                          [by |-> "Proxy", code |-> code, ids |-> AnswerIds(r, code)]]
           /\ header' = IF how[r] = "through"
                        THEN [header EXCEPT ![r] = @ \cup AnswerIds(r, code)]
                        ELSE header
    BY <1>11, Contexts DEF Proxy
  <2>3. AnswerIds(r, code) \in SUBSET (Requests \cup {Upstream})
    BY DEF AnswerIds
  <2>4. [by |-> "Proxy", code |-> code, ids |-> AnswerIds(r, code)] \in Replies
    BY <2>3 DEF Replies, Codes
  <2>5. reply' \in [Requests -> Replies \cup {None}]
    BY <2>2, <2>4
  <2>6. header' \in [Requests -> SUBSET (Requests \cup {Upstream})]
    BY <2>2, <2>3
  <2>7. pos' \in [Requests -> 1 .. 9]
    <3>1. pos' = [pos EXCEPT ![r] = @ - 1]
      BY <1>11, Zenon DEF Proxy
    <3> QED
      BY <1>2, <2>1, <3>1
  <2> QED
    BY <1>11, <2>5, <2>6, <2>7 DEF Proxy
<1>12. CASE Finish(r)
  BY <1>12 DEF Finish
<1>13. CASE Write(r)
  <2>1. due[r] \in Answers /\ due[r].code \in {"200", "503"}
        /\ due[r].ids \in SUBSET (Requests \cup {Upstream})
    BY <1>13 DEF Write, F!Answer, Executions, Answers
  <2>2. pos[r] = 8
    BY <1>13 DEF Write, Placed
  <2>3. [by |-> "Cache", code |-> due[r].code] \in Replies
    <3>1. due[r].code \in Codes
      BY <2>1 DEF Codes
    <3>2. Chain[pos[r]] = "Cache"
      BY <2>2, Places
    <3> QED
      BY <3>1, <3>2, Answered, Zenon
  <2>4. Copied(r, due[r].ids) \in SUBSET (Requests \cup {Upstream})
    BY <2>1 DEF Copied
  <2> QED
    BY <1>2, <1>13, <2>2, <2>3, <2>4 DEF Write
<1>14. CASE Abandon(r)
  <2>0. pos[r] = 8
    BY <1>14 DEF Abandon, Placed
  <2>1. pos[r] = 8 /\ pos[r] > 1 /\ pos[r] < 9
    BY <2>0
  <2> QED
    BY <1>2, <1>14, <2>1 DEF Abandon
<1>15. CASE Return(r)
  <2>1. pos[r] = 8 /\ pc[r] = "up"
    BY <1>15, Here DEF Return, Back
  <2>2. /\ reply[r].code \in {"200", "503"}
        /\ reply[r].ids \in SUBSET (Requests \cup {Upstream})
    BY <2>1 DEF Placed
  <2>3. [by |-> "Cache", code |-> reply[r].code] \in Replies
    <3>1. reply[r].code \in Codes
      BY <2>2 DEF Codes
    <3>2. Chain[pos[r]] = "Cache"
      BY <2>1, Places
    <3> QED
      BY <3>1, <3>2, Answered, Zenon
  <2>4. Copied(r, reply[r].ids) \in SUBSET (Requests \cup {Upstream})
    BY <2>2 DEF Copied
  <2> QED
    BY <1>2, <1>15, <2>1, <2>3, <2>4 DEF Return
<1>16. CASE Up(r)
  <2>1. (IF pos[r] = 1 THEN 1 ELSE pos[r] - 1) \in 1 .. 9
    BY <1>2, Here
  <2> QED
    BY <1>16, <2>1 DEF Up
<1>17. CASE Panic(r)
  BY <1>17 DEF Panic
<1> QED
  BY <1>4, <1>5, <1>6, <1>7, <1>8, <1>9, <1>10, <1>11, <1>12, <1>13, <1>14, <1>15, <1>16, <1>17
     DEF Handle

\* A request that is past the cache layer on its way up is placed if its answer is.
LEMMA PlacedUp ==
    ASSUME NEW r \in Requests, pc'[r] \in {"up", "done"}, pos'[r] \in 1 .. 7,
           pc'[r] = "done" => pos'[r] = 1,
           Answerable(r)'
    PROVE  Placed(r)'
<1>1. ~(pc'[r] = "up" /\ pos'[r] = 8) /\ (pc'[r] = "up" => pos'[r] <= 8)
  OBVIOUS
<1>2. ~(pc'[r] \in {"down", "panicked"}) /\ pc'[r] # "down" /\ pc'[r] # "wait"
  OBVIOUS
<1> QED
  BY <1>1, <1>2, Zenon DEF Placed

\* A layer that refuses, or goes on, leaves the request placed.
LEMMA RefusePlaced ==
    ASSUME Typed, NEW r \in Requests, pos[r] \in 3 .. 8, NEW c \in Codes,
           c # "500", Refuse(r, c)
    PROVE  /\ Placed(r)'
           /\ pc'[r] = "up" /\ pos'[r] = pos[r] - 1
           /\ reply'[r] # None /\ reply'[r].by = Chain[pos[r]]
           /\ reply'[r].code = c
<1>1. pos'[r] = pos[r] - 1 /\ pc'[r] = "up"
  BY DEF Refuse, Typed
<1>2. reply'[r] = [by |-> Chain[pos[r]], code |-> c]
  BY DEF Refuse, Typed
<1>5. reply'[r] # None /\ reply'[r].by = Chain[pos[r]] /\ reply'[r].code = c
  <2>1. [by |-> Chain[pos[r]], code |-> c] \in Replies
    BY Answered
  <2>2. [by |-> Chain[pos[r]], code |-> c] # None
    BY <2>1, ChainAssumption
  <2> QED
    BY <1>2, <2>2
<1>3. pos[r] \in 1 .. 9
  BY DEF Typed
<1>4. /\ Chain[pos[r]] = "Auth" <=> pos[r] = 3
      /\ Chain[pos[r]] = "RateLimit" <=> pos[r] = 4
      /\ Chain[pos[r]] = "Body" <=> pos[r] = 5
      /\ Chain[pos[r]] = "ModelRouter" <=> pos[r] = 6
  BY <1>3, PlaceOf
<1>6. Placed(r)'
  <2>1. pos'[r] \in 1 .. 7 /\ pc'[r] \in {"up", "done"} /\ pc'[r] # "done"
    BY <1>1
  <2>2. /\ reply'[r].by = "Auth" => pos'[r] < 3
        /\ reply'[r].by = "RateLimit" => pos'[r] < 4
        /\ reply'[r].by = "Body" => pos'[r] < 5
        /\ reply'[r].by = "ModelRouter" => pos'[r] < 6
    BY <1>1, <1>4, <1>5
  <2> QED
    BY <1>5, <2>1, <2>2, PlacedUp DEF Answerable
<1> QED
  BY <1>1, <1>5, <1>6, Zenon

LEMMA CallPlaced ==
    ASSUME Typed, NEW r \in Requests, Placed(r), pc[r] = "down", pos[r] \in 1 .. 8, CallNext(r),
           IF pos[r] < 8 THEN how' = how ELSE how'[r] \in {"through", "captured", "lead"}
    PROVE  /\ Placed(r)'
           /\ pc'[r] = "down" /\ pos'[r] = pos[r] + 1
           /\ reply'[r] = None
BY DEF CallNext, Placed, Answerable, Typed

\* An answer of the proxy.
LEMMA ProxyAnswers ==
    ASSUME Typed, NEW r \in Requests, Proxy(r)
    PROVE  \E c \in {"200", "503"} :
              /\ reply'[r] = [by |-> "Proxy", code |-> c, ids |-> AnswerIds(r, c)]
              /\ AnswerIds(r, c) \in SUBSET (Requests \cup {Upstream})
              /\ header'[r] = IF how[r] = "through" THEN header[r] \cup AnswerIds(r, c)
                              ELSE header[r]
              /\ pc'[r] = "up" /\ pos'[r] = 8
<1>1. PICK c \in {"200", "503"} :
           /\ reply' = [reply EXCEPT ![r] =
                          [by |-> "Proxy", code |-> c, ids |-> AnswerIds(r, c)]]
           /\ header' = IF how[r] = "through"
                        THEN [header EXCEPT ![r] = @ \cup AnswerIds(r, c)]
                        ELSE header
  BY Contexts DEF Proxy
<1>2. AnswerIds(r, c) \in SUBSET (Requests \cup {Upstream})
  BY DEF AnswerIds
<1>3. pos[r] = 9
  BY Here DEF Proxy
<1>4. pos' = [pos EXCEPT ![r] = @ - 1] /\ pc' = [pc EXCEPT ![r] = "up"]
  BY Zenon DEF Proxy
<1>5. pos'[r] = 8 /\ pc'[r] = "up"
  BY <1>3, <1>4 DEF Typed
<1> QED
  BY <1>1, <1>2, <1>5 DEF Typed

\* What the coalescer or an execution of its own gives is written by the cache layer.
LEMMA CacheAnswers ==
    ASSUME Typed, Executions, NEW r \in Requests, Placed(r), Write(r) \/ Return(r)
    PROVE  /\ pos[r] = 8 /\ pos'[r] = 7
           /\ pc'[r] = "up"
           /\ reply'[r] # None /\ reply'[r].by = "Cache"
           /\ reply'[r].code \in {"200", "503"}
<1>1. CASE Write(r)
  <2>1. pos[r] = 8 /\ due[r].code \in {"200", "503"}
    BY <1>1 DEF Write, F!Answer, Executions, Answers, Placed
  <2>2. reply'[r] = [by |-> "Cache", code |-> due[r].code]
    BY <1>1 DEF Write, Typed
  <2>3. pos'[r] = 7 /\ pc'[r] = "up"
    BY <1>1, <2>1 DEF Write, Typed
  <2>4. due[r].code \in Codes /\ Chain[pos[r]] = "Cache"
    BY <2>1, Places DEF Codes
  <2>5. [by |-> "Cache", code |-> due[r].code] # None
    BY <2>4, Answered, ChainAssumption
  <2> QED
    BY <2>1, <2>2, <2>3, <2>5
<1>2. CASE Return(r)
  <2>1. pos[r] = 8 /\ pc[r] = "up"
    BY <1>2, Here DEF Return, Back
  <2>2. reply[r].code \in {"200", "503"}
    BY <2>1 DEF Placed
  <2>3. reply'[r] = [by |-> "Cache", code |-> reply[r].code]
    BY <1>2 DEF Return, Typed
  <2>4. pos'[r] = 7 /\ pc'[r] = "up"
    BY <1>2, <2>1 DEF Return, Typed
  <2>5. reply[r].code \in Codes /\ Chain[pos[r]] = "Cache"
    BY <2>1, <2>2, Places DEF Codes
  <2>6. [by |-> "Cache", code |-> reply[r].code] # None
    BY <2>5, Answered, ChainAssumption
  <2> QED
    BY <2>1, <2>2, <2>3, <2>4, <2>6
<1> QED
  BY <1>1, <1>2

\* On the way up above the cache layer.
LEMMA UpMoves ==
    ASSUME Typed, NEW r \in Requests, Placed(r), Up(r)
    PROVE  /\ pc[r] = "up" /\ pos[r] \in 1 .. 7
           /\ how' = how /\ reply' = reply /\ header' = header /\ scope' = scope
           /\ pos[r] = 1 => pos'[r] = 1 /\ pc'[r] = "done"
           /\ pos[r] > 1 => pos'[r] = pos[r] - 1 /\ pc'[r] = "up"
<1>1. pc[r] = "up" /\ pos[r] \in 1 .. 9 /\ pos[r] # 8 /\ pos[r] <= 8
  <2>1. pos[r] \in 1 .. 9
    BY DEF Typed
  <2>2. pc[r] = "up" /\ Chain[pos[r]] # "Cache"
    BY Zenon DEF Up
  <2> QED
    BY <2>1, <2>2, PlaceOf DEF Placed
<1>2. how' = how /\ reply' = reply /\ header' = header /\ scope' = scope
  BY Zenon DEF Up
<1>3. /\ pos' = [pos EXCEPT ![r] = IF @ = 1 THEN 1 ELSE @ - 1]
      /\ pc' = [pc EXCEPT ![r] = IF pos[r] = 1 THEN "done" ELSE "up"]
  BY Zenon DEF Up
<1> QED
  BY <1>1, <1>2, <1>3 DEF Typed

\* The layers that ask who it is and what it wants refuse, or call the next one.
LEMMA Outcomes ==
    ASSUME NEW r \in Requests, Auth(r) \/ RateLimit(r) \/ Body(r) \/ ModelRouter(r)
    PROVE  CallNext(r) \/ \E c \in Codes : c # "500" /\ Refuse(r, c)
<1>1. \/ CallNext(r)
      \/ Refuse(r, "400") \/ Refuse(r, "401") \/ Refuse(r, "403") \/ Refuse(r, "404")
      \/ Refuse(r, "413") \/ Refuse(r, "429")
  BY Contexts DEF Auth, RateLimit, Body, ModelRouter
<1>2. {"400", "401", "403", "404", "413", "429"} \subseteq Codes \ {"500"}
  BY DEF Codes
<1> QED
  BY <1>1, <1>2, Zenon

\* Every step of a request leaves it placed.
LEMMA StepPlaced ==
    ASSUME Typed, Executions, NEW r \in Requests, Placed(r),
           Handle(r) \/ Abandon(r) \/ Panic(r)
    PROVE  Placed(r)'
<1>1. CASE RequestMeta(r) \/ AccessLog(r)
  <2>1. pc[r] = "down" /\ pos[r] \in 1 .. 2 /\ CallNext(r) /\ how' = how
    BY <1>1, Here DEF RequestMeta, AccessLog
  <2> QED
    BY <2>1, CallPlaced
<1>2. CASE Auth(r) \/ RateLimit(r) \/ Body(r) \/ ModelRouter(r)
  <2>1. pc[r] = "down" /\ pos[r] \in 3 .. 6
    <3>1. At(r, "Auth") \/ At(r, "RateLimit") \/ At(r, "Body") \/ At(r, "ModelRouter")
      BY <1>2, Zenon DEF Auth, RateLimit, Body, ModelRouter
    <3>2. pc[r] = "down" /\ (pos[r] = 3 \/ pos[r] = 4 \/ pos[r] = 5 \/ pos[r] = 6)
      BY <3>1, Here, Zenon
    <3> QED
      BY <3>2
  <2>2. how' = how
    BY <1>2, Zenon DEF Auth, RateLimit, Body, ModelRouter
  <2>3. CallNext(r) \/ \E c \in Codes : c # "500" /\ Refuse(r, c)
    BY <1>2, Outcomes
  <2>4. CASE CallNext(r)
    BY <2>1, <2>2, <2>4, CallPlaced
  <2>5. ASSUME NEW c \in Codes, c # "500", Refuse(r, c)
        PROVE  Placed(r)'
    BY <2>1, <2>5, RefusePlaced
  <2> QED
    BY <2>3, <2>4, <2>5
<1>3. CASE Metrics(r)
  <2>1. pc[r] = "down" /\ pos[r] = 7 /\ CallNext(r) /\ how' = how
    BY <1>3, Here DEF Metrics
  <2> QED
    BY <2>1, CallPlaced
<1>4. CASE Cache(r)
  <2>1. pc[r] = "down" /\ pos[r] = 8
    BY <1>4, Here DEF Cache
  <2>2. \/ Refuse(r, "200")
        \/ CallNext(r) /\ how'[r] \in {"through", "captured", "lead"}
        \/ /\ pc' = [pc EXCEPT ![r] = "wait"] /\ UNCHANGED <<pos, reply>>
           /\ how'[r] = "follow"
    BY <1>4, Contexts DEF Cache, Typed
  <2>3. CASE Refuse(r, "200")
    BY <2>1, <2>3, RefusePlaced DEF Codes
  <2>4. CASE CallNext(r) /\ how'[r] \in {"through", "captured", "lead"}
    BY <2>1, <2>4, CallPlaced
  <2>5. CASE /\ pc' = [pc EXCEPT ![r] = "wait"] /\ UNCHANGED <<pos, reply>>
             /\ how'[r] = "follow"
    BY <2>1, <2>5 DEF Placed, Answerable, Typed
  <2> QED
    BY <2>2, <2>3, <2>4, <2>5
<1>5. CASE Proxy(r)
  <2>1. how[r] \in {"through", "captured", "lead"} /\ how' = how
    BY <1>5, Here DEF Proxy, Placed
  <2>2. PICK c \in {"200", "503"} :
             /\ reply'[r] = [by |-> "Proxy", code |-> c, ids |-> AnswerIds(r, c)]
             /\ AnswerIds(r, c) \in SUBSET (Requests \cup {Upstream})
             /\ pc'[r] = "up" /\ pos'[r] = 8
    BY <1>5, ProxyAnswers
  <2>3. /\ reply'[r] \in [by : {"Proxy"}, code : {"200", "503"},
                          ids : SUBSET (Requests \cup {Upstream})]
        /\ reply'[r].by = "Proxy" /\ reply'[r].code = c
    BY <2>2
  <2>4. Answerable(r)'
    BY <2>3 DEF Answerable
  <2> QED
    BY <2>1, <2>2, <2>3, <2>4 DEF Placed
<1>6. CASE Finish(r)
  BY <1>6, Here DEF Finish, Back, Placed, Answerable, Typed
<1>7. CASE Write(r) \/ Return(r)
  <2>1. pos'[r] \in 1 .. 7 /\ pc'[r] \in {"up", "done"} /\ pc'[r] # "done"
    BY <1>7, CacheAnswers
  <2>2. Answerable(r)'
    BY <1>7, CacheAnswers DEF Answerable
  <2> QED
    BY <2>1, <2>2, PlacedUp
<1>8. CASE Abandon(r)
  <2>1. pc[r] = "wait" /\ pos[r] = 8
    BY <1>8 DEF Abandon, Placed
  <2>2. pos'[r] = 7 /\ pc'[r] = "up" /\ reply' = reply
    BY <1>8, <2>1 DEF Abandon, Typed
  <2>3. Answerable(r)'
    BY <2>1, <2>2 DEF Placed, Answerable
  <2>4. pos'[r] \in 1 .. 7 /\ pc'[r] \in {"up", "done"} /\ pc'[r] # "done"
    BY <2>2
  <2> QED
    BY <2>3, <2>4, PlacedUp
<1>9. CASE Up(r)
  <2>1. /\ pc[r] = "up" /\ pos[r] \in 1 .. 7 /\ reply' = reply
        /\ pos[r] = 1 => pos'[r] = 1 /\ pc'[r] = "done"
        /\ pos[r] > 1 => pos'[r] = pos[r] - 1 /\ pc'[r] = "up"
    BY <1>9, UpMoves
  <2>2. pos'[r] \in 1 .. 7 /\ pos'[r] <= pos[r] /\ pc'[r] \in {"up", "done"}
        /\ (pc'[r] = "done" => pos'[r] = 1)
    BY <2>1
  <2>3. Answerable(r)'
    BY <2>1, <2>2 DEF Placed, Answerable, Typed
  <2> QED
    BY <2>2, <2>3, PlacedUp
<1>10. CASE Panic(r)
  <2>1. /\ pc[r] = "down" /\ pc'[r] = "panicked"
        /\ pos' = pos /\ reply' = reply /\ how' = how
    BY <1>10 DEF Panic, Typed
  <2> QED
    BY <2>1 DEF Placed, Answerable
<1> QED
  BY <1>1, <1>2, <1>3, <1>4, <1>5, <1>6, <1>7, <1>8, <1>9, <1>10 DEF Handle

\* Before and in the cache layer nothing is recorded that is said of the whole way.
LEMMA Unrecorded ==
    ASSUME Typed, Executions, NEW r \in Requests, Placed(r), Handle(r) \/ Abandon(r) \/ Panic(r),
           ~Up(r)
    PROVE  /\ pc[r] = "down" \/ pos[r] = 8
           /\ logged' = logged /\ counted' = counted
           /\ scope' = scope \/ scope'[r] = "token"
           /\ ~Through(r)'
<1>1. CASE RequestMeta(r) \/ AccessLog(r) \/ Metrics(r)
  <2>1. pc[r] = "down" /\ CallNext(r)
    BY <1>1, Zenon DEF RequestMeta, AccessLog, Metrics, At
  <2>2. pc'[r] = "down"
    BY <2>1, Zenon DEF CallNext
  <2>3. logged' = logged /\ counted' = counted /\ scope' = scope
    BY <1>1, Zenon DEF RequestMeta, AccessLog, Metrics, recordVars
  <2> QED
    BY <2>1, <2>2, <2>3, Zenon DEF Through
<1>2. CASE Auth(r) \/ RateLimit(r) \/ Body(r) \/ ModelRouter(r)
  <2>1. pc[r] = "down" /\ pos[r] \in 3 .. 6
    <3>1. At(r, "Auth") \/ At(r, "RateLimit") \/ At(r, "Body") \/ At(r, "ModelRouter")
      BY <1>2, Zenon DEF Auth, RateLimit, Body, ModelRouter
    <3>2. pc[r] = "down" /\ (pos[r] = 3 \/ pos[r] = 4 \/ pos[r] = 5 \/ pos[r] = 6)
      BY <3>1, Here, Zenon
    <3> QED
      BY <3>2
  <2>2. logged' = logged /\ counted' = counted
    BY <1>2, Zenon DEF Auth, RateLimit, Body, ModelRouter, recordVars
  <2>3. scope' = scope \/ scope'[r] = "token"
    BY <1>2, Contexts DEF Auth, RateLimit, Body, ModelRouter, Typed
  <2>4. CASE CallNext(r)
    BY <2>1, <2>2, <2>3, <2>4, Zenon DEF CallNext, Through
  <2>5. ASSUME NEW c \in Codes, c # "500", Refuse(r, c)
        PROVE  Refused(r)'
    <3>1. reply'[r] # None /\ reply'[r].by = Chain[pos[r]]
      BY <2>1, <2>5, RefusePlaced
    <3>2. Chain[pos[r]] \in Refusers
      BY <2>1, Places DEF Refusers
    <3> QED
      BY <3>1, <3>2, Zenon DEF Refused
  <2>6. CallNext(r) \/ \E c \in Codes : c # "500" /\ Refuse(r, c)
    BY <1>2, Outcomes
  <2> QED
    BY <2>1, <2>2, <2>3, <2>4, <2>5, <2>6, Zenon DEF Through
<1>3. CASE Cache(r)
  <2>1. pc[r] = "down" /\ pos[r] = 8
    BY <1>3, Here DEF Cache
  <2>2. logged' = logged /\ counted' = counted /\ scope' = scope
    BY <1>3, Zenon DEF Cache, recordVars
  <2>3. pc'[r] \in {"down", "wait"} \/ pos'[r] = 7
    <3>1. Refuse(r, "200") \/ CallNext(r) \/ pc' = [pc EXCEPT ![r] = "wait"]
      BY <1>3, Contexts DEF Cache
    <3> QED
      BY <2>1, <3>1 DEF Refuse, CallNext, Typed
  <2> QED
    BY <2>1, <2>2, <2>3 DEF Through
<1>4. CASE Proxy(r)
  <2>1. pc[r] = "down" /\ pos'[r] = 8
    BY <1>4, ProxyAnswers DEF Proxy, At
  <2>2. logged' = logged /\ counted' = counted /\ scope' = scope
    BY <1>4, Zenon DEF Proxy, recordVars
  <2> QED
    BY <2>1, <2>2 DEF Through
<1>5. CASE Finish(r)
  <2>1. pos[r] = 8 /\ pc'[r] = "wait"
    BY <1>5, Here DEF Finish, Typed
  <2>2. logged' = logged /\ counted' = counted /\ scope' = scope
    BY <1>5, Zenon DEF Finish, recordVars
  <2> QED
    BY <2>1, <2>2, Zenon DEF Through
<1>6. CASE Write(r) \/ Return(r)
  <2>1. pos[r] = 8 /\ pos'[r] = 7
    BY <1>6, CacheAnswers
  <2>2. logged' = logged /\ counted' = counted /\ scope' = scope
    BY <1>6, Zenon DEF Write, Return, recordVars
  <2> QED
    BY <2>1, <2>2 DEF Through
<1>7. CASE Abandon(r)
  <2>1. pos[r] = 8 /\ pos'[r] = 7
    BY <1>7 DEF Abandon, Placed, Typed
  <2>2. logged' = logged /\ counted' = counted /\ scope' = scope
    BY <1>7, Zenon DEF Abandon, recordVars
  <2> QED
    BY <2>1, <2>2 DEF Through
<1>8. CASE Panic(r)
  <2>1. pc[r] = "down" /\ pc'[r] = "panicked"
    BY <1>8 DEF Panic, Typed
  <2>2. logged' = logged /\ counted' = counted /\ scope' = scope
    BY <1>8, Zenon DEF Panic
  <2> QED
    BY <2>1, <2>2, Zenon DEF Through
<1> QED
  BY <1>1, <1>2, <1>3, <1>4, <1>5, <1>6, <1>7, <1>8, Zenon DEF Handle

\* What is recorded of a request stays true of it.
LEMMA StepRecorded ==
    ASSUME Typed, Executions, NEW r \in Requests, Placed(r), Recorded(r),
           Handle(r) \/ Abandon(r) \/ Panic(r)
    PROVE  Recorded(r)'
<1>1. CASE ~Up(r)
  <2>1. /\ pc[r] = "down" \/ pos[r] = 8
        /\ logged'[r] = logged[r] /\ counted'[r] = counted[r]
        /\ scope'[r] = scope[r] \/ scope'[r] = "token"
        /\ ~Through(r)'
    BY <1>1, Unrecorded, Zenon
  <2>2. logged[r] = <<>> /\ ~Through(r)
    <3>1. logged[r] # <<>> => pc[r] = "done" \/ (pc[r] = "up" /\ pos[r] = 1)
      BY Zenon DEF Recorded
    <3>2. pc[r] = "done" => pos[r] = 1
      BY Zenon DEF Placed
    <3>3. ~Through(r)
      BY <2>1 DEF Through
    <3> QED
      BY <2>1, <3>1, <3>2, <3>3
  <2>3. counted[r] = <<>>
    BY <2>2, Zenon DEF Recorded
  <2> QED
    BY <2>1, <2>2, <2>3 DEF Recorded
<1>2. CASE Up(r)
  <2>1. /\ pc[r] = "up" /\ pos[r] \in 1 .. 7 /\ reply' = reply /\ scope' = scope
        /\ pos[r] = 1 => pos'[r] = 1 /\ pc'[r] = "done"
        /\ pos[r] > 1 => pos'[r] = pos[r] - 1 /\ pc'[r] = "up"
    BY <1>2, UpMoves
  <2>2. /\ Chain[pos[r]] = "Metrics" <=> pos[r] = 7
        /\ Chain[pos[r]] = "AccessLog" <=> pos[r] = 2
    <3>1. pos[r] \in 1 .. 9
      BY <2>1
    <3> QED
      BY <3>1, PlaceOf
  <2>3. /\ scope'[r] # "ip"
        /\ Refused(r)' <=> Refused(r)
    BY <2>1, Zenon DEF Recorded, Refused
  <2>4. /\ logged'[r] # <<>> => pc'[r] = "done" \/ (pc'[r] = "up" /\ pos'[r] = 1)
        /\ logged'[r] # <<>> => \E e : logged'[r] = <<e>> /\ e.id
    <3>1. CASE pos[r] = 2
      <4> DEFINE line == [code |-> Status(r), id |-> "meta" \in Sees("AccessLog")]
      <4>1. logged'[r] = Append(logged[r], line)
        BY <1>2, <2>2, <3>1 DEF Up, Typed
      <4>2. logged[r] = <<>>
        BY <2>1, <3>1 DEF Recorded
      <4>3. line.id
        BY Contexts
      <4> HIDE DEF line
      <4>4. logged'[r] = <<line>>
        BY <4>1, <4>2
      <4>5. pc'[r] = "up" /\ pos'[r] = 1
        BY <2>1, <3>1
      <4> QED
        BY <4>3, <4>4, <4>5
    <3>2. CASE pos[r] # 2
      <4>1. logged' = logged
        BY <1>2, <2>2, <3>2, Zenon DEF Up
      <4>2. logged[r] # <<>> => pos[r] = 1
        BY <2>1 DEF Recorded
      <4>3. pos[r] = 1 => pc'[r] = "done"
        BY <2>1
      <4> QED
        BY <4>1, <4>2, <4>3, Zenon DEF Recorded
    <3> QED
      BY <3>1, <3>2
  <2>5. /\ counted'[r] # <<>> <=> Through(r)'
        /\ counted'[r] # <<>> => \E e : counted'[r] = <<e>> /\ e.route
    <3>1. CASE pos[r] = 7
      <4> DEFINE label == [code |-> Status(r), route |-> "gateway" \in Sees("Metrics")]
      <4>1. counted'[r] = Append(counted[r], label)
        BY <1>2, <2>2, <3>1 DEF Up, Typed
      <4>2. counted[r] = <<>>
        BY <3>1 DEF Recorded, Through
      <4>3. label.route
        BY Contexts
      <4> HIDE DEF label
      <4>4. counted'[r] = <<label>>
        BY <4>1, <4>2
      <4>5. ~Refused(r)
        BY <3>1 DEF Refused, Refusers, Placed, Answerable
      <4>6. Through(r)'
        BY <2>1, <2>3, <3>1, <4>5 DEF Through
      <4> QED
        BY <4>3, <4>4, <4>6
    <3>2. CASE pos[r] # 7
      <4>1. counted' = counted
        BY <1>2, <2>2, <3>2, Zenon DEF Up
      <4>2. pos[r] < 7 /\ pos'[r] < 7 /\ pc'[r] \in {"up", "done"}
        BY <2>1, <3>2
      <4>3. Through(r)' <=> Through(r)
        BY <2>1, <2>3, <4>2, Zenon DEF Through
      <4> QED
        BY <4>1, <4>3, Zenon DEF Recorded
    <3> QED
      BY <3>1, <3>2
  <2> QED
    BY <2>3, <2>4, <2>5, Zenon DEF Recorded
<1> QED
  BY <1>1, <1>2

\* The way of a request up has an answer that bears the right identifier.
LEMMA StepIdentified ==
    ASSUME Typed, Executions, NEW r \in Requests, Placed(r), Identified(r),
           Handle(r) \/ Abandon(r) \/ Panic(r)
    PROVE  Identified(r)'
<1>1. CASE RequestMeta(r)
  <2>1. pc[r] = "down" /\ CallNext(r) /\ header' = [header EXCEPT ![r] = {r}]
    BY <1>1, Zenon DEF RequestMeta, At
  <2>2. pc'[r] = "down" /\ header'[r] = {r}
    BY <2>1 DEF CallNext, Typed
  <2> QED
    BY <2>2, Zenon DEF Identified
<1>2. CASE AccessLog(r) \/ Auth(r) \/ RateLimit(r) \/ Body(r) \/ ModelRouter(r) \/ Metrics(r)
  <2>1. pc[r] = "down" /\ pos[r] \in 2 .. 7
    <3>1. \/ At(r, "AccessLog") \/ At(r, "Auth") \/ At(r, "RateLimit") \/ At(r, "Body")
          \/ At(r, "ModelRouter") \/ At(r, "Metrics")
      BY <1>2, Zenon DEF AccessLog, Auth, RateLimit, Body, ModelRouter, Metrics
    <3>2. /\ pc[r] = "down"
          /\ pos[r] = 2 \/ pos[r] = 3 \/ pos[r] = 4 \/ pos[r] = 5 \/ pos[r] = 6 \/ pos[r] = 7
      BY <3>1, Here, Zenon
    <3> QED
      BY <3>2
  <2>2. header[r] = {r}
    BY <2>1 DEF Identified
  <2>3. header' = header
    BY <1>2, Zenon DEF AccessLog, Auth, RateLimit, Body, ModelRouter, Metrics
  <2>4. pc'[r] = "down" \/ pos'[r] < 8
    <3>1. CallNext(r) \/ \E c \in Codes : Refuse(r, c)
      <4>1. (AccessLog(r) \/ Metrics(r)) => CallNext(r)
        BY Zenon DEF AccessLog, Metrics
      <4> QED
        BY <1>2, <4>1, Outcomes, Zenon
    <3>2. CASE CallNext(r)
      BY <2>1, <3>2, Zenon DEF CallNext
    <3>3. ASSUME NEW c \in Codes, Refuse(r, c)
          PROVE  pos'[r] < 8
      BY <2>1, <3>3 DEF Refuse, Typed
    <3> QED
      BY <3>1, <3>2, <3>3
  <2> QED
    BY <2>2, <2>3, <2>4 DEF Identified, Named
<1>3. CASE Cache(r)
  <2>1. pc[r] = "down" /\ pos[r] = 8 /\ header' = header
    BY <1>3, Here DEF Cache
  <2>2. header'[r] = {r}
    BY <2>1 DEF Identified
  <2>3. pc'[r] \in {"down", "wait"} \/ pos'[r] = 7
    <3>1. Refuse(r, "200") \/ CallNext(r) \/ pc' = [pc EXCEPT ![r] = "wait"]
      BY <1>3, Contexts DEF Cache
    <3> QED
      BY <2>1, <3>1 DEF Refuse, CallNext, Typed
  <2> QED
    BY <2>2, <2>3 DEF Identified, Named
<1>4. CASE Proxy(r)
  <2>1. /\ pc[r] = "down" /\ pos[r] = 9 /\ echo' = echo /\ how' = how
        /\ how[r] \in {"through", "captured", "lead"}
    BY <1>4, Here DEF Proxy, Placed
  <2>2. header[r] = {r}
    BY <2>1 DEF Identified
  <2>3. PICK c \in {"200", "503"} :
             /\ reply'[r] = [by |-> "Proxy", code |-> c, ids |-> AnswerIds(r, c)]
             /\ header'[r] = IF how[r] = "through" THEN header[r] \cup AnswerIds(r, c)
                             ELSE header[r]
             /\ pc'[r] = "up" /\ pos'[r] = 8
    BY <1>4, ProxyAnswers
  <2>4. reply'[r].ids = AnswerIds(r, c)
    BY <2>3
  <2>5. \/ AnswerIds(r, c) = {}
        \/ AnswerIds(r, c) = {Upstream} /\ echo = "own"
        \/ AnswerIds(r, c) = {r} /\ echo = "same"
    BY DEF AnswerIds, Typed
  <2>6. \/ reply'[r].ids = {}
        \/ reply'[r].ids = {Upstream} /\ echo' = "own"
        \/ reply'[r].ids = {r} /\ echo' = "same"
    BY <2>1, <2>4, <2>5
  <2>7. /\ how[r] # "through" => header'[r] = {r}
        /\ how[r] = "through" => r \in header'[r]
    BY <2>2, <2>3
  <2>8. pc'[r] # "down" /\ pc'[r] # "wait"
    BY <2>3
  <2> QED
    BY <2>1, <2>3, <2>6, <2>7, <2>8, Zenon DEF Identified, Named, Bears
<1>5. CASE Finish(r)
  <2>1. pc[r] = "up" /\ pos[r] = 8 /\ how[r] = "lead" /\ header' = header /\ pc'[r] = "wait"
    BY <1>5, Here DEF Finish, Back, Typed
  <2>2. header'[r] = {r}
    BY <2>1 DEF Identified
  <2> QED
    BY <2>1, <2>2, Zenon DEF Identified
<1>6. CASE Write(r)
  <2>1. /\ pc[r] = "wait" /\ pos[r] = 8 /\ how[r] \in {"lead", "follow"}
        /\ how' = how /\ echo' = echo
    BY <1>6 DEF Write, Placed
  <2>2. header[r] = {r}
    BY <2>1 DEF Identified
  <2>3. r \in asked /\ due[r] # None
    BY <1>6 DEF Write, F!Answer
  <2>4. Bears(due[r].ids, due[r].by) /\ (how[r] = "lead" => due[r].by = r)
    BY <2>1, <2>3 DEF Executions, Owed, Executing
  <2>5. header'[r] = IF due[r].ids = {} THEN {r} ELSE due[r].ids
    BY <1>6, <2>2 DEF Write, Copied, Typed
  <2>6. \/ header'[r] = {r}
        \/ header'[r] = {Upstream} /\ echo = "own"
        \/ how[r] = "follow" /\ echo = "same"
    BY <2>1, <2>4, <2>5 DEF Bears
  <2>7. pc'[r] = "up" /\ pos'[r] = 7
    BY <1>6, CacheAnswers
  <2> QED
    BY <2>1, <2>6, <2>7 DEF Identified, Named
<1>7. CASE Abandon(r)
  <2>1. pc[r] = "wait" /\ pos[r] = 8 /\ header' = header
    BY <1>7 DEF Abandon, Placed
  <2>2. header'[r] = {r}
    BY <2>1 DEF Identified
  <2>3. pos'[r] = 7
    BY <1>7, <2>1 DEF Abandon, Typed
  <2> QED
    BY <2>2, <2>3 DEF Identified, Named
<1>8. CASE Return(r)
  <2>1. /\ pc[r] = "up" /\ pos[r] = 8 /\ how[r] \in {"through", "captured"}
        /\ how' = how /\ echo' = echo
    BY <1>8, Here DEF Return, Back
  <2>2. Bears(reply[r].ids, r) /\ (how[r] # "through" => header[r] = {r}) /\ Named(r)
    BY <2>1 DEF Identified
  <2>3. pc'[r] = "up" /\ pos'[r] = 7
    BY <1>8, CacheAnswers
  <2>4. Named(r)'
    <3>1. CASE how[r] = "through"
      <4>1. header' = header
        BY <1>8, <3>1 DEF Return
      <4> QED
        BY <2>1, <2>2, <4>1, Zenon DEF Named
    <3>2. CASE how[r] = "captured"
      <4>1. header'[r] = IF reply[r].ids = {} THEN {r} ELSE reply[r].ids
        BY <1>8, <2>2, <3>2 DEF Return, Copied, Typed
      <4> QED
        BY <2>1, <2>2, <3>2, <4>1 DEF Bears, Named
    <3> QED
      BY <2>1, <3>1, <3>2
  <2> QED
    BY <2>3, <2>4 DEF Identified
<1>9. CASE Up(r)
  <2>1. /\ pc[r] = "up" /\ pos[r] \in 1 .. 7
        /\ how' = how /\ reply' = reply /\ header' = header
        /\ pos[r] = 1 => pos'[r] = 1 /\ pc'[r] = "done"
        /\ pos[r] > 1 => pos'[r] = pos[r] - 1 /\ pc'[r] = "up"
    BY <1>9, UpMoves
  <2>2. pos'[r] < 8 /\ pc'[r] \in {"up", "done"}
    BY <2>1
  <2>3. Named(r) /\ echo' = echo
    BY <1>9, <2>1, Zenon DEF Identified, Up
  <2>4. Named(r)'
    BY <2>1, <2>3, Zenon DEF Named
  <2> QED
    BY <2>2, <2>4 DEF Identified
<1>10. CASE Panic(r)
  <2>1. pc'[r] = "panicked"
    BY <1>10 DEF Panic, Typed
  <2> QED
    BY <2>1 DEF Identified
<1> QED
  BY <1>1, <1>2, <1>3, <1>4, <1>5, <1>6, <1>7, <1>8, <1>9, <1>10, Zenon DEF Handle

\* The requests that do not take the step execute and are owed what they did before.
LEMMA OthersExecute ==
    ASSUME Typed, NEW r \in Requests, Handle(r) \/ Abandon(r) \/ Panic(r),
           NEW q \in Requests \ {r}
    PROVE  /\ Executing(q)' <=> Executing(q)
           /\ how'[q] = how[q]
           /\ echo' = echo
BY Others, Zenon DEF Executing

\* A step that leaves the coalescer alone, and executes what it did.
LEMMA SameExecutions ==
    ASSUME Typed, Executions, NEW r \in Requests, Handle(r) \/ Abandon(r) \/ Panic(r),
           UNCHANGED flightVars,
           Executing(r)' <=> Executing(r),
           how'[r] = how[r] \/ (how[r] = None /\ how'[r] # "lead")
    PROVE  Executions'
<1>1. /\ due' = due /\ asked' = asked /\ running' = running
  BY DEF flightVars
<1>2. \A q \in Requests : Executing(q)' <=> Executing(q)
  BY OthersExecute, Zenon
<1>3. ASSUME NEW q \in Requests
      PROVE  Owed(q)'
  <2>1. Owed(q)
    BY DEF Executions
  <2>2. Executing(q)' <=> Executing(q)
    BY <1>2
  <2>3. echo' = echo
    BY OnlyTheWay
  <2>4. how'[q] = how[q] \/ (how[q] = None /\ how'[q] # "lead")
    BY OthersExecute, Zenon
  <2>5. how'[q] = None => q \notin asked
    BY <2>1, <2>4, Zenon DEF Owed
  <2>6. q \in asked /\ how'[q] = "lead" => how[q] = "lead"
    BY <2>4, Zenon
  <2>7. due[q] # None => q \in asked /\ Bears(due[q].ids, due[q].by)'
    BY <1>1, <2>1, <2>3 DEF Owed, Bears
  <2> QED
    BY <1>1, <2>1, <2>2, <2>5, <2>6, <2>7, Zenon DEF Owed
<1> QED
  BY <1>1, <1>2, <1>3, Zenon DEF Executions

\* Executions go on as the coalescer promises: one for a key, and what it gives is
\* owed to those who ask.
LEMMA StepExecutions ==
    ASSUME Typed, Executions, NEW r \in Requests, Placed(r), Identified(r),
           Handle(r) \/ Abandon(r) \/ Panic(r)
    PROVE  Executions'
<1>1. CASE \/ RequestMeta(r) \/ AccessLog(r) \/ Auth(r) \/ RateLimit(r) \/ Body(r)
           \/ ModelRouter(r) \/ Metrics(r)
  <2>1. UNCHANGED flightVars /\ how' = how
    BY <1>1, Zenon DEF RequestMeta, AccessLog, Auth, RateLimit, Body, ModelRouter, Metrics
  <2>2. pc[r] = "down" /\ pos[r] \in 1 .. 7
    <3>1. \/ At(r, "RequestMeta") \/ At(r, "AccessLog") \/ At(r, "Auth") \/ At(r, "RateLimit")
          \/ At(r, "Body") \/ At(r, "ModelRouter") \/ At(r, "Metrics")
      BY <1>1, Zenon DEF RequestMeta, AccessLog, Auth, RateLimit, Body, ModelRouter, Metrics
    <3>2. /\ pc[r] = "down"
          /\ \/ pos[r] = 1 \/ pos[r] = 2 \/ pos[r] = 3 \/ pos[r] = 4 \/ pos[r] = 5 \/ pos[r] = 6
             \/ pos[r] = 7
      BY <3>1, Here, Zenon
    <3> QED
      BY <3>2
  <2>3. how[r] = None
    BY <2>2 DEF Placed
  <2>4. ~Executing(r) /\ ~Executing(r)'
    BY <2>1, <2>3, ChainAssumption DEF Executing
  <2> QED
    BY <2>1, <2>4, SameExecutions, Zenon
<1>2. CASE Cache(r)
  <2>1. pc[r] = "down" /\ pos[r] = 8 /\ how[r] = None
    BY <1>2, Here DEF Cache, Placed
  <2>2. ~Executing(r) /\ r \notin asked /\ due[r] = None
    BY <2>1, ChainAssumption DEF Executing, Executions, Owed
  <2>3. CASE UNCHANGED flightVars /\ how'[r] # "lead"
    BY <2>1, <2>2, <2>3, SameExecutions, Zenon DEF Executing
  <2>4. CASE /\ F!Ask(r)
             /\ IF KeyOf[r] \in running
                THEN how'[r] = "follow"
                ELSE how'[r] = "lead" /\ CallNext(r)
    <3>1. /\ asked' = asked \cup {r} /\ running' = running \cup {KeyOf[r]} /\ due' = due
      BY <2>4, Zenon DEF F!Ask
    <3>2. Executing(r)' <=> KeyOf[r] \notin running
      <4>1. CASE KeyOf[r] \in running
        BY <2>4, <4>1 DEF Executing
      <4>2. CASE KeyOf[r] \notin running
        <5>1. how'[r] = "lead" /\ pc'[r] = "down" /\ pos'[r] = 9
          BY <2>1, <2>4, <4>2 DEF CallNext, Typed
        <5> QED
          BY <4>2, <5>1 DEF Executing
      <4> QED
        BY <4>1, <4>2
    <3>3. echo' = echo
      BY OnlyTheWay
    <3>4. Owed(r)'
      <4>1. r \in asked' /\ KeyOf[r] \in running' /\ due'[r] = None
        BY <2>2, <3>1
      <4>2. how'[r] # None /\ (how'[r] = "lead" => KeyOf[r] \notin running)
        BY <2>4, ChainAssumption
      <4> QED
        BY <3>2, <4>1, <4>2, Zenon DEF Owed
    <3>5. ASSUME NEW q \in Requests \ {r}
          PROVE  Owed(q)'
      <4>1. Owed(q)
        BY DEF Executions
      <4>2. (Executing(q)' <=> Executing(q)) /\ how'[q] = how[q]
        BY OthersExecute, Zenon
      <4>3. q \in asked' <=> q \in asked
        BY <3>1
      <4>4. KeyOf[q] \in running => KeyOf[q] \in running'
        BY <3>1
      <4>5. due[q] # None => q \in asked' /\ Bears(due[q].ids, due[q].by)'
        BY <3>1, <3>3, <4>1, <4>3 DEF Owed, Bears
      <4> QED
        BY <3>1, <4>1, <4>2, <4>3, <4>4, <4>5, Zenon DEF Owed
    <3>6. ASSUME NEW p \in Requests, NEW q \in Requests,
                 Executing(p)', Executing(q)', KeyOf[p] = KeyOf[q], p # q
          PROVE  FALSE
      <4>1. ASSUME NEW s \in Requests \ {r}, Executing(s)'
            PROVE  Executing(s) /\ KeyOf[s] \in running
        <5>1. Executing(s)
          BY <4>1, OthersExecute, Zenon
        <5> QED
          BY <5>1 DEF Executions, Owed
      <4>2. CASE p = r
        BY <3>2, <3>6, <4>1, <4>2
      <4>3. CASE q = r
        BY <3>2, <3>6, <4>1, <4>3
      <4>4. CASE p # r /\ q # r
        BY <3>6, <4>1, <4>4 DEF Executions
      <4> QED
        BY <4>2, <4>3, <4>4
    <3> QED
      BY <3>1, <3>4, <3>5, <3>6 DEF Executions
  <2>5. \/ UNCHANGED flightVars /\ how'[r] # "lead"
        \/ /\ F!Ask(r)
           /\ IF KeyOf[r] \in running
              THEN how'[r] = "follow"
              ELSE how'[r] = "lead" /\ CallNext(r)
    <3>1. \/ UNCHANGED flightVars /\ how' = how
          \/ UNCHANGED flightVars /\ how' = [how EXCEPT ![r] = "hit"]
          \/ UNCHANGED flightVars /\ \E h \in {"through", "captured"} : how' = [how EXCEPT ![r] = h]
          \/ /\ F!Ask(r)
             /\ IF KeyOf[r] \in running
                THEN how' = [how EXCEPT ![r] = "follow"]
                ELSE how' = [how EXCEPT ![r] = "lead"] /\ CallNext(r)
      BY <1>2, Zenon DEF Cache
    <3> QED
      BY <2>1, <3>1, ChainAssumption DEF Typed
  <2> QED
    BY <2>3, <2>4, <2>5, Zenon
<1>3. CASE Proxy(r)
  <2>1. UNCHANGED flightVars /\ how' = how
    BY <1>3, Zenon DEF Proxy
  <2>2. pc[r] = "down" /\ pos[r] = 9 /\ pc'[r] = "up" /\ pos'[r] = 8
    BY <1>3, Here, ProxyAnswers DEF Proxy
  <2>3. Executing(r)' <=> Executing(r)
    BY <2>1, <2>2 DEF Executing
  <2> QED
    BY <2>1, <2>3, SameExecutions, Zenon
<1>4. CASE Finish(r)
  <2>1. /\ pc[r] = "up" /\ pos[r] = 8 /\ how[r] = "lead"
        /\ pc'[r] = "wait" /\ how' = how /\ echo' = echo
    BY <1>4, Here DEF Finish, Back, Typed
  <2> DEFINE v == [by |-> r, code |-> reply[r].code, ids |-> reply[r].ids]
  <2>2. /\ v \in Answers /\ v # None
        /\ v.by = r /\ v.ids = reply[r].ids
    <3>1. v \in Answers
      BY <2>1 DEF Placed, Answers
    <3> QED
      BY <3>1, ChainAssumption
  <2>3. Bears(v.ids, r)
    BY <2>1, <2>2 DEF Identified
  <2>4. /\ running' = running \ {KeyOf[r]} /\ asked' = asked
        /\ due' = [q \in Requests |->
                     IF q \in asked /\ KeyOf[q] = KeyOf[r] /\ due[q] = None THEN v ELSE due[q]]
    BY <1>4, Zenon DEF Finish, F!Finish
  <2> HIDE DEF v
  <2>5. Executing(r) /\ ~Executing(r)'
    BY <2>1 DEF Executing
  <2>6. due' \in [Requests -> Answers \cup {None}]
    BY <2>2, <2>4 DEF Executions
  <2>7. ASSUME NEW q \in Requests
        PROVE  Owed(q)'
    <3>1. Owed(q) /\ Owed(r)
      BY DEF Executions
    <3>2. ASSUME q # r
          PROVE  (Executing(q)' <=> Executing(q)) /\ (Executing(q) => KeyOf[q] # KeyOf[r])
      <4>1. q \in Requests \ {r}
        BY <3>2
      <4>2. Executing(q)' <=> Executing(q)
        BY <4>1, OthersExecute, Zenon
      <4> QED
        BY <2>5, <3>2, <4>2 DEF Executions
    <3>3. due'[q] = due[q] \/ (q \in asked /\ KeyOf[q] = KeyOf[r] /\ due[q] = None /\ due'[q] = v)
      BY <2>4
    <3>4. due'[q] # None => q \in asked' /\ Bears(due'[q].ids, due'[q].by)
      BY <2>2, <2>3, <2>4, <3>1, <3>3 DEF Owed
    <3>5. due'[q] # None => q \in asked' /\ Bears(due[q].ids, due[q].by)'
      BY <2>1, <3>4 DEF Bears
    <3>6. Executing(q)' => KeyOf[q] \in running' /\ q \in asked' /\ due'[q] = None
      <4>1. CASE q = r
        BY <2>5, <4>1
      <4>2. CASE q # r
        BY <2>4, <3>1, <3>2, <3>3, <4>2 DEF Owed
      <4> QED
        BY <4>1, <4>2
    <3>7. how'[q] = None => q \notin asked'
      BY <2>1, <2>4, <3>1 DEF Owed
    <3>8. q \in asked' /\ how'[q] = "lead" /\ ~Executing(q)' => due'[q] # None /\ due'[q].by = q
      <4>1. CASE q = r
        <5>1. due[r] = None /\ r \in asked
          BY <2>5, <3>1 DEF Owed
        <5> QED
          BY <2>2, <2>4, <4>1, <5>1
      <4>2. CASE q # r
        BY <2>1, <2>4, <3>1, <3>2, <3>3, <4>2 DEF Owed
      <4> QED
        BY <4>1, <4>2
    <3> QED
      BY <3>5, <3>6, <3>7, <3>8, Zenon DEF Owed
  <2>8. ASSUME NEW p \in Requests, NEW q \in Requests,
               Executing(p)', Executing(q)', KeyOf[p] = KeyOf[q]
        PROVE  p = q
    <3>1. p \in Requests \ {r} /\ q \in Requests \ {r}
      BY <2>5, <2>8
    <3>2. Executing(p) /\ Executing(q)
      BY <2>8, <3>1, OthersExecute, Zenon
    <3> QED
      BY <2>8, <3>2 DEF Executions
  <2> QED
    BY <2>6, <2>7, <2>8 DEF Executions
<1>5. CASE Write(r) \/ Abandon(r)
  <2>1. pc[r] = "wait" /\ pos[r] = 8 /\ how' = how
    BY <1>5 DEF Write, Abandon, Placed
  <2>2. asked' = asked \ {r} /\ running' = running /\ due' = [due EXCEPT ![r] = None]
    BY <1>5, Zenon DEF Write, Abandon, F!Answer, F!Abandon
  <2>3. pos'[r] = 7
    BY <1>5, <2>1 DEF Write, Abandon, Typed
  <2>4. ~Executing(r) /\ ~Executing(r)'
    BY <2>1, <2>3 DEF Executing
  <2>5. due' \in [Requests -> Answers \cup {None}] /\ due'[r] = None
    BY <2>2 DEF Executions
  <2>6. Owed(r)'
    BY <2>2, <2>4, <2>5 DEF Owed
  <2>7. ASSUME NEW q \in Requests \ {r}
        PROVE  Owed(q)'
    <3>1. Owed(q)
      BY DEF Executions
    <3>2. (Executing(q)' <=> Executing(q)) /\ how'[q] = how[q]
      BY OthersExecute, Zenon
    <3>3. due'[q] = due[q] /\ (q \in asked' <=> q \in asked)
      BY <2>2 DEF Executions
    <3>4. due'[q] # None => Bears(due[q].ids, due[q].by)'
      <4>1. echo' = echo
        BY OnlyTheWay
      <4> QED
        BY <3>1, <3>3, <4>1 DEF Owed, Bears
    <3> QED
      BY <2>2, <3>1, <3>2, <3>3, <3>4, Zenon DEF Owed
  <2>8. ASSUME NEW p \in Requests, NEW q \in Requests,
               Executing(p)', Executing(q)', KeyOf[p] = KeyOf[q]
        PROVE  p = q
    <3>1. p \in Requests \ {r} /\ q \in Requests \ {r}
      BY <2>4, <2>8
    <3>2. Executing(p) /\ Executing(q)
      BY <2>8, <3>1, OthersExecute, Zenon
    <3> QED
      BY <2>8, <3>2 DEF Executions
  <2> QED
    BY <2>5, <2>6, <2>7, <2>8 DEF Executions
<1>6. CASE Return(r)
  <2>1. UNCHANGED flightVars /\ how' = how /\ how[r] # "lead"
    BY <1>6 DEF Return
  <2> QED
    BY <2>1, SameExecutions, Zenon DEF Executing
<1>7. CASE Up(r)
  <2>1. UNCHANGED flightVars /\ how' = how
    BY <1>7, Zenon DEF Up
  <2>2. /\ pc[r] = "up" /\ pos[r] \in 1 .. 7
        /\ pos[r] = 1 => pos'[r] = 1 /\ pc'[r] = "done"
        /\ pos[r] > 1 => pos'[r] = pos[r] - 1 /\ pc'[r] = "up"
    BY <1>7, UpMoves
  <2>3. ~Executing(r) /\ ~Executing(r)'
    BY <2>2 DEF Executing
  <2> QED
    BY <2>1, <2>3, SameExecutions, Zenon
<1>8. CASE Panic(r)
  <2>1. /\ UNCHANGED flightVars /\ how' = how /\ pos' = pos
        /\ pc[r] = "down" /\ pc'[r] = "panicked"
    BY <1>8 DEF Panic, Typed
  <2>2. Executing(r)' <=> Executing(r)
    BY <2>1 DEF Executing
  <2> QED
    BY <2>1, <2>2, SameExecutions, Zenon
<1> QED
  BY <1>1, <1>2, <1>3, <1>4, <1>5, <1>6, <1>7, <1>8, Zenon DEF Handle

-----------------------------------------------------------------------------
(* The counters.                                                           *)

\* How a step moves a request.
Descends(r) ==
    /\ pc[r] = "down" /\ pos[r] \in 1 .. 8
    /\ pc'[r] = "down" /\ pos'[r] = pos[r] + 1
TurnsBack(r) ==
    /\ pc[r] = "down" /\ pos[r] \in {3, 4, 5, 6, 8, 9}
    /\ pc'[r] = "up" /\ pos'[r] = pos[r] - 1
    /\ pos[r] < 7 => reply'[r] # None /\ reply'[r].by = Chain[pos[r]]
Waits(r) ==
    /\ pc[r] \in {"down", "up"} /\ pos[r] = 8
    /\ pc'[r] = "wait" /\ pos'[r] = 8
Leaves(r) ==
    /\ pc[r] \in {"wait", "up"} /\ pos[r] = 8
    /\ pc'[r] = "up" /\ pos'[r] = 7
Ascends(r) ==
    /\ pc[r] = "up" /\ pos[r] \in 1 .. 7 /\ reply'[r] = reply[r]
    /\ pos[r] = 1 => pc'[r] = "done" /\ pos'[r] = 1
    /\ pos[r] > 1 => pc'[r] = "up" /\ pos'[r] = pos[r] - 1
Breaks(r) == pc[r] = "down" /\ pc'[r] = "panicked" /\ pos'[r] = pos[r]

Count(cond, n) == IF cond THEN n + 1 ELSE n
Discount(cond, n) == IF cond THEN n - 1 ELSE n

LEMMA Moves ==
    ASSUME Typed, Executions, NEW r \in Requests, Placed(r),
           Handle(r) \/ Abandon(r) \/ Panic(r)
    PROVE  /\ \/ Descends(r) \/ TurnsBack(r) \/ Waits(r) \/ Leaves(r) \/ Ascends(r)
              \/ Breaks(r)
           /\ accepted' = Count(pos[r] = 3 /\ Descends(r), accepted)
           /\ rejected' = Count(pos[r] = 4 /\ TurnsBack(r), rejected)
           /\ inFlight' = Discount((pos[r] = 7 /\ Ascends(r)) \/ (pos[r] > 7 /\ Breaks(r)),
                                   Count(pos[r] = 7 /\ Descends(r), inFlight))
<1>0. pos[r] \in 1 .. 9
  BY DEF Typed
<1>1. ASSUME NEW c \in Codes, c # "500", Refuse(r, c), pc[r] = "down", pos[r] \in {3, 4, 5, 6, 8}
      PROVE  TurnsBack(r)
  BY <1>1, RefusePlaced DEF TurnsBack
<1>2. ASSUME CallNext(r), pc[r] = "down", pos[r] \in 1 .. 8
      PROVE  Descends(r)
  BY <1>2 DEF CallNext, Descends, Typed
<1>3. CASE RequestMeta(r) \/ AccessLog(r)
  <2>1. pc[r] = "down" /\ (pos[r] = 1 \/ pos[r] = 2) /\ CallNext(r)
    BY <1>3, Here DEF RequestMeta, AccessLog
  <2>2. Descends(r)
    BY <1>2, <2>1
  <2>3. accepted' = accepted /\ rejected' = rejected /\ inFlight' = inFlight
    BY <1>3, Zenon DEF RequestMeta, AccessLog, recordVars
  <2> QED
    BY <2>1, <2>2, <2>3 DEF Count, Discount
<1>4. CASE Auth(r) \/ RateLimit(r) \/ Body(r) \/ ModelRouter(r)
  <2>1. /\ pc[r] = "down"
        /\ Auth(r) => pos[r] = 3
        /\ RateLimit(r) => pos[r] = 4
        /\ Body(r) => pos[r] = 5
        /\ ModelRouter(r) => pos[r] = 6
    BY <1>4, Here, Zenon DEF Auth, RateLimit, Body, ModelRouter, At
  <2>2. pos[r] \in {3, 4, 5, 6}
    BY <1>4, <2>1
  <2>3. CallNext(r) \/ \E c \in Codes : c # "500" /\ Refuse(r, c)
    BY <1>4, Outcomes
  <2>4. /\ CallNext(r) => Descends(r)
        /\ (\E c \in Codes : c # "500" /\ Refuse(r, c)) => TurnsBack(r)
    BY <1>1, <1>2, <2>1, <2>2
  <2>5. Descends(r) \/ TurnsBack(r)
    BY <2>3, <2>4, Zenon
  <2>6. ~(Descends(r) /\ TurnsBack(r))
    BY DEF Descends, TurnsBack
  <2>7. pc'[r] = "up" <=> TurnsBack(r)
    BY <2>5 DEF Descends, TurnsBack
  <2>8. CASE Auth(r)
    <3>1. rejected' = rejected /\ inFlight' = inFlight
      BY <2>8, Zenon DEF Auth
    <3>2. (TurnsBack(r) /\ accepted' = accepted) \/ (Descends(r) /\ accepted' = accepted + 1)
      <4>1. \/ accepted' = accepted /\ (Refuse(r, "401") \/ Refuse(r, "403"))
            \/ accepted' = accepted + 1 /\ CallNext(r)
        BY <2>8 DEF Auth
      <4>2. {"401", "403"} \subseteq Codes \ {"500"}
        BY DEF Codes
      <4> QED
        BY <2>4, <4>1, <4>2, Zenon
    <3> QED
      BY <2>1, <2>6, <2>8, <3>1, <3>2 DEF Count, Discount, Breaks, Descends, Ascends
  <2>9. CASE RateLimit(r)
    <3>1. accepted' = accepted /\ inFlight' = inFlight
      BY <2>9, Zenon DEF RateLimit
    <3>2. rejected' = IF pc'[r] = "up" THEN rejected + 1 ELSE rejected
      BY <2>9, Contexts DEF RateLimit
    <3> QED
      BY <2>1, <2>5, <2>7, <2>9, <3>1, <3>2 DEF Count, Discount, Ascends, Breaks
  <2>10. CASE Body(r) \/ ModelRouter(r)
    <3>1. accepted' = accepted /\ rejected' = rejected /\ inFlight' = inFlight
      BY <2>10, Zenon DEF Body, ModelRouter, recordVars
    <3> QED
      BY <2>1, <2>5, <2>10, <3>1 DEF Count, Discount, Ascends, Breaks
  <2> QED
    BY <1>4, <2>8, <2>9, <2>10
<1>5. CASE Metrics(r)
  <2>1. pc[r] = "down" /\ pos[r] = 7 /\ CallNext(r)
    BY <1>5, Here DEF Metrics
  <2>2. Descends(r)
    BY <1>2, <2>1
  <2>3. accepted' = accepted /\ rejected' = rejected /\ inFlight' = inFlight + 1
    BY <1>5, Zenon DEF Metrics
  <2>4. ~Ascends(r) /\ ~Breaks(r)
    BY <2>2 DEF Descends, Ascends, Breaks
  <2> QED
    BY <2>1, <2>2, <2>3, <2>4 DEF Count, Discount
<1>6. CASE Cache(r)
  <2>1. pc[r] = "down" /\ pos[r] = 8
    BY <1>6, Here DEF Cache
  <2>2. Refuse(r, "200") \/ CallNext(r) \/ (pc' = [pc EXCEPT ![r] = "wait"] /\ pos' = pos)
    BY <1>6, Contexts DEF Cache
  <2>3. Descends(r) \/ TurnsBack(r) \/ Waits(r)
    <3>1. CASE Refuse(r, "200")
      BY <1>1, <2>1, <3>1 DEF Codes
    <3>2. CASE CallNext(r)
      BY <1>2, <2>1, <3>2
    <3>3. CASE pc' = [pc EXCEPT ![r] = "wait"] /\ pos' = pos
      BY <2>1, <3>3 DEF Waits, Typed
    <3> QED
      BY <2>2, <3>1, <3>2, <3>3
  <2>4. accepted' = accepted /\ rejected' = rejected /\ inFlight' = inFlight
    BY <1>6, Zenon DEF Cache, recordVars
  <2>5. ~Breaks(r)
    BY <2>3 DEF Breaks, Descends, TurnsBack, Waits
  <2> QED
    BY <2>1, <2>3, <2>4, <2>5 DEF Count, Discount
<1>7. CASE Proxy(r)
  <2>1. pc[r] = "down" /\ pos[r] = 9 /\ pc'[r] = "up" /\ pos'[r] = 8
    BY <1>7, Here, ProxyAnswers DEF Proxy
  <2>2. accepted' = accepted /\ rejected' = rejected /\ inFlight' = inFlight
    BY <1>7, Zenon DEF Proxy, recordVars
  <2> QED
    BY <2>1, <2>2 DEF Count, Discount, TurnsBack, Breaks
<1>8. CASE Finish(r)
  <2>1. pc[r] = "up" /\ pos[r] = 8 /\ pc'[r] = "wait" /\ pos'[r] = 8
    BY <1>8, Here DEF Finish, Back, Typed
  <2>2. accepted' = accepted /\ rejected' = rejected /\ inFlight' = inFlight
    BY <1>8, Zenon DEF Finish, recordVars
  <2> QED
    BY <2>1, <2>2 DEF Count, Discount, Waits, Breaks
<1>9. CASE Write(r) \/ Return(r) \/ Abandon(r)
  <2>1. pc[r] \in {"wait", "up"} /\ pos[r] = 8 /\ pc'[r] = "up" /\ pos'[r] = 7
    <3>1. CASE Write(r) \/ Return(r)
      BY <3>1, CacheAnswers DEF Write, Return, Back
    <3>2. CASE Abandon(r)
      BY <3>2 DEF Abandon, Placed, Typed
    <3> QED
      BY <1>9, <3>1, <3>2
  <2>2. accepted' = accepted /\ rejected' = rejected /\ inFlight' = inFlight
    BY <1>9, Zenon DEF Write, Return, Abandon, recordVars
  <2> QED
    BY <2>1, <2>2 DEF Count, Discount, Leaves, Breaks
<1>10. CASE Up(r)
  <2>1. Ascends(r)
    BY <1>10, UpMoves, Zenon DEF Ascends
  <2>2. accepted' = accepted /\ rejected' = rejected
    BY <1>10, Zenon DEF Up
  <2>3. inFlight' = IF pos[r] = 7 THEN inFlight - 1 ELSE inFlight
    <3>1. Chain[pos[r]] = "Metrics" <=> pos[r] = 7
      BY <1>0, PlaceOf, Zenon
    <3> QED
      BY <1>10, <3>1, Zenon DEF Up
  <2>4. ~Descends(r) /\ ~TurnsBack(r) /\ ~Breaks(r)
    BY <2>1 DEF Ascends, Descends, TurnsBack, Breaks
  <2>5. /\ accepted' = Count(pos[r] = 3 /\ Descends(r), accepted)
        /\ rejected' = Count(pos[r] = 4 /\ TurnsBack(r), rejected)
    BY <2>2, <2>4, Zenon DEF Count
  <2>6. inFlight' = Discount((pos[r] = 7 /\ Ascends(r)) \/ (pos[r] > 7 /\ Breaks(r)),
                             Count(pos[r] = 7 /\ Descends(r), inFlight))
    BY <2>1, <2>3, <2>4, Zenon DEF Count, Discount
  <2> QED
    BY <2>1, <2>5, <2>6, Zenon
<1>11. CASE Panic(r)
  <2>1. pc[r] = "down" /\ pc'[r] = "panicked" /\ pos'[r] = pos[r]
    BY <1>11 DEF Panic, Typed
  <2>2. accepted' = accepted /\ rejected' = rejected
    BY <1>11, Zenon DEF Panic
  <2>3. inFlight' = IF pos[r] > 7 THEN inFlight - 1 ELSE inFlight
    BY <1>11, Positions DEF Panic
  <2>4. Breaks(r) /\ ~Descends(r) /\ ~TurnsBack(r) /\ ~Ascends(r)
    BY <2>1 DEF Ascends, Descends, TurnsBack, Breaks
  <2> QED
    BY <2>2, <2>3, <2>4 DEF Count, Discount
<1> QED
  BY <1>3, <1>4, <1>5, <1>6, <1>7, <1>8, <1>9, <1>10, <1>11 DEF Handle

\* Two sets of requests that differ in one of them at most.
LEMMA OneMore ==
    ASSUME NEW S \in SUBSET Requests, NEW T \in SUBSET Requests, NEW r \in Requests,
           \A q \in Requests \ {r} : q \in S <=> q \in T
    PROVE  /\ Cardinality(S) \in Nat
           /\ r \notin S /\ r \in T => Cardinality(T) = Cardinality(S) + 1
           /\ r \in S /\ r \notin T => Cardinality(T) = Cardinality(S) - 1
           /\ (r \in S <=> r \in T) => Cardinality(T) = Cardinality(S)
<1>1. IsFiniteSet(S) /\ IsFiniteSet(T)
  BY ChainAssumption, FS_Subset
<1>2. Cardinality(S) \in Nat /\ Cardinality(T) \in Nat
  BY <1>1, FS_CardinalityType
<1>3. ASSUME r \notin S, r \in T
      PROVE  Cardinality(T) = Cardinality(S) + 1
  <2>1. T = S \cup {r}
    BY <1>3
  <2> QED
    BY <1>1, <1>3, <2>1, FS_AddElement
<1>4. ASSUME r \in S, r \notin T
      PROVE  Cardinality(T) = Cardinality(S) - 1
  <2>1. T = S \ {r}
    BY <1>4
  <2> QED
    BY <1>1, <1>4, <2>1, FS_RemoveElement
<1>5. ASSUME r \in S <=> r \in T
      PROVE  T = S
  BY <1>5
<1> QED
  BY <1>2, <1>3, <1>4, <1>5

\* The counters count those that they should.
LEMMA StepSums ==
    ASSUME Typed, Executions, NEW r \in Requests, Placed(r), Placed(r)', Sums,
           Handle(r) \/ Abandon(r) \/ Panic(r)
    PROVE  Sums'
<1>0. pos[r] \in 1 .. 9
  BY DEF Typed
<1>1. \A q \in Requests \ {r} : /\ Accepted(q)' <=> Accepted(q)
                                /\ Limited(q)' <=> Limited(q)
                                /\ Within(q)' <=> Within(q)
  BY Others, Zenon DEF Accepted, Limited, Within
<1>2. Descends(r) \/ TurnsBack(r) \/ Waits(r) \/ Leaves(r) \/ Ascends(r) \/ Breaks(r)
  BY Moves
<1>3. /\ pc[r] = "down" => reply[r] = None
      /\ reply[r] # None /\ reply[r].by = "Auth" => pos[r] < 3
      /\ reply[r] # None /\ reply[r].by = "RateLimit" => pos[r] < 4
  BY DEF Placed, Answerable
<1>4. /\ pc'[r] \in {"down", "panicked"} => reply'[r] = None
      /\ reply'[r] # None /\ reply'[r].by = "Auth" => pos'[r] < 3
      /\ reply'[r] # None /\ reply'[r].by = "RateLimit" => pos'[r] < 4
  BY DEF Placed, Answerable
<1>5. /\ Chain[3] = "Auth" /\ Chain[4] = "RateLimit" /\ Chain[5] = "Body"
      /\ Chain[6] = "ModelRouter"
  BY Places
<1>6. IF pos[r] = 3 /\ Descends(r) THEN ~Accepted(r) /\ Accepted(r)'
      ELSE Accepted(r)' <=> Accepted(r)
  <2>1. CASE Descends(r)
    BY <1>3, <1>4, <2>1 DEF Descends, Accepted
  <2>2. CASE TurnsBack(r)
    BY <1>3, <1>4, <1>5, <2>2 DEF TurnsBack, Descends, Accepted
  <2>3. CASE Waits(r) \/ Leaves(r)
    BY <1>3, <1>4, <2>3 DEF Waits, Leaves, Descends, Accepted
  <2>4. CASE Ascends(r)
    BY <1>3, <1>4, <2>4 DEF Ascends, Descends, Accepted
  <2>5. CASE Breaks(r)
    BY <1>3, <1>4, <2>5 DEF Breaks, Descends, Accepted
  <2> QED
    BY <1>2, <2>1, <2>2, <2>3, <2>4, <2>5
<1>7. IF pos[r] = 4 /\ TurnsBack(r) THEN ~Limited(r) /\ Limited(r)'
      ELSE Limited(r)' <=> Limited(r)
  <2>1. CASE Descends(r)
    BY <1>3, <1>4, <2>1 DEF Descends, TurnsBack, Limited
  <2>2. CASE TurnsBack(r)
    BY <1>3, <1>4, <1>5, <2>2 DEF TurnsBack, Limited
  <2>3. CASE Waits(r) \/ Leaves(r)
    BY <1>3, <1>4, <2>3 DEF Waits, Leaves, TurnsBack, Limited
  <2>4. CASE Ascends(r)
    BY <1>3, <1>4, <2>4 DEF Ascends, TurnsBack, Limited
  <2>5. CASE Breaks(r)
    BY <1>3, <1>4, <2>5 DEF Breaks, TurnsBack, Limited
  <2> QED
    BY <1>2, <2>1, <2>2, <2>3, <2>4, <2>5
<1>8. /\ pos[r] = 7 /\ Descends(r) => ~Within(r) /\ Within(r)'
      /\ (pos[r] = 7 /\ Ascends(r)) \/ (pos[r] > 7 /\ Breaks(r)) => Within(r) /\ ~Within(r)'
      /\ \/ pos[r] = 7 /\ (Descends(r) \/ Ascends(r))
         \/ pos[r] > 7 /\ Breaks(r)
         \/ Within(r)' <=> Within(r)
      /\ ~(Descends(r) /\ (Ascends(r) \/ Breaks(r)))
  <2>1. CASE Descends(r)
    BY <2>1 DEF Descends, Ascends, Breaks, Within
  <2>2. CASE TurnsBack(r)
    BY <2>2 DEF TurnsBack, Descends, Ascends, Breaks, Within
  <2>3. CASE Waits(r) \/ Leaves(r)
    BY <2>3 DEF Waits, Leaves, Descends, Ascends, Breaks, Within
  <2>4. CASE Ascends(r)
    BY <2>4 DEF Descends, Ascends, Breaks, Within
  <2>5. CASE Breaks(r)
    BY <1>0, <2>5 DEF Descends, Ascends, Breaks, Within
  <2> QED
    BY <1>2, <2>1, <2>2, <2>3, <2>4, <2>5
<1>9. accepted' = Cardinality({q \in Requests : Accepted(q)'})
  <2> DEFINE S == {q \in Requests : Accepted(q)}
             T == {q \in Requests : Accepted(q)'}
  <2>1. S \in SUBSET Requests /\ T \in SUBSET Requests
    OBVIOUS
  <2>2. \A q \in Requests \ {r} : q \in S <=> q \in T
    BY <1>1
  <2>3. IF pos[r] = 3 /\ Descends(r) THEN r \notin S /\ r \in T ELSE r \in S <=> r \in T
    BY <1>6
  <2>4. accepted' = Count(pos[r] = 3 /\ Descends(r), Cardinality(S))
    BY Moves, Zenon DEF Sums
  <2> HIDE DEF S, T
  <2> QED
    BY <2>1, <2>2, <2>3, <2>4, OneMore DEF Count, T
<1>10. rejected' = Cardinality({q \in Requests : Limited(q)'})
  <2> DEFINE S == {q \in Requests : Limited(q)}
             T == {q \in Requests : Limited(q)'}
  <2>1. S \in SUBSET Requests /\ T \in SUBSET Requests
    OBVIOUS
  <2>2. \A q \in Requests \ {r} : q \in S <=> q \in T
    BY <1>1
  <2>3. IF pos[r] = 4 /\ TurnsBack(r) THEN r \notin S /\ r \in T ELSE r \in S <=> r \in T
    BY <1>7
  <2>4. rejected' = Count(pos[r] = 4 /\ TurnsBack(r), Cardinality(S))
    BY Moves, Zenon DEF Sums
  <2> HIDE DEF S, T
  <2> QED
    BY <2>1, <2>2, <2>3, <2>4, OneMore DEF Count, T
<1>11. inFlight' = Cardinality({q \in Requests : Within(q)'})
  <2> DEFINE S == {q \in Requests : Within(q)}
             T == {q \in Requests : Within(q)'}
             enters == pos[r] = 7 /\ Descends(r)
             exits == (pos[r] = 7 /\ Ascends(r)) \/ (pos[r] > 7 /\ Breaks(r))
  <2>1. S \in SUBSET Requests /\ T \in SUBSET Requests
    OBVIOUS
  <2>2. \A q \in Requests \ {r} : q \in S <=> q \in T
    BY <1>1
  <2>3. /\ enters => r \notin S /\ r \in T
        /\ exits => r \in S /\ r \notin T
        /\ ~enters /\ ~exits => (r \in S <=> r \in T)
        /\ ~(enters /\ exits)
    BY <1>8
  <2>4. inFlight' = Discount(exits, Count(enters, Cardinality(S)))
    BY Moves, Zenon DEF Sums
  <2> HIDE DEF S, T, enters, exits
  <2>5. inFlight' = Cardinality(T)
    BY <2>1, <2>2, <2>3, <2>4, OneMore DEF Count, Discount
  <2> QED
    BY <2>5 DEF T
<1> QED
  BY <1>9, <1>10, <1>11 DEF Sums

-----------------------------------------------------------------------------
(* The invariant, and what follows from it.                                *)

LEMMA InitIInv == Init => IInv
<1> SUFFICES ASSUME Init
             PROVE  IInv
  OBVIOUS
<1>1. Typed
  BY DEF Init, Typed
<1>2. ASSUME NEW r \in Requests
      PROVE  Placed(r) /\ Recorded(r) /\ Identified(r) /\ ~Executing(r)
  <2>1. /\ pc[r] = "down" /\ pos[r] = 1 /\ reply[r] = None /\ how[r] = None
        /\ scope[r] = None /\ logged[r] = <<>> /\ counted[r] = <<>>
    BY DEF Init
  <2>2. Placed(r)
    BY <2>1 DEF Placed, Answerable
  <2>3. Recorded(r)
    BY <2>1, ChainAssumption DEF Recorded, Through
  <2>4. Identified(r) /\ ~Executing(r)
    BY <2>1, ChainAssumption DEF Identified, Executing
  <2> QED
    BY <2>2, <2>3, <2>4
<1>3. Executions
  <2>1. asked = {} /\ due = [r \in Requests |-> None]
    BY DEF Init, F!Init
  <2>2. ASSUME NEW r \in Requests
        PROVE  Owed(r)
    BY <1>2, <2>1 DEF Owed
  <2> QED
    BY <1>2, <2>1, <2>2 DEF Executions
<1>4. Sums
  <2>1. \A r \in Requests : ~Accepted(r) /\ ~Limited(r) /\ ~Within(r)
    BY DEF Init, Accepted, Limited, Within
  <2>2. /\ {r \in Requests : Accepted(r)} = {}
        /\ {r \in Requests : Limited(r)} = {}
        /\ {r \in Requests : Within(r)} = {}
    BY <2>1
  <2>3. accepted = 0 /\ rejected = 0 /\ inFlight = 0
    BY DEF Init
  <2> QED
    BY <2>2, <2>3, FS_EmptySet DEF Sums
<1> QED
  BY <1>1, <1>2, <1>3, <1>4 DEF IInv

LEMMA NextIInv == IInv /\ [Next]_vars => IInv'
<1> SUFFICES ASSUME IInv, [Next]_vars
             PROVE  IInv'
  OBVIOUS
<1>1. CASE Next
  <2>1. PICK r \in Requests : Handle(r) \/ Abandon(r) \/ Panic(r)
    BY <1>1 DEF Next
  <2>2. Typed /\ Executions /\ Sums /\ Placed(r) /\ Recorded(r) /\ Identified(r)
    BY DEF IInv
  <2>3. Typed'
    BY <2>1, <2>2, StepTyped
  <2>4. Placed(r)' /\ Recorded(r)' /\ Identified(r)'
    BY <2>1, <2>2, StepPlaced, StepRecorded, StepIdentified
  <2>5. ASSUME NEW q \in Requests \ {r}
        PROVE  Placed(q)' /\ Recorded(q)' /\ Identified(q)'
    <3>1. Placed(q) /\ Recorded(q) /\ Identified(q)
      BY DEF IInv
    <3>2. /\ echo' = echo
          /\ pos'[q] = pos[q] /\ pc'[q] = pc[q] /\ how'[q] = how[q]
          /\ header'[q] = header[q] /\ reply'[q] = reply[q] /\ scope'[q] = scope[q]
          /\ logged'[q] = logged[q] /\ counted'[q] = counted[q]
      BY <2>1, <2>2, Others, Zenon
    <3>3. Placed(q)'
      BY <3>1, <3>2, Zenon DEF Placed, Answerable
    <3>4. Recorded(q)'
      BY <3>1, <3>2, Zenon DEF Recorded, Through, Refused
    <3>5. Identified(q)'
      BY <3>1, <3>2, Zenon DEF Identified, Named, Bears
    <3> QED
      BY <3>3, <3>4, <3>5
  <2>6. \A q \in Requests : Placed(q)' /\ Recorded(q)' /\ Identified(q)'
    BY <2>4, <2>5, Zenon
  <2>7. Executions'
    BY <2>1, <2>2, StepExecutions
  <2>8. Sums'
    BY <2>1, <2>2, <2>4, StepSums
  <2> QED
    BY <2>3, <2>6, <2>7, <2>8, Zenon DEF IInv
<1>2. CASE UNCHANGED vars
  <2>1. UNCHANGED <<echo, pos, pc, how, header, reply, scope, logged, counted, accepted,
                    rejected, inFlight, running, asked, due>>
    BY <1>2 DEF vars, requestVars, recordVars, flightVars
  <2>2. Typed'
    BY <2>1 DEF IInv, Typed
  <2>3. ASSUME NEW r \in Requests
        PROVE  Placed(r)' /\ Recorded(r)' /\ Identified(r)' /\ Owed(r)'
    <3>1. Placed(r) /\ Recorded(r) /\ Identified(r) /\ Owed(r)
      BY DEF IInv, Executions
    <3>2. Placed(r)' /\ Recorded(r)'
      BY <2>1, <3>1, Zenon DEF Placed, Answerable, Recorded, Through, Refused
    <3>3. Identified(r)'
      BY <2>1, <3>1, Zenon DEF Identified, Named, Bears
    <3>4. Owed(r)'
      BY <2>1, <3>1, Zenon DEF Owed, Executing, Bears
    <3> QED
      BY <3>2, <3>3, <3>4
  <2>4. Executions'
    <3>1. \A r \in Requests : Executing(r)' <=> Executing(r)
      BY <2>1, Zenon DEF Executing
    <3> QED
      BY <2>1, <2>3, <3>1 DEF IInv, Executions
  <2>5. Sums'
    BY <2>1 DEF IInv, Sums, Accepted, Limited, Within
  <2> QED
    BY <2>2, <2>3, <2>4, <2>5, Zenon DEF IInv
<1> QED
  BY <1>1, <1>2

LEMMA Inductive == Spec => []IInv
BY InitIInv, NextIInv, PTL DEF Spec

\* At most one line and one count for a request.
LEMMA Once ==
    ASSUME NEW s, NEW P, s # <<>> => \E e : s = <<e>>
    PROVE  Len(s) \in 0 .. 1
<1>1. CASE s = <<>>
  BY <1>1
<1>2. CASE s # <<>>
  <2>1. PICK e : s = <<e>>
    BY <1>2
  <2> QED
    BY <2>1
<1> QED
  BY <1>1, <1>2

\* Every variable has its type: a request has at most one line in the log and one
\* count, and no counter exceeds the requests there are.
THEOREM TypeCorrect == Spec => []TypeOK
<1>1. IInv => TypeOK
  <2> SUFFICES ASSUME IInv
               PROVE  TypeOK
    OBVIOUS
  <2>1. ASSUME NEW r \in Requests
        PROVE  Len(logged[r]) \in 0 .. 1 /\ Len(counted[r]) \in 0 .. 1
    <3>1. /\ logged[r] # <<>> => \E e : logged[r] = <<e>>
          /\ counted[r] # <<>> => \E e : counted[r] = <<e>>
      BY Zenon DEF IInv, Recorded
    <3> QED
      BY <3>1, Once
  <2>2. /\ accepted \in 0 .. Cardinality(Requests)
        /\ rejected \in 0 .. Cardinality(Requests)
        /\ inFlight \in 0 .. Cardinality(Requests)
    <3>1. ASSUME NEW S \in SUBSET Requests
          PROVE  Cardinality(S) \in 0 .. Cardinality(Requests)
      <4>1. IsFiniteSet(S) /\ Cardinality(S) <= Cardinality(Requests)
        BY ChainAssumption, FS_Subset
      <4>2. Cardinality(S) \in Nat /\ Cardinality(Requests) \in Nat
        BY <4>1, ChainAssumption, FS_CardinalityType
      <4> QED
        BY <4>1, <4>2
    <3>2. /\ {r \in Requests : Accepted(r)} \in SUBSET Requests
          /\ {r \in Requests : Limited(r)} \in SUBSET Requests
          /\ {r \in Requests : Within(r)} \in SUBSET Requests
      OBVIOUS
    <3> QED
      BY <3>1, <3>2, Zenon DEF IInv, Sums
  <2> QED
    BY <2>1, <2>2, Places DEF IInv, Typed, TypeOK
<1> QED
  BY <1>1, Inductive, PTL

\* What the counters say together, for any number of requests: accepted, rejected,
\* the gauge and the labels of gateway_requests_total each count exactly the requests
\* that their middleware saw pass, and what is recorded names whom it is about.
THEOREM Counters == Spec => []CountersAddUp
<1>1. IInv => CountersAddUp
  <2> SUFFICES ASSUME IInv
               PROVE  CountersAddUp
    OBVIOUS
  <2> DEFINE notPast(layer) ==
                 {r \in Requests : pc[r] \in {"down", "panicked"} /\ pos[r] <= Position(layer)}
             refusedBy(layer) == {r \in Requests : reply[r] # None /\ reply[r].by = layer}
             refused == UNION {refusedBy(l) : l \in {"Auth", "RateLimit", "Body", "ModelRouter"}}
             entered == Requests \ (notPast("Metrics") \cup refused)
             within == {r \in entered : pos[r] > Position("Metrics") \/ Chain[pos[r]] = "Metrics"}
  <2>1. \A r \in Requests : r \in refused <=> Refused(r)
    BY DEF Refused, Refusers
  <2>2. \A r \in Requests : r \in entered <=>
            ~(pc[r] \in {"down", "panicked"} /\ pos[r] <= 7) /\ ~Refused(r)
    BY <2>1, Positions
  <2>3. \A r \in Requests : r \in within <=> r \in entered /\ pos[r] >= 7
    <3>1. ASSUME NEW r \in Requests
          PROVE  (pos[r] > Position("Metrics") \/ Chain[pos[r]] = "Metrics") <=> pos[r] >= 7
      <4>1. pos[r] \in 1 .. 9
        BY DEF IInv, Typed
      <4> QED
        BY <4>1, PlaceOf, Positions
    <3> QED
      BY <3>1
  <2>4. ASSUME NEW r \in Requests
        PROVE  /\ Within(r) <=> r \in within /\ pc[r] # "panicked"
               /\ Through(r) <=> r \in entered \ within
    <3>1. /\ pos[r] \in 1 .. 9
          /\ pc[r] \in {"down", "wait", "up", "done", "panicked"}
      BY DEF IInv, Typed
    <3>2. /\ pc[r] = "wait" => pos[r] = 8
          /\ pc[r] = "up" => pos[r] <= 8
          /\ pc[r] = "done" => pos[r] = 1
          /\ Refused(r) => pos[r] < 6
      BY <3>1 DEF IInv, Placed, Answerable, Refused, Refusers
    <3>3. Within(r) <=> r \in within /\ pc[r] # "panicked"
      <4>1. pc[r] \in {"down", "panicked"} => ~Refused(r)
        BY Zenon DEF IInv, Placed, Refused
      <4> HIDE DEF within, entered
      <4> QED
        BY <2>2, <2>3, <3>1, <3>2, <4>1 DEF Within
    <3>4. Through(r) <=> r \in entered \ within
      <4> HIDE DEF within, entered
      <4> QED
        BY <2>2, <2>3, <3>1, <3>2 DEF Through
    <3> QED
      BY <3>3, <3>4
  <2>5. accepted = Cardinality(Requests \ (notPast("Auth") \cup refusedBy("Auth")))
    <3>1. Requests \ (notPast("Auth") \cup refusedBy("Auth")) = {r \in Requests : Accepted(r)}
      BY Positions DEF Accepted
    <3> QED
      BY <3>1, Zenon DEF IInv, Sums
  <2>6. rejected = Cardinality(refusedBy("RateLimit"))
    <3>1. refusedBy("RateLimit") = {r \in Requests : Limited(r)}
      BY DEF Limited
    <3> QED
      BY <3>1, Zenon DEF IInv, Sums
  <2>7. inFlight = Cardinality({r \in within : pc[r] # "panicked"})
    <3>1. within \subseteq Requests
      OBVIOUS
    <3> HIDE DEF within
    <3>2. {r \in within : pc[r] # "panicked"} = {r \in Requests : Within(r)}
      BY <2>4, <3>1
    <3> QED
      BY <3>2, Zenon DEF IInv, Sums
  <2>8. {r \in Requests : counted[r] # <<>>} = entered \ within
    <3>1. entered \subseteq Requests
      OBVIOUS
    <3>2. \A r \in Requests : counted[r] # <<>> <=> Through(r)
      BY Zenon DEF IInv, Recorded
    <3> HIDE DEF within, entered
    <3> QED
      BY <2>4, <3>1, <3>2
  <2>9. ASSUME NEW r \in Requests
        PROVE  /\ scope[r] # "ip"
               /\ \A i \in DOMAIN logged[r] : logged[r][i].id
               /\ \A i \in DOMAIN counted[r] : counted[r][i].route
    <3>1. Recorded(r)
      BY DEF IInv
    <3>2. \A i \in DOMAIN logged[r] : logged[r][i].id
      <4>1. CASE logged[r] = <<>>
        BY <4>1
      <4>2. CASE logged[r] # <<>>
        <5>1. PICK e : logged[r] = <<e>> /\ e.id
          BY <3>1, <4>2 DEF Recorded
        <5> QED
          BY <5>1
      <4> QED
        BY <4>1, <4>2
    <3>3. \A i \in DOMAIN counted[r] : counted[r][i].route
      <4>1. CASE counted[r] = <<>>
        BY <4>1
      <4>2. CASE counted[r] # <<>>
        <5>1. PICK e : counted[r] = <<e>> /\ e.route
          BY <3>1, <4>2 DEF Recorded
        <5> QED
          BY <5>1
      <4> QED
        BY <4>1, <4>2
    <3> QED
      BY <3>1, <3>2, <3>3 DEF Recorded
  <2> QED
    BY <2>5, <2>6, <2>7, <2>8, <2>9 DEF CountersAddUp
<1> QED
  BY <1>1, Inductive, PTL

\* A response bears the identifier of its own request, but for a recorded one, and
\* no handler finds a context missing.
THEOREM Identifiers == Spec => []RepliesIdentified
<1>1. IInv => RepliesIdentified
  BY Zenon DEF IInv, Placed, Answerable, Identified, Named, RepliesIdentified
<1> QED
  BY <1>1, Inductive, PTL

\* The chain asks, waits, and answers as single flight promises (SingleFlight, which
\* Coalescer implements): a step of a handler is a step of single flight, or it does
\* not touch it.
THEOREM UsesSingleFlight == Spec => F!Spec
<1>1. Init => F!Init
  BY DEF Init
<1>2. ASSUME IInv, [Next]_vars
      PROVE  [F!Next]_(F!vars)
  <2>1. CASE UNCHANGED vars
    BY <2>1 DEF vars, flightVars, F!vars
  <2>2. CASE Next
    <3>1. PICK r \in Requests : Handle(r) \/ Abandon(r) \/ Panic(r)
      BY <2>2 DEF Next
    <3>2. CASE \/ RequestMeta(r) \/ AccessLog(r) \/ Auth(r) \/ RateLimit(r) \/ Body(r)
               \/ ModelRouter(r) \/ Metrics(r) \/ Proxy(r) \/ Return(r) \/ Up(r) \/ Panic(r)
      <4>1. UNCHANGED flightVars
        BY <3>2, Zenon DEF RequestMeta, AccessLog, Auth, RateLimit, Body, ModelRouter, Metrics,
                           Proxy, Return, Up, Panic
      <4> QED
        BY <4>1 DEF flightVars, F!vars
    <3>3. CASE Cache(r)
      <4>1. UNCHANGED flightVars \/ F!Ask(r)
        BY <3>3, Zenon DEF Cache
      <4> QED
        BY <4>1 DEF flightVars, F!vars, F!Next
    <3>4. CASE Finish(r)
      <4> DEFINE v == [by |-> r, code |-> reply[r].code, ids |-> reply[r].ids]
      <4>1. v \in Answers /\ KeyOf[r] \in Keys
        <5>1. Typed /\ Placed(r)
          BY <1>2 DEF IInv
        <5>2. pc[r] = "up" /\ pos[r] = 8
          BY <3>4, <5>1, Here DEF Finish, Back
        <5>3. reply[r] \in [by : {"Proxy"}, code : {"200", "503"},
                            ids : SUBSET (Requests \cup {Upstream})]
          BY <5>1, <5>2, Zenon DEF Placed
        <5> QED
          BY <5>3, ChainAssumption DEF Answers
      <4>2. F!Finish(KeyOf[r], v)
        BY <3>4, Zenon DEF Finish
      <4> QED
        BY <4>1, <4>2, Zenon DEF F!Next
    <3>5. CASE Write(r) \/ Abandon(r)
      BY <3>5, Zenon DEF Write, Abandon, F!Next
    <3> QED
      BY <3>1, <3>2, <3>3, <3>4, <3>5, Zenon DEF Handle
  <2> QED
    BY <1>2, <2>1, <2>2
<1> QED
  BY <1>1, <1>2, Inductive, PTL DEF Spec, F!Spec
=============================================================================
