------------------------ MODULE ProxyFailoverProofs ------------------------
(***************************************************************************)
(* Theorems about ProxyFailover and its breakers, for any number of        *)
(* requests and providers, any candidates, budgets and breaker settings.   *)
(***************************************************************************)
EXTENDS ProxyFailover, FiniteSetTheorems, TLAPS

(***************************************************************************)
(* The breaker.                                                            *)
(***************************************************************************)

\* An open breaker waits for nobody.  A half-open one has had fewer successes in a
\* row than it takes, and every probe it started succeeded or is on its way.
Sound(b) ==
    /\ IsFiniteSet(b.inflight)
    /\ b.state = "open" => b.inflight = {}
    /\ b.state = "half-open" =>
          /\ b.requests = b.streak + Cardinality(b.inflight)
          /\ b.requests <= HalfOpenRequests
          /\ b.streak < HalfOpenRequests

LEMMA Updated ==
    ASSUME NEW Calls, NEW b \in Breakers(Calls)
    PROVE  /\ \A n \in Nat : /\ [b EXCEPT !.requests = n] \in Breakers(Calls)
                             /\ [b EXCEPT !.failures = n] \in Breakers(Calls)
                             /\ [b EXCEPT !.streak = n] \in Breakers(Calls)
           /\ \A S \in SUBSET Calls : [b EXCEPT !.inflight = S] \in Breakers(Calls)
BY DEF Breakers

LEMMA EnterSound ==
    ASSUME NEW Calls, NEW state \in {"closed", "half-open", "open"}
    PROVE  /\ Enter(state) \in Breakers(Calls)
           /\ Sound(Enter(state))
           /\ Enter(state).inflight = {}
           /\ Enter(state).state = state
<1>1. Enter(state) \in Breakers(Calls)
  BY DEF Enter, Breakers
<1>2. Sound(Enter(state))
  BY FS_EmptySet, BreakerAssumption DEF Enter, Sound
<1> QED
  BY <1>1, <1>2 DEF Enter

LEMMA AdmitSound ==
    ASSUME NEW Calls, NEW b \in Breakers(Calls), NEW c \in Calls,
           Sound(b), Admits(b), c \notin b.inflight
    PROVE  /\ Admit(b, c) \in Breakers(Calls)
           /\ Sound(Admit(b, c))
           /\ Admit(b, c).inflight = b.inflight \cup {c}
           /\ Admit(b, c).state = b.state
<1>1. /\ b.requests \in Nat /\ b.failures \in Nat /\ b.streak \in Nat
      /\ b.state \in {"closed", "half-open", "open"} /\ b.inflight \subseteq Calls
  BY DEF Breakers
<1>2. /\ Admit(b, c).inflight = b.inflight \cup {c}
      /\ Admit(b, c).state = b.state
      /\ Admit(b, c).requests = b.requests + 1
      /\ Admit(b, c).streak = b.streak
  BY DEF Admit, Breakers
<1>3. Admit(b, c) \in Breakers(Calls)
  <2> DEFINE counted == [b EXCEPT !.requests = b.requests + 1]
  <2>1. counted \in Breakers(Calls)
    <3>1. b.requests + 1 \in Nat
      BY <1>1
    <3> QED
      BY <3>1, Updated, Zenon
  <2>2. b.inflight \cup {c} \in SUBSET Calls
    BY <1>1
  <2>3. Admit(b, c) = [counted EXCEPT !.inflight = b.inflight \cup {c}]
    BY DEF Admit, Breakers
  <2> HIDE DEF counted
  <2> QED
    BY <2>1, <2>2, <2>3, Updated
<1>4. /\ IsFiniteSet(b.inflight \cup {c})
      /\ Cardinality(b.inflight \cup {c}) = Cardinality(b.inflight) + 1
      /\ Cardinality(b.inflight) \in Nat
  BY FS_AddElement, FS_CardinalityType DEF Sound
<1>5. HalfOpenRequests \in Nat
  BY BreakerAssumption
<1>6. Sound(Admit(b, c))
  BY <1>1, <1>2, <1>4, <1>5 DEF Sound, Admits
<1> QED
  BY <1>2, <1>3, <1>6

LEMMA AfterSound ==
    ASSUME NEW Calls, NEW b \in Breakers(Calls), NEW c \in Calls,
           NEW success \in BOOLEAN, Sound(b)
    PROVE  /\ After(b, c, success) \in Breakers(Calls)
           /\ Sound(After(b, c, success))
           /\ After(b, c, success).inflight \subseteq b.inflight \ {c}
           /\ b.state = "closed" /\ After(b, c, success).state = "open" =>
                ~success /\ b.requests >= MinimumRequests
<1> DEFINE over == [b EXCEPT !.inflight = @ \ {c}]
           probed == [over EXCEPT !.streak = @ + 1]
           failed == [over EXCEPT !.failures = @ + 1]
<1>1. /\ b.requests \in Nat /\ b.failures \in Nat /\ b.streak \in Nat
      /\ b.state \in {"closed", "half-open", "open"} /\ b.inflight \subseteq Calls
  BY DEF Breakers
<1>2. HalfOpenRequests \in Nat /\ MinimumRequests \in Nat
  BY BreakerAssumption
<1>3. /\ IsFiniteSet(b.inflight \ {c})
      /\ Cardinality(b.inflight \ {c}) \in Nat
      /\ c \in b.inflight => Cardinality(b.inflight \ {c}) = Cardinality(b.inflight) - 1
      /\ Cardinality(b.inflight) \in Nat
  BY FS_RemoveElement, FS_CardinalityType DEF Sound
<1>8. /\ over \in Breakers(Calls) /\ probed \in Breakers(Calls) /\ failed \in Breakers(Calls)
  <2>1. over \in Breakers(Calls)
    BY <1>1, Updated
  <2>2. over.streak + 1 \in Nat /\ over.failures + 1 \in Nat
    BY <2>1 DEF Breakers
  <2> HIDE DEF over
  <2> QED
    BY <2>1, <2>2, Updated
<1>4. /\ over \in Breakers(Calls) /\ probed \in Breakers(Calls) /\ failed \in Breakers(Calls)
      /\ over.inflight = b.inflight \ {c} /\ probed.inflight = b.inflight \ {c}
      /\ failed.inflight = b.inflight \ {c}
      /\ over.state = b.state /\ probed.state = b.state /\ failed.state = b.state
      /\ probed.requests = b.requests /\ failed.requests = b.requests
      /\ probed.streak = b.streak + 1
  BY <1>8, SMT DEF Breakers
<1>5. CASE c \notin b.inflight
  <2>1. After(b, c, success) = b
    BY <1>5 DEF After
  <2> QED
    BY <2>1, <1>5
<1>6. CASE c \in b.inflight /\ b.state = "closed"
  <2>1. After(b, c, success) =
          IF success THEN over ELSE IF ReadyToTrip(failed) THEN Enter("open") ELSE failed
    BY <1>6 DEF After
  <2>2. CASE success
    <3>1. After(b, c, success) = over
      BY <2>1, <2>2
    <3>2. Sound(over)
      BY <1>3, <1>4, <1>6 DEF Sound
    <3> QED
      BY <3>1, <3>2, <1>4, <1>6
  <2>3. CASE ~success /\ ReadyToTrip(failed)
    <3>1. After(b, c, success) = Enter("open")
      BY <2>1, <2>3
    <3>2. b.requests >= MinimumRequests
      BY <2>3, <1>4 DEF ReadyToTrip
    <3>3. /\ Enter("open") \in Breakers(Calls) /\ Sound(Enter("open"))
          /\ Enter("open").inflight = {}
      BY EnterSound
    <3> QED
      BY <3>1, <3>2, <3>3, <2>3
  <2>4. CASE ~success /\ ~ReadyToTrip(failed)
    <3>1. After(b, c, success) = failed
      BY <2>1, <2>4
    <3>2. Sound(failed)
      BY <1>3, <1>4, <1>6 DEF Sound
    <3> QED
      BY <3>1, <3>2, <1>4, <1>6
  <2> QED
    BY <2>2, <2>3, <2>4
<1>7. CASE c \in b.inflight /\ b.state # "closed"
  <2>1. After(b, c, success) =
          IF ~success THEN Enter("open")
          ELSE IF probed.streak >= HalfOpenRequests THEN Enter("closed") ELSE probed
    BY <1>7 DEF After
  <2>2. CASE After(b, c, success) \in {Enter("open"), Enter("closed")}
    <3>1. \A state \in {"open", "closed"} :
            /\ Enter(state) \in Breakers(Calls) /\ Sound(Enter(state))
            /\ Enter(state).inflight = {}
      BY EnterSound
    <3> QED
      BY <3>1, <2>2, <1>7
  <2>3. CASE success /\ ~(probed.streak >= HalfOpenRequests)
    <3>1. After(b, c, success) = probed
      BY <2>1, <2>3
    <3>2. b.state = "half-open"
      BY <1>1, <1>7 DEF Sound
    <3>3. probed.streak < HalfOpenRequests
      BY <2>3, <1>1, <1>2, <1>4
    <3>4. Sound(probed)
      BY <1>1, <1>2, <1>3, <1>4, <1>7, <3>2, <3>3 DEF Sound
    <3> QED
      BY <3>1, <3>4, <1>4, <1>7
  <2> QED
    BY <2>1, <2>2, <2>3
<1> QED
  BY <1>1, <1>5, <1>6, <1>7

(***************************************************************************)
(* The invariant.                                                          *)
(***************************************************************************)

\* Where a request can be: at a candidate, if it has any, and then only its own
\* client's leaving dooms a call.
Placed ==
    /\ DOMAIN used = Requests
    /\ \A r \in Requests :
          /\ Candidates[r] # <<>> => index[r] \in DOMAIN Candidates[r]
          /\ Candidates[r] = <<>> => index[r] = 1 /\ pc[r] \in {"ready", "back"}
          /\ pc[r] = "doomed" => r \in gone

\* How many of its candidates a request has given up.
GivenUp(r) == IF reply[r] = "unavailable" THEN Len(Candidates[r]) ELSE index[r] - 1

\* Those given up have had their whole budget, the active one as many failures as
\* there were attempts before this one, the others none.
Spent ==
    \A r \in Requests :
        /\ failovers[r] = GivenUp(r)
        /\ reply[r] = "unavailable" => index[r] = Len(Candidates[r])
        /\ Candidates[r] # <<>> => attempt[r] <= Budget(Active(r))
        /\ \A i \in DOMAIN Candidates[r] :
              used[r][i] = IF i <= GivenUp(r) THEN Budget(Candidates[r][i])
                           ELSE IF i = index[r] THEN attempt[r] - 1 ELSE 0

\* Each breaker is sound, and what it has in flight is in flight.
Calls ==
    \A p \in Providers : Sound(breaker[p]) /\ breaker[p].inflight \subseteq InFlight(p)

IInv == TypeOK /\ Placed /\ Spent /\ Calls

-----------------------------------------------------------------------------
LEMMA CandidateFacts ==
    ASSUME NEW r \in Requests
    PROVE  /\ Len(Candidates[r]) \in Nat
           /\ DOMAIN Candidates[r] = 1 .. Len(Candidates[r])
           /\ Candidates[r] # <<>> <=> Len(Candidates[r]) # 0
           /\ \A i \in DOMAIN Candidates[r] : Candidates[r][i] \in Providers
BY ProxyAssumption

LEMMA BudgetType ==
    ASSUME NEW p \in Providers
    PROVE  Budget(p) \in Nat \ {0}
BY ProxyAssumption DEF Budget

\* As long as the breakers stay, and one request that is not in flight moves.
LEMMA CallsKept ==
    ASSUME Calls, NEW r \in Requests, UNCHANGED breaker,
           pc[r] \notin {"flying", "doomed"},
           \A q \in Requests \ {r} : pc'[q] = pc[q] /\ index'[q] = index[q]
    PROVE  Calls'
<1>1. ASSUME NEW p \in Providers PROVE InFlight(p) \subseteq InFlight(p)'
  BY DEF InFlight, Active
<1>2. \A p \in Providers : Sound(breaker[p])' <=> Sound(breaker[p])
  BY DEF Sound
<1> QED
  BY <1>1, <1>2 DEF Calls

-----------------------------------------------------------------------------
LEMMA InductiveInit == Init => IInv
<1> SUFFICES ASSUME Init PROVE IInv
  OBVIOUS
<1>1. \A p \in Providers : breaker[p] = Enter("closed")
  BY DEF Init, Initially
<1>2. \A r \in Requests : DOMAIN Candidates[r] = 1 .. Len(Candidates[r])
                       /\ Len(Candidates[r]) \in Nat
                       /\ (Candidates[r] # <<>> <=> Len(Candidates[r]) # 0)
  BY CandidateFacts
<1>3. TypeOK
  <2>1. breaker \in [Providers -> Breakers(Requests)]
    BY EnterSound DEF Init, Initially
  <2>2. \A r \in Requests :
          /\ used[r] \in [DOMAIN Candidates[r] -> Nat]
          /\ pc[r] # "back" /\ Candidates[r] # <<>> => index[r] \in DOMAIN Candidates[r]
          /\ came[r] = None <=> pc[r] # "answered"
          /\ reply[r] = None <=> pc[r] # "back"
    BY <1>2 DEF Init
  <2> QED
    BY <2>1, <2>2 DEF Init, TypeOK
<1>4. Placed
  BY <1>2 DEF Init, Placed
<1>5. Spent
  <2> SUFFICES ASSUME NEW r \in Requests
               PROVE  /\ failovers[r] = GivenUp(r)
                      /\ reply[r] = "unavailable" => index[r] = Len(Candidates[r])
                      /\ Candidates[r] # <<>> => attempt[r] <= Budget(Active(r))
                      /\ \A i \in DOMAIN Candidates[r] :
                            used[r][i] = IF i <= GivenUp(r) THEN Budget(Candidates[r][i])
                                         ELSE IF i = index[r] THEN attempt[r] - 1 ELSE 0
    BY DEF Spent
  <2>1. GivenUp(r) = 0 /\ reply[r] # "unavailable"
    BY ProxyAssumption DEF Init, GivenUp
  <2>2. Candidates[r] # <<>> => Active(r) \in Providers
    BY CandidateFacts DEF Init, Active
  <2>3. Candidates[r] # <<>> => attempt[r] <= Budget(Active(r))
    BY <2>2, BudgetType DEF Init
  <2>4. \A i \in DOMAIN Candidates[r] : used[r][i] = 0 /\ ~(i <= 0)
    BY <1>2 DEF Init
  <2> QED
    BY <2>1, <2>3, <2>4 DEF Init
<1>6. Calls
  BY <1>1, EnterSound DEF Calls
<1> QED
  BY <1>3, <1>4, <1>5, <1>6 DEF IInv

-----------------------------------------------------------------------------
(* Steps of a request that move nothing but pc and what it came to.        *)

\* The end of a request, other than "unavailable".
LEMMA EndKeeps ==
    ASSUME IInv, NEW r \in Requests, pc[r] \in {"ready", "copying"},
           NEW a \in {"no_route", "build_failed", "relayed"},
           pc' = [pc EXCEPT ![r] = "back"], reply' = [reply EXCEPT ![r] = a],
           UNCHANGED <<sharedVars, index, attempt, came, used, totalRetries, failovers>>
    PROVE  IInv'
<1> USE DEF sharedVars
<1>1. TypeOK'
  BY ProxyAssumption DEF IInv, TypeOK
<1>2. Placed'
  BY DEF IInv, TypeOK, Placed
<1>3. Spent'
  <2>1. reply[r] = None
    BY DEF IInv, TypeOK
  <2>2. \A q \in Requests : GivenUp(q)' = GivenUp(q) /\ (reply'[q] = "unavailable" <=> reply[q] = "unavailable")
    BY <2>1, ProxyAssumption DEF IInv, TypeOK, GivenUp
  <2>3. \A q \in Requests : Active(q)' = Active(q)
    BY DEF Active
  <2> QED
    BY <2>2, <2>3 DEF IInv, Spent
<1>4. Calls'
  BY CallsKept DEF IInv, TypeOK
<1> QED
  BY <1>1, <1>2, <1>3, <1>4 DEF IInv

\* The counters and the reply stay, and so does the account of them.
LEMMA SpentKept ==
    ASSUME Spent, UNCHANGED <<index, attempt, used, failovers, reply>>
    PROVE  Spent'
<1>1. \A q \in Requests : GivenUp(q)' = GivenUp(q) /\ Active(q)' = Active(q)
  BY DEF GivenUp, Active
<1> QED
  BY <1>1 DEF Spent

\* A request that can be sent is at one of the providers, and in no breaker's flight.
LEMMA Ready ==
    ASSUME IInv, NEW r \in Requests, pc[r] = "ready", Builds(r)
    PROVE  /\ Active(r) \in Providers
           /\ \A p \in Providers : r \notin breaker[p].inflight
<1>1. Active(r) \in Providers
  BY CandidateFacts DEF IInv, Placed, Builds, Active
<1>2. \A p \in Providers : r \notin InFlight(p)
  BY DEF InFlight
<1> QED
  BY <1>1, <1>2 DEF IInv, Calls

LEMMA InductiveAdmitted ==
    ASSUME IInv, NEW r \in Requests, Admitted(r)
    PROVE  IInv'
<1> DEFINE p == Active(r)
           b == Admit(breaker[p], r)
<1>1. p \in Providers /\ r \notin breaker[p].inflight
  BY Ready DEF Admitted
<1>2. /\ pc[r] = "ready" /\ Candidates[r] # <<>>
      /\ breaker' = [breaker EXCEPT ![p] = b]
      /\ pc' = [pc EXCEPT ![r] = IF r \in Bound \cap gone THEN "doomed" ELSE "flying"]
      /\ UNCHANGED <<healthy, sick, gone, index, attempt, came, used, totalRetries, failovers, reply>>
  BY DEF Admitted, Builds
<1>3. breaker[p] \in Breakers(Requests) /\ Sound(breaker[p]) /\ Admits(breaker[p])
  BY <1>1 DEF IInv, TypeOK, Calls, Admitted
<1>4. /\ b \in Breakers(Requests) /\ Sound(b) /\ b.inflight = breaker[p].inflight \cup {r}
  BY <1>1, <1>3, AdmitSound
<1> HIDE DEF b, p
<1>5. pc'[r] \in {"flying", "doomed"} /\ \A q \in Requests \ {r} : pc'[q] = pc[q]
  BY <1>2 DEF IInv, TypeOK
<1>6. TypeOK'
  <2>1. breaker' \in [Providers -> Breakers(Requests)]
    BY <1>1, <1>2, <1>4 DEF IInv, TypeOK
  <2>2. pc' \in [Requests -> {"ready", "flying", "doomed", "answered", "copying", "back"}]
    BY <1>2 DEF IInv, TypeOK
  <2>3. \A q \in Requests :
          /\ used'[q] \in [DOMAIN Candidates[q] -> Nat]
          /\ pc'[q] # "back" /\ Candidates[q] # <<>> => index'[q] \in DOMAIN Candidates[q]
          /\ came'[q] = None <=> pc'[q] # "answered"
          /\ reply'[q] = None <=> pc'[q] # "back"
    BY <1>2, <1>5 DEF IInv, TypeOK
  <2> QED
    BY <1>2, <2>1, <2>2, <2>3 DEF IInv, TypeOK
<1>7. Placed'
  BY <1>2, <1>5 DEF IInv, TypeOK, Placed
<1>8. Spent'
  BY <1>2, SpentKept DEF IInv
<1>9. Calls'
  <2> SUFFICES ASSUME NEW x \in Providers
               PROVE  Sound(breaker'[x]) /\ breaker'[x].inflight \subseteq InFlight(x)'
    BY DEF Calls, Sound
  <2>1. InFlight(x) \subseteq InFlight(x)'
    BY <1>2, <1>5 DEF InFlight, Active
  <2>2. x = p => r \in InFlight(x)'
    BY <1>2, <1>5 DEF InFlight, Active, p
  <2>3. CASE x = p
    <3>1. breaker'[x] = b
      BY <2>3, <1>1, <1>2 DEF IInv, TypeOK
    <3>2. breaker[p].inflight \subseteq InFlight(x)
      BY <1>1, <2>3 DEF IInv, Calls
    <3> QED
      BY <3>1, <3>2, <2>1, <2>2, <2>3, <1>4
  <2>4. CASE x # p
    <3>1. breaker'[x] = breaker[x]
      BY <2>4, <1>1, <1>2 DEF IInv, TypeOK
    <3> QED
      BY <3>1, <2>1 DEF IInv, Calls
  <2> QED
    BY <2>3, <2>4
<1> QED
  BY <1>6, <1>7, <1>8, <1>9 DEF IInv

LEMMA InductiveRefused ==
    ASSUME IInv, NEW r \in Requests, Refused(r)
    PROVE  IInv'
<1> USE DEF sharedVars
<1>1. /\ pc[r] = "ready" /\ Candidates[r] # <<>>
      /\ came' = [came EXCEPT ![r] = "refused"]
      /\ pc' = [pc EXCEPT ![r] = "answered"]
      /\ UNCHANGED <<sharedVars, index, attempt, used, totalRetries, failovers, reply>>
  BY DEF Refused, Builds
<1>2. TypeOK'
  BY <1>1, ProxyAssumption DEF IInv, TypeOK
<1>3. Placed'
  BY <1>1 DEF IInv, TypeOK, Placed
<1>4. Spent'
  BY <1>1, SpentKept DEF IInv
<1>5. Calls'
  BY <1>1, CallsKept DEF IInv, TypeOK
<1> QED
  BY <1>2, <1>3, <1>4, <1>5 DEF IInv

\* A call that is under way, or has come to something, is at one of the providers.
LEMMA Under ==
    ASSUME IInv, NEW r \in Requests, pc[r] \in {"flying", "doomed", "answered"}
    PROVE  /\ Candidates[r] # <<>> /\ index[r] \in DOMAIN Candidates[r]
           /\ Active(r) \in Providers
<1>1. Candidates[r] # <<>> /\ index[r] \in DOMAIN Candidates[r]
  BY DEF IInv, Placed
<1> QED
  BY <1>1, CandidateFacts DEF Active

LEMMA InductiveOutcome ==
    ASSUME IInv, NEW r \in Requests, NEW o \in Outcomes, Outcome(r, o)
    PROVE  IInv'
<1> DEFINE p == Active(r)
           b == After(breaker[p], r, ~Failure(o))
<1>1. /\ pc[r] \in {"flying", "doomed"}
      /\ breaker' = [breaker EXCEPT ![p] = b]
      /\ came' = [came EXCEPT ![r] = o]
      /\ pc' = [pc EXCEPT ![r] = "answered"]
      /\ UNCHANGED <<healthy, sick, gone, index, attempt, used, totalRetries, failovers, reply>>
  BY DEF Outcome
<1>2. p \in Providers
  BY <1>1, Under
<1>3. breaker[p] \in Breakers(Requests) /\ Sound(breaker[p])
  BY <1>2 DEF IInv, TypeOK, Calls
<1>4. (~Failure(o)) \in BOOLEAN
  BY Zenon DEF Failure
<1>5. b \in Breakers(Requests) /\ Sound(b) /\ b.inflight \subseteq breaker[p].inflight \ {r}
  BY <1>3, <1>4, AfterSound
<1>6. \A x \in Providers : r \in InFlight(x) => x = p
  BY DEF InFlight
<1> HIDE DEF b, p
<1>7. TypeOK'
  <2>1. breaker' \in [Providers -> Breakers(Requests)]
    BY <1>1, <1>2, <1>5 DEF IInv, TypeOK
  <2>2. came' \in [Requests -> Outcomes \cup {"refused", None}]
    BY <1>1 DEF IInv, TypeOK
  <2>3. pc' \in [Requests -> {"ready", "flying", "doomed", "answered", "copying", "back"}]
    BY <1>1 DEF IInv, TypeOK
  <2>4. o # None
    BY ProxyAssumption DEF Outcomes
  <2>5. \A q \in Requests :
          /\ used'[q] \in [DOMAIN Candidates[q] -> Nat]
          /\ pc'[q] # "back" /\ Candidates[q] # <<>> => index'[q] \in DOMAIN Candidates[q]
          /\ came'[q] = None <=> pc'[q] # "answered"
          /\ reply'[q] = None <=> pc'[q] # "back"
    BY <1>1, <2>4 DEF IInv, TypeOK
  <2> QED
    BY <1>1, <2>1, <2>2, <2>3, <2>5 DEF IInv, TypeOK
<1>8. Placed'
  BY <1>1, Under DEF IInv, TypeOK, Placed
<1>9. Spent'
  BY <1>1, SpentKept DEF IInv
<1>10. Calls'
  <2> SUFFICES ASSUME NEW x \in Providers
               PROVE  Sound(breaker'[x]) /\ breaker'[x].inflight \subseteq InFlight(x)'
    BY DEF Calls, Sound
  <2>1. InFlight(x) \ {r} \subseteq InFlight(x)'
    BY <1>1 DEF InFlight, Active, IInv, TypeOK
  <2>2. breaker[x].inflight \subseteq InFlight(x) /\ Sound(breaker[x])
    BY DEF IInv, Calls
  <2>3. CASE x = p
    <3>1. breaker'[x] = b
      BY <2>3, <1>1, <1>2 DEF IInv, TypeOK
    <3> QED
      BY <3>1, <2>1, <2>2, <2>3, <1>5
  <2>4. CASE x # p
    <3>1. breaker'[x] = breaker[x]
      BY <2>4, <1>1, <1>2 DEF IInv, TypeOK
    <3> QED
      BY <3>1, <2>1, <2>2, <2>4, <1>6
  <2> QED
    BY <2>3, <2>4
<1> QED
  BY <1>7, <1>8, <1>9, <1>10 DEF IInv

-----------------------------------------------------------------------------
(* The decision of the retry loop.                                         *)

\* Relay: nothing is counted.
LEMMA InductiveRelay ==
    ASSUME IInv, NEW r \in Requests, Decide(r), ~Retryable(came[r])
    PROVE  IInv'
<1>1. /\ pc[r] = "answered"
      /\ healthy' = [healthy EXCEPT ![Active(r)] = ~Failure(came[r])]
      /\ came' = [came EXCEPT ![r] = None]
      /\ pc' = [pc EXCEPT ![r] = "copying"]
      /\ UNCHANGED <<index, attempt, used, totalRetries, failovers, reply, breaker, sick, gone>>
  BY DEF Decide
<1>2. (~Failure(came[r])) \in BOOLEAN
  BY Zenon DEF Failure
<1>3. healthy' \in [Providers -> BOOLEAN]
  BY <1>1, <1>2, Zenon DEF IInv, TypeOK
<1>4. TypeOK'
  <2>1. \A q \in Requests :
          /\ used'[q] \in [DOMAIN Candidates[q] -> Nat]
          /\ pc'[q] # "back" /\ Candidates[q] # <<>> => index'[q] \in DOMAIN Candidates[q]
          /\ came'[q] = None <=> pc'[q] # "answered"
          /\ reply'[q] = None <=> pc'[q] # "back"
    BY <1>1 DEF IInv, TypeOK
  <2>2. /\ came' \in [Requests -> Outcomes \cup {"refused", None}]
        /\ pc' \in [Requests -> {"ready", "flying", "doomed", "answered", "copying", "back"}]
    BY <1>1 DEF IInv, TypeOK
  <2> QED
    BY <1>1, <1>3, <2>1, <2>2 DEF IInv, TypeOK
<1>5. Placed'
  BY <1>1, Under DEF IInv, TypeOK, Placed
<1>6. Spent'
  BY <1>1, SpentKept DEF IInv
<1>7. Calls'
  BY <1>1, CallsKept DEF IInv, TypeOK
<1> QED
  BY <1>4, <1>5, <1>6, <1>7 DEF IInv

\* Retry: one more failure on the account of the active provider; then another
\* attempt, or the next provider, or the end.
LEMMA InductiveRetry ==
    ASSUME IInv, NEW r \in Requests, Decide(r), Retryable(came[r])
    PROVE  IInv'
<1> DEFINE n == Len(Candidates[r])
           i == index[r]
           budget == Budget(Active(r))
<1>1. /\ pc[r] = "answered"
      /\ healthy' = [healthy EXCEPT ![Active(r)] = ~Failure(came[r])]
      /\ came' = [came EXCEPT ![r] = None]
      /\ used' = [used EXCEPT ![r][i] = @ + 1]
      /\ totalRetries' = [totalRetries EXCEPT ![r] = @ + 1]
      /\ UNCHANGED <<breaker, sick, gone>>
  BY DEF Decide, Retry
<1>2. /\ n \in Nat /\ i \in 1 .. n /\ DOMAIN Candidates[r] = 1 .. n
      /\ budget \in Nat \ {0} /\ attempt[r] \in Nat \ {0} /\ attempt[r] <= budget
      /\ Candidates[r] # <<>>
  BY <1>1, Under, CandidateFacts, BudgetType DEF IInv, TypeOK, Spent
<1>3. reply[r] = None /\ reply[r] # "unavailable" /\ GivenUp(r) = i - 1 /\ failovers[r] = i - 1
  BY <1>1, ProxyAssumption DEF IInv, TypeOK, Spent, GivenUp
<1>4. /\ DOMAIN used = Requests /\ DOMAIN used' = Requests
      /\ used'[r] \in [1 .. n -> Nat]
      /\ \A q \in Requests \ {r} : used'[q] = used[q]
  BY <1>1, <1>2 DEF IInv, TypeOK, Placed
<1>5. \A j \in 1 .. n : used'[r][j] = IF j < i THEN Budget(Candidates[r][j])
                                      ELSE IF j = i THEN attempt[r] ELSE 0
  <2> SUFFICES ASSUME NEW j \in 1 .. n
               PROVE  used'[r][j] = IF j < i THEN Budget(Candidates[r][j])
                                    ELSE IF j = i THEN attempt[r] ELSE 0
    OBVIOUS
  <2>1. used[r][j] = IF j <= i - 1 THEN Budget(Candidates[r][j])
                     ELSE IF j = i THEN attempt[r] - 1 ELSE 0
    BY <1>2, <1>3 DEF IInv, Spent
  <2>2. used'[r][j] = IF j = i THEN used[r][j] + 1 ELSE used[r][j]
    BY <1>1, <1>2, <1>4 DEF IInv, TypeOK
  <2> QED
    BY <2>1, <2>2, <1>2
<1>6. (~Failure(came[r])) \in BOOLEAN
  BY Zenon DEF Failure
<1>7. healthy' \in [Providers -> BOOLEAN]
  BY <1>1, <1>6, Zenon DEF IInv, TypeOK
<1>8. \/ /\ attempt[r] < budget
         /\ attempt' = [attempt EXCEPT ![r] = @ + 1]
         /\ pc' = [pc EXCEPT ![r] = "ready"]
         /\ UNCHANGED <<index, failovers, reply>>
      \/ /\ ~(attempt[r] < budget)
         /\ attempt' = [attempt EXCEPT ![r] = 1]
         /\ failovers' = [failovers EXCEPT ![r] = @ + 1]
         /\ \/ /\ i < n
               /\ index' = [index EXCEPT ![r] = @ + 1]
               /\ pc' = [pc EXCEPT ![r] = "ready"]
               /\ UNCHANGED reply
            \/ /\ ~(i < n)
               /\ pc' = [pc EXCEPT ![r] = "back"]
               /\ reply' = [reply EXCEPT ![r] = "unavailable"]
               /\ UNCHANGED index
  BY DEF Decide, Retry
<1>9. /\ index' \in [Requests -> Nat \ {0}] /\ attempt' \in [Requests -> Nat \ {0}]
      /\ index'[r] \in 1 .. n
      /\ pc' \in [Requests -> {"ready", "flying", "doomed", "answered", "copying", "back"}]
      /\ pc'[r] \in {"ready", "back"}
      /\ failovers' \in [Requests -> Nat]
      /\ reply' \in [Requests -> {None, "no_route", "build_failed", "unavailable", "relayed"}]
      /\ reply'[r] = None <=> pc'[r] # "back"
      /\ \A q \in Requests \ {r} :
            /\ index'[q] = index[q] /\ attempt'[q] = attempt[q] /\ pc'[q] = pc[q]
            /\ failovers'[q] = failovers[q] /\ reply'[q] = reply[q]
  <2> HIDE DEF n, i, budget
  <2>1. /\ index \in [Requests -> Nat \ {0}] /\ attempt \in [Requests -> Nat \ {0}]
        /\ pc \in [Requests -> {"ready", "flying", "doomed", "answered", "copying", "back"}]
        /\ failovers \in [Requests -> Nat]
        /\ reply \in [Requests -> {None, "no_route", "build_failed", "unavailable", "relayed"}]
        /\ index[r] = i
    BY DEF IInv, TypeOK, i
  <2>2. CASE attempt[r] < budget
    <3>1. /\ attempt' = [attempt EXCEPT ![r] = @ + 1] /\ pc' = [pc EXCEPT ![r] = "ready"]
          /\ index' = index /\ failovers' = failovers /\ reply' = reply
      BY <2>2, <1>8
    <3> QED
      BY <3>1, <2>1, <1>2, <1>3
  <2>3. CASE ~(attempt[r] < budget) /\ i < n
    <3>1. /\ attempt' = [attempt EXCEPT ![r] = 1] /\ pc' = [pc EXCEPT ![r] = "ready"]
          /\ index' = [index EXCEPT ![r] = @ + 1] /\ reply' = reply
          /\ failovers' = [failovers EXCEPT ![r] = @ + 1]
      BY <2>3, <1>8
    <3> QED
      BY <3>1, <2>1, <2>3, <1>2, <1>3
  <2>4. CASE ~(attempt[r] < budget) /\ ~(i < n)
    <3>1. /\ attempt' = [attempt EXCEPT ![r] = 1] /\ pc' = [pc EXCEPT ![r] = "back"]
          /\ index' = index /\ reply' = [reply EXCEPT ![r] = "unavailable"]
          /\ failovers' = [failovers EXCEPT ![r] = @ + 1]
      BY <2>4, <1>8
    <3>2. "unavailable" # None
      BY ProxyAssumption
    <3> QED
      BY <3>1, <3>2, <2>1, <1>2, <1>3
  <2> QED
    BY <2>2, <2>3, <2>4
<1>10. TypeOK'
  <2>1. \A q \in Requests :
          /\ used'[q] \in [DOMAIN Candidates[q] -> Nat]
          /\ pc'[q] # "back" /\ Candidates[q] # <<>> => index'[q] \in DOMAIN Candidates[q]
          /\ came'[q] = None <=> pc'[q] # "answered"
          /\ reply'[q] = None <=> pc'[q] # "back"
    <3> SUFFICES ASSUME NEW q \in Requests
                 PROVE  /\ used'[q] \in [DOMAIN Candidates[q] -> Nat]
                        /\ pc'[q] # "back" /\ Candidates[q] # <<>> =>
                             index'[q] \in DOMAIN Candidates[q]
                        /\ came'[q] = None <=> pc'[q] # "answered"
                        /\ reply'[q] = None <=> pc'[q] # "back"
      OBVIOUS
    <3>1. CASE q = r
      BY <3>1, <1>1, <1>2, <1>4, <1>9 DEF IInv, TypeOK
    <3>2. CASE q # r
      BY <3>2, <1>1, <1>4, <1>9 DEF IInv, TypeOK
    <3> QED
      BY <3>1, <3>2
  <2>2. /\ came' \in [Requests -> Outcomes \cup {"refused", None}]
        /\ totalRetries' \in [Requests -> Nat]
    BY <1>1 DEF IInv, TypeOK
  <2> QED
    BY <1>1, <1>7, <1>9, <2>1, <2>2 DEF IInv, TypeOK
<1>11. Placed'
  <2>1. \A q \in Requests :
          /\ Candidates[q] # <<>> => index'[q] \in DOMAIN Candidates[q]
          /\ Candidates[q] = <<>> => index'[q] = 1 /\ pc'[q] \in {"ready", "back"}
          /\ pc'[q] = "doomed" => q \in gone'
    BY <1>1, <1>2, <1>9 DEF IInv, Placed
  <2> QED
    BY <2>1, <1>4 DEF Placed
<1>12. Spent'
  <2>1. /\ failovers'[r] = GivenUp(r)'
        /\ reply'[r] = "unavailable" => index'[r] = n
        /\ attempt'[r] <= Budget(Active(r))'
        /\ \A j \in 1 .. n :
              used'[r][j] = IF j <= GivenUp(r)' THEN Budget(Candidates[r][j])
                            ELSE IF j = index'[r] THEN attempt'[r] - 1 ELSE 0
    <3>1. CASE UNCHANGED <<index, failovers, reply>> /\ attempt'[r] = attempt[r] + 1
               /\ attempt[r] < budget
      BY <3>1, <1>2, <1>3, <1>5 DEF GivenUp, Active
    <3>2. CASE attempt'[r] = 1 /\ failovers'[r] = i /\ index'[r] = i + 1 /\ i < n
               /\ reply' = reply /\ attempt[r] = budget
      <4>1. GivenUp(r)' = i
        BY <3>2, <1>2, <1>3 DEF GivenUp
      <4>2. Active(r)' \in Providers
        BY <3>2, <1>2, CandidateFacts DEF Active
      <4>3. 1 <= Budget(Active(r))'
        BY <4>2, BudgetType DEF Budget
      <4>4. budget = Budget(Candidates[r][i])
        BY DEF Active
      <4> QED
        BY <4>1, <4>3, <4>4, <3>2, <1>2, <1>3, <1>5
    <3>3. CASE attempt'[r] = 1 /\ failovers'[r] = i /\ index' = index /\ i = n
               /\ reply'[r] = "unavailable" /\ attempt[r] = budget
      <4>1. GivenUp(r)' = i
        BY <3>3 DEF GivenUp
      <4>2. Budget(Active(r))' = budget
        BY <3>3 DEF Active, Budget
      <4>3. budget = Budget(Candidates[r][i])
        BY DEF Active
      <4> QED
        BY <4>1, <4>2, <4>3, <3>3, <1>2, <1>5
    <3> QED
      BY <3>1, <3>2, <3>3, <1>2, <1>3, <1>8 DEF IInv, TypeOK
  <2> SUFFICES ASSUME NEW q \in Requests
               PROVE  /\ failovers'[q] = GivenUp(q)'
                      /\ reply'[q] = "unavailable" => index'[q] = Len(Candidates[q])
                      /\ Candidates[q] # <<>> => attempt'[q] <= Budget(Active(q))'
                      /\ \A j \in DOMAIN Candidates[q] :
                            used'[q][j] = IF j <= GivenUp(q)' THEN Budget(Candidates[q][j])
                                          ELSE IF j = index'[q] THEN attempt'[q] - 1 ELSE 0
    BY DEF Spent, Budget
  <2>2. CASE q = r
    BY <2>1, <2>2, <1>2 DEF GivenUp, Active
  <2>3. CASE q # r
    <3>1. Budget(Active(q))' = Budget(Active(q)) /\ GivenUp(q)' = GivenUp(q)
      BY <1>9, <2>3 DEF Budget, GivenUp, Active
    <3>2. /\ failovers'[q] = failovers[q] /\ reply'[q] = reply[q] /\ index'[q] = index[q]
          /\ attempt'[q] = attempt[q] /\ used'[q] = used[q]
      BY <1>4, <1>9, <2>3
    <3> QED
      BY <3>1, <3>2 DEF IInv, Spent
  <2> QED
    BY <2>2, <2>3
<1>13. Calls'
  BY <1>1, <1>9, CallsKept DEF IInv
<1> QED
  BY <1>10, <1>11, <1>12, <1>13 DEF IInv

-----------------------------------------------------------------------------
(* The environment, and the induction.                                     *)

\* A new generation: the breaker of one provider forgets what is in flight.
LEMMA InductiveEnter ==
    ASSUME IInv, NEW p \in Providers, NEW state \in {"closed", "half-open", "open"},
           breaker' = [breaker EXCEPT ![p] = Enter(state)],
           UNCHANGED <<healthy, sick, gone, requestVars>>
    PROVE  IInv'
<1> USE DEF requestVars
<1>1. /\ Enter(state) \in Breakers(Requests) /\ Sound(Enter(state))
      /\ Enter(state).inflight = {}
  BY EnterSound
<1>2. TypeOK'
  <2>1. breaker' \in [Providers -> Breakers(Requests)]
    BY <1>1 DEF IInv, TypeOK
  <2> QED
    BY <2>1 DEF IInv, TypeOK
<1>3. Placed' /\ Spent'
  BY SpentKept DEF IInv, Placed
<1>4. Calls'
  <2> SUFFICES ASSUME NEW x \in Providers
               PROVE  Sound(breaker'[x]) /\ breaker'[x].inflight \subseteq InFlight(x)'
    BY DEF Calls, Sound
  <2>1. InFlight(x)' = InFlight(x)
    BY DEF InFlight, Active
  <2>2. breaker'[x] = IF x = p THEN Enter(state) ELSE breaker[x]
    BY DEF IInv, TypeOK
  <2>3. Sound(breaker[x]) /\ breaker[x].inflight \subseteq InFlight(x)
    BY DEF IInv, Calls
  <2> QED
    BY <1>1, <2>1, <2>2, <2>3
<1> QED
  BY <1>2, <1>3, <1>4 DEF IInv

\* Clients that leave and providers that fall sick move no request and no breaker.
LEMMA InductiveElsewhere ==
    ASSUME IInv, UNCHANGED <<breaker, healthy, requestVars>>,
           sick' \subseteq Providers, gone \subseteq gone', gone' \subseteq Requests
    PROVE  IInv'
<1> USE DEF requestVars
<1>1. TypeOK' /\ Placed' /\ Spent'
  BY SpentKept DEF IInv, TypeOK, Placed
<1>2. Calls'
  BY DEF IInv, Calls, InFlight, Active, Sound
<1> QED
  BY <1>1, <1>2 DEF IInv

LEMMA InductiveStep == IInv /\ [Next]_vars => IInv'
<1> SUFFICES ASSUME IInv, [Next]_vars PROVE IInv'
  OBVIOUS
<1>1. ASSUME NEW r \in Requests, NoRoute(r) PROVE IInv'
  BY <1>1, EndKeeps DEF NoRoute
<1>2. ASSUME NEW r \in Requests, BuildFails(r) PROVE IInv'
  BY <1>2, EndKeeps DEF BuildFails
<1>3. ASSUME NEW r \in Requests, Copy(r) PROVE IInv'
  BY <1>3, EndKeeps DEF Copy
<1>4. ASSUME NEW r \in Requests, Admitted(r) PROVE IInv'
  BY <1>4, InductiveAdmitted
<1>5. ASSUME NEW r \in Requests, Refused(r) PROVE IInv'
  BY <1>5, InductiveRefused
<1>6. ASSUME NEW r \in Requests, NEW o \in Outcomes, Outcome(r, o) PROVE IInv'
  BY <1>6, InductiveOutcome
<1>7. ASSUME NEW r \in Requests, Decide(r) PROVE IInv'
  BY <1>7, InductiveRelay, InductiveRetry
<1>8. ASSUME NEW r \in Requests, Leave(r) PROVE IInv'
  BY <1>8, InductiveElsewhere, ProxyAssumption DEF Leave, IInv, TypeOK
<1>9. ASSUME NEW p \in Providers, FallSick(p) PROVE IInv'
  BY <1>9, InductiveElsewhere DEF FallSick, IInv, TypeOK
<1>10. ASSUME NEW p \in Providers, IntervalPasses(p) PROVE IInv'
  BY <1>10, InductiveEnter DEF IntervalPasses
<1>11. ASSUME NEW p \in Providers, TimeoutPasses(p) PROVE IInv'
  BY <1>11, InductiveEnter DEF TimeoutPasses
<1>12. CASE UNCHANGED vars
  BY <1>12, InductiveElsewhere DEF vars, sharedVars, IInv, TypeOK
<1> QED
  BY <1>1, <1>2, <1>3, <1>4, <1>5, <1>6, <1>7, <1>8, <1>9, <1>10, <1>11, <1>12 DEF Next, Step

LEMMA Inductive == Spec => []IInv
BY InductiveInit, InductiveStep, PTL DEF Spec

-----------------------------------------------------------------------------
\* Types of the retry loop and of the breakers: a request that is not back is at one
\* of its candidates, and has an answer exactly if it is back (proxy.go:63-212).
THEOREM TypeCorrect == Spec => []TypeOK
<1>1. IInv => TypeOK
  BY DEF IInv
<1> QED
  BY Inductive, <1>1, PTL

\* Each provider gets its whole retry budget and no more, one provider after the
\* other, and the failover counter counts those given up, for any number of
\* providers with any budgets (proxy.go:108-194).
THEOREM BudgetsKept == Spec => []BudgetsSpentInOrder
<1>1. ASSUME IInv PROVE BudgetsSpentInOrder
  <2> SUFFICES ASSUME NEW r \in Requests, NEW i \in DOMAIN Candidates[r]
               PROVE  /\ used[r][i] <= Budget(Candidates[r][i])
                      /\ i < index[r] \/ reply[r] = "unavailable" =>
                            used[r][i] = Budget(Candidates[r][i])
                      /\ i > index[r] => used[r][i] = 0
                      /\ failovers[r] = Cardinality({j \in DOMAIN Candidates[r] :
                                            used[r][j] = Budget(Candidates[r][j])})
    BY DEF BudgetsSpentInOrder
  <2> DEFINE n == Len(Candidates[r])
             g == GivenUp(r)
  <2>1. /\ n \in Nat /\ DOMAIN Candidates[r] = 1 .. n /\ i \in 1 .. n
        /\ index[r] \in 1 .. n /\ attempt[r] \in Nat \ {0}
    BY <1>1, CandidateFacts DEF IInv, TypeOK, Placed
  <2>2. /\ failovers[r] = g
        /\ reply[r] = "unavailable" => index[r] = n
        /\ attempt[r] <= Budget(Active(r))
        /\ \A j \in 1 .. n : used[r][j] = IF j <= g THEN Budget(Candidates[r][j])
                                          ELSE IF j = index[r] THEN attempt[r] - 1 ELSE 0
    BY <1>1, <2>1, CandidateFacts DEF IInv, Spent
  <2>3. g = IF reply[r] = "unavailable" THEN n ELSE index[r] - 1
    BY DEF GivenUp
  <2>4. Active(r) = Candidates[r][index[r]]
    BY DEF Active
  <2>5. \A j \in 1 .. n : Budget(Candidates[r][j]) \in Nat \ {0}
    BY <2>1, CandidateFacts, BudgetType
  <2> HIDE DEF n, g
  <2>6. \A j \in 1 .. n : /\ used[r][j] <= Budget(Candidates[r][j])
                          /\ used[r][j] = Budget(Candidates[r][j]) <=> j <= g
    <3> SUFFICES ASSUME NEW j \in 1 .. n
                 PROVE  /\ used[r][j] <= Budget(Candidates[r][j])
                        /\ used[r][j] = Budget(Candidates[r][j]) <=> j <= g
      OBVIOUS
    <3>1. /\ Budget(Candidates[r][j]) \in Nat \ {0}
          /\ used[r][j] = IF j <= g THEN Budget(Candidates[r][j])
                          ELSE IF j = index[r] THEN attempt[r] - 1 ELSE 0
      BY <2>2, <2>5
    <3>2. CASE j <= g
      BY <3>1, <3>2
    <3>3. CASE ~(j <= g) /\ j = index[r]
      <4>1. used[r][j] = attempt[r] - 1 /\ attempt[r] <= Budget(Candidates[r][j])
        BY <3>1, <3>3, <2>2, <2>4
      <4> QED
        BY <4>1, <3>1, <3>3, <2>1
    <3>4. CASE ~(j <= g) /\ j # index[r]
      BY <3>1, <3>4
    <3> QED
      BY <3>2, <3>3, <3>4
  <2>7. {j \in DOMAIN Candidates[r] : used[r][j] = Budget(Candidates[r][j])} = 1 .. g
    BY <2>1, <2>3, <2>6
  <2>8. g \in Nat /\ Cardinality(1 .. g) = g
    <3>1. g \in Nat /\ 1 \in Int /\ g \in Int
      BY <2>1, <2>3
    <3>2. Cardinality(1 .. g) = IF 1 > g THEN 0 ELSE g - 1 + 1
      BY <3>1, FS_Interval, Zenon
    <3> QED
      BY <3>1, <3>2
  <2>9. i < index[r] \/ reply[r] = "unavailable" => i <= g
    BY <2>1, <2>3
  <2>10. i > index[r] => ~(i <= g)
    BY <2>1, <2>2, <2>3
  <2> QED
    BY <2>1, <2>2, <2>6, <2>7, <2>8, <2>9, <2>10
<1> QED
  BY Inductive, <1>1, PTL

\* What a breaker counts as in flight is, the probes keep to their limit, and a
\* half-open breaker that admits nobody waits for a probe (transport.go:44-67, 84-113).
THEOREM BreakersSound == Spec => []BreakerKnowsItsCalls
<1>1. ASSUME IInv PROVE BreakerKnowsItsCalls
  <2> SUFFICES ASSUME NEW p \in Providers
               PROVE  /\ breaker[p].inflight \subseteq InFlight(p)
                      /\ breaker[p].state = "open" => breaker[p].inflight = {}
                      /\ breaker[p].state = "half-open" =>
                            /\ Cardinality(breaker[p].inflight) <= HalfOpenRequests
                            /\ Admits(breaker[p]) \/ breaker[p].inflight # {}
    BY DEF BreakerKnowsItsCalls
  <2>1. Sound(breaker[p]) /\ breaker[p].inflight \subseteq InFlight(p)
    BY <1>1 DEF IInv, Calls
  <2>2. breaker[p].requests \in Nat /\ breaker[p].streak \in Nat /\ HalfOpenRequests \in Nat
    BY <1>1, BreakerAssumption DEF IInv, TypeOK, Breakers
  <2>3. /\ Cardinality(breaker[p].inflight) \in Nat
        /\ breaker[p].inflight = {} => Cardinality(breaker[p].inflight) = 0
    BY <2>1, FS_CardinalityType, FS_EmptySet DEF Sound
  <2> QED
    BY <2>1, <2>2, <2>3 DEF Sound, Admits
<1> QED
  BY Inductive, <1>1, PTL

\* A breaker opens for a failure of its provider or after a client left, and never
\* before the minimum of calls (transport.go:51-66, 91-100).
THEOREM TripsWithCause == Spec => TripsForCause
<1> DEFINE A == \A p \in Providers :
                  breaker[p].state = "closed" /\ breaker'[p].state = "open" =>
                     /\ p \in sick \/ gone # {}
                     /\ breaker[p].requests >= MinimumRequests
<1>1. ASSUME IInv, [Next]_vars PROVE [A]_vars
  <2> SUFFICES ASSUME Next, NEW p \in Providers,
                      breaker[p].state = "closed", breaker'[p].state = "open"
               PROVE  /\ p \in sick \/ gone # {}
                      /\ breaker[p].requests >= MinimumRequests
    BY <1>1
  <2>1. ASSUME NEW r \in Requests, NEW o \in Outcomes, Outcome(r, o)
        PROVE  /\ p \in sick \/ gone # {}
               /\ breaker[p].requests >= MinimumRequests
    <3>1. /\ pc[r] \in {"flying", "doomed"} /\ o \in Possible(r)
          /\ breaker' = [breaker EXCEPT ![Active(r)] = After(@, r, ~Failure(o))]
      BY <2>1 DEF Outcome
    <3>2. Active(r) = p /\ breaker'[p] = After(breaker[p], r, ~Failure(o))
      BY <3>1 DEF IInv, TypeOK
    <3>3. (~Failure(o)) \in BOOLEAN
      BY Zenon DEF Failure
    <3>4. breaker[p] \in Breakers(Requests) /\ Sound(breaker[p])
      BY <1>1 DEF IInv, TypeOK, Calls
    <3>5. Failure(o) /\ breaker[p].requests >= MinimumRequests
      <4> DEFINE success == ~Failure(o)
      <4>1. success \in BOOLEAN
        BY <3>3
      <4>2. After(breaker[p], r, success).state = "open"
        BY <3>2
      <4> HIDE DEF success
      <4>3. ~success /\ breaker[p].requests >= MinimumRequests
        BY <3>4, <4>1, <4>2, AfterSound
      <4> QED
        BY <4>3 DEF success
    <3>6. o # "good"
      BY <3>5 DEF Failure
    <3>7. pc[r] = "doomed" => r \in gone
      BY <1>1 DEF IInv, Placed
    <3> QED
      BY <3>1, <3>2, <3>5, <3>6, <3>7 DEF Possible
  <2>2. ASSUME NEW r \in Requests, Admitted(r) PROVE FALSE
    <3>1. breaker' = [breaker EXCEPT ![Active(r)] = Admit(@, r)]
      BY <2>2 DEF Admitted
    <3>2. Admit(breaker[p], r).state = breaker[p].state
      BY <1>1 DEF IInv, TypeOK, Breakers, Admit
    <3> QED
      BY <1>1, <3>1, <3>2 DEF IInv, TypeOK
  <2>3. ASSUME NEW x \in Providers, IntervalPasses(x) \/ TimeoutPasses(x) PROVE FALSE
    <3>1. PICK state \in {"closed", "half-open"} : breaker' = [breaker EXCEPT ![x] = Enter(state)]
      BY <2>3 DEF IntervalPasses, TimeoutPasses
    <3>2. Enter(state).state # "open"
      BY DEF Enter
    <3> QED
      BY <1>1, <3>1, <3>2 DEF IInv, TypeOK
  <2>4. ASSUME UNCHANGED breaker PROVE FALSE
    BY <2>4
  <2>5. ASSUME NEW r \in Requests,
               NoRoute(r) \/ BuildFails(r) \/ Refused(r) \/ Decide(r) \/ Copy(r) \/ Leave(r)
        PROVE  UNCHANGED breaker
    BY <2>5 DEF NoRoute, BuildFails, Refused, Decide, Copy, Leave, sharedVars
  <2>6. ASSUME NEW x \in Providers, FallSick(x) PROVE UNCHANGED breaker
    BY <2>6 DEF FallSick
  <2> QED
    BY <2>1, <2>2, <2>3, <2>4, <2>5, <2>6 DEF Next, Step
<1>2. Spec => [][A]_vars
  BY Inductive, <1>1, PTL DEF Spec
<1> QED
  BY <1>2 DEF TripsForCause
=============================================================================
