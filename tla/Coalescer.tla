----------------------------- MODULE Coalescer -----------------------------
(***************************************************************************)
(* responseCoalescer of src/internal/middleware/cache.go: concurrent cache *)
(* misses of one key share one upstream execution.  The first caller of Do *)
(* puts an inflightResponse in the map and runs fn (it leads); those who   *)
(* find an entry wait on its done channel or on the end of their own       *)
(* context.  A call object is named by the request that created it.        *)
(*                                                                         *)
(* The two critical sections of Do are one action each; everything that    *)
(* can happen between them (the execution of fn) is the interleaving with  *)
(* the other requests.                                                     *)
(*                                                                         *)
(* Operators named Bad... are slips of the definition below them: the runs *)
(* replace the one by the other to see that a property would notice.       *)
(***************************************************************************)
CONSTANTS
    Requests,   \* handler goroutines, each of which calls Do once
    Keys,       \* values of buildLLMCacheKey
    KeyOf,      \* KeyOf[r]: the key of request r
    Results,    \* what an execution can return
    None,       \* no entry, no response yet
    Cancelled,  \* Do returned ctx.Err()
    MayPanic    \* whether fn can panic

ASSUME CoalescerAssumption ==
    /\ KeyOf \in [Requests -> Keys]
    /\ None \notin Requests \cup Results
    /\ Cancelled \notin Results
    /\ Cancelled # None
    /\ MayPanic \in BOOLEAN

VARIABLES
    calls,      \* calls[k]: the leader whose call object is in the map
    at,         \* where a request is in Do
    follows,    \* follows[r]: the call object a follower selects on
    resp,       \* resp[l]: call.resp of the call object of l, None until closed
    gone,       \* requests whose own context has ended
    ret         \* what Do returned to the request

coalescerVars == <<calls, at, follows, resp, gone, ret>>

Init ==
    /\ calls = [k \in Keys |-> None]
    /\ at = [r \in Requests |-> "new"]
    /\ follows = [r \in Requests |-> None]
    /\ resp = [r \in Requests |-> None]
    /\ gone = {}
    /\ ret = [r \in Requests |-> None]

-----------------------------------------------------------------------------
\* The client of r disconnects or its deadline passes.  Only the select of a
\* follower looks at it: fn runs under context.WithoutCancel.
Leave(r) ==
    /\ r \notin gone
    /\ at[r] \in {"new", "leading", "waiting"}
    /\ gone' = gone \cup {r}
    /\ UNCHANGED <<calls, at, follows, resp, ret>>

\* The look-up and the insertion are not in one critical section.
BadLead(r) ==
    /\ at[r] = "new"
    /\ calls' = [calls EXCEPT ![KeyOf[r]] = r]
    /\ at' = [at EXCEPT ![r] = "leading"]
    /\ UNCHANGED <<follows, resp, gone, ret>>

\* First critical section, no entry: create the call object and lead.
Lead(r) ==
    /\ at[r] = "new"
    /\ calls[KeyOf[r]] = None
    /\ calls' = [calls EXCEPT ![KeyOf[r]] = r]
    /\ at' = [at EXCEPT ![r] = "leading"]
    /\ UNCHANGED <<follows, resp, gone, ret>>

\* First critical section, entry found: wait on its call object.
Follow(r) ==
    /\ at[r] = "new"
    /\ calls[KeyOf[r]] # None
    /\ follows' = [follows EXCEPT ![r] = calls[KeyOf[r]]]
    /\ at' = [at EXCEPT ![r] = "waiting"]
    /\ UNCHANGED <<calls, resp, gone, ret>>

\* The entry stays in the map, as if responses were kept there.
BadPublishKept(r, v) ==
    /\ at[r] = "leading"
    /\ resp' = [resp EXCEPT ![r] = v]
    /\ at' = [at EXCEPT ![r] = "published"]
    /\ UNCHANGED <<calls, follows, gone, ret>>

\* fn returned v.  Second critical section: fill, close, delete.
Publish(r, v) ==
    /\ at[r] = "leading"
    /\ resp' = [resp EXCEPT ![r] = v]
    /\ calls' = [calls EXCEPT ![KeyOf[r]] = None]
    /\ at' = [at EXCEPT ![r] = "published"]
    /\ UNCHANGED <<follows, gone, ret>>

\* The leader's own return, after the unlock.
Return(r) ==
    /\ at[r] = "published"
    /\ ret' = [ret EXCEPT ![r] = resp[r]]
    /\ at' = [at EXCEPT ![r] = "back"]
    /\ UNCHANGED <<calls, follows, resp, gone>>

\* The result is read without waiting for done.
BadReceive(r) ==
    /\ at[r] = "waiting"
    /\ ret' = [ret EXCEPT ![r] = resp[follows[r]]]
    /\ at' = [at EXCEPT ![r] = "back"]
    /\ UNCHANGED <<calls, follows, resp, gone>>

\* A follower's select takes the closed done channel ...
Receive(r) ==
    /\ at[r] = "waiting"
    /\ resp[follows[r]] # None
    /\ ret' = [ret EXCEPT ![r] = resp[follows[r]]]
    /\ at' = [at EXCEPT ![r] = "back"]
    /\ UNCHANGED <<calls, follows, resp, gone>>

\* ... or the end of its own context; either when both are ready.
GiveUp(r) ==
    /\ at[r] = "waiting"
    /\ r \in gone
    /\ ret' = [ret EXCEPT ![r] = Cancelled]
    /\ at' = [at EXCEPT ![r] = "back"]
    /\ UNCHANGED <<calls, follows, resp, gone>>

\* A bare receive from done, without the case for the context.
BadSelect(r) == Receive(r)

\* A select with a ready case proceeds.
Select(r) == Receive(r) \/ GiveUp(r)

\* A deferred clean-up that deletes the entry and forgets the channel.
BadPanic(r) ==
    /\ MayPanic
    /\ at[r] = "leading"
    /\ calls' = [calls EXCEPT ![KeyOf[r]] = None]
    /\ at' = [at EXCEPT ![r] = "panicked"]
    /\ UNCHANGED <<follows, resp, gone, ret>>

\* fn panics.  No defer: the goroutine unwinds past the second critical section.
Panic(r) ==
    /\ MayPanic
    /\ at[r] = "leading"
    /\ at' = [at EXCEPT ![r] = "panicked"]
    /\ UNCHANGED <<calls, follows, resp, gone, ret>>

\* What the goroutine of r does by itself, given that fn returns.
Step(r) ==
    \/ Lead(r)
    \/ Follow(r)
    \/ \E v \in Results : Publish(r, v)
    \/ Return(r)
    \/ Select(r)

Next == \E r \in Requests : Step(r) \/ Leave(r) \/ Panic(r)

Spec == Init /\ [][Next]_coalescerVars

\* A goroutine that can run does run.  Whether an execution ends is not its own
\* business: nothing bounds the body of an upstream response.
FairSpec ==
    /\ Spec
    /\ \A r \in Requests : WF_coalescerVars(Lead(r) \/ Follow(r) \/ Return(r) \/ Select(r))

-----------------------------------------------------------------------------
\* The types, and: Do returns something exactly when it returns (the caller
\* reads resp.Body without a nil check, cache.go:318).
TypeOK ==
    /\ calls \in [Keys -> Requests \cup {None}]
    /\ at \in [Requests -> {"new", "leading", "published", "waiting", "back", "panicked"}]
    /\ follows \in [Requests -> Requests \cup {None}]
    /\ resp \in [Requests -> Results \cup {None}]
    /\ gone \subseteq Requests
    /\ ret \in [Requests -> Results \cup {None, Cancelled}]
    /\ \A r \in Requests : at[r] = "back" <=> ret[r] # None

\* The mutex and the map keep one execution per key: two concurrent misses of a
\* key never both reach the upstream (cache.go:141-155).
OneExecutionPerKey ==
    \A r, s \in Requests :
        /\ at[r] \in {"leading", "panicked"}
        /\ at[s] \in {"leading", "panicked"}
        /\ KeyOf[r] = KeyOf[s]
        => r = s

\* A waiting follower cannot miss its wakeup: the call object it selects on is
\* of its own key, and is either closed already or still in the map, put there
\* by the leader that will close it (cache.go:153-164).
NoLostWakeup ==
    \A r \in Requests : at[r] = "waiting" =>
        /\ follows[r] \in Requests
        /\ KeyOf[follows[r]] = KeyOf[r]
        /\ \/ resp[follows[r]] # None
           \/ /\ at[follows[r]] \in {"leading", "panicked"}
              /\ calls[KeyOf[r]] = follows[r]

\* What Do does, seen as single flight.
Running == {k \in Keys : calls[k] # None}

Asked == {r \in Requests : at[r] \in {"leading", "published", "waiting", "panicked"}}

Due == [r \in Requests |->
          IF at[r] = "waiting" THEN resp[follows[r]]
          ELSE IF at[r] = "published" THEN resp[r] ELSE None]

SF == INSTANCE SingleFlight WITH
        running <- Running, asked <- Asked, due <- Due, answer <- ret

\* Do implements single flight: nobody gets the outcome of an execution that
\* ended before it asked, and one execution per key is running.
Implements == SF!Spec

\* Every caller of Do comes back, whoever disconnects meanwhile, unless an execution
\* of its key panicked or never ends; and even then a follower whose context ends
\* comes back (cache.go:145-150, 157).
EveryCallerReturns ==
    \A r \in Requests :
        /\ at[r] # "new" ~>
              \/ at[r] = "back"
              \/ \E l \in Requests : KeyOf[l] = KeyOf[r] /\ [](at[l] \in {"leading", "panicked"})
        /\ (at[r] = "waiting" /\ r \in gone) ~> at[r] = "back"
=============================================================================
