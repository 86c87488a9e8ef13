-------------------------- MODULE CoalescerProofs --------------------------
(***************************************************************************)
(* For every set of requests and keys: the invariants of Coalescer, and    *)
(* that it implements SingleFlight.                                        *)
(***************************************************************************)
EXTENDS Coalescer, TLAPS

\* An entry of the map is the call object of a request that has not published.
EntriesLead ==
    \A k \in Keys : calls[k] # None =>
        /\ KeyOf[calls[k]] = k
        /\ at[calls[k]] \in {"leading", "panicked"}

\* ... and every such request is in the map.
LeadersEntered ==
    \A r \in Requests : at[r] \in {"leading", "panicked"} =>
        calls[KeyOf[r]] = r /\ resp[r] = None

PublishersFilled == \A r \in Requests : at[r] = "published" => resp[r] # None

\* A request that has not been in Do owns no filled call object.
NewUnfilled == \A r \in Requests : at[r] = "new" => resp[r] = None

IInv ==
    /\ TypeOK
    /\ EntriesLead
    /\ LeadersEntered
    /\ PublishersFilled
    /\ NewUnfilled
    /\ NoLostWakeup

-----------------------------------------------------------------------------
\* An empty coalescer meets the inductive invariant.
LEMMA InitIInv == Init => IInv
  BY CoalescerAssumption
     DEF Init, IInv, TypeOK, EntriesLead, LeadersEntered, PublishersFilled, NewUnfilled, NoLostWakeup

\* Every step of a request keeps the types.
LEMMA StepType ==
    ASSUME IInv, NEW r \in Requests, Step(r) \/ Leave(r) \/ Panic(r)
    PROVE  TypeOK'
  <1> USE CoalescerAssumption DEF IInv, TypeOK
  <1>1. CASE Lead(r)  BY <1>1 DEF Lead
  <1>2. CASE Follow(r)  BY <1>2 DEF Follow
  <1>3. CASE \E v \in Results : Publish(r, v)  BY <1>3 DEF Publish
  <1>4. CASE Return(r)  BY <1>4 DEF Return, PublishersFilled
  <1>5. CASE Receive(r)  BY <1>5 DEF Receive, NoLostWakeup
  <1>6. CASE GiveUp(r)  BY <1>6 DEF GiveUp
  <1>7. CASE Leave(r)  BY <1>7 DEF Leave
  <1>8. CASE Panic(r)  BY <1>8 DEF Panic
  <1> QED  BY <1>1, <1>2, <1>3, <1>4, <1>5, <1>6, <1>7, <1>8 DEF Step, Select

\* Every step of a request keeps the relation between the map, the leaders and
\* the call objects the followers wait on.
LEMMA StepIInv ==
    ASSUME IInv, NEW r \in Requests, Step(r) \/ Leave(r) \/ Panic(r)
    PROVE  IInv'
  <1> USE CoalescerAssumption
         DEF EntriesLead, LeadersEntered, PublishersFilled, NewUnfilled, NoLostWakeup
  <1>0. TypeOK'  BY StepType
  <1>1. CASE Lead(r)  BY <1>0, <1>1 DEF IInv, TypeOK, Lead
  <1>2. CASE Follow(r)  BY <1>0, <1>2 DEF IInv, TypeOK, Follow
  <1>3. ASSUME NEW v \in Results, Publish(r, v)
        PROVE  IInv'
    <2> USE DEF IInv, TypeOK, Publish
    <2>1. EntriesLead'  BY <1>3
    <2>2. LeadersEntered'  BY <1>3
    <2>3. PublishersFilled' /\ NewUnfilled'  BY <1>3
    <2>4. NoLostWakeup'  BY <1>3
    <2> QED  BY <1>0, <2>1, <2>2, <2>3, <2>4
  <1>4. CASE Return(r)  BY <1>0, <1>4 DEF IInv, TypeOK, Return
  <1>5. CASE Receive(r)  BY <1>0, <1>5 DEF IInv, TypeOK, Receive
  <1>6. CASE GiveUp(r)  BY <1>0, <1>6 DEF IInv, TypeOK, GiveUp
  <1>7. CASE Leave(r)  BY <1>0, <1>7 DEF IInv, TypeOK, Leave
  <1>8. CASE Panic(r)  BY <1>0, <1>8 DEF IInv, TypeOK, Panic
  <1> QED  BY <1>1, <1>2, <1>3, <1>4, <1>5, <1>6, <1>7, <1>8 DEF Step, Select

\* Every step, of a request or of none, keeps the inductive invariant.
LEMMA NextIInv == IInv /\ [Next]_coalescerVars => IInv'
  <1> SUFFICES ASSUME IInv, [Next]_coalescerVars PROVE IInv'
    OBVIOUS
  <1>1. CASE Next  BY <1>1, StepIInv DEF Next
  <1>2. CASE UNCHANGED coalescerVars
    BY <1>2 DEF coalescerVars, IInv, TypeOK, EntriesLead, LeadersEntered,
                PublishersFilled, NewUnfilled, NoLostWakeup
  <1> QED  BY <1>1, <1>2

\* The inductive invariant holds in every behaviour.
LEMMA Inductive == Spec => []IInv
  BY InitIInv, NextIInv, PTL DEF Spec

-----------------------------------------------------------------------------
\* Types; in particular Do returns a response exactly when it returns.
THEOREM TypeCorrect == Spec => []TypeOK
  <1>1. IInv => TypeOK  BY DEF IInv
  <1> QED  BY <1>1, Inductive, PTL

\* Two concurrent misses of a key never both run the upstream call.
THEOREM SingleExecution == Spec => []OneExecutionPerKey
  <1>1. IInv => OneExecutionPerKey  BY DEF IInv, LeadersEntered, OneExecutionPerKey
  <1> QED  BY <1>1, Inductive, PTL

\* A follower waits on a call object that is closed or will be closed by the
\* leader the map still names.
THEOREM WakeupKept == Spec => []NoLostWakeup
  <1>1. IInv => NoLostWakeup  BY DEF IInv
  <1> QED  BY <1>1, Inductive, PTL

-----------------------------------------------------------------------------
\* An empty coalescer is an initial state of SingleFlight.
LEMMA InitSF == Init => SF!Init
  BY CoalescerAssumption DEF Init, SF!Init, Running, Asked, Due

\* A leader's publication hands its outcome to exactly those who ask for its key.
LEMMA PublishFinishes ==
    ASSUME IInv, IInv', NEW r \in Requests, NEW v \in Results, Publish(r, v)
    PROVE  SF!Finish(KeyOf[r], v)
  <1> USE CoalescerAssumption DEF IInv, TypeOK, Publish
  <1>1. KeyOf[r] \in Running
    BY DEF Running, LeadersEntered
  <1>2. Running' = Running \ {KeyOf[r]}
    BY DEF Running
  <1>3. Asked' = Asked
    BY DEF Asked
  <1>4. ASSUME NEW q \in Requests
        PROVE  Due'[q] = IF q \in Asked /\ KeyOf[q] = KeyOf[r] /\ Due[q] = None
                         THEN v ELSE Due[q]
    <2>1. CASE at[q] = "waiting"
      BY <2>1 DEF Due, Asked, NoLostWakeup, LeadersEntered
    <2>2. CASE at[q] \in {"leading", "panicked"}
      BY <2>2 DEF Due, Asked, LeadersEntered
    <2>3. CASE at[q] = "published"
      BY <2>3 DEF Due, Asked, PublishersFilled
    <2>4. CASE at[q] \in {"new", "back"}
      BY <2>4 DEF Due, Asked
    <2> QED  BY <2>1, <2>2, <2>3, <2>4
  <1>5. Due' = [q \in Requests |->
                  IF q \in Asked /\ KeyOf[q] = KeyOf[r] /\ Due[q] = None
                  THEN v ELSE Due[q]]
    <2>1. Due' = [q \in Requests |-> Due'[q]]  BY DEF Due
    <2> QED  BY <1>4, <2>1, Zenon
  <1> QED  BY <1>1, <1>2, <1>3, <1>5 DEF SF!Finish

\* Every other step of a request is a step of SingleFlight, or changes nothing
\* there (Leave, Panic).
LEMMA StepSF ==
    ASSUME IInv, IInv', NEW r \in Requests, Step(r) \/ Leave(r) \/ Panic(r)
    PROVE  SF!Next \/ UNCHANGED SF!vars
  <1> USE CoalescerAssumption DEF Running, Asked, Due
  <1>1. CASE Lead(r)
    <2>1. SF!Ask(r)  BY <1>1 DEF IInv, TypeOK, Lead, SF!Ask
    <2> QED  BY <2>1 DEF SF!Next
  <1>2. CASE Follow(r)
    <2>1. SF!Ask(r)
      BY <1>2 DEF IInv, TypeOK, EntriesLead, LeadersEntered, Follow, SF!Ask
    <2> QED  BY <2>1 DEF SF!Next
  <1>3. ASSUME NEW v \in Results, Publish(r, v)
        PROVE  SF!Next
    BY <1>3, PublishFinishes DEF SF!Next
  <1>4. CASE Return(r)
    <2>1. SF!Answer(r)  BY <1>4 DEF IInv, TypeOK, PublishersFilled, Return, SF!Answer
    <2> QED  BY <2>1 DEF SF!Next
  <1>5. CASE Receive(r)
    <2>1. SF!Answer(r)  BY <1>5 DEF IInv, TypeOK, Receive, SF!Answer
    <2> QED  BY <2>1 DEF SF!Next
  <1>6. CASE GiveUp(r)
    <2>1. SF!Abandon(r)  BY <1>6 DEF IInv, TypeOK, GiveUp, SF!Abandon
    <2> QED  BY <2>1 DEF SF!Next
  <1>7. CASE Leave(r)  BY <1>7 DEF Leave, SF!vars
  <1>8. CASE Panic(r)  BY <1>8 DEF IInv, TypeOK, Panic, SF!vars
  <1> QED  BY <1>1, <1>2, <1>3, <1>4, <1>5, <1>6, <1>7, <1>8 DEF Step, Select

\* Do implements single flight, for any number of callers and keys.
THEOREM CoalescerImplements == Spec => Implements
  <1>1. IInv /\ IInv' /\ [Next]_coalescerVars => [SF!Next]_(SF!vars)
    <2> SUFFICES ASSUME IInv, IInv', [Next]_coalescerVars
                 PROVE  SF!Next \/ UNCHANGED SF!vars
      OBVIOUS
    <2>1. CASE Next  BY <2>1, StepSF DEF Next
    <2>2. CASE UNCHANGED coalescerVars
      BY <2>2 DEF coalescerVars, SF!vars, Running, Asked, Due
    <2> QED  BY <2>1, <2>2
  <1> QED  BY <1>1, InitSF, Inductive, PTL DEF Spec, Implements, SF!Spec
=============================================================================
