----------------------- MODULE DependencyStatusProofs -----------------------
(***************************************************************************)
(* Theorems about DependencyStatus, for any number of providers and of     *)
(* requests that report, without end.                                      *)
(***************************************************************************)
EXTENDS DependencyStatus, TLAPS

\* A publication that overlaps no other: whoever is in the middle of one is alone
\* in it, and what it has written is its verdict.
Alone ==
    \A d \in Dependencies : ~mixed[d] =>
        \A w \in Writing(d) : Writing(d) = {w} /\ first[d] = verdict[w]

IInv == TypeOK /\ Alone /\ MixedOnlyByOverlap

-----------------------------------------------------------------------------
\* Redis is one dependency, the providers are the others.
LEMMA Names ==
    /\ Redis \in Dependencies
    /\ Monitor # Prober
    /\ Monitor \in Writers /\ Prober \in Writers
    /\ \A i \in DOMAIN Providers : Providers[i] \in Dependencies /\ Providers[i] # Redis
    /\ 1 \in DOMAIN Providers
    /\ MaxChanges \in Nat
<1>1. DOMAIN Providers = 1 .. Len(Providers) /\ Len(Providers) \in Nat \ {0}
  BY StatusAssumption
<1>3. 1 \in DOMAIN Providers
  BY <1>1
<1>4. Monitor # Prober /\ Monitor \in Writers /\ Prober \in Writers
  BY DEF Writers, Monitor, Prober
<1>5. \A i \in DOMAIN Providers : Providers[i] \in Dependencies /\ Providers[i] # Redis
  BY StatusAssumption DEF Dependencies
<1> QED
  BY <1>3, <1>4, <1>5, StatusAssumption DEF Dependencies

\* The prober stands at one of the providers, and the one it goes to exists.
LEMMA NextProvider ==
    ASSUME NEW d \in Dependencies, d # Redis, Turn(d) < Len(Providers)
    PROVE  Providers[Turn(d) + 1] \in Dependencies \ {Redis}
<1>1. Turn(d) \in DOMAIN Providers
  BY DEF Turn, Dependencies
<1>2. DOMAIN Providers = 1 .. Len(Providers) /\ Len(Providers) \in Nat
  BY StatusAssumption
<1>3. Turn(d) + 1 \in DOMAIN Providers
  BY <1>1, <1>2
<1> QED
  BY <1>3, Names

-----------------------------------------------------------------------------
LEMMA TypeInit == Init => TypeOK
BY Names DEF Init, TypeOK

LEMMA TypeProceed ==
    ASSUME TypeOK, NEW w \in Writers, Proceed(w)
    PROVE  /\ pc' \in [Writers -> {"idle", "asking", "first", "second"}]
           /\ about' \in [Writers -> Dependencies]
           /\ about'[Monitor] = Redis /\ about'[Prober] # Redis
<1>1. CASE MoreToProbe(w)
  <2>1. Providers[Turn(about[w]) + 1] \in Dependencies \ {Redis}
    BY <1>1, NextProvider DEF TypeOK, MoreToProbe
  <2> QED
    BY <1>1, <2>1, Names DEF TypeOK, Proceed, MoreToProbe
<1>2. CASE ~MoreToProbe(w)
  BY <1>2, Names DEF TypeOK, Proceed
<1> QED
  BY <1>1, <1>2

LEMMA TypeNext == TypeOK /\ [Next]_vars => TypeOK'
<1> SUFFICES ASSUME TypeOK, [Next]_vars PROVE TypeOK'
  OBVIOUS
<1> USE DEF environment, published
<1>1. ASSUME NEW w \in Writers, Tick(w) PROVE TypeOK'
  BY <1>1, Names DEF TypeOK, Tick, Ask
<1>2. ASSUME NEW w \in Writers, Answered(w) \/ NoAnswer(w) PROVE TypeOK'
  BY <1>2 DEF TypeOK, Answered, NoAnswer, Learn
<1>3. ASSUME NEW w \in Writers, WriteFirst(w) PROVE TypeOK'
  BY <1>3 DEF TypeOK, WriteFirst
<1>4. ASSUME NEW w \in Writers, WriteSecond(w) PROVE TypeOK'
  <2>1. Proceed(w)
    BY <1>4 DEF WriteSecond
  <2> QED
    BY <1>4, <2>1, TypeProceed DEF TypeOK, WriteSecond
<1>5. ASSUME NEW w \in Reporters, NEW d \in Dependencies, Use(w, d) PROVE TypeOK'
  BY <1>5, Names, StatusAssumption DEF TypeOK, Use, Ask, Writers
<1>6. ASSUME NEW d \in Dependencies, NEW c \in Conditions, Change(d, c)
      PROVE TypeOK'
  BY <1>6, Names DEF TypeOK, Change
<1>7. CASE UNCHANGED vars
  BY <1>7 DEF TypeOK, vars
<1> QED
  BY <1>1, <1>2, <1>3, <1>4, <1>5, <1>6, <1>7 DEF Next, Publish

-----------------------------------------------------------------------------
\* What leaves the published fields alone, and everybody who is in the middle of
\* a publication, leaves the invariant.
LEMMA Elsewhere ==
    ASSUME Alone, MixedOnlyByOverlap, UNCHANGED published,
           \A d \in Dependencies : /\ Writing(d)' = Writing(d)
                                   /\ \A w \in Writing(d) : verdict'[w] = verdict[w]
    PROVE  Alone' /\ MixedOnlyByOverlap'
BY DEF Alone, MixedOnlyByOverlap, published

LEMMA OverlapNext == IInv /\ [Next]_vars => (Alone /\ MixedOnlyByOverlap)'
<1> SUFFICES ASSUME IInv, [Next]_vars PROVE Alone' /\ MixedOnlyByOverlap'
  OBVIOUS
<1>0. TypeOK /\ Alone /\ MixedOnlyByOverlap
  BY DEF IInv
<1>1. ASSUME NEW w \in Writers, NEW d \in Dependencies, Ask(w, d)
      PROVE  Alone' /\ MixedOnlyByOverlap'
  BY <1>0, <1>1, Elsewhere DEF TypeOK, Ask, Writing
<1>2. ASSUME NEW w \in Writers, NEW v \in BOOLEAN, Learn(w, v)
      PROVE  Alone' /\ MixedOnlyByOverlap'
  BY <1>0, <1>2, Elsewhere DEF TypeOK, Learn, Writing
<1>3. ASSUME NEW w \in Writers, WriteFirst(w) PROVE Alone' /\ MixedOnlyByOverlap'
  <2>0. PICK e \in Dependencies : e = about[w]
    BY <1>0 DEF TypeOK
  <2>1. /\ Writing(e)' = Writing(e) \cup {w}
        /\ mixed'[e] = (Writing(e) # {})
        /\ first'[e] = verdict[w]
        /\ verdict' = verdict
    BY <1>0, <1>3, <2>0 DEF TypeOK, WriteFirst, Writing
  <2>2. ASSUME NEW d \in Dependencies, d # e
        PROVE  /\ Writing(d)' = Writing(d)
               /\ mixed'[d] = mixed[d] /\ first'[d] = first[d] /\ second'[d] = second[d]
    BY <1>0, <1>3, <2>0, <2>2 DEF TypeOK, WriteFirst, Writing
  <2>3. Alone'
    BY <1>0, <2>1, <2>2 DEF Alone
  <2>4. MixedOnlyByOverlap'
    BY <1>0, <2>1, <2>2 DEF MixedOnlyByOverlap
  <2> QED
    BY <2>3, <2>4
<1>4. ASSUME NEW w \in Writers, WriteSecond(w) PROVE Alone' /\ MixedOnlyByOverlap'
  <2>0. PICK e \in Dependencies : e = about[w]
    BY <1>0 DEF TypeOK
  <2>1. /\ w \in Writing(e)
        /\ Writing(e)' = Writing(e) \ {w}
        /\ second'[e] = verdict[w]
        /\ mixed' = mixed /\ first' = first
    BY <1>0, <1>4, <2>0 DEF TypeOK, WriteSecond, Writing, Proceed
  <2>2. ASSUME NEW d \in Dependencies, d # e
        PROVE  Writing(d)' = Writing(d) /\ second'[d] = second[d]
    BY <1>0, <1>4, <2>0, <2>2 DEF TypeOK, WriteSecond, Writing, Proceed
  <2>3. ASSUME NEW d \in Dependencies, NEW u \in Writing(d), u # w
        PROVE  verdict'[u] = verdict[u]
    BY <1>0, <1>4, <2>3 DEF TypeOK, WriteSecond, Writing
  <2>4. ASSUME NEW d \in Dependencies, ~mixed'[d], NEW u \in Writing(d)'
        PROVE  Writing(d)' = {u} /\ first'[d] = verdict'[u]
    <3>1. CASE d = e
      <4>1. Writing(e) = {w}
        BY <1>0, <2>1, <2>4, <3>1 DEF Alone
      <4> QED
        BY <2>1, <2>4, <3>1, <4>1
    <3>2. CASE d # e
      <4>1. u \in Writing(d) /\ u # w
        BY <2>1, <2>2, <2>4, <3>2 DEF Writing
      <4> QED
        BY <1>0, <2>1, <2>2, <2>3, <2>4, <3>2, <4>1 DEF Alone
    <3> QED
      BY <3>1, <3>2
  <2>5. Alone'
    BY <2>4 DEF Alone
  <2>6. ASSUME NEW d \in Dependencies, Writing(d)' = {}, ~mixed'[d]
        PROVE  first'[d] = second'[d]
    <3>1. CASE d = e
      BY <1>0, <2>1, <2>6, <3>1 DEF Alone
    <3>2. CASE d # e
      BY <1>0, <2>1, <2>2, <2>6, <3>2 DEF MixedOnlyByOverlap
    <3> QED
      BY <3>1, <3>2
  <2>7. MixedOnlyByOverlap'
    BY <2>6 DEF MixedOnlyByOverlap
  <2> QED
    BY <2>5, <2>7
<1>5. ASSUME NEW d \in Dependencies, NEW c \in Conditions, Change(d, c)
      PROVE  Alone' /\ MixedOnlyByOverlap'
  BY <1>0, <1>5, Elsewhere DEF Change, Writing
<1>6. CASE UNCHANGED vars
  BY <1>0, <1>6, Elsewhere DEF vars, Writing
<1>7. ASSUME NEW w \in Writers, Tick(w) PROVE Alone' /\ MixedOnlyByOverlap'
  <2>1. Ask(w, Redis) \/ Ask(w, Providers[1])
    BY <1>7 DEF Tick
  <2> QED
    BY <1>1, <2>1, Names
<1>8. ASSUME NEW w \in Writers, Answered(w) \/ NoAnswer(w) PROVE Alone' /\ MixedOnlyByOverlap'
  <2>1. \E v \in BOOLEAN : Learn(w, v)
    BY <1>8 DEF Answered, NoAnswer
  <2> QED
    BY <1>2, <2>1
<1>9. ASSUME NEW w \in Reporters, NEW d \in Dependencies, Use(w, d)
      PROVE  Alone' /\ MixedOnlyByOverlap'
  BY <1>1, <1>9 DEF Use, Writers
<1> QED
  BY <1>3, <1>4, <1>5, <1>6, <1>7, <1>8, <1>9 DEF Next, Publish

-----------------------------------------------------------------------------
LEMMA Invariant == Spec => []IInv
<1>1. Init => IInv
  <2>1. Init => Alone /\ MixedOnlyByOverlap
    BY DEF Init, Alone, MixedOnlyByOverlap, Writing
  <2> QED
    BY <2>1, TypeInit DEF IInv
<1>2. IInv /\ [Next]_vars => IInv'
  BY TypeNext, OverlapNext DEF IInv
<1> QED
  BY <1>1, <1>2, PTL DEF Spec

\* Types of what is published and of who publishes it.
THEOREM TypeCorrect == Spec => []TypeOK
BY Invariant, PTL DEF IInv

\* Writers that come one after the other never leave two fields behind that
\* contradict each other (redis.go:97-115, health.go:142-145).
THEOREM FieldsAgree == Spec => []MixedOnlyByOverlap
BY Invariant, PTL DEF IInv
=============================================================================
