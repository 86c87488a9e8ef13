-------------------------- MODULE StreamingProofs --------------------------
(***************************************************************************)
(* Theorems about Streaming, for any length of the stream, any place of    *)
(* the usage in it, and buffers of any size.                               *)
(***************************************************************************)
EXTENDS Streaming, TLAPS

\* The usage has been seen exactly if its line was read and is not cut; and where
\* the handler has read up to is where its last write ended.
UsageFound ==
    /\ read # 0 => read \in cuts
    /\ finalUsage <=> read >= 2 * UsageEvent /\ 2 * UsageEvent - 1 \notin cuts

\* A handler that is back has audited what was seen.
AuditedAsSeen == pc \in {"audited", "unaudited"} => (pc = "audited" <=> finalUsage)

IInv == TypeOK /\ UsageFound /\ AuditedAsSeen

-----------------------------------------------------------------------------
\* What is left in a bufio.Writer after a write is no more than was there or came.
LEMMA LeftoverBound ==
    ASSUME NEW p \in Nat, NEW n \in Nat
    PROVE  Leftover(p, n) \in 0 .. p + n
<1>1. BufferSize \in Nat
  BY StreamingAssumption
<1> QED
  BY <1>1 DEF Leftover

\* What the server has when a write of n pieces returns.
LEMMA WrittenBound ==
    ASSUME TypeOK, NEW n \in Nat, Write(n)
    PROVE  client' \in 0 .. read + n
<1>1. sent \in Nat /\ read \in Nat /\ client \in Nat /\ client <= read
  BY DEF TypeOK
<1>2. read - client \in Nat
  BY <1>1
<1> DEFINE left == IF Flushes THEN 0 ELSE Leftover(read - client, n)
           leaves == left < read - client + n
<1>3. left \in Nat
  BY <1>2, LeftoverBound
<1>4. client' = IF leaves /\ conn = "up" THEN read + n - left ELSE client
  BY DEF Write
<1>5. CASE leaves /\ conn = "up"
  BY <1>1, <1>2, <1>3, <1>4, <1>5
<1>6. CASE ~(leaves /\ conn = "up")
  <2>1. client' = client
    BY <1>4, <1>6
  <2> QED
    BY <2>1, <1>1
<1> QED
  BY <1>5, <1>6

\* The scan of a write finds the line that the write completes, and only that one,
\* if no read ended in the middle of it.
LEMMA Scan ==
    ASSUME TypeOK, UsageFound, NEW n \in Nat \ {0}
    PROVE  (finalUsage \/ Sees(n)) <=>
               /\ read + n >= 2 * UsageEvent
               /\ 2 * UsageEvent - 1 \notin cuts \cup {read + n}
<1> DEFINE u == 2 * UsageEvent
<1>1. read \in Nat /\ u \in Nat /\ u >= 2 /\ cuts \subseteq 1 .. read
  BY StreamingAssumption DEF TypeOK
<1>2. Sees(n) <=> read < u - 1 /\ u <= read + n
  BY <1>1 DEF Sees
<1>3. finalUsage <=> read >= u /\ u - 1 \notin cuts
  BY DEF UsageFound
<1>4. read = u - 1 => u - 1 \in cuts
  BY <1>1 DEF UsageFound
<1>5. read < u - 1 => u - 1 \notin cuts
  BY <1>1
<1> HIDE DEF u
<1>6. (finalUsage \/ Sees(n)) <=> (read + n >= u /\ u - 1 \notin cuts \cup {read + n})
  <2>1. CASE read >= u
    BY <2>1, <1>1, <1>2, <1>3
  <2>2. CASE read = u - 1
    BY <2>2, <1>1, <1>2, <1>3, <1>4
  <2>3. CASE read < u - 1
    BY <2>3, <1>1, <1>2, <1>3, <1>5
  <2> QED
    BY <2>1, <2>2, <2>3, <1>1
<1> QED
  BY <1>6 DEF u

-----------------------------------------------------------------------------
LEMMA InductiveInit == Init => IInv
<1> SUFFICES ASSUME Init PROVE IInv
  OBVIOUS
<1>1. All \in Nat /\ UsageEvent \in Nat /\ UsageEvent >= 1
  BY StreamingAssumption DEF All
<1>2. TypeOK
  <2>1. sent \in 0 .. All /\ read \in 0 .. sent /\ client \in 0 .. read
    BY <1>1 DEF Init
  <2>2. /\ upstream \in {"open", "ended", "broken"} /\ conn \in {"up", "closed", "expired"}
        /\ finalUsage \in BOOLEAN /\ cuts \subseteq 1 .. read
        /\ pc \in {"copying", "copied", "audited", "unaudited"}
    BY DEF Init
  <2> QED
    BY <2>1, <2>2 DEF TypeOK
<1>3. UsageFound
  BY <1>1 DEF Init, UsageFound
<1>4. AuditedAsSeen
  BY DEF Init, AuditedAsSeen
<1> QED
  BY <1>2, <1>3, <1>4 DEF IInv

LEMMA InductiveWrite ==
    ASSUME IInv, NEW n \in 1 .. CopySize, Write(n)
    PROVE  IInv'
<1>1. n \in Nat \ {0}
  BY StreamingAssumption
<1>2. read \in Nat /\ sent \in 0 .. All /\ read <= sent /\ cuts \subseteq 1 .. read
  BY StreamingAssumption DEF IInv, TypeOK, All
<1>3. /\ n <= sent - read /\ read' = read + n /\ cuts' = cuts \cup {read + n}
      /\ finalUsage' = (finalUsage \/ Sees(n))
      /\ pc' \in {"copied", "copying"}
      /\ UNCHANGED <<sent, upstream, conn>>
  BY DEF Write
<1>4. TypeOK'
  <2>1. sent' \in 0 .. All /\ read' \in 0 .. sent'
    BY <1>1, <1>2, <1>3
  <2>2. client' \in 0 .. read'
    BY <1>1, <1>3, WrittenBound DEF IInv
  <2>3. cuts' \subseteq 1 .. read'
    BY <1>1, <1>2, <1>3
  <2>4. finalUsage' \in BOOLEAN
    BY <1>3, Zenon DEF IInv, TypeOK, Sees
  <2>5. /\ upstream' \in {"open", "ended", "broken"}
        /\ conn' \in {"up", "closed", "expired"}
        /\ pc' \in {"copying", "copied", "audited", "unaudited"}
    BY <1>3 DEF IInv, TypeOK
  <2> QED
    BY <2>1, <2>2, <2>3, <2>4, <2>5 DEF TypeOK
<1>5. UsageFound'
  BY <1>1, <1>3, Scan DEF IInv, UsageFound
<1>6. AuditedAsSeen'
  BY <1>3 DEF AuditedAsSeen
<1> QED
  BY <1>4, <1>5, <1>6 DEF IInv

LEMMA InductiveStep == IInv /\ [Next]_vars => IInv'
<1> SUFFICES ASSUME IInv, [Next]_vars PROVE IInv'
  OBVIOUS
<1> USE DEF IInv, TypeOK, UsageFound, AuditedAsSeen
<1>1. All \in Nat
  BY StreamingAssumption DEF All
<1>2. CASE Send
  BY <1>1, <1>2 DEF Send
<1>3. CASE End
  BY <1>3 DEF End
<1>4. CASE Break
  BY <1>4 DEF Break
<1>5. ASSUME NEW how \in {"closed", "expired"}, Disconnect(how) PROVE IInv'
  BY <1>5 DEF Disconnect
<1>6. ASSUME NEW n \in 1 .. CopySize, Write(n) PROVE IInv'
  BY <1>6, InductiveWrite
<1>7. CASE CopyEnds
  BY <1>7 DEF CopyEnds
<1>8. CASE Return
  BY <1>8 DEF Return
<1>9. CASE UNCHANGED vars
  BY <1>9 DEF vars
<1> QED
  BY <1>2, <1>3, <1>4, <1>5, <1>6, <1>7, <1>8, <1>9 DEF Next, Handler

LEMMA Inductive == Spec => []IInv
BY InductiveInit, InductiveStep, PTL DEF Spec

-----------------------------------------------------------------------------
\* Types; and, whatever the sizes of the buffers, nothing is read that was not sent,
\* and nothing reaches the client that was not read (proxy.go:262-277).
THEOREM TypeCorrect == Spec => []TypeOK
<1>1. IInv => TypeOK
  BY DEF IInv
<1> QED
  BY Inductive, <1>1, PTL

\* A stream is billed exactly if its usage line was read and no read cut it in two,
\* wherever the line is in the stream (cache.go:55-78).
THEOREM BilledExactly == Spec => []BilledUnlessCut
<1>1. IInv => BilledUnlessCut
  BY DEF IInv, UsageFound, AuditedAsSeen, BilledUnlessCut
<1> QED
  BY Inductive, <1>1, PTL
=============================================================================
