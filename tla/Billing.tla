------------------------------ MODULE Billing ------------------------------
(***************************************************************************)
(* The daily token quota from admission to the books: IsDailyQuotaExceeded *)
(* and RecordUsage of src/internal/tenant/usage.go, the audit queue and    *)
(* its workers of src/internal/audit/aduitor.go, and the quota check at    *)
(* the head of RateLimitMiddleware (src/internal/middleware/ratelimit.go). *)
(*                                                                         *)
(* A request is admitted on what the workers have booked so far; what it   *)
(* costs is known when the upstream has answered, and is booked when a     *)
(* worker gets to its record.  Nothing is reserved in between.             *)
(*                                                                         *)
(* A record names its payer by a fingerprint.  Whom that finds is the      *)
(* business of Admission; here some clients are just not found.            *)
(***************************************************************************)
EXTENDS Tenants, Naturals, Sequences, FiniteSets, Functions

CONSTANTS
    Clients,        \* gateway tokens
    ClientOf,       \* ClientOf[r]: whose token request r carries
    Unfound,        \* clients whose records LookupByFingerprint finds nobody for
    Limit,          \* Limit[c]: daily_token_limit, 0 for none
    MaxCost,        \* bound: the most tokens one response costs
    QueueCap,       \* capacity of auditQueue (10000)
    Workers,        \* audit workers (3)
    Concurrency,    \* bound: unbooked requests of a client at any time
    MaxMidnights,   \* bound: how often the day ends
    MaxRestarts     \* bound: how often the process restarts

ASSUME BillingAssumption ==
    /\ IsFiniteSet(Requests)
    /\ ClientOf \in [Requests -> Clients]
    /\ Unfound \subseteq Clients
    /\ Limit \in [Clients -> Nat]
    /\ MaxCost \in Nat
    /\ QueueCap \in Nat
    /\ Concurrency \in Nat
    /\ MaxMidnights \in Nat
    /\ MaxRestarts \in Nat
    /\ None \notin Requests

VARIABLES
    usage,          \* usage[c]: TotalTokens of today's snapshot
    queue,          \* auditQueue
    holds,          \* holds[w]: the record a worker took from it
    pc,             \* the life of a request and its record
    cost,           \* the tokens its response cost
    booked,         \* requests in today's snapshots
    midnights, restarts

vars == <<usage, queue, holds, pc, cost, booked, midnights, restarts>>
clock == <<midnights, restarts>>

Init ==
    /\ usage = [c \in Clients |-> 0]
    /\ queue = <<>>
    /\ holds = [w \in Workers |-> None]
    /\ pc = [r \in Requests |-> "new"]
    /\ cost = [r \in Requests |-> 0]
    /\ booked = {}
    /\ midnights = 0
    /\ restarts = 0

\* Requests of c that were let in and are not on the books yet.
Unbooked(c) ==
    {r \in Requests : ClientOf[r] = c /\ pc[r] \in {"admitted", "spent", "queued", "held"}}

\* Strictly over the limit, where the code refuses from the limit on.
BadExceeded(c) == Limit[c] > 0 /\ usage[c] > Limit[c]

\* IsDailyQuotaExceeded
Exceeded(c) == Limit[c] > 0 /\ usage[c] >= Limit[c]

-----------------------------------------------------------------------------
Admit(r) ==
    /\ pc[r] = "new"
    /\ ~Exceeded(ClientOf[r])
    /\ Cardinality(Unbooked(ClientOf[r])) < Concurrency
    /\ pc' = [pc EXCEPT ![r] = "admitted"]
    /\ UNCHANGED <<usage, queue, holds, cost, booked, clock>>

\* 429 insufficient_quota
Refuse(r) ==
    /\ pc[r] = "new"
    /\ Exceeded(ClientOf[r])
    /\ pc' = [pc EXCEPT ![r] = "refused"]
    /\ UNCHANGED <<usage, queue, holds, cost, booked, clock>>

\* The upstream answered with its usage; the handler or its goroutine has it.
Spend(r) ==
    /\ pc[r] = "admitted"
    /\ \E n \in 0 .. MaxCost : cost' = [cost EXCEPT ![r] = n]
    /\ pc' = [pc EXCEPT ![r] = "spent"]
    /\ UNCHANGED <<usage, queue, holds, booked, clock>>

\* No record: turned away by the rate limiter, or no usage in the response.
NoRecord(r) ==
    /\ pc[r] = "admitted"
    /\ pc' = [pc EXCEPT ![r] = "free"]
    /\ UNCHANGED <<usage, queue, holds, cost, booked, clock>>

\* The queue grows without bound.
BadPush(r) ==
    /\ pc[r] = "spent"
    /\ queue' = Append(queue, r)
    /\ pc' = [pc EXCEPT ![r] = "queued"]
    /\ UNCHANGED <<usage, holds, cost, booked, clock>>

\* PushRecord never blocks: a full queue drops the record.
Push(r) ==
    /\ pc[r] = "spent"
    /\ Len(queue) < QueueCap
    /\ queue' = Append(queue, r)
    /\ pc' = [pc EXCEPT ![r] = "queued"]
    /\ UNCHANGED <<usage, holds, cost, booked, clock>>

Drop(r) ==
    /\ pc[r] = "spent"
    /\ Len(queue) >= QueueCap
    /\ pc' = [pc EXCEPT ![r] = "dropped"]
    /\ UNCHANGED <<usage, queue, holds, cost, booked, clock>>

\* The record stays in the queue for the next worker.
BadTake(w) ==
    /\ holds[w] = None
    /\ queue # <<>>
    /\ holds' = [holds EXCEPT ![w] = Head(queue)]
    /\ pc' = [pc EXCEPT ![Head(queue)] = "held"]
    /\ UNCHANGED <<usage, queue, cost, booked, clock>>

\* A worker receives from the channel ...
Take(w) ==
    /\ holds[w] = None
    /\ queue # <<>>
    /\ holds' = [holds EXCEPT ![w] = Head(queue)]
    /\ queue' = Tail(queue)
    /\ pc' = [pc EXCEPT ![Head(queue)] = "held"]
    /\ UNCHANGED <<usage, cost, booked, clock>>

\* Usage is overwritten by the latest record instead of accumulated.
BadBook(w) ==
    LET r == holds[w] c == ClientOf[r] IN
    /\ r # None
    /\ c \notin Unfound
    /\ usage' = [usage EXCEPT ![c] = cost[r]]
    /\ booked' = booked \cup {r}
    /\ pc' = [pc EXCEPT ![r] = "booked"]
    /\ holds' = [holds EXCEPT ![w] = None]
    /\ UNCHANGED <<queue, cost, clock>>

\* The worker returns from its loop on a record without tokens.
BadBookZero(w) ==
    LET r == holds[w] c == ClientOf[r] IN
    /\ r # None
    /\ c \notin Unfound
    /\ cost[r] > 0
    /\ usage' = [usage EXCEPT ![c] = @ + cost[r]]
    /\ booked' = booked \cup {r}
    /\ pc' = [pc EXCEPT ![r] = "booked"]
    /\ holds' = [holds EXCEPT ![w] = None]
    /\ UNCHANGED <<queue, cost, clock>>

\* ... and books it if somebody is found to book it for: RecordUsage adds it to the
\* snapshot of the day on which the worker runs, whatever the record's own timestamp.
Book(w) ==
    LET r == holds[w] c == ClientOf[r] IN
    /\ r # None
    /\ c \notin Unfound
    /\ usage' = [usage EXCEPT ![c] = @ + cost[r]]
    /\ booked' = booked \cup {r}
    /\ pc' = [pc EXCEPT ![r] = "booked"]
    /\ holds' = [holds EXCEPT ![w] = None]
    /\ UNCHANGED <<queue, cost, clock>>

\* Nobody is found: the record is logged and counted, and booked nowhere.
LogOnly(w) ==
    LET r == holds[w] IN
    /\ r # None
    /\ ClientOf[r] \in Unfound
    /\ pc' = [pc EXCEPT ![r] = "logged"]
    /\ holds' = [holds EXCEPT ![w] = None]
    /\ UNCHANGED <<usage, queue, cost, booked, clock>>

\* dayKey changes: today has no snapshots yet.
Midnight ==
    /\ midnights < MaxMidnights
    /\ midnights' = midnights + 1
    /\ usage' = [c \in Clients |-> 0]
    /\ booked' = {}
    /\ UNCHANGED <<queue, holds, pc, cost, restarts>>

\* The snapshots and the queue are in memory only, and main does not drain the
\* queue on its way out.
Restart ==
    /\ restarts < MaxRestarts
    /\ restarts' = restarts + 1
    /\ usage' = [c \in Clients |-> 0]
    /\ booked' = {}
    /\ queue' = <<>>
    /\ holds' = [w \in Workers |-> None]
    /\ pc' = [r \in Requests |->
                IF pc[r] \in {"admitted", "spent", "queued", "held"} THEN "lost" ELSE pc[r]]
    /\ UNCHANGED <<cost, midnights>>

Handle(r) == Admit(r) \/ Refuse(r) \/ Spend(r) \/ NoRecord(r) \/ Push(r) \/ Drop(r)

Work(w) == Take(w) \/ Book(w) \/ LogOnly(w)

Next ==
    \/ \E r \in Requests : Handle(r)
    \/ \E w \in Workers : Work(w)
    \/ Midnight \/ Restart

Spec == Init /\ [][Next]_vars

\* Admitted requests end, and the workers run.
FairSpec ==
    /\ Spec
    /\ \A r \in Requests : WF_vars(Spend(r) \/ NoRecord(r) \/ Push(r) \/ Drop(r))
    /\ \A w \in Workers : WF_vars(Work(w))

-----------------------------------------------------------------------------
TypeOK ==
    /\ usage \in [Clients -> Nat]
    /\ queue \in Seq(Requests)
    /\ Len(queue) <= QueueCap
    /\ holds \in [Workers -> Requests \cup {None}]
    /\ pc \in [Requests -> {"new", "refused", "admitted", "free", "spent", "queued",
                            "dropped", "held", "booked", "logged", "lost"}]
    /\ cost \in [Requests -> 0 .. MaxCost]
    /\ booked \subseteq Requests
    /\ midnights \in Nat /\ restarts \in Nat

\* A record is in one place: once in the queue, or with one worker, or on the
\* books; so no response is paid for twice (aduitor.go:40-60, 71-79).
RecordInOnePlace ==
    /\ \A i \in DOMAIN queue : pc[queue[i]] = "queued"
    /\ \A i, j \in DOMAIN queue : queue[i] = queue[j] => i = j
    /\ \A w \in Workers : holds[w] # None => pc[holds[w]] = "held"
    /\ \A v, w \in Workers : holds[v] = holds[w] /\ holds[w] # None => v = w
    /\ \A r \in booked : pc[r] = "booked"

\* The snapshot of a client is the sum of its records booked today: none lost to
\* a concurrent worker, none charged to another client.
SnapshotsAddUp ==
    \A c \in Clients : usage[c] = SumFunctionOnSet(cost, {r \in booked : ClientOf[r] = c})

\* How far a client can overshoot its limit: by what was let in and not yet
\* booked, at most Concurrency responses, and not further.
OvershootBounded ==
    \A c \in Clients : Limit[c] > 0 => usage[c] < Limit[c] + MaxCost * Concurrency

\* Every response with usage ends up on the books of its client, unless the queue
\* was full, the process restarted, or the fingerprint of that client finds nobody
\* (aduitor.go:40-61): then it never does, and the client's limit never bites.
SpendingBooked ==
    \A r \in Requests :
        pc[r] = "spent" ~>
            \/ pc[r] \in {"dropped", "lost"}
            \/ pc[r] = IF ClientOf[r] \in Unfound THEN "logged" ELSE "booked"

=============================================================================
