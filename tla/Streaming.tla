----------------------------- MODULE Streaming -----------------------------
(***************************************************************************)
(* A streamed response on its way from the upstream to the client:         *)
(* writeUpstreamResponse (src/internal/proxy/proxy.go) copies what it      *)
(* reads, write by write, through the wrapped response writers of          *)
(* cache.go, metrics.go and accesslog.go (src/internal/middleware) into    *)
(* the buffer of net/http, and the first wrapper looks for the usage in    *)
(* what passes.                                                            *)
(*                                                                         *)
(* An event of the stream is one line of two pieces, because a read may    *)
(* return any part of what has arrived: event e is the pieces 2e-1 and 2e. *)
(* One event carries the usage.  Pieces arrive in order and are counted.   *)
(***************************************************************************)
EXTENDS Naturals, FiniteSets

CONSTANTS
    Events,         \* events of the stream
    UsageEvent,     \* the one that carries the usage
    CopySize,       \* pieces the buffer of io.Copy holds
    BufferSize      \* pieces the server's buffer holds

ASSUME StreamingAssumption ==
    /\ Events \in Nat
    /\ UsageEvent \in 1 .. Events
    /\ CopySize \in Nat \ {0}
    /\ BufferSize \in Nat \ {0}

VARIABLES
    sent,       \* pieces the upstream has sent
    upstream,   \* whether its body is open, ended, or broken off
    read,       \* pieces the handler has read and passed on
    cuts,       \* the values of read between two writes
    client,     \* pieces that left the server's buffer for the client
    conn,       \* the client's connection: up, closed, or past write_timeout
    finalUsage, \* the recorder has seen the usage
    pc          \* the handler: copying, copied, back with or without an audit record

vars == <<sent, upstream, read, cuts, client, conn, finalUsage, pc>>

All == 2 * Events

\* What a Flush of the recorder has to get through, and who has the method.
Wrappers == {"responseRecorder", "metricsResponseWriter", "accessLogRecorder"}

Flushers == {"responseRecorder"}

\* flushWriter flushes after each write, if that is a Flush all the way down.
Flushes == Wrappers \subseteq Flushers

Init ==
    /\ sent = 0
    /\ upstream = "open"
    /\ read = 0
    /\ cuts = {}
    /\ client = 0
    /\ conn = "up"
    /\ finalUsage = FALSE
    /\ pc = "copying"

-----------------------------------------------------------------------------
(* The upstream and the client.                                            *)

Send ==
    /\ upstream = "open"
    /\ sent < All
    /\ sent' = sent + 1
    /\ UNCHANGED <<upstream, read, cuts, client, conn, finalUsage, pc>>

End ==
    /\ upstream = "open"
    /\ sent = All
    /\ upstream' = "ended"
    /\ UNCHANGED <<sent, read, cuts, client, conn, finalUsage, pc>>

\* The body breaks off; a closed connection of the client does that, too, since
\* it ends the context of the upstream request.
Break ==
    /\ upstream = "open"
    /\ upstream' = "broken"
    /\ UNCHANGED <<sent, read, cuts, client, conn, finalUsage, pc>>

\* The client leaves, or server.write_timeout passes.
Disconnect(how) ==
    /\ conn = "up"
    /\ pc = "copying"
    /\ conn' = how
    /\ upstream' = IF how = "closed" /\ upstream = "open" THEN "broken" ELSE upstream
    /\ UNCHANGED <<sent, read, cuts, client, finalUsage, pc>>

-----------------------------------------------------------------------------
(* The handler.                                                            *)

\* What is left in a bufio.Writer that held p pieces when n more are written.
Leftover(p, n) ==
    IF p + n <= BufferSize THEN p + n
    ELSE IF p = 0 \/ p + n - BufferSize > BufferSize THEN 0
    ELSE p + n - BufferSize

\* The scan forgets that a write may end in the middle of the line.
BadSees(n) == 2 * UsageEvent \in read + 1 .. read + n

\* extractUsageFromChunk on a write of n pieces: the whole line is in it.
Sees(n) == {2 * UsageEvent - 1, 2 * UsageEvent} \subseteq read + 1 .. read + n

\* io.Copy reads n pieces and writes them: the recorder scans them, and then they
\* go through the other wrappers into the server's buffer.  The write fails only
\* if something has to leave the buffer for a connection that is not up.
Write(n) ==
    LET left == IF Flushes THEN 0 ELSE Leftover(read - client, n)
        leaves == left < read - client + n
    IN
    /\ pc = "copying"
    /\ n <= CopySize
    /\ n <= sent - read
    /\ read' = read + n
    /\ cuts' = cuts \cup {read + n}
    /\ finalUsage' = (finalUsage \/ Sees(n))
    /\ client' = IF leaves /\ conn = "up" THEN read + n - left ELSE client
    /\ pc' = IF leaves /\ conn # "up" THEN "copied" ELSE "copying"
    /\ UNCHANGED <<sent, upstream, conn>>

\* Once the body has ended, what the last read returned is not written.
BadCopyEnds ==
    /\ pc = "copying"
    /\ upstream # "open"
    /\ pc' = "copied"
    /\ UNCHANGED <<sent, upstream, read, cuts, client, conn, finalUsage>>

\* The read returns EOF after everything, or an error with or without the rest of
\* what had arrived.
CopyEnds ==
    /\ pc = "copying"
    /\ upstream = "broken" \/ (upstream = "ended" /\ read = sent)
    /\ pc' = "copied"
    /\ UNCHANGED <<sent, upstream, read, cuts, client, conn, finalUsage>>

\* A whole buffer is flushed, however much is in it.
BadReturn ==
    /\ pc = "copied"
    /\ pc' = IF finalUsage THEN "audited" ELSE "unaudited"
    /\ client' = IF conn = "up" THEN client + BufferSize ELSE client
    /\ UNCHANGED <<sent, upstream, read, cuts, conn, finalUsage>>

\* servePassThrough audits the stream if the usage was seen, and the server
\* flushes what is left when the handler has returned.
Return ==
    /\ pc = "copied"
    /\ pc' = IF finalUsage THEN "audited" ELSE "unaudited"
    /\ client' = IF conn = "up" THEN read ELSE client
    /\ UNCHANGED <<sent, upstream, read, cuts, conn, finalUsage>>

Handler == (\E n \in 1 .. CopySize : Write(n)) \/ CopyEnds \/ Return

Next ==
    \/ Send \/ End \/ Break
    \/ \E how \in {"closed", "expired"} : Disconnect(how)
    \/ Handler

Spec == Init /\ [][Next]_vars

\* A handler that has something to read reads it.  Nothing is assumed of the
\* upstream, which may pause for ever in the middle of its body.
FairSpec == Spec /\ WF_vars(Handler)

-----------------------------------------------------------------------------
TypeOK ==
    /\ sent \in 0 .. All /\ read \in 0 .. sent /\ client \in 0 .. read
    /\ upstream \in {"open", "ended", "broken"}
    /\ cuts \subseteq 1 .. read
    /\ conn \in {"up", "closed", "expired"}
    /\ finalUsage \in BOOLEAN
    /\ pc \in {"copying", "copied", "audited", "unaudited"}

\* A stream is billed exactly if its usage line came in one write, also when the
\* client is gone or a write failed: a line that a read cut in two is not found
\* (cache.go:55-78).
BilledUnlessCut ==
    pc \in {"audited", "unaudited"} =>
        (pc = "audited" <=> read >= 2 * UsageEvent /\ 2 * UsageEvent - 1 \notin cuts)

\* A stream that ends arrives whole, if the client stays and write_timeout is
\* long enough; and the handler comes back from every stream that ends or breaks.
EndedStreamArrives ==
    /\ upstream = "ended" ~> (client = All \/ conn # "up")
    /\ upstream # "open" ~> pc \in {"audited", "unaudited"}

\* "High-performance gateway pipeline with streaming passthrough" (README.md:12):
\* what was read of the stream gets to a client that stays, however long the
\* upstream takes for the next event.
Passthrough ==
    \A n \in 1 .. All : read >= n ~> (client >= n \/ conn # "up")
=============================================================================
