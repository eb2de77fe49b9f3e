---------------------------- MODULE BlobDelivery ----------------------------
(***************************************************************************)
(* The HTTP delivery of one Blob cell: validators, one byte range, and the *)
(* pull-driven body that owns at most a fixed number of chunks across      *)
(* reads, prefetch and the connection.  The cell is overwritten between    *)
(* requests; a client that lost its connection resumes with Range and      *)
(* If-Range.                                                               *)
(*                                                                         *)
(* A value is a number that is also its strong entity tag, and byte i of   *)
(* value v is <<v, i>>.                                                    *)
(***************************************************************************)
EXTENDS Naturals, Sequences, FiniteSets

CONSTANTS
    Lengths,        \* the length of each value the cell takes, in order
    Top,            \* the largest number parse_decimal accepts, u64::MAX made small
    ChunkMax,       \* BLOB_READ_RANGE_MAX_BYTES, made small
    RetainedMax,    \* BLOB_BODY_MAX_RETAINED_CHUNKS
    Probes,         \* requests whose response alone is examined
    MaxCuts         \* bound: lost connections; 0 leaves the download out

VARIABLES
    value,      \* the cell's current value
    probe,      \* a request and its response
    client,     \* [etag, buffer, done]: the download
    body,       \* the response body being streamed
    cuts

vars == <<value, probe, client, body, cuts>>

Length(v) == Lengths[v]
Least(a, b) == IF a < b THEN a ELSE b

-----------------------------------------------------------------------------
(* Header fields.  A tag field is [kind, tag]; a Range is [kind, a, b].     *)

\* Strong comparison; an absent field passes, a malformed one fails.
IfMatchPasses(f, v) ==
    \/ f.kind \in {"absent", "any"}
    \/ f.kind = "strong" /\ f.tag = v

\* Weak comparison; an absent or malformed field does not match.
IfNoneMatchMatches(f, v) == f.kind = "any" \/ (f.kind \in {"strong", "weak"} /\ f.tag = v)

AnyIfRange(f, v) == TRUE
\* Dates, weak tags, malformed and repeated fields turn the range off.
RangeAllowed(f, v) == f.kind = "absent" \/ (f.kind = "strong" /\ f.tag = v)

Ignore == [kind |-> "ignore", start |-> 0, end |-> 0]
Unsatisfiable == [kind |-> "unsatisfiable", start |-> 0, end |-> 0]
Satisfiable(s, e) == [kind |-> "satisfiable", start |-> s, end |-> e]

Parses(n) == n <= Top
ShortSuffix(r, len) ==
    CASE r.kind \in {"absent", "malformed"} -> Ignore
      [] r.kind = "suffix" ->
           IF r.a = 0 \/ len = 0 THEN Unsatisfiable
           ELSE Satisfiable(IF r.a < len THEN len - r.a ELSE 0, len)
      [] r.kind = "from" -> IF r.a > len THEN Unsatisfiable ELSE Satisfiable(r.a, len)
      [] OTHER ->
           IF r.a > r.b THEN Ignore ELSE IF r.a >= len THEN Unsatisfiable ELSE Satisfiable(r.a, r.b)
\* parse_range_header: bytes=-a, bytes=a- and bytes=a-b; everything else is ignored.
RequestedRange(r, len) ==
    CASE r.kind \in {"absent", "malformed"} \/ ~Parses(r.a) \/ ~Parses(r.b) -> Ignore
      [] r.kind = "suffix" ->
           IF r.a = 0 \/ len = 0 THEN Unsatisfiable
           ELSE Satisfiable(IF r.a < len THEN len - r.a ELSE 0, len)
      [] r.kind = "from" -> IF r.a >= len THEN Unsatisfiable ELSE Satisfiable(r.a, len)
      [] OTHER ->
           CASE r.a > r.b -> Ignore
             [] r.a >= len -> Unsatisfiable
             [] OTHER -> Satisfiable(r.a, IF r.b >= len - 1 THEN len ELSE r.b + 1)

Response(status, s, e) == [status |-> status, start |-> s, end |-> e]

\* serve_managed, in the order the code evaluates the fields.
ServeManaged(q, v) ==
    LET len == Length(v)
        r == IF RangeAllowed(q.ifRange, v) THEN RequestedRange(q.range, len) ELSE Ignore
    IN CASE ~IfMatchPasses(q.ifMatch, v) -> Response(412, 0, 0)
         [] IfNoneMatchMatches(q.ifNoneMatch, v) -> Response(304, 0, 0)
         [] q.method = "HEAD" -> Response(200, 0, 0)
         [] r.kind = "unsatisfiable" -> Response(416, 0, 0)
         [] r.kind = "satisfiable" -> Response(206, r.start, r.end)
         [] OTHER -> Response(200, 0, len)

-----------------------------------------------------------------------------
NoBody == [open |-> FALSE, v |-> 0, next |-> 0, end |-> 0, flight |-> <<>>, held |-> <<>>]
Absent == [kind |-> "absent", tag |-> 0]
NoRange == [kind |-> "absent", a |-> 0, b |-> 0]
Plain == [method |-> "GET", range |-> NoRange, ifMatch |-> Absent, ifNoneMatch |-> Absent,
          ifRange |-> Absent]

Init ==
    /\ value = 1 /\ cuts = 0
    /\ probe = [q |-> Plain, v |-> 1, resp |-> ServeManaged(Plain, 1)]
    /\ client = [etag |-> 0, buffer |-> <<>>, done |-> FALSE]
    /\ body = NoBody

\* A commit gives the cell its next value; a body under way keeps its own.
Overwrite ==
    /\ value < Len(Lengths) /\ value' = value + 1
    /\ UNCHANGED <<probe, client, body, cuts>>

Probe(q) ==
    /\ probe' = [q |-> q, v |-> value, resp |-> ServeManaged(q, value)]
    /\ UNCHANGED <<value, client, body, cuts>>

\* The client: from the start, or the rest of what it holds if the tag still stands.
ResumeRequest ==
    IF client.buffer = <<>> THEN Plain
    ELSE [Plain EXCEPT !.range = [kind |-> "from", a |-> Len(client.buffer), b |-> 0],
                       !.ifRange = [kind |-> "strong", tag |-> client.etag]]

Request ==
    LET resp == ServeManaged(ResumeRequest, value)
        kept == IF resp.status = 206 THEN client.buffer ELSE <<>>
    IN /\ ~client.done /\ ~body.open /\ MaxCuts > 0
       /\ CASE resp.status \in {200, 206} ->
                 /\ body' = [NoBody EXCEPT !.open = TRUE, !.v = value, !.next = resp.start,
                                           !.end = resp.end]
                 /\ client' = [client EXCEPT !.etag = value, !.buffer = kept]
            [] OTHER -> client' = [client EXCEPT !.done = TRUE] /\ UNCHANGED body
       /\ UNCHANGED <<value, probe, cuts>>

-----------------------------------------------------------------------------
(* managed_stream: buffered(RetainedMax) reads, each behind a permit        *)

NumHolding(s) == Cardinality({i \in DOMAIN s : s[i].st # "waiting"})
Permits(b) == RetainedMax - NumHolding(b.flight) - Len(b.held)

Body(to) == body' = to /\ UNCHANGED <<value, probe, client, cuts>>

\* unfold: the next range joins the ordered buffer while it has room.
Prefetch ==
    /\ body.open /\ body.next < body.end /\ Len(body.flight) < RetainedMax
    /\ LET e == Least(body.end, body.next + ChunkMax) IN
       Body([body EXCEPT !.next = e,
                         !.flight = Append(@, [s |-> body.next, e |-> e, st |-> "waiting"])])

Unpermitted(i) == body.flight[i].st = "waiting"
\* read_chunk: acquire_owned before the engine is asked for bytes; the semaphore is fair.
MayRead(i) ==
    /\ body.flight[i].st = "waiting"
    /\ \A j \in 1..(i - 1) : body.flight[j].st # "waiting"
    /\ Permits(body) > 0

StartRead ==
    \E i \in DOMAIN body.flight :
        MayRead(i) /\ Body([body EXCEPT !.flight[i].st = "reading"])

FinishRead ==
    \E i \in DOMAIN body.flight :
        body.flight[i].st = "reading" /\ Body([body EXCEPT !.flight[i].st = "ready"])

\* The oldest read is handed to the connection, which keeps its permit.
Hand ==
    /\ body.open /\ body.flight # <<>> /\ Head(body.flight).st = "ready"
    /\ Body([body EXCEPT !.flight = Tail(@), !.held = Append(@, Head(body.flight))])

LeakedPermit(b) == [b EXCEPT !.held = Append(Tail(@), [Head(@) EXCEPT !.s = Head(b.held).e])]
\* LeasedChunk: the permit goes with the last copy of the bytes.
Released(b) == [b EXCEPT !.held = Tail(@)]

BytesOf(v, c) == [i \in 1..(c.e - c.s) |-> <<v, c.s + i - 1>>]
Write ==
    /\ body.open /\ body.held # <<>>
    /\ client' = [client EXCEPT !.buffer = @ \o BytesOf(body.v, Head(body.held))]
    /\ body' = Released(body)
    /\ UNCHANGED <<value, probe, cuts>>

\* The end of the stream: a length the client knows from Content-Length.
EndOfBody ==
    /\ body.open /\ body.next >= body.end /\ body.flight = <<>> /\ body.held = <<>>
    /\ body' = NoBody /\ client' = [client EXCEPT !.done = TRUE]
    /\ UNCHANGED <<value, probe, cuts>>

\* A read that fails or is short ends the body, and so does a lost connection.
Cut ==
    /\ body.open /\ cuts < MaxCuts /\ cuts' = cuts + 1
    /\ body' = NoBody
    /\ UNCHANGED <<value, probe, client>>

Serve == Prefetch \/ StartRead \/ FinishRead \/ Hand \/ Write \/ EndOfBody

Next == Overwrite \/ (probe.q = Plain /\ \E q \in Probes : Probe(q)) \/ Request \/ Serve \/ Cut

Spec == Init /\ [][Next]_vars

-----------------------------------------------------------------------------
\* What the client has assembled is at every moment a prefix of one value,
\* over any number of lost connections, resumptions and overwrites.
OneValue ==
    /\ \A i \in DOMAIN client.buffer : client.buffer[i] = <<client.etag, i - 1>>
    /\ client.done /\ client.etag # 0 => Len(client.buffer) = Length(client.etag)

\* The chunks being read, prefetched and retained by the connection never
\* exceed the response's budget.
BudgetKept == NumHolding(body.flight) + Len(body.held) <= RetainedMax

\* The bytes a satisfiable single range names, written as a set.
Named(r, len) ==
    {i \in 0..(len - 1) :
        CASE r.kind = "suffix" -> len - i <= r.a
          [] r.kind = "from" -> r.a <= i
          [] OTHER -> r.a <= i /\ i <= r.b}

\* A GET whose range counts answers exactly the bytes the range names, or
\* 416 when it names none; every other GET that passes its preconditions
\* answers the whole value.
RangeSelects ==
    LET q == probe.q
        len == Length(probe.v)
        resp == probe.resp
        counts == /\ q.range.kind \in {"suffix", "from", "span"}
                  /\ q.range.a <= Top /\ q.range.b <= Top
                  /\ (q.range.kind = "span" => q.range.a <= q.range.b)
                  /\ (q.ifRange.kind = "absent" \/ q.ifRange = [kind |-> "strong", tag |-> probe.v])
    IN q.method = "GET" /\ resp.status \notin {304, 412} =>
         IF counts
         THEN IF Named(q.range, len) = {} THEN resp.status = 416
              ELSE resp.status = 206 /\ resp.start..(resp.end - 1) = Named(q.range, len)
         ELSE resp.status = 200 /\ resp.start = 0 /\ resp.end = len

Downloaded == client.done
=============================================================================
