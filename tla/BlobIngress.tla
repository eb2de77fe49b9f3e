----------------------------- MODULE BlobIngress ----------------------------
(***************************************************************************)
(* How Blob cells enter or are carried by a write: external references are *)
(* collected, authorised one by one, probed once per object, charged to    *)
(* the operation's budget and only then read, while the objects and the    *)
(* links that name them keep changing under the writer.                    *)
(*                                                                         *)
(* "keyed" copies referenced bytes, "overwrite" retains the reference,     *)
(* "merge" copies persisted descriptors of another branch and "schema"     *)
(* carries persisted descriptors into a rewritten table.                   *)
(***************************************************************************)
EXTENDS Naturals, Sequences, FiniteSets, SequencesExt, FiniteSetsExt, Functions, TLC

CONSTANTS
    Ops,            \* the operations this instance runs
    Inside,         \* objects under an allowed base
    Outside,        \* objects under none
    Aliases,        \* other spellings, resolved through links
    LogicalCells,   \* writer cells: [null, data, uri]
    PhysicalCells,  \* stored descriptors: [null, child, kind, pos, size, id, uri]
    MaxCells,       \* cells of one batch
    MaxBytes,       \* KEYED_WRITE_MAX_BYTES
    MaxRefs,        \* KEYED_WRITE_MAX_ROWS
    MaxMeta,        \* URI metadata budget, in retained strings
    MaxU64,         \* the largest offset or length
    Sizes,          \* object sizes
    MaxChanges      \* replacements and retargetings

VARIABLES
    op, cells,
    phase,      \* collect, authorize, probe, build, done or refused
    todo,       \* references not yet authorised
    granted,    \* authorised: <<spelling, object>>, with multiplicity
    probed,     \* object -> size the probe saw
    byInput,    \* spelling -> object the proof answers for it
    cache,      \* <<object, offset, length>> -> payload read in this batch
    files,      \* managed values still to hand out
    out,        \* cells built so far
    content,    \* object -> [ver, size]
    link,       \* spelling -> object
    changes

batch == <<op, cells>>
world == <<content, link, changes>>
vars == <<op, cells, phase, todo, granted, probed, byInput, cache, files, out, content, link, changes>>

Objects == Inside \cup Outside
NoData == 99

-----------------------------------------------------------------------------
(* Decoding                                                                 *)

Cell(k, uri, off, len) == [k |-> k, uri |-> uri, off |-> off, len |-> len]
Bad == Cell("bad", "", 0, 0)

\* logical_blob_input: data or a URI, never both and never neither.
Logical(c) ==
    CASE c.null -> Cell("null", "", 0, 0)
      [] ~c.null /\ c.data # NoData /\ c.uri = "" -> Cell("bytes", "", 0, c.data)
      [] ~c.null /\ c.data = NoData /\ c.uri # "" -> Cell("external", c.uri, 0, 0)
      [] OTHER -> Bad

SentinelsOk(c) ==
    CASE c.kind = 0 -> c.id = 0 /\ c.uri = ""
      [] c.kind = 1 -> c.id # 0 /\ c.uri = ""
      [] c.kind = 2 -> c.id # 0 /\ c.pos = 0 /\ c.uri = ""
      [] c.kind = 3 -> c.id = 0 /\ c.uri # ""
      [] OTHER -> FALSE

ClassifyByKind(c) ==
    IF c.null THEN Cell("null", "", 0, 0)
    ELSE IF ~c.child \/ c.pos + c.size > MaxU64 \/ c.kind > 3 \/ (c.kind = 3 /\ c.uri = "") THEN Bad
    ELSE IF c.kind = 3 THEN Cell("external", c.uri, c.pos, c.size)
    ELSE Cell("managed", "", 0, c.size)
\* BlobDescriptorDecoder::classify.  The parent's nullness decides first; an
\* external length of zero is an unknown length.
Classify(c) ==
    IF c.null THEN Cell("null", "", 0, 0)
    ELSE IF ~c.child \/ c.pos + c.size > MaxU64 \/ ~SentinelsOk(c) THEN Bad
    ELSE IF c.kind = 3 THEN Cell("external", c.uri, c.pos, c.size)
    ELSE Cell("managed", "", 0, c.size)

Decoded(i) == IF op \in {"keyed", "overwrite"} THEN Logical(cells[i]) ELSE Classify(cells[i])

References == SelectSeq([i \in DOMAIN cells |-> Decoded(i)], LAMBDA d : d.k = "external")

WidenRange(d) == TRUE
\* whole_external_uri_for_schema_rewrite.
WholeObject(d) == d.off = 0 /\ d.len = 0

NonNullRows == SelectSeq([i \in DOMAIN cells |-> i], LAMBDA i : Decoded(i).k # "null")
\* The rows whose values take_blobs is asked for.
ManagedRows == SelectSeq([i \in DOMAIN cells |-> i], LAMBDA i : Decoded(i).k = "managed")

-----------------------------------------------------------------------------
Init ==
    /\ op \in Ops
    /\ cells \in UNION {[1..n -> IF op \in {"keyed", "overwrite"} THEN LogicalCells ELSE PhysicalCells]
                          : n \in 1..MaxCells}
    /\ phase = "collect" /\ todo = <<>> /\ granted = <<>>
    /\ probed = <<>> /\ byInput = <<>> /\ cache = <<>> /\ files = <<>> /\ out = <<>>
    /\ \E s \in Sizes : content = [o \in Objects |-> [ver |-> 0, size |-> s]]
    /\ \E o \in Objects : link = [u \in Objects \cup Aliases |-> IF u \in Objects THEN u ELSE o]
    /\ changes = 0

Refuse ==
    /\ phase' = "refused"
    /\ UNCHANGED <<todo, granted, probed, byInput, cache, files, out>>

\* The count of references and their retained spellings, one string each.
TooManyReferences == Len(References) > MaxRefs \/ Len(References) > MaxMeta

\* validate_schema_rewrite_external_ranges: a schema rewrite checks its ranges
\* and reads no object at all.
RangesRefused == \E i \in DOMAIN References : ~WholeObject(References[i])

CollectRefused ==
    \/ \E i \in DOMAIN cells : Decoded(i) = Bad
    \/ IF op = "schema" THEN RangesRefused ELSE TooManyReferences

\* ExternalBlobUriCollector / PersistedBlobSelection, before any object is
\* touched.
Collect ==
    /\ phase = "collect"
    /\ IF CollectRefused THEN Refuse
       ELSE /\ phase' = IF op = "schema" THEN "build" ELSE "authorize"
            /\ todo' = [i \in DOMAIN References |-> References[i].uri]
            /\ files' = ManagedRows
            /\ UNCHANGED <<granted, probed, byInput, cache, out>>
    /\ UNCHANGED <<batch, world>>

GrantedObjects == {g[2] : g \in ToSet(granted)}

\* One spelling of preflight_external_blob_uri_iter: two strings are charged
\* for the occurrence and two more for an object not met before.
MetaAfter(o) ==
    2 * (Len(granted) + 1) + 2 * Cardinality(GrantedObjects \cup {o})

AuthorizeNext ==
    /\ phase = "authorize" /\ todo # <<>>
    /\ LET u == todo[1] IN
       IF link[u] \in Outside \/ MetaAfter(link[u]) > MaxMeta THEN Refuse
       ELSE /\ granted' = Append(granted, <<u, link[u]>>)
            /\ todo' = Tail(todo)
            /\ UNCHANGED <<phase, probed, byInput, cache, files, out>>
    /\ UNCHANGED <<batch, world>>

StartProbes ==
    /\ phase = "authorize" /\ todo = <<>>
    /\ phase' = "probe"
    /\ UNCHANGED <<batch, world, todo, granted, probed, byInput, cache, files, out>>

\* The HEAD of one object; they run in any order.
Probe(o) ==
    /\ phase = "probe" /\ o \in GrantedObjects \ DOMAIN probed
    /\ probed' = probed @@ (o :> content[o].size)
    /\ UNCHANGED <<batch, world, phase, todo, granted, byInput, cache, files, out>>

\* PreflightedExternalBlob::range_size, and whether the range is in the object.
RangeSize(o, d) ==
    IF d.len # 0 THEN d.len ELSE IF d.off <= probed[o] THEN probed[o] - d.off ELSE 0
RangeFits(o, d) == d.off + RangeSize(o, d) <= probed[o]

SumOver(f) == FoldFunction(+, 0, f)

\* The bytes a batch will hold: inline and managed values, and every reference
\* once per cell.
Charged(proof) ==
    SumOver([i \in DOMAIN cells |->
        LET d == Decoded(i) IN
        IF d.k = "external" THEN RangeSize(proof[d.uri], d) ELSE d.len])

\* The proof answers each spelling with the object the last finished probe
\* put there, then the operation's bytes are charged; an overwrite reads none.
Budget(proof) ==
    /\ phase = "probe" /\ DOMAIN probed = GrantedObjects
    /\ \A u \in DOMAIN proof : <<u, proof[u]>> \in ToSet(granted)
    /\ IF /\ op # "overwrite"
          /\ \/ \E i \in DOMAIN References : ~RangeFits(proof[References[i].uri], References[i])
             \/ Charged(proof) > MaxBytes
       THEN Refuse
       ELSE /\ phase' = "build" /\ byInput' = proof
            /\ UNCHANGED <<todo, granted, probed, cache, files, out>>
    /\ UNCHANGED <<batch, world>>

-----------------------------------------------------------------------------
(* Building the cells                                                       *)

Value(k, src, ver, off, n) == [k |-> k, src |-> src, ver |-> ver, off |-> off, n |-> n]
NullValue == Value("null", 0, 0, 0, 0)

CurrentBytes(o, d) == content[o].size
\* read_full / read_range ask for the range the probe fixed; a store truncates
\* a range that has come to pass the end of the object.
BytesRead(o, d) ==
    IF RangeSize(o, d) = 0 \/ d.off + RangeSize(o, d) <= content[o].size
    THEN RangeSize(o, d)
    ELSE content[o].size - d.off

\* A range that starts past the end of an object that shrank cannot be read.
ReadFails(o, d) == RangeSize(o, d) > 0 /\ d.off >= content[o].size

NeverReused(key) == FALSE
\* Payloads are reused within one batch, by canonical object and range.
Reused(key) == key \in DOMAIN cache

Spelled(d) == d.uri
\* canonicalize_external_blob_inputs stores the spelling the proof admitted.
RetainedUri(d) == byInput[d.uri]

Put(v) == out' = Append(out, v)

BuildExternal(d) ==
    CASE op = "overwrite" ->
           /\ Put(Value("ref", RetainedUri(d), 0, d.off, d.len))
           /\ UNCHANGED <<phase, cache, files>>
      [] op = "schema" ->
           /\ Put(Value("ref", d.uri, 0, 0, 0))
           /\ UNCHANGED <<phase, cache, files>>
      [] OTHER ->
           LET o == byInput[d.uri]
               key == <<o, d.off, d.len>>
           IN IF Reused(key)
              THEN Put(cache[key]) /\ UNCHANGED <<phase, cache, files>>
              ELSE IF ReadFails(o, d)
              THEN phase' = "refused" /\ UNCHANGED <<cache, files, out>>
              ELSE LET v == Value("copy", o, content[o].ver, d.off, BytesRead(o, d)) IN
                   /\ Put(v) /\ cache' = (key :> v) @@ cache
                   /\ UNCHANGED <<phase, files>>

\* The next value take_blobs returned has the recorded length; the schema
\* rewrite asks instead that it is no external one.
AccessorRefused(d) ==
    IF op = "schema" THEN Decoded(files[1]).k = "external" ELSE Decoded(files[1]).len # d.len

BuildManaged(d) ==
    IF files = <<>> \/ AccessorRefused(d)
    THEN phase' = "refused" /\ UNCHANGED <<cache, files, out>>
    ELSE /\ Put(Value("own", files[1], 0, 0, d.len))
         /\ files' = Tail(files)
         /\ UNCHANGED <<phase, cache>>

\* materialize_external_blob_inputs and the two rebuild_blob_column: one cell.
BuildNext ==
    /\ phase = "build" /\ Len(out) < Len(cells)
    /\ LET i == Len(out) + 1
           d == Decoded(i)
       IN CASE d.k = "null" -> Put(NullValue) /\ UNCHANGED <<phase, cache, files>>
            [] d.k = "bytes" -> Put(Value("own", i, 0, 0, d.len)) /\ UNCHANGED <<phase, cache, files>>
            [] d.k = "managed" -> BuildManaged(d)
            [] d.k = "external" -> BuildExternal(d)
    /\ UNCHANGED <<batch, world, todo, granted, probed, byInput>>

Held == SumOver([i \in DOMAIN out |-> IF out[i].k = "ref" THEN 0 ELSE out[i].n])

Finish ==
    /\ phase = "build" /\ Len(out) = Len(cells)
    /\ phase' = IF files # <<>> \/ (op = "keyed" /\ Held > MaxBytes) THEN "refused" ELSE "done"
    /\ UNCHANGED <<batch, world, todo, granted, probed, byInput, cache, files, out>>

-----------------------------------------------------------------------------
(* The world outside the graph                                              *)

Replace(o) ==
    /\ changes < MaxChanges /\ op # "schema" /\ phase \notin {"done", "refused"}
    /\ \E s \in Sizes : content' = [content EXCEPT ![o] = [ver |-> @.ver + 1, size |-> s]]
    /\ changes' = changes + 1
    /\ UNCHANGED <<batch, phase, todo, granted, probed, byInput, cache, files, out, link>>

\* A link may be moved at any time, also after the write.
Retarget(a) ==
    /\ changes < MaxChanges /\ op # "schema" /\ phase # "refused"
    /\ \E o \in Objects \ {link[a]} : link' = [link EXCEPT ![a] = o]
    /\ changes' = changes + 1
    /\ UNCHANGED <<batch, phase, todo, granted, probed, byInput, cache, files, out, content>>

Next ==
    \/ Collect \/ AuthorizeNext \/ StartProbes
    \/ \E o \in Inside : Probe(o)
    \/ \E proof \in [{g[1] : g \in ToSet(granted)} -> GrantedObjects] : Budget(proof)
    \/ BuildNext \/ Finish
    \/ \E o \in Inside : Replace(o)
    \/ \E a \in Aliases : Retarget(a)

Spec == Init /\ [][Next]_vars

-----------------------------------------------------------------------------
\* The writer never holds more payload than it was admitted for, however the
\* objects grow between the probe and the read.
CopiedWithinBudget == op \in {"keyed", "merge"} => Held <= MaxBytes

\* What is copied came from an allowed object and what is retained names one,
\* now and after any link has been moved.
AdmittedTargets ==
    \A i \in DOMAIN out :
        /\ out[i].k = "copy" => out[i].src \in Inside
        /\ (out[i].k = "ref" /\ op = "overwrite") => link[out[i].src] \in Inside

\* Two cells of a batch that name one object and range hold the same bytes,
\* although the object is replaced while the batch is built.
SameObjectSameBytes ==
    \A i, j \in DOMAIN out :
        (/\ out[i].k = "copy" /\ out[j].k = "copy" /\ out[i].src = out[j].src
         /\ Decoded(i).off = Decoded(j).off /\ Decoded(i).len = Decoded(j).len)
        => out[i] = out[j]

\* Each row keeps its own value: nulls stay null, and a managed or inline value
\* never lands in another row.
CellsInPlace ==
    \A i \in DOMAIN out :
        /\ (out[i].k = "null") <=> (Decoded(i).k = "null")
        /\ out[i].k = "own" => out[i].src = i

\* A schema rewrite never widens a range to its whole object.
RangesSurvive ==
    (op = "schema" /\ phase = "done") =>
        \A i \in DOMAIN out : out[i].k = "ref" => cells[i].pos = 0 /\ cells[i].size = 0

\* The descriptors Lance writes.
Encoding(c) ==
    \/ c.null
    \/ /\ c.child /\ c.pos + c.size <= MaxU64
       /\ \E p, s \in 0..MaxU64 : \E x \in Objects \cup Aliases :
            <<c.kind, c.pos, c.size, c.id, c.uri>> \in
                {<<0, p, s, 0, "">>, <<1, p, s, 1, "">>, <<2, 0, s, 1, "">>, <<3, p, s, 0, x>>}

\* A descriptor that no encoder writes is refused, never read as a plausible
\* value.
NothingGuessed ==
    (phase = "done" /\ op \in {"merge", "schema"}) => \A i \in DOMAIN cells : Encoding(cells[i])
=============================================================================
