----------------------------- MODULE ServingSuite -----------------------------
(*****************************************************************************)
(* The served system for TLC: the gates that order the requests of a         *)
(* process (WriteGates), the export stream with its pinned cut and its       *)
(* queue (ExportStream), reading a blob through a descriptor and             *)
(* delivering it over HTTP (BlobRead, BlobDelivery), the admission of        *)
(* requests (Admission), and the cluster's ledger: planning and applying     *)
(* its configuration (ClusterPlan, ClusterApply). A behaviour is about one   *)
(* of them: area names it and its bounds, and the components share the       *)
(* variables.                                                                *)
(*****************************************************************************)
EXTENDS Integers, Sequences, FiniteSets, TLC

CONSTANTS reqOne, reqTwo, reqThree, handleOne, handleTwo, exportOne, exportTwo, graphOne, schemaA, schemaB, cmdOne, cmdTwo, none, callOne, callTwo, callThree, alice, entryOne, entryTwo

\* The component a behaviour is about, and its variables.
VARIABLES area, x1, x2, x3, x4, x5, x6, x7, x8, x9, x10, x11, x12, x13, x14

vars == <<area, x1, x2, x3, x4, x5, x6, x7, x8, x9, x10, x11, x12, x13, x14>>

\* Export requests: everything, by type and table, an unknown name.
Wanted(served, types, keys) == [served |-> served, types |-> types, keys |-> keys]
ExportRequests ==
    {Wanted(TRUE, {}, {}), Wanted(FALSE, {"B"}, {2}), Wanted(TRUE, {"Z"}, {})}

\* Conditional and range requests for a blob of at most four bytes.
NoTag == [kind |-> "absent", tag |-> 0]
NoRange == [kind |-> "absent", a |-> 0, b |-> 0]
Tags == {[kind |-> k, tag |-> t] : k \in {"strong", "weak"}, t \in {1, 2}}
          \cup {[kind |-> k, tag |-> 0] : k \in {"absent", "any", "malformed"}}
Ranges == {[kind |-> k, a |-> lo, b |-> hi] :
              k \in {"suffix", "from", "span"}, lo \in 0..5, hi \in 0..5}
            \cup {NoRange, [kind |-> "malformed", a |-> 0, b |-> 0]}
AllProbes ==
    {[method |-> m, range |-> r, ifMatch |-> im, ifNoneMatch |-> NoTag, ifRange |-> ir] :
        m \in {"GET", "HEAD"}, r \in Ranges, im \in {NoTag, [kind |-> "weak", tag |-> 1]},
        ir \in Tags \ {[kind |-> "any", tag |-> 0]}}
    \cup {[method |-> "GET", range |-> r, ifMatch |-> NoTag, ifNoneMatch |-> inm,
           ifRange |-> NoTag] : r \in Ranges, inm \in Tags}

\* Configurations of a cluster: one graph that is declared, migrated, dropped
\* and declared again; and two graphs, the first with every choice, with one
\* policy and one embedding provider of two profiles.
ApplyConfigs ==
    {[g \in {graphOne} |-> none],
     [g \in {graphOne} |-> [schema |-> schemaA, query |-> TRUE]],
     [g \in {graphOne} |-> [schema |-> schemaB, query |-> FALSE]]}
Partial(D, S) == UNION {[d -> S] : d \in SUBSET D}
FirstGraph == {x \in [schema : {"A", "B"}, query : {none, "q"},
                       provider : {none, "e"}, blob : {"deny", "allow"}] :
                  x.schema = "B" => x.blob = "deny" /\ x.query = none}
PlanGraphs ==
    {f \in Partial({1, 2}, FirstGraph) :
        2 \in DOMAIN f =>
            /\ f[2] = [schema |-> "A", query |-> none, provider |-> none, blob |-> "deny"]
            /\ 1 \in DOMAIN f => f[1].query = none /\ f[1].provider = none}
PlanConfigs ==
    {d \in [graphs : PlanGraphs,
            policies : Partial({"p"}, [text : {"t"}, binds : {{0}, {1}}]),
            providers : Partial({"e"}, {"x", "y"})] :
        /\ \A g \in DOMAIN d.graphs : d.graphs[g].provider \in DOMAIN d.providers \cup {none}
        /\ 2 \in DOMAIN d.graphs => DOMAIN d.providers = {}}

\* Three requests on two handles; the gates of a root are rebuilt when the
\* last handle goes.
Gates == INSTANCE WriteGates WITH
    Requests <- {reqOne, reqTwo, reqThree},
    Kinds <- {"mutation", "export", "open", "root_delete"},
    Handles <- {handleOne, handleTwo}, MaxManagers <- 2,
    registry <- x1, handles <- x2, built <- x3, gates <- x4, req <- x5

\* Two exports, one lease, a queue of two chunks, one writer and one failing
\* call.
Export == INSTANCE ExportStream WITH
    Exports <- {exportOne, exportTwo}, Requests <- ExportRequests,
    Leases <- 1, QueueChunks <- 2, MaxWrites <- 1, MaxFailures <- 1,
    pins <- x1, floor <- x2, free <- x3, control <- x4, exp <- x5,
    writes <- x6, failures <- x7

\* Reads of one blob while its branch, or its type and property, are deleted
\* and made again.
DescriptorCases ==
    {[of |-> "descriptor", kinds |-> {"managed"}, commits |-> 2, recreate |-> 2, lifetimes |-> 1],
     [of |-> "descriptor", kinds |-> {"managed", "external"}, commits |-> 2, recreate |-> 1, lifetimes |-> 2]}
Descriptor(c) == INSTANCE BlobRead WITH
    Kinds <- c.kinds, MaxCommits <- c.commits, MaxRecreate <- c.recreate,
    MaxReads <- 2, Lifetimes <- c.lifetimes,
    graph <- x1, native <- x2, commits <- x3, catalog <- x4, legacy <- x5,
    reader <- x6, served <- x7, forks <- x8, reads <- x9

\* Every conditional and range request once; a download resumed after three
\* cuts while the value changes.
DeliveryCases ==
    {[of |-> "delivery", lengths |-> <<3, 0, 1>>, top |-> 4, chunk |-> 2, cuts |-> 0],
     [of |-> "delivery", lengths |-> <<4, 0, 5>>, top |-> 9, chunk |-> 1, cuts |-> 3]}
Delivery(c) == INSTANCE BlobDelivery WITH
    Lengths <- c.lengths, Top <- c.top, ChunkMax <- c.chunk,
    RetainedMax <- 2, Probes <- IF c.cuts = 0 THEN AllProbes ELSE {},
    MaxCuts <- c.cuts,
    value <- x1, probe <- x2, client <- x3, body <- x4, cuts <- x5

\* Three requests of one actor whose state is evicted and made again.
Admit == INSTANCE Admission WITH
    Requests <- {callOne, callTwo, callThree}, Actors <- {alice},
    StateIds <- {entryOne, entryTwo}, InflightCap <- 2, ByteCap <- 2,
    MaxEstimate <- 3, Width <- 4,
    per_actor <- x1, fresh <- x2, permits <- x3, bytes <- x4, req <- x5

\* One command after another with crashes, failing calls and lost answers; two at
\* a time on a local disk; two on an object store whose lock is broken by force;
\* two that state.lock lets run without a lock.
LedgerCase(schemas, commands, ops, faults, edits) ==
    [of |-> "ledger", schemas |-> schemas, commands |-> commands, ops |-> ops,
     faults |-> faults, edits |-> edits, probe |-> TRUE, locked |-> TRUE, remote |-> TRUE]
LedgerCases ==
    {LedgerCase({schemaA, schemaB}, {cmdOne}, 3, 2, 3),
     [LedgerCase({schemaA, schemaB}, {cmdOne, cmdTwo}, 2, 1, 1) EXCEPT !.remote = FALSE],
     [LedgerCase({schemaA}, {cmdOne, cmdTwo}, 2, 0, 1) EXCEPT !.probe = FALSE],
     [LedgerCase({schemaA}, {cmdOne, cmdTwo}, 2, 0, 1) EXCEPT !.locked = FALSE]}
Ledger(c) == INSTANCE ClusterApply WITH
    Graphs <- {graphOne}, Schemas <- c.schemas, Commands <- c.commands,
    None <- none,
    Configs <- {d \in ApplyConfigs : d[graphOne] = none \/ d[graphOne].schema \in c.schemas},
    MaxOps <- c.ops, MaxFaults <- c.faults, MaxEdits <- c.edits,
    ProbeOwner <- c.probe, StateLock <- c.locked, ConditionalPut <- c.remote,
    config <- x1, lock <- x2, breaker <- x3, ledger <- x4, sidecars <- x5,
    approvals <- x6, blobs <- x7, root <- x8, cmd <- x9, strays <- x10,
    ops <- x11, faults <- x12, edits <- x13, latent <- x14

\* Any sequence of applies and refreshes with pending intents, approvals and
\* failures.
Planning == INSTANCE ClusterPlan WITH
    Graphs <- {1, 2}, Policies <- {"p"}, Providers <- {"e"}, None <- none,
    Configs <- PlanConfigs,
    ledger <- x1

-----------------------------------------------------------------------------
GatesInit ==
    /\ area = [of |-> "gates"] /\ Gates!Init
    /\ x6 = 0 /\ x7 = 0 /\ x8 = 0 /\ x9 = 0 /\ x10 = 0 /\ x11 = 0 /\ x12 =
       0 /\ x13 = 0 /\ x14 = 0

ExportInit ==
    /\ area = [of |-> "export"] /\ Export!Init
    /\ x8 = 0 /\ x9 = 0 /\ x10 = 0 /\ x11 = 0 /\ x12 = 0 /\ x13 = 0 /\ x14 = 0

DescriptorInit ==
    /\ \E c \in DescriptorCases : area = c /\ Descriptor(c)!Init
    /\ x10 = 0 /\ x11 = 0 /\ x12 = 0 /\ x13 = 0 /\ x14 = 0

DeliveryInit ==
    /\ \E c \in DeliveryCases : area = c /\ Delivery(c)!Init
    /\ x6 = 0 /\ x7 = 0 /\ x8 = 0 /\ x9 = 0 /\ x10 = 0 /\ x11 = 0 /\ x12 =
       0 /\ x13 = 0 /\ x14 = 0

AdmitInit ==
    /\ area = [of |-> "admission"] /\ Admit!Init
    /\ x6 = 0 /\ x7 = 0 /\ x8 = 0 /\ x9 = 0 /\ x10 = 0 /\ x11 = 0 /\ x12 =
       0 /\ x13 = 0 /\ x14 = 0

LedgerInit ==
    /\ \E c \in LedgerCases : area = c /\ Ledger(c)!Init

PlanningInit ==
    /\ area = [of |-> "planning"] /\ Planning!Init
    /\ x2 = 0 /\ x3 = 0 /\ x4 = 0 /\ x5 = 0 /\ x6 = 0 /\ x7 = 0 /\ x8 = 0
       /\ x9 = 0 /\ x10 = 0 /\ x11 = 0 /\ x12 = 0 /\ x13 = 0 /\ x14 = 0

Init == GatesInit \/ ExportInit \/ DescriptorInit \/ DeliveryInit \/ AdmitInit \/ LedgerInit \/ PlanningInit

GatesNext ==
    /\ area.of = "gates" /\ Gates!Next
    /\ UNCHANGED <<area, x6, x7, x8, x9, x10, x11, x12, x13, x14>>

ExportNext ==
    /\ area.of = "export" /\ Export!Next
    /\ UNCHANGED <<area, x8, x9, x10, x11, x12, x13, x14>>

DescriptorNext ==
    /\ \E c \in DescriptorCases : area = c /\ Descriptor(c)!Next
    /\ UNCHANGED <<area, x10, x11, x12, x13, x14>>

DeliveryNext ==
    /\ \E c \in DeliveryCases : area = c /\ Delivery(c)!Next
    /\ UNCHANGED <<area, x6, x7, x8, x9, x10, x11, x12, x13, x14>>

AdmitNext ==
    /\ area.of = "admission" /\ Admit!Next
    /\ UNCHANGED <<area, x6, x7, x8, x9, x10, x11, x12, x13, x14>>

LedgerNext ==
    /\ \E c \in LedgerCases : area = c /\ Ledger(c)!Next
    /\ UNCHANGED <<area>>

PlanningNext ==
    /\ area.of = "planning" /\ Planning!Next
    /\ UNCHANGED <<area, x2, x3, x4, x5, x6, x7, x8, x9, x10, x11, x12,
       x13, x14>>

Next == GatesNext \/ ExportNext \/ DescriptorNext \/ DeliveryNext \/ AdmitNext \/ LedgerNext \/ PlanningNext

Spec == Init /\ [][Next]_vars

-----------------------------------------------------------------------------
\* Requests of one server: no two have conflicting effects in flight, also
\* when the gates of a root are rebuilt; the cut of an export stays still and
\* readable until its last chunk, every queued chunk holds its budget and a
\* stream that ends without an error is complete; and no actor's admission
\* counters leak or exceed their caps.
RequestsIsolated ==
    /\ area.of = "gates" =>
           /\ Gates!EffectsExclusive
           /\ Gates!CutUndisturbed
    /\ area.of = "export" =>
           /\ Export!CutReadable
           /\ Export!ChunksReserved
           /\ Export!CleanEndComplete
    /\ area.of = "admission" =>
           /\ Admit!WithinCaps
           /\ Admit!NoLeak

\* A blob answer holds the cell of the captured commit and property, two
\* different values never share an etag, the bytes sent are the range RFC 9110
\* selects, and a download resumed with If-Range is one value from its first
\* byte to its last, within the retained budget.
BlobAnswersExact ==
    /\ \A c \in DescriptorCases : area = c =>
           /\ c.lifetimes = 1 => Descriptor(c)!ReadsCapturedCell
           /\ c.lifetimes = 1 => Descriptor(c)!EtagNamesOneValue
           /\ c.lifetimes = 2 => Descriptor(c)!ReadsCapturedProperty
    /\ \A c \in DeliveryCases : area = c =>
           /\ c.cuts = 0 => Delivery(c)!RangeSelects
           /\ c.cuts > 0 => Delivery(c)!OneValue
           /\ c.cuts > 0 => Delivery(c)!BudgetKept

\* The cluster's ledger: under a lock that is forced only from the dead, one
\* command at a time; no entry without its payload, and no approval spent before
\* it is recorded, lock or no lock; commands one after another leave what a sweep
\* that can read the roots repairs, except of a graph that a failed probe called
\* absent or that the engine moved behind a retired sidecar.  What is applied can
\* be served, an apply without failures converges, and a graph whose schema failed
\* keeps the configuration it is served with.
LedgerSound ==
    /\ \A c \in LedgerCases : area = c =>
           /\ c.commands = {cmdOne} => Ledger(c)!SweepHeals
           /\ c.locked /\ c.probe => Ledger(c)!OneCommandAtATime
           /\ Ledger(c)!PayloadBeforeLedger
           /\ Ledger(c)!MarkedAfterRecorded
    /\ area.of = "planning" =>
           /\ Planning!AppliedLedgerServes
           /\ Planning!CleanApplyConverges
           /\ Planning!FailedGraphKeepsItsAuthority

=============================================================================
