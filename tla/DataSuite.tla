------------------------------ MODULE DataSuite -------------------------------
(*****************************************************************************)
(* Rows and values for TLC: a mutation query and a bulk load over the end-   *)
(* of-operation evaluator (MutationQuery and BulkLoad, which extend          *)
(* Validate), the ids a load gives its rows (LoadIdentity), the conversion   *)
(* of a JSON value into a typed cell and back (TypedValues), the admission   *)
(* of blob cells (BlobIngress), and the change feed that reports what was    *)
(* committed (ChangeFeed). A behaviour is about one of them: area names it   *)
(* and its bounds, and the components share the variables.                   *)
(*****************************************************************************)
EXTENDS Integers, Sequences, FiniteSets, TLC

CONSTANTS absent, nullCell, noneField, badField, floatZero, floatNegZero, floatNaN, plain, refusedCell, unbounded, emptyCell, nodeA, nodeB, edgeE, edgeF

\* The component a behaviour is about, and its variables.
VARIABLES area, x1, x2, x3, x4, x5, x6, x7, x8, x9, x10, x11, x12, x13, x14,
          x15, x16, x17, x18

vars == <<area, x1, x2, x3, x4, x5, x6, x7, x8, x9, x10, x11, x12, x13, x14,
        x15, x16, x17, x18>>

\* Graphs of at most two nodes and the given edges that break no constraint.
Partial(ids, rows) == UNION {[S -> rows] : S \in SUBSET ids}
Nodes == {nodeA, nodeB}
Judge(c) == INSTANCE Validate WITH
    Null <- nullCell, GoodVals <- c.good, CardMin <- c.min, CardMax <- c.max,
    Keyed <- TRUE
GoodGraphs(c) ==
    {g \in [n : Partial(Nodes, [u : c.us \cup {nullCell}, v : c.good]),
            e : Partial(c.edges, [src : Nodes, dst : Nodes])] : Judge(c)!Integrity(g)}
NoRows == [n |-> <<>>, e |-> <<>>]

\* The statements of a query.
Where(column, vals) == {[cols |-> {column}, vals |-> {x}] : x \in vals}
NodeWhere(c) == Where("id", Nodes) \cup Where("u", c.us) \cup Where("v", c.good)
NodeInserts(c) == [op : {"insert_node"}, id : Nodes, u : c.us \cup {nullCell}, v : c.vs]
Updates(c) ==
    [op : {"update"}, where : NodeWhere(c), col : {"u"}, val : c.us]
      \cup [op : {"update"}, where : NodeWhere(c), col : {"v"}, val : c.vs]
      \cup [op : {"update"}, where : Where("id", {nodeA}), col : {"id"}, val : Nodes]
EdgeInserts == [op : {"insert_edge"}, src : Nodes, dst : Nodes]
Deletes(c) ==
    [op : {"delete_node"}, where : NodeWhere(c)]
      \cup [op : {"delete_edge"}, where : Where("src", Nodes) \cup Where("dst", Nodes)]
StatementsOf(c) ==
    CASE c.about = "updates" -> NodeInserts(c) \cup Updates(c)
      [] c.about = "deletes" -> Deletes(c)
      [] c.about = "races" -> NodeInserts(c) \cup EdgeInserts \cup Deletes(c)

\* The inputs of a load.
UpTo(k, S) == UNION {[1 .. i -> S] : i \in 0 .. k}
InputsOf(c) ==
    [n : UpTo(c.nodes, [id : Nodes, u : c.us \cup {nullCell}, v : {1}]),
     e : UpTo(c.links, [id : c.edges, src : Nodes, dst : Nodes])]

\* Nodes with a composite key, a single key and none, and edges, with given,
\* absent and ill-typed ids.
Values == {plain, floatZero, floatNegZero}
Variant(x) == <<"variant", x>>
NodeRows ==
    [type : {"P"}, key : (Values \X Values) \cup {<<plain, nullCell>>, <<floatNaN, plain>>},
     id : {plain, floatZero, Variant(plain), <<plain, plain>>, <<plain, floatZero>>,
           <<floatZero, plain>>, noneField, badField}, extra : {noneField}]
      \cup [type : {"R"}, key : {<<v>> : v \in Values \cup {nullCell}},
            id : {plain, floatZero, Variant(plain), noneField},
            extra : {noneField, "unknown"}]
      \cup [type : {"U"}, key : {<<>>}, id : {plain, noneField}, extra : {noneField}]
EdgeRows ==
    [id : {noneField, badField, plain}, from : {plain, floatZero, <<plain, floatZero>>},
     to : {plain, Variant(plain)}, extra : {noneField}]
      \cup [id : {noneField}, from : {plain}, to : {plain}, extra : {"unknown"}]

\* Columns of every type, and the JSON values offered to one.
Scalars == {"I32", "I64", "U32", "U64", "F32", "F64", "Bool", "String", "Date", "DateTime"}
AllColumns ==
    [shape : {"scalar", "list"}, of : Scalars, nullable : BOOLEAN]
      \cup [shape : {"vector"}, of : {"F32"}, nullable : BOOLEAN]
Strings(of) ==
    {<<"str", <<"text", "a">>>>} \cup {<<"str", <<"dec", n>>>> : n \in -17 .. 32}
      \cup (IF of \in {"Date", "DateTime"}
            THEN {<<"str", <<"day", d>>>> : d \in -1 .. 1} \cup {<<"str", <<"time", t>>>> : t \in -6 .. 6}
            ELSE {})
Items(of) ==
    {<<"null">>, <<"str", <<"text", "a">>>>, <<"str", <<"dec", 3>>>>}
      \cup {<<"int", n>> : n \in {4, 11, -1}} \cup {<<"float", f>> : f \in {1, 4, 18, 20}}
      \cup (IF of = "Date" THEN {<<"str", <<"day", 1>>>>, <<"str", <<"time", 5>>>>} ELSE {})
JsonFor(column) ==
    {<<"null">>, <<"obj">>, <<"bool", TRUE>>}
      \cup (IF column.shape = "scalar"
            THEN {<<"int", n>> : n \in -16 .. 31} \cup {<<"float", f>> : f \in -22 .. 22}
                   \cup Strings(column.of)
            ELSE {<<"int", 1>>} \cup {<<"arr", a>> : a \in UpTo(3, Items(column.of))})

\* Blob cells as a writer sends them and as Lance stores them.
Sent(null, data, uri) == [null |-> null, data |-> data, uri |-> uri]
Stored(null, child, kind, pos, size, id, uri) ==
    [null |-> null, child |-> child, kind |-> kind, pos |-> pos, size |-> size, id |-> id,
     uri |-> uri]
SentCells ==
    {Sent(TRUE, 99, ""), Sent(FALSE, 1, ""), Sent(FALSE, 99, ""), Sent(FALSE, 1, "o")}
      \cup {Sent(FALSE, 99, uri) : uri \in {"o", "p", "a"}}
StoredCells ==
    {Stored(TRUE, FALSE, 3, 0, 0, 0, ""), Stored(FALSE, TRUE, 0, 1, 1, 0, ""),
     Stored(FALSE, TRUE, 1, 0, 2, 1, ""), Stored(FALSE, TRUE, 3, 0, 0, 0, "o"),
     Stored(FALSE, TRUE, 3, 1, 1, 0, "o"), Stored(FALSE, TRUE, 3, 0, 0, 0, "a"),
     Stored(FALSE, TRUE, 3, 2, 1, 0, "p")}
AnyCell ==
    {Stored(null, child, kind, pos, size, id, uri) : null \in BOOLEAN, child \in BOOLEAN,
        kind \in 0..4, pos \in 0..2, size \in 0..2, id \in 0..1, uri \in {"", "o"}}

\* Queries of up to three statements: chained inserts and updates; deletes
\* that overlap and cascade; mixed ones that race two commits of other
\* writers.
QueryCases ==
    {[of |-> "query", about |-> "updates", good |-> {1}, min |-> 0, max |-> 9, edges |-> {}, us |-> {1},
      vs |-> {1, 3}, statements |-> 3, rows |-> 4, foreign |-> 0],
     [of |-> "query", about |-> "deletes", good |-> {1, 2}, min |-> 1, max |-> 2, edges |-> {edgeE, edgeF}, us |-> {1},
      vs |-> {1}, statements |-> 2, rows |-> 4, foreign |-> 0],
     [of |-> "query", about |-> "races", good |-> {1}, min |-> 1, max |-> 1, edges |-> {edgeE}, us |-> {},
      vs |-> {1, nullCell}, statements |-> 2, rows |-> 2, foreign |-> 2]}
Query(c) == INSTANCE MutationQuery WITH
    Null <- nullCell, GoodVals <- c.good, CardMin <- c.min,
    CardMax <- c.max, Keyed <- TRUE, Graphs <- GoodGraphs(c),
    Statements <- StatementsOf(c), MaxStatements <- c.statements,
    MaxRows <- c.rows, MaxForeign <- c.foreign, MaxReprepares <- 1,
    graph <- x1, head <- x2, cas <- x3, phase <- x4, outcome <- x5,
    base <- x6, baseHead <- x7, query <- x8, pc <- x9, pend <- x10,
    del <- x11, delIds <- x12, affected <- x13, attempt <- x14,
    published <- x15, seen <- x16, live <- x17, restaged <- x18

\* Loads of every mode alone, with two edges; and racing two commits of other
\* writers, with a fork from main.
LoadCases ==
    {[of |-> "load", good |-> {1}, min |-> 1, max |-> 2, edges |-> {edgeE, edgeF}, us |-> {1}, nodes |-> 1, links |-> 2,
      rows |-> 2, foreign |-> 0],
     [of |-> "load", good |-> {1}, min |-> 1, max |-> 1, edges |-> {edgeE}, us |-> {}, nodes |-> 1, links |-> 1,
      rows |-> 1, foreign |-> 2]}
Load(c) == INSTANCE BulkLoad WITH
    Null <- nullCell, GoodVals <- c.good, CardMin <- c.min,
    CardMax <- c.max, Keyed <- TRUE, Graphs <- GoodGraphs(c),
    Mains <- IF c.foreign = 0 THEN {NoRows} ELSE GoodGraphs(c),
    Inputs <- InputsOf(c), MaxRows <- c.rows, MaxForeign <- c.foreign,
    MaxReprepares <- 1, Absent <- absent,
    branch <- x1, head <- x2, mode <- x3, input <- x4, fork <- x5,
    phase <- x6, outcome <- x7, created <- x8, base <- x9, baseHead <- x10,
    attempt <- x11, before <- x12

\* Every import of two nodes and an edge over these rows, in both input
\* shapes.
Import == INSTANCE LoadIdentity WITH
    Null <- nullCell, None <- noneField, Bad <- badField,
    Zero <- floatZero, NegZero <- floatNegZero, NaN <- floatNaN,
    NodeRows <- NodeRows, EdgeRows <- EdgeRows, MaxNodes <- 2,
    MaxEdges <- 1,
    nodes <- x1, edges <- x2, strict <- x3, next <- x4, remap <- x5,
    built <- x6, state <- x7

\* Machine integers of 3 and 5 bits, floats in quarters, days of two milliseconds,
\* and every JSON value around their limits.
Typed == INSTANCE TypedValues WITH
    I32Max <- 3, I64Max <- 15, SafeMax <- 9, F32Max <- 16, Dim <- 2,
    DayMax <- 2, DayMillis <- 2, Null <- nullCell, Refused <- refusedCell,
    Unbounded <- unbounded, RangeMax <- unbounded, Columns <- AllColumns,
    Inputs <- JsonFor,
    col <- x1, json <- x2, path <- x3, stored <- x4, out <- x5,
    again <- x6, phase <- x7, slip <- x8

\* Batches of up to three blob cells from writers, from stored rows, and one
\* cell of any descriptor, while objects are replaced and links moved.
BlobsCases ==
    {[of |-> "blobs", ops |-> {"keyed", "overwrite"}, aliases |-> {"a"}, cells |-> 3, changes |-> 1],
     [of |-> "blobs", ops |-> {"merge", "schema"}, aliases |-> {"a"}, cells |-> 3, changes |-> 1],
     [of |-> "blobs", ops |-> {"merge", "schema"}, aliases |-> {}, cells |-> 1, changes |-> 1]}
Blobs(c) == INSTANCE BlobIngress WITH
    Ops <- c.ops, Inside <- {"o", "p"}, Outside <- {"x"},
    Aliases <- c.aliases, LogicalCells <- SentCells,
    PhysicalCells <- IF c.cells = 1 THEN AnyCell ELSE StoredCells,
    MaxCells <- c.cells, MaxBytes <- 4, MaxRefs <- 3, MaxMeta <- 9,
    MaxU64 <- 3, Sizes <- {0, 2, 3}, MaxChanges <- c.changes,
    op <- x1, cells <- x2, phase <- x3, todo <- x4, granted <- x5,
    probed <- x6, byInput <- x7, cache <- x8, files <- x9, out <- x10,
    content <- x11, link <- x12, changes <- x13

\* Every history of four commits of two tables, to compare any two of them, and
\* every one of a table with Blob payloads at two places.
DiffCases ==
    {[of |-> "diff", vals |-> {"x", "y"}, payloads |-> {"p"}, places |-> {1},
      identities |-> 1..3, names |-> {1, 2}],
     [of |-> "diff", vals |-> {"x", nullCell}, payloads |-> {"p", "q"}, places |-> {1, 2},
      identities |-> {1}, names |-> {1}]}
Diff(c) == INSTANCE ChangeFeed WITH
    Ids <- {1}, Vals <- c.vals, Null <- nullCell, Empty <- emptyCell,
    Payloads <- c.payloads, Places <- c.places, MaxCommits <- 4,
    Identities <- c.identities, Aliases <- c.names, Declared <- c.names,
    Limits <- {1, 3}, Budgets <- {2, 5},
    commits <- x1, head <- x2, reclaimed <- x3, reading <- x4,
    cursor <- x5, got <- x6, status <- x7

\* A reader that pages through one commit of a history of three while versions
\* are reclaimed: two rows in up to two tables, and one row whose value may be
\* null, empty or neither and whose Blob is replaced or moved.
FeedCases ==
    {[of |-> "feed", ids |-> {1, 2}, vals |-> {"x", "y"}, payloads |-> {"p"}, places |-> {1},
      identities |-> {1, 2}],
     [of |-> "feed", ids |-> {1}, vals |-> {"x", nullCell, emptyCell}, payloads |-> {"p", "q"},
      places |-> {1, 2}, identities |-> {1}]}
Feed(c) == INSTANCE ChangeFeed WITH
    Ids <- c.ids, Vals <- c.vals, Null <- nullCell, Empty <- emptyCell,
    Payloads <- c.payloads, Places <- c.places, MaxCommits <- 3,
    Identities <- c.identities, Aliases <- c.identities, Declared <- {1},
    Limits <- {1, 3}, Budgets <- {2, 5},
    commits <- x1, head <- x2, reclaimed <- x3, reading <- x4,
    cursor <- x5, got <- x6, status <- x7

-----------------------------------------------------------------------------
QueryInit ==
    /\ \E c \in QueryCases : area = c /\ Query(c)!Init

\* Only a load that forks its target reads main.
LoadInit ==
    /\ \E c \in LoadCases : area = c /\ Load(c)!Init
    /\ x1.target = absent \/ x1.main = NoRows
    /\ x13 = 0 /\ x14 = 0 /\ x15 = 0 /\ x16 = 0 /\ x17 = 0 /\ x18 = 0

ImportInit ==
    /\ area = [of |-> "ids"] /\ Import!Init
    /\ x8 = 0 /\ x9 = 0 /\ x10 = 0 /\ x11 = 0 /\ x12 = 0 /\ x13 = 0 /\ x14
       = 0 /\ x15 = 0 /\ x16 = 0 /\ x17 = 0 /\ x18 = 0

TypedInit ==
    /\ area = [of |-> "values"] /\ Typed!Init
    /\ x9 = 0 /\ x10 = 0 /\ x11 = 0 /\ x12 = 0 /\ x13 = 0 /\ x14
       = 0 /\ x15 = 0 /\ x16 = 0 /\ x17 = 0 /\ x18 = 0

BlobsInit ==
    /\ \E c \in BlobsCases : area = c /\ Blobs(c)!Init
    /\ x14 = 0 /\ x15 = 0 /\ x16 = 0 /\ x17 = 0 /\ x18 = 0

DiffInit ==
    /\ \E c \in DiffCases : area = c /\ Diff(c)!Init
    /\ x8 = 0 /\ x9 = 0 /\ x10 = 0 /\ x11 = 0 /\ x12 = 0 /\ x13 = 0 /\ x14
       = 0 /\ x15 = 0 /\ x16 = 0 /\ x17 = 0 /\ x18 = 0

FeedInit ==
    /\ \E c \in FeedCases : area = c /\ Feed(c)!Init
    /\ x8 = 0 /\ x9 = 0 /\ x10 = 0 /\ x11 = 0 /\ x12 = 0 /\ x13 = 0 /\ x14
       = 0 /\ x15 = 0 /\ x16 = 0 /\ x17 = 0 /\ x18 = 0

Init == QueryInit \/ LoadInit \/ ImportInit \/ TypedInit \/ BlobsInit \/ DiffInit \/ FeedInit

QueryNext ==
    /\ \E c \in QueryCases : area = c /\ Query(c)!Next
    /\ UNCHANGED <<area>>

LoadNext ==
    /\ \E c \in LoadCases : area = c /\ Load(c)!Next
    /\ UNCHANGED <<area, x13, x14, x15, x16, x17, x18>>

ImportNext ==
    /\ area.of = "ids" /\ Import!Next
    /\ UNCHANGED <<area, x8, x9, x10, x11, x12, x13, x14, x15, x16, x17,
       x18>>

TypedNext ==
    /\ area.of = "values" /\ Typed!Next
    /\ UNCHANGED <<area, x9, x10, x11, x12, x13, x14, x15, x16, x17,
       x18>>

BlobsNext ==
    /\ \E c \in BlobsCases : area = c /\ Blobs(c)!Next
    /\ UNCHANGED <<area, x14, x15, x16, x17, x18>>

DiffNext ==
    /\ \E c \in DiffCases : area = c /\ Diff(c)!WriterNext
    /\ UNCHANGED <<area, x8, x9, x10, x11, x12, x13, x14, x15, x16, x17,
       x18>>

FeedNext ==
    /\ \E c \in FeedCases : area = c /\ Feed(c)!Next
    /\ UNCHANGED <<area, x8, x9, x10, x11, x12, x13, x14, x15, x16, x17,
       x18>>

Next == QueryNext \/ LoadNext \/ ImportNext \/ TypedNext \/ BlobsNext \/ DiffNext \/ FeedNext

Spec == Init /\ [][Next]_vars

-----------------------------------------------------------------------------
\* A mutation query or a load that commits leaves exactly what its statements,
\* one after another, or its mode promise, on the snapshot its publish still
\* holds; every published graph satisfies every constraint whatever other
\* writers commit meanwhile; a refusal has a cause, a caller that named a head
\* is answered only for that head, and each deleted row is counted once.
WritesExact ==
    /\ \A c \in QueryCases : area = c =>
           /\ Query(c)!GraphIntegrity
           /\ Query(c)!SequentialOutcome
           /\ Query(c)!RefusedForCause
           /\ Query(c)!CallerCas
           /\ Query(c)!PendingBounded
           /\ Query(c)!DeletesCountedOnce
    /\ \A c \in LoadCases : area = c =>
           /\ Load(c)!LoadedIntegrity
           /\ Load(c)!LoadOutcome
           /\ Load(c)!AppendKeeps
           /\ Load(c)!LoadRefusedForCause

\* No commit of a query, an append or a merge load takes a surviving src that
\* had edges below the minimum cardinality, also when a node delete cascades
\* to the edges of other srcs.
NoSrcEmptied ==
  [][
    /\ \A c \in QueryCases : area = c => Query(c)!NoSrcEmptied
    /\ \A c \in LoadCases : area = c => Load(c)!LoadEmptiesNoSrc
  ]_vars

\* What is loaded is what was sent: equal keys and only they share an id and
\* edges follow their rows; no number is wrapped or rounded beyond its type, a
\* calendar string is stored as the day or the millisecond it falls in, and what is
\* exported or resent is the same value, a Float64 up to the JSON parser's
\* misreading; a blob cell stays in its
\* row, names an admitted object, keeps its range and its budget, and no
\* unknown descriptor is read as a plausible one.
ValuesKept ==
    /\ area.of = "ids" =>
           /\ Import!EqualKeysShareId
           /\ Import!EndpointsFollowRows
           /\ Import!StrictIsCompat
    /\ area.of = "values" =>
           /\ Typed!NothingLost
           /\ Typed!ExportReloads
           /\ Typed!ResentIsSame
           /\ Typed!PathsAgree
    /\ \A c \in BlobsCases : area = c =>
           /\ Blobs(c)!AdmittedTargets
           /\ Blobs(c)!CopiedWithinBudget
           /\ Blobs(c)!SameObjectSameBytes
           /\ Blobs(c)!CellsInPlace
           /\ Blobs(c)!RangesSurvive
           /\ Blobs(c)!NothingGuessed

\* The feed reports what was committed: a diff towards later versions misses
\* no change and invents none, and the pages of one commit add up to its exact
\* changes in order, whatever the limits of each request, with no page that
\* stalls.  What neither can tell apart is null from the empty string and a payload
\* from another at the same place in another file; a diff between two table
\* branches also takes a moved payload for a changed one.
FeedExact ==
    /\ \A c \in DiffCases : area = c => Diff(c)!ForwardDiffIsNet
    /\ \A c \in FeedCases : area = c =>
           /\ Feed(c)!PagesAddUp
           /\ Feed(c)!IndexIsGlobal
           /\ Feed(c)!NoStall
=============================================================================
