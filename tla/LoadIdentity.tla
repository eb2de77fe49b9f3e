---------------------------- MODULE LoadIdentity ----------------------------
(***************************************************************************)
(* How a load gives rows their physical ids (loader/mod.rs): the canonical *)
(* spelling of a typed key, the legacy spellings an old export may carry,  *)
(* and the rewrite of edge endpoints that name a legacy spelling.          *)
(*                                                                         *)
(* Node type P has a key of two columns, node type R a key of one, node    *)
(* type U none; the edge type goes from P to R.  A spelling is a value, a  *)
(* variant of it that parses to it, or a tuple of values.                  *)
(***************************************************************************)
EXTENDS Naturals, Sequences, FiniteSets, SequencesExt, TLC

CONSTANTS
    Null, None, Bad,  \* a null, an absent field, a value of the wrong type
    Zero, NegZero,    \* two float values that compare equal
    NaN,              \* a float that identifies nothing
    NodeRows,         \* [type, key, id, extra]: the rows of an input
    EdgeRows,         \* [id, from, to, extra]
    MaxNodes, MaxEdges

VARIABLES nodes, edges,  \* the input
          strict,        \* LoadInputShape::StrictGraphBatch
          next,          \* rows built so far
          remap,         \* TypedNodeIdRemap
          built,         \* the rows with their physical ids
          state          \* "nodes", "edges", "done" or "refused"

vars == <<nodes, edges, strict, next, remap, built, state>>

UpTo(k, S) == UNION {[1 .. i -> S] : i \in 0 .. k}

Init ==
    /\ nodes \in UpTo(MaxNodes, NodeRows) /\ edges \in UpTo(MaxEdges, EdgeRows)
    /\ strict \in BOOLEAN
    /\ next = 1 /\ remap = {} /\ built = <<>> /\ state = "nodes"

-----------------------------------------------------------------------------
\* the value as it is stored, without the folding of the two zeros
Verbatim(v) == v

\* canonical_scalar_key of a value that has one
CanonicalScalar(v) == IF v = NegZero THEN Zero ELSE v

\* composite_unique_key: a null exempts the tuple
HasKey(key) == \A i \in DOMAIN key : key[i] # Null

Unkeyable(key) == \E i \in DOMAIN key : key[i] = NaN

\* canonical_node_id: a scalar keeps its spelling, a tuple is encoded whole
CanonicalNodeId(key) ==
    IF Len(key) = 1 THEN CanonicalScalar(key[1])
    ELSE [i \in DOMAIN key |-> CanonicalScalar(key[i])]

Variant(v) == <<"variant", v>>

\* explicit_id_matches_scalar_key: compared in the declared type
MatchesScalar(v, id) ==
    \/ CanonicalScalar(v) = CanonicalScalar(id)
    \/ id = Variant(CanonicalScalar(v))

\* explicit_id_matches_node_key
MatchesNodeKey(key, id) ==
    id = CanonicalNodeId(key) \/ \E i \in DOMAIN key : MatchesScalar(key[i], id)

\* every old id recorded, the last meaning kept
NotAmbiguous(type, old, id) == FALSE

\* TypedNodeIdRemap::record refuses a second meaning of an old id
Ambiguous(type, old, id) ==
    \E m \in remap : m.type = type /\ m.old = old /\ m.id # id

\* TypedNodeIdRemap::endpoint
Endpoint(type, old) ==
    IF \E m \in remap : m.type = type /\ m.old = old
    THEN (CHOOSE m \in remap : m.type = type /\ m.old = old).id
    ELSE old

-----------------------------------------------------------------------------
Refuse == state' = "refused" /\ UNCHANGED <<next, remap, built>>

Built(row, id) == [row |-> row, id |-> id]

Take(row, id) == built' = Append(built, Built(row, id)) /\ next' = next + 1 /\ UNCHANGED state

\* generate_id
Generated == <<"ulid", Len(built) + 1>>

\* validate_strict_input_fields: a field that is unknown or physical state
ForeignField(row) == strict /\ row.extra # None

\* the rules both shapes share for a row of a type without a key
Unkeyed(row) ==
    /\ row.type = "U"
    /\ Take(row, IF row.id = None THEN Generated ELSE row.id)
    /\ UNCHANGED remap

\* build_node_batch: an explicit id may be any spelling of the key, and is
\* recorded for the edges of the import
CompatKeyed(row) ==
    LET id == CanonicalNodeId(row.key)
    IN  /\ ~ strict /\ row.type # "U"
        /\ IF Unkeyable(row.key) \/ ~ HasKey(row.key) THEN Refuse
           ELSE IF row.id = None THEN Take(row, id) /\ UNCHANGED remap
           ELSE IF ~ MatchesNodeKey(row.key, row.id) \/ Ambiguous(row.type, row.id, id)
           THEN Refuse
           ELSE /\ Take(row, id)
                /\ remap' = remap \cup {[type |-> row.type, old |-> row.id, id |-> id]}

\* any spelling of the key, as the permissive shape has it
LooseKeyed(row) ==
    /\ strict /\ row.type # "U"
    /\ IF \/ Unkeyable(row.key) \/ ~ HasKey(row.key)
          \/ row.id # None /\ ~ MatchesNodeKey(row.key, row.id)
       THEN Refuse
       ELSE Take(row, CanonicalNodeId(row.key)) /\ UNCHANGED remap

\* normalize_strict_node_rows: an explicit id is the canonical one
StrictKeyed(row) ==
    /\ strict /\ row.type # "U"
    /\ IF \/ Unkeyable(row.key) \/ ~ HasKey(row.key)
          \/ row.id \notin {None, CanonicalNodeId(row.key)}
       THEN Refuse
       ELSE Take(row, CanonicalNodeId(row.key)) /\ UNCHANGED remap

BuildNode ==
    /\ state = "nodes" /\ next <= Len(nodes)
    /\ IF nodes[next].id = Bad \/ ForeignField(nodes[next])
       THEN Refuse
       ELSE Unkeyed(nodes[next]) \/ CompatKeyed(nodes[next]) \/ StrictKeyed(nodes[next])
    /\ UNCHANGED <<nodes, edges, strict>>

NodesBuilt ==
    /\ state = "nodes" /\ next > Len(nodes)
    /\ state' = "edges" /\ next' = 1
    /\ UNCHANGED <<nodes, edges, strict, remap, built>>

\* build_edge_batch: an id that is no string is replaced, endpoints are
\* rewritten
CompatEdge(e) ==
    /\ ~ strict
    /\ Take([e EXCEPT !.from = Endpoint("P", @), !.to = Endpoint("R", @)],
            IF e.id \in {None, Bad} THEN Generated ELSE e.id)
    /\ UNCHANGED remap

\* normalize_strict_edge_rows
StrictEdge(e) ==
    /\ strict
    /\ IF e.id = Bad THEN Refuse
       ELSE Take(e, IF e.id = None THEN Generated ELSE e.id) /\ UNCHANGED remap

BuildEdge ==
    /\ state = "edges" /\ next <= Len(edges)
    /\ IF ForeignField(edges[next])
       THEN Refuse
       ELSE CompatEdge(edges[next]) \/ StrictEdge(edges[next])
    /\ UNCHANGED <<nodes, edges, strict>>

Finish ==
    /\ state = "edges" /\ next > Len(edges)
    /\ state' = "done"
    /\ UNCHANGED <<nodes, edges, strict, next, remap, built>>

Next == BuildNode \/ NodesBuilt \/ BuildEdge \/ Finish

Spec == Init /\ [][Next]_vars

-----------------------------------------------------------------------------
\* the numeric value behind a stored float
Value(v) == IF v = NegZero THEN Zero ELSE v

SameKey(r, s) ==
    /\ r.type = s.type /\ r.type # "U" /\ Len(r.key) = Len(s.key)
    /\ \A i \in DOMAIN r.key : Value(r.key[i]) = Value(s.key[i])

\* Two rows of a keyed type get the same physical id exactly when their typed
\* keys are equal, whatever explicit ids they carry: an upsert finds its row.
EqualKeysShareId ==
    \A i, j \in 1 .. Len(nodes) :
        /\ state # "refused" /\ i <= Len(built) /\ j <= Len(built)
        /\ nodes[i].type = nodes[j].type /\ nodes[i].type # "U"
        => (built[i].id = built[j].id <=> SameKey(nodes[i], nodes[j]))

\* An edge endpoint that is the explicit id of a row of the import is stored
\* as that row's physical id, for every row that carries it, in the endpoint's
\* own type only.
EndpointsFollowRows ==
    state = "done" =>
        \A k \in 1 .. Len(edges), i \in 1 .. Len(nodes) :
            LET stored == built[Len(nodes) + k].row
            IN  /\ nodes[i].type = "P" /\ nodes[i].id = edges[k].from => stored.from = built[i].id
                /\ nodes[i].type = "R" /\ nodes[i].id = edges[k].to => stored.to = built[i].id
                /\ (\A j \in 1 .. Len(nodes) : nodes[j].type = "R" => nodes[j].id # edges[k].to)
                     => stored.to = edges[k].to

\* the ids a permissive load would give the same rows
CompatId(row) == IF row.type = "U" THEN row.id ELSE CanonicalNodeId(row.key)

\* What the strict shape accepts, the permissive shape accepts with the same
\* ids and endpoints: no explicit id of a strict input is rewritten.
StrictIsCompat ==
    strict /\ state = "done" =>
        /\ \A i \in 1 .. Len(nodes) :
              nodes[i].id # None => nodes[i].id = built[i].id /\ built[i].id = CompatId(nodes[i])
        /\ \A i, j \in 1 .. Len(nodes) :
              /\ nodes[i].type = nodes[j].type /\ nodes[i].type # "U"
              /\ nodes[i].id # None /\ nodes[i].id = nodes[j].id
              => SameKey(nodes[i], nodes[j])
=============================================================================
