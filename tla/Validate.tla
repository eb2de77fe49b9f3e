------------------------------ MODULE Validate ------------------------------
(***************************************************************************)
(* The end-of-operation constraint evaluator (validate.rs) as operators: a *)
(* change-set over one node table and one edge table, and the committed    *)
(* state it is judged against.                                             *)
(*                                                                         *)
(* A graph is [n |-> nodes, e |-> edges], each a function from row ids.  A *)
(* node row has a nullable @unique column u and a constrained column v; an *)
(* edge row has src and dst.  A delta row also carries its id.  A change   *)
(* of one table is [changed |-> batches of rows, deleted |-> ids].         *)
(***************************************************************************)
EXTENDS Naturals, Sequences, FiniteSets, SequencesExt

CONSTANTS
    Null,       \* the null of a nullable column
    GoodVals,   \* the values @range, @check and enums admit for v
    CardMin,    \* @card of the edge type; zero admits a src without edges
    CardMax,
    Keyed       \* whether the node type has a @key (its id is the key)

\* TableChange::value_batches, every raw row, superseded ones included
Rows(change) == FlattenSeq(change.changed)

\* delta_id_set
DeltaIds(change) == {r.id : r \in ToSet(Rows(change))}

\* the last row of each id, as the commit's own fold keeps it
LastWins(rows) ==
    [id \in {r.id : r \in ToSet(rows)} |->
        rows[CHOOSE i \in DOMAIN rows :
                /\ rows[i].id = id
                /\ \A j \in DOMAIN rows : j > i => rows[j].id # id]]

\* ChangeSet::is_empty
NoChange(cs) ==
    \A t \in {"n", "e"} : Rows(cs[t]) = <<>> /\ cs[t].deleted = {}

-----------------------------------------------------------------------------
(* CommittedState: the pinned base, the live edges cardinality reads on    *)
(* the write paths, and the tables an Overwrite load replaces.             *)

\* CommittedState::open, an overwritten table reads as absent
Open(st, t) == IF t \in st.over THEN <<>> ELSE st[t]

\* CommittedState::open_cardinality
OpenCardinality(st) == IF "e" \in st.over THEN <<>> ELSE st.live

\* CommittedState::existing_ids
ExistingIds(st, ids) == ids \cap DOMAIN Open(st, "n")

\* CommittedState::committed_edges, the srcs of committed edges by edge id
CommittedSrcs(st, ids) ==
    {OpenCardinality(st)[id].src : id \in ids \cap DOMAIN OpenCardinality(st)}

\* CommittedState::unique_holders
UniqueHolders(st, key) ==
    {id \in DOMAIN Open(st, "n") : Open(st, "n")[id].u = key}

\* CommittedState::edges_referencing
EdgesReferencing(st, nodes) ==
    {id \in DOMAIN Open(st, "e") :
        Open(st, "e")[id].src \in nodes \/ Open(st, "e")[id].dst \in nodes}

\* overwrite_removed_ids, from the raw base
OverwriteRemovedIds(st, t, change) == DOMAIN st[t] \ DeltaIds(change)

-----------------------------------------------------------------------------
(* The constraints, each TRUE when it reports a violation. *)

\* evaluate_value_constraints_with_sink
ValueRefused(cs) == \E r \in ToSet(Rows(cs.n)) : r.v \notin GoodVals

\* pass 1 of evaluate_unique: one batch lists a key twice
DuplicateInBatch(change, field) ==
    \E b \in DOMAIN change.changed :
        LET batch == change.changed[b]
        IN  \E i, j \in DOMAIN batch :
                i < j /\ batch[i][field] # Null /\ batch[i][field] = batch[j][field]

\* the coalesced image of evaluate_unique: a null key leaves it
FinalByIdOf(change, field) ==
    LET last == LastWins(Rows(change))
        held == {id \in DOMAIN last : last[id][field] # Null}
    IN  [id \in held |-> last[id][field]]

AnyHolder(st, change, key) == UniqueHolders(st, key) # {}

NoHolder(st, change, key) == FALSE

\* pass 3 of evaluate_unique, a surviving committed row holds the key
HolderSurvives(st, change, key) ==
    UniqueHolders(st, key) \ (DeltaIds(change) \cup change.deleted) # {}

\* evaluate_unique
UniqueRefused(st, change, field, isKey) ==
    LET final == FinalByIdOf(change, field)
    IN  \/ DuplicateInBatch(change, field)
        \/ \E x, y \in DOMAIN final : x # y /\ final[x] = final[y]
        \/ ~isKey /\ \E x \in DOMAIN final : HolderSurvives(st, change, final[x])

\* merged_node_existence: target plus and minus the delta
MergedNodeExistence(st, change, ids) ==
    (ids \cap DeltaIds(change)) \cup ExistingIds(st, ids \ change.deleted)

DanglingSrc(st, cs) ==
    \E r \in ToSet(Rows(cs.e)) : MergedNodeExistence(st, cs.n, {r.src}) # {r.src}

\* path-a of evaluate_edge_ri
DanglingDelta(st, cs) ==
    \E r \in ToSet(Rows(cs.e)) :
        MergedNodeExistence(st, cs.n, {r.src, r.dst}) # {r.src, r.dst}

\* path-b of evaluate_edge_ri: a deleted node strands a committed edge
StrandedEdge(st, cs) ==
    EdgesReferencing(st, cs.n.deleted) \ (DeltaIds(cs.e) \cup cs.e.deleted) # {}

\* evaluate_edge_ri
EdgeRiRefused(st, cs) == DanglingDelta(st, cs) \/ StrandedEdge(st, cs)

\* the srcs of the new edges only: what a delta moves away is not recounted
NewSrcs(st, cs) ==
    LET last == LastWins(Rows(cs.e)) IN {last[id].src : id \in DOMAIN last}

\* the srcs evaluate_cardinality recounts
AffectedSrcs(st, cs) ==
    LET last == LastWins(Rows(cs.e))
    IN  ({last[id].src : id \in DOMAIN last}
          \cup CommittedSrcs(st, DOMAIN last \cup cs.e.deleted))
        \ cs.n.deleted

\* the merged edge ids of one src
MergedEdges(st, cs, src) ==
    LET last == LastWins(Rows(cs.e))
        old  == OpenCardinality(st)
    IN  {id \in DOMAIN old \ (cs.e.deleted \cup DOMAIN last) : old[id].src = src}
          \cup {id \in DOMAIN last : last[id].src = src}

\* evaluate_cardinality
CardinalityRefused(st, cs) ==
    \E src \in AffectedSrcs(st, cs) :
        Cardinality(MergedEdges(st, cs, src)) \notin CardMin .. CardMax

\* constraints_for
Constraints == {"value", "unique", "edge_ri", "cardinality"} \cup (IF Keyed THEN {"key"} ELSE {})

\* evaluate_with_sink
Violates(c, st, cs) ==
    CASE c = "value"       -> ValueRefused(cs)
      [] c = "key"         -> UniqueRefused(st, cs.n, "id", TRUE)
      [] c = "unique"      -> UniqueRefused(st, cs.n, "u", FALSE)
      [] c = "edge_ri"     -> EdgeRiRefused(st, cs)
      [] c = "cardinality" -> CardinalityRefused(st, cs)

\* validate_changeset
Refused(st, cs) == ~ NoChange(cs) /\ \E c \in Constraints : Violates(c, st, cs)

-----------------------------------------------------------------------------
(* What the constraints mean for a whole graph. *)

OutDegree(g, src) == Cardinality({id \in DOMAIN g.e : g.e[id].src = src})

ValuesHold(g) == \A id \in DOMAIN g.n : g.n[id].v \in GoodVals

UniqueHolds(g) ==
    \A x, y \in DOMAIN g.n : x # y /\ g.n[x].u # Null => g.n[x].u # g.n[y].u

EdgesHold(g) == \A id \in DOMAIN g.e : {g.e[id].src, g.e[id].dst} \subseteq DOMAIN g.n

\* a src without any edge may be below the minimum: a node is inserted alone
CardHolds(g) ==
    \A id \in DOMAIN g.e : OutDegree(g, g.e[id].src) \in CardMin .. CardMax

Integrity(g) == ValuesHold(g) /\ UniqueHolds(g) /\ EdgesHold(g) /\ CardHolds(g)

\* the step from g to h takes no surviving src below the minimum
NoneEmptied(g, h) ==
    \A src \in DOMAIN g.n \cap DOMAIN h.n :
        OutDegree(g, src) > 0 => OutDegree(h, src) >= CardMin
=============================================================================
