--------------------------- MODULE MutationQuery ---------------------------
(***************************************************************************)
(* One mutation query (exec/mutation.rs over exec/staging.rs): the         *)
(* statements run one by one against a pinned base and the rows the query  *)
(* has already staged, the evaluator judges the accumulated change-set     *)
(* once at the end, and the commit publishes it only on the head it was    *)
(* prepared from.  Other writers commit at any moment.                     *)
(***************************************************************************)
EXTENDS Validate, TLC

CONSTANTS
    Graphs,         \* committed graphs other writers leave behind
    Statements,     \* what a caller may write
    MaxStatements,
    MaxRows,        \* KEYED_WRITE_MAX_ROWS
    MaxForeign,     \* bound on commits of other writers
    MaxReprepares   \* MAX_PRE_EFFECT_REPREPARES

VARIABLES
    graph, head,    \* the published branch and its commit counter
    cas,            \* whether the caller expects head 0 to be current
    phase, outcome,
    base, baseHead, \* WriteTxn: the pinned snapshot and authority
    query, pc,      \* the statements, and how many this attempt has run
    pend,           \* MutationStaging.pending: batches of rows per table
    del,            \* MutationStaging.delete_predicates
    delIds,         \* MutationStaging.deleted_ids
    affected,       \* MutationResult
    attempt,
    published,      \* ghost: the graph this query committed
    seen,           \* ghost: the head at which it was acknowledged
    live,           \* ghost: the head validation read cardinality from
    restaged        \* ghost: an update met a row staged twice before

vars == <<graph, head, cas, phase, outcome, base, baseHead, query, pc, pend, del, delIds,
          affected, attempt, published, seen, live, restaged>>

Tables == {"n", "e"}
NoBatches == [t \in Tables |-> <<>>]
NoIds == [t \in Tables |-> {}]
Zero == [t \in Tables |-> 0]

\* the id of the row that statement k inserts: a ULID, or the canonical key
InsertId(s, k) == IF s.op = "insert_node" /\ Keyed THEN s.id ELSE <<"ulid", k>>

RowAt(table, id) == [id |-> id] @@ table[id]

\* predicate_to_sql: SQL equality, never true of a null
IsTrue(p, row) == \E c \in p.cols : row[c] # Null /\ row[c] \in p.vals

IsNull(p, row) == ~ IsTrue(p, row) /\ \E c \in p.cols : row[c] = Null

NotPrior(priors, row) == \A i \in DOMAIN priors : ~ IsTrue(priors[i], row) /\ ~ IsNull(priors[i], row)

AnyPrior(priors, row) == TRUE

\* the IS NOT TRUE of dedup_delete_filter
NotScheduled(priors, row) == \A i \in DOMAIN priors : ~ IsTrue(priors[i], row)

\* scan with dedup_delete_filter over the pinned table
DeleteMatches(t, p) ==
    {id \in DOMAIN base[t] :
        IsTrue(p, RowAt(base[t], id)) /\ NotScheduled(del[t], RowAt(base[t], id))}

\* the OR of a table's recorded predicates, as stage_all joins them
Combined(t, row) == \E i \in DOMAIN del[t] : IsTrue(del[t][i], row)

\* what the staged delete of stage_delete_table removes
DeletedRows(t) == {id \in DOMAIN base[t] : Combined(t, RowAt(base[t], id))}

PendRows(t) == FlattenSeq(pend[t])

-----------------------------------------------------------------------------
Init ==
    /\ graph \in Graphs /\ head = 0
    /\ cas \in BOOLEAN
    /\ phase = "begin" /\ outcome = "none"
    /\ base = [n |-> <<>>, e |-> <<>>] /\ baseHead = 0
    /\ query = <<>> /\ pc = 0
    /\ pend = NoBatches /\ del = NoBatches /\ delIds = NoIds
    /\ affected = Zero /\ attempt = 0
    /\ published = [n |-> <<>>, e |-> <<>>]
    /\ seen = 0 /\ live = 0 /\ restaged = FALSE

txnVars == <<base, baseHead>>
stageVars == <<pend, del, delIds, affected, restaged>>
ghostVars == <<published, seen, live>>

Answer(o) == phase' = "done" /\ outcome' = o

\* mutate_one_attempt up to the statements: the pinned view, the caller's
\* expected head, an empty accumulator
Begin ==
    /\ phase = "begin"
    /\ base' = graph /\ baseHead' = head
    /\ IF cas /\ head # 0
       THEN Answer("precondition")
       ELSE phase' = "run" /\ UNCHANGED outcome
    /\ pc' = 0 /\ pend' = NoBatches /\ del' = NoBatches /\ delIds' = NoIds
    /\ affected' = Zero /\ restaged' = FALSE
    /\ UNCHANGED <<graph, head, cas, query, attempt, ghostVars>>

Destructive(s) == s.op \in {"delete_node", "delete_edge"}

\* enforce_no_mixed_destructive_constructive
Mixed(q) == \E i, j \in DOMAIN q : Destructive(q[i]) /\ ~ Destructive(q[j])

AppendFitsAlone(t, rows) == Len(rows) <= MaxRows

\* MutationStaging::append_batch on a keyed table: the ceiling is over the
\* raw rows of every batch the query has staged
AppendFits(t, rows) == Len(PendRows(t)) + Len(rows) <= MaxRows

AppendBatch(t, rows) ==
    IF AppendFits(t, rows)
    THEN pend' = [pend EXCEPT ![t] = @ \o <<rows>>] /\ UNCHANGED <<phase, outcome>>
    ELSE Answer("limit") /\ UNCHANGED pend

Count(t, k) == affected' = [affected EXCEPT ![t] = @ + k]

\* build_insert_batch: a required property may not be missing, a nullable
\* one is null
MissingProperty(s) == s.v = Null

InsertBatch(s) == <<[id |-> InsertId(s, pc + 1), u |-> s.u, v |-> s.v]>>

\* execute_insert
InsertNode(s) ==
    /\ s.op = "insert_node"
    /\ IF MissingProperty(s)
       THEN Answer("missing") /\ UNCHANGED <<pend, affected>>
       ELSE AppendBatch("n", InsertBatch(s)) /\ Count("n", 1)
    /\ UNCHANGED <<del, delIds, restaged>>

InsertEdge(s) ==
    /\ s.op = "insert_edge"
    /\ AppendBatch("e", <<[id |-> InsertId(s, pc + 1), src |-> s.src, dst |-> s.dst]>>)
    /\ Count("e", 1)
    /\ UNCHANGED <<del, delIds, restaged>>

\* the committed side of scan_with_pending: a row the query has staged is
\* shadowed by its id
CommittedMatches(p) ==
    {id \in DOMAIN base.n \ {r.id : r \in ToSet(PendRows("n"))} : IsTrue(p, RowAt(base.n, id))}

CommittedOnly(p) == <<>>

\* scan_pending_batches: the predicate over every staged row
PendingMatches(p) == SelectSeq(PendRows("n"), LAMBDA r : IsTrue(p, r))

\* apply_assignments
Assigned(s, row) == [row EXCEPT ![s.col] = s.val]

TwiceStaged(p) ==
    \E r \in ToSet(PendingMatches(p)) :
        Cardinality({i \in DOMAIN PendRows("n") : PendRows("n")[i].id = r.id}) > 1

\* PendingScanAccount: the staged rows of the table, then each emission
ScanFits(k) == Len(PendRows("n")) + k <= MaxRows

\* execute_update
Update(s) ==
    LET committed == SetToSeq(CommittedMatches(s.where))
        rows == [i \in DOMAIN committed |-> RowAt(base.n, committed[i])] \o PendingMatches(s.where)
    IN  /\ s.op = "update"
        /\ restaged' = (restaged \/ TwiceStaged(s.where))
        /\ UNCHANGED <<del, delIds>>
        /\ IF s.col = "id"
           THEN Answer("key") /\ UNCHANGED <<pend, affected>>
           ELSE IF ~ ScanFits(Len(rows))
           THEN Answer("limit") /\ UNCHANGED <<pend, affected>>
           ELSE IF rows = <<>>
           THEN UNCHANGED <<pend, affected, phase, outcome>>
           ELSE /\ AppendBatch("n", [i \in DOMAIN rows |-> Assigned(s, rows[i])])
                /\ Count("n", Len(rows))

Recorded(t, p, ids) == IF ids = {} THEN del[t] ELSE del[t] \o <<p>>

\* the filter execute_delete_node cascades over the edge table
Cascade(ids) == [cols |-> {"src", "dst"}, vals |-> ids]

\* execute_delete_node
DeleteNode(s) ==
    LET ids   == DeleteMatches("n", s.where)
        edges == IF ids = {} THEN {} ELSE DeleteMatches("e", Cascade(ids))
    IN  /\ s.op = "delete_node"
        /\ del' = [n |-> Recorded("n", s.where, ids), e |-> Recorded("e", Cascade(ids), edges)]
        /\ delIds' = [n |-> delIds.n \cup ids, e |-> delIds.e \cup edges]
        /\ affected' = [n |-> affected.n + Cardinality(ids),
                        e |-> affected.e + Cardinality(edges)]
        /\ UNCHANGED <<pend, restaged, phase, outcome>>

\* execute_delete_edge
DeleteEdge(s) ==
    LET ids == DeleteMatches("e", s.where)
    IN  /\ s.op = "delete_edge"
        /\ del' = [del EXCEPT !.e = Recorded("e", s.where, ids)]
        /\ delIds' = [delIds EXCEPT !.e = @ \cup ids]
        /\ Count("e", Cardinality(ids))
        /\ UNCHANGED <<pend, restaged, phase, outcome>>

\* one statement of execute_named_mutation; an attempt that is prepared
\* again runs the statements it was given
Execute(s) ==
    /\ phase = "run"
    /\ IF pc < Len(query)
       THEN s = query[pc + 1] /\ UNCHANGED query
       ELSE Len(query) < MaxStatements /\ attempt = 0 /\ query' = query \o <<s>>
    /\ pc' = pc + 1
    /\ IF Mixed(query')
       THEN Answer("mixed") /\ UNCHANGED stageVars
       ELSE InsertNode(s) \/ InsertEdge(s) \/ Update(s) \/ DeleteNode(s) \/ DeleteEdge(s)
    /\ UNCHANGED <<graph, head, cas, txnVars, attempt, ghostVars>>

-----------------------------------------------------------------------------
\* MutationStaging::to_changeset
ToChangeset == [t \in Tables |-> [changed |-> pend[t], deleted |-> delIds[t]]]

\* CommittedState::write: base for uniqueness and references, the live
\* branch for cardinality
WriteState == [n |-> base.n, e |-> base.e, live |-> graph.e, over |-> {}]

IsEmpty == pend = NoBatches /\ del = NoBatches

Ran == phase = "run" /\ pc = Len(query) /\ query # <<>>

\* validate_staged_mutation, then stage_all
ValidateStaged ==
    /\ Ran /\ ~ IsEmpty
    /\ IF Refused(WriteState, ToChangeset)
       THEN Answer("violation")
       ELSE phase' = "ready" /\ UNCHANGED outcome
    /\ live' = head
    /\ UNCHANGED <<graph, head, cas, txnVars, query, pc, stageVars, attempt, published, seen>>

NoEffectUnchecked ==
    /\ Ran /\ IsEmpty
    /\ Answer("noop")
    /\ seen' = head
    /\ UNCHANGED <<graph, head, cas, txnVars, query, pc, stageVars, attempt, published, live>>

\* the empty accumulator: a caller that expects a head is answered under
\* the branch gate, after the authority is read again
NoEffect ==
    /\ Ran /\ IsEmpty
    /\ IF cas /\ head # baseHead THEN Answer("precondition") ELSE Answer("noop")
    /\ seen' = head
    /\ UNCHANGED <<graph, head, cas, txnVars, query, pc, stageVars, attempt, published, live>>

\* prepare_pending_table: one image per id
Prepared(t) ==
    LET fold == LastWins(PendRows(t))
    IN  [id \in DOMAIN fold |-> [c \in DOMAIN fold[id] \ {"id"} |-> fold[id][c]]]

\* stage_pending_table and stage_delete_table over the pinned table, as
\* commit_staged makes them visible
Staged(t) ==
    Prepared(t) @@ [id \in DOMAIN base[t] \ DeletedRows(t) |-> base[t][id]]

\* retryable: only an insert-only query is prepared again
Retryable == \A i \in DOMAIN query : query[i].op \in {"insert_node", "insert_edge"}

AuthorityForCas == cas => head = baseHead

\* revalidate_write_txn under the gates
AuthorityHolds == head = baseHead

\* commit_all and the publish under the gates, or the loop of
\* mutate_with_current_actor around them
CommitAll ==
    /\ phase = "ready"
    /\ IF AuthorityHolds
       THEN /\ graph' = [t \in Tables |-> Staged(t)] /\ head' = head + 1
            /\ published' = graph' /\ seen' = head
            /\ Answer("committed") /\ UNCHANGED attempt
       ELSE /\ UNCHANGED <<graph, head, published, seen>>
            /\ IF cas THEN Answer("precondition") /\ UNCHANGED attempt
               ELSE IF Retryable /\ attempt < MaxReprepares
               THEN phase' = "begin" /\ attempt' = attempt + 1 /\ UNCHANGED outcome
               ELSE Answer("read_set_changed") /\ UNCHANGED attempt
    /\ UNCHANGED <<cas, txnVars, query, pc, stageVars, live>>

\* another writer commits a graph its own validation admits
Foreign ==
    /\ head < MaxForeign
    /\ phase # "done"
    /\ \E g \in Graphs \ {graph} :
        NoneEmptied(graph, g) /\ graph' = g
    /\ head' = head + 1
    /\ UNCHANGED <<cas, phase, outcome, txnVars, query, pc, stageVars, attempt, ghostVars>>

Next ==
    \/ Begin
    \/ \E s \in Statements : Execute(s)
    \/ ValidateStaged
    \/ NoEffect
    \/ CommitAll
    \/ Foreign

Spec == Init /\ [][Next]_vars

-----------------------------------------------------------------------------
(* The reference: the statements executed one after another on the graph.  *)

RefStep(g, s, k) ==
    LET hit(t) == {id \in DOMAIN g[t] : IsTrue(s.where, RowAt(g[t], id))}
        touches(ids) == {id \in DOMAIN g.e : {g.e[id].src, g.e[id].dst} \cap ids # {}}
        without(t, ids) == [id \in DOMAIN g[t] \ ids |-> g[t][id]]
    IN  CASE s.op = "insert_node" ->
               [g EXCEPT !.n = (InsertId(s, k) :> [u |-> s.u, v |-> s.v]) @@ @]
          [] s.op = "insert_edge" ->
               [g EXCEPT !.e = (InsertId(s, k) :> [src |-> s.src, dst |-> s.dst]) @@ @]
          [] s.op = "update" ->
               [g EXCEPT !.n = [id \in DOMAIN @ |->
                    IF id \in hit("n") THEN Assigned(s, @[id]) ELSE @[id]]]
          [] s.op = "delete_node" ->
               [n |-> without("n", hit("n")), e |-> without("e", touches(hit("n")))]
          [] s.op = "delete_edge" ->
               [g EXCEPT !.e = without("e", hit("e"))]

\* the graph after each prefix of the statements
RefRuns ==
    LET run[i \in 0 .. Len(query)] == IF i = 0 THEN base ELSE RefStep(run[i - 1], query[i], i)
    IN  run

-----------------------------------------------------------------------------
\* Every published graph satisfies the value, uniqueness, reference and
\* cardinality constraints, whatever the statements of a query and whatever
\* other writers commit between its snapshot and its publish.
GraphIntegrity == Integrity(graph)

\* No commit takes a surviving src that had edges below the @card minimum,
\* also when a node delete cascades to the edges of other srcs.
NoSrcEmptied == NoneEmptied(graph, graph')

\* A query that commits leaves the graph its statements leave when they are
\* executed one after another on its snapshot, provided no update met a row
\* that two earlier statements of the query had staged.
SequentialOutcome ==
    outcome = "committed" /\ ~ restaged => published = RefRuns[Len(query)]

\* Validation refuses a query only when one of its statements would leave a
\* graph that breaks a constraint (with the same proviso, and when no other
\* writer moved the edges it counts).
RefusedForCause ==
    outcome = "violation" /\ ~ restaged /\ live = baseHead =>
        \E k \in 1 .. Len(query) :
            ~ Integrity(RefRuns[k]) \/ ~ NoneEmptied(base, RefRuns[k])

\* Overlapping delete statements count every row they remove exactly once,
\* nulls in the predicates included.
DeletesCountedOnce ==
    outcome = "committed" /\ Destructive(query[1]) =>
        \A t \in Tables : affected[t] = Cardinality(DOMAIN base[t] \ DOMAIN published[t])

\* A caller that expected a head is acknowledged, for an effect or for none,
\* only when nothing was committed since it read that head.
CallerCas == cas /\ outcome \in {"committed", "noop"} => seen = 0

\* The rows staged for one table, superseded versions included, never exceed
\* the ceiling of one keyed write.
PendingBounded == \A t \in Tables : Len(PendRows(t)) <= MaxRows

\* Statements about the same row coalesce: a query is refused only when one
\* of its statements would break a constraint (upgrade.md: "The same id
\* across separate batches or statements still coalesces").
StatementsCoalesce ==
    outcome = "violation" /\ live = baseHead =>
        \E k \in 1 .. Len(query) :
            ~ Integrity(RefRuns[k]) \/ ~ NoneEmptied(base, RefRuns[k])

\* A chained update never matches a row whose staged value no longer
\* satisfies its predicate (the comment in execute_update).
ChainedUpdatesSeeLastValue ==
    outcome = "committed" => published = RefRuns[Len(query)]

\* Validation is a no-op for a destructive query (the comment of
\* validate_staged_mutation).
DeletesNeverRefused == outcome = "violation" => ~ Destructive(query[1])
=============================================================================
