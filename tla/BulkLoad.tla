------------------------------ MODULE BulkLoad ------------------------------
(***************************************************************************)
(* A bulk load (loader/mod.rs): fork the target branch when it is missing  *)
(* and a base was named, build one batch per type from the input, judge    *)
(* it against the pinned base, and publish on that base or start over.     *)
(***************************************************************************)
EXTENDS Validate, TLC

CONSTANTS
    Graphs,         \* committed graphs of the target branch
    Mains,          \* committed graphs of the branch a load may fork from
    Inputs,         \* parsed inputs: rows of nodes and of edges
    MaxRows,        \* KEYED_WRITE_MAX_ROWS
    MaxForeign,     \* bound on commits of other writers
    MaxReprepares,  \* MAX_PRE_EFFECT_REPREPARES
    Absent          \* a branch that does not exist

VARIABLES
    branch,         \* the graph of "main" and of the "target" of the load
    head,           \* the target's commit counter
    mode, input, fork, \* the request; fork: a base branch was named
    phase, outcome, created,
    base, baseHead, \* WriteTxn of the attempt
    attempt,
    before          \* ghost: the target when the load was published

vars == <<branch, head, mode, input, fork, phase, outcome, created, base, baseHead,
          attempt, before>>

Tables == {"n", "e"}
NoGraph == [n |-> <<>>, e |-> <<>>]

Init ==
    /\ \E m \in Mains, g \in Graphs \cup {Absent} : branch = [main |-> m, target |-> g]
    /\ head = 0
    /\ mode \in {"append", "merge", "overwrite"}
    /\ input \in Inputs
    /\ fork \in BOOLEAN
    /\ phase = "check" /\ outcome = "none" /\ created = FALSE
    /\ base = NoGraph /\ baseHead = 0 /\ attempt = 0 /\ before = NoGraph

request == <<mode, input, fork>>

Answer(o) == phase' = "done" /\ outcome' = o

\* load_as_inner, the listing of branches before an implicit fork
CheckTarget ==
    /\ phase = "check"
    /\ phase' = IF fork /\ branch["target"] = Absent THEN "fork" ELSE "open"
    /\ UNCHANGED <<branch, head, request, outcome, created, base, baseHead, attempt, before>>

\* branch_create_from_as: it refuses a branch created in the meantime
ForkTarget ==
    /\ phase = "fork"
    /\ IF branch["target"] = Absent
       THEN /\ branch' = [branch EXCEPT !["target"] = branch["main"]]
            /\ created' = TRUE /\ phase' = "open" /\ UNCHANGED outcome
       ELSE Answer("exists") /\ UNCHANGED <<branch, created>>
    /\ UNCHANGED <<head, request, base, baseHead, attempt, before>>

\* load_jsonl_reader_once up to its input: one immutable authority
OpenTxn ==
    /\ phase = "open"
    /\ IF branch["target"] = Absent
       THEN Answer("no_branch") /\ UNCHANGED <<base, baseHead>>
       ELSE base' = branch["target"] /\ baseHead' = head /\ phase' = "build" /\ UNCHANGED outcome
    /\ UNCHANGED <<branch, head, request, created, attempt, before>>

\* account_keyed_json_row and append_batch: the keyed modes are bounded
WithinCeiling == mode = "overwrite" \/ \A t \in Tables : Len(input[t]) <= MaxRows

Touched == {t \in Tables : input[t] # <<>>}

NoRemovals(t, change) == {}

\* the ids an Overwrite drops, folded into the change-set's deletions
Removed(t, change) ==
    IF mode = "overwrite" /\ t \in Touched THEN OverwriteRemovedIds(base, t, change) ELSE {}

\* staging.to_changeset with one batch per table
LoadChangeset ==
    [t \in Tables |->
        LET change == [changed |-> IF t \in Touched THEN <<input[t]>> ELSE <<>>, deleted |-> {}]
        IN  [change EXCEPT !.deleted = Removed(t, change)]]

\* CommittedState::load
LoadState ==
    [n |-> base.n, e |-> base.e, live |-> base.e,
     over |-> IF mode = "overwrite" THEN Touched ELSE {}]

\* the ids of a keyed write: the fold of an Upsert, every row otherwise
Folded(t) == IF mode = "merge" THEN Cardinality({r.id : r \in ToSet(input[t])}) ELSE Len(input[t])

NeverConflict == FALSE

\* validate_keyed_write_batch and the strict insert's id preflight
KeyConflict ==
    \E t \in Tables :
        LET ids == {r.id : r \in ToSet(input[t])}
        IN  Cardinality(ids) # Folded(t) \/ (mode = "append" /\ ids \cap DOMAIN base[t] # {})

\* phases 2 and 3 of load_jsonl_reader_once, then stage_all
BuildAndValidate ==
    /\ phase = "build"
    /\ IF ~ WithinCeiling THEN Answer("limit")
       ELSE IF Refused(LoadState, LoadChangeset) THEN Answer("violation")
       ELSE IF KeyConflict THEN Answer("key_conflict")
       ELSE phase' = "ready" /\ UNCHANGED outcome
    /\ UNCHANGED <<branch, head, request, created, base, baseHead, attempt, before>>

MergedImage(t) ==
    LET fold == LastWins(input[t])
    IN  [id \in DOMAIN fold |-> [c \in DOMAIN fold[id] \ {"id"} |-> fold[id][c]]] @@ base[t]

\* what commit_staged of the staged table makes visible
Image(t) ==
    LET fold == LastWins(input[t])
        rows == [id \in DOMAIN fold |-> [c \in DOMAIN fold[id] \ {"id"} |-> fold[id][c]]]
    IN  IF t \notin Touched THEN base[t]
        ELSE IF mode = "overwrite" THEN rows
        ELSE rows @@ base[t]

HeadIgnored == TRUE

\* the branch token commit_all revalidates under the gates
TokenHolds == head = baseHead /\ branch["target"] # Absent

Retryable == mode \in {"append", "merge"}

\* phase 4, and the bounded loop of load_jsonl_data
CommitLoad ==
    /\ phase = "ready"
    /\ IF TokenHolds
       THEN /\ branch' = [branch EXCEPT !["target"] = [t \in Tables |-> Image(t)]]
            /\ before' = branch["target"] /\ head' = head + 1
            /\ Answer("committed") /\ UNCHANGED attempt
       ELSE /\ UNCHANGED <<branch, head, before>>
            /\ IF Retryable /\ attempt < MaxReprepares
               THEN phase' = "open" /\ attempt' = attempt + 1 /\ UNCHANGED outcome
               ELSE Answer("read_set_changed") /\ UNCHANGED attempt
    /\ UNCHANGED <<request, created, base, baseHead>>

\* other writers: a commit on the target, or its creation
Foreign ==
    /\ phase # "done" /\ head < MaxForeign
    /\ \E g \in Graphs :
        /\ g # branch["target"]
        /\ branch["target"] # Absent => NoneEmptied(branch["target"], g)
        /\ branch' = [branch EXCEPT !["target"] = g]
    /\ head' = head + 1
    /\ UNCHANGED <<request, phase, outcome, created, base, baseHead, attempt, before>>

Next == CheckTarget \/ ForkTarget \/ OpenTxn \/ BuildAndValidate \/ CommitLoad \/ Foreign

Spec == Init /\ [][Next]_vars

-----------------------------------------------------------------------------
\* the graph a load promises to leave, of a target g
Promised(g) ==
    [t \in Tables |->
        LET ids == {r.id : r \in ToSet(input[t])}
            last(id) == input[t][CHOOSE i \in DOMAIN input[t] :
                            /\ input[t][i].id = id
                            /\ \A j \in DOMAIN input[t] : input[t][j].id = id => j <= i]
            kept == IF mode = "overwrite" /\ ids # {} THEN {} ELSE DOMAIN g[t] \ ids
        IN  [id \in ids \cup kept |->
                IF id \in ids THEN [c \in DOMAIN last(id) \ {"id"} |-> last(id)[c]] ELSE g[t][id]]]

Repeats(rows, Key(_)) ==
    \E i, j \in DOMAIN rows : i # j /\ Key(rows[i]) = Key(rows[j]) /\ Key(rows[i]) # Null

\* Every branch satisfies every constraint whatever is loaded in whatever mode
\* and whatever other writers commit before the load publishes.
LoadedIntegrity ==
    \A b \in DOMAIN branch : branch[b] # Absent => Integrity(branch[b])

\* A load that is acknowledged left exactly what its mode promises of the
\* target as it was at the moment of the publish, not as it was prepared.
LoadOutcome == outcome = "committed" => branch["target"] = Promised(before)

\* An append never replaces or drops a row another writer committed.
AppendKeeps ==
    outcome = "committed" /\ mode = "append" =>
        \A t \in Tables : \A id \in DOMAIN before[t] :
            id \in DOMAIN branch["target"][t] /\ branch["target"][t][id] = before[t][id]

\* Validation refuses a load only when the loaded graph would break a
\* constraint, or the input lists a key or a unique value twice.
LoadRefusedForCause ==
    outcome = "violation" =>
        \/ ~ Integrity(Promised(base)) \/ ~ NoneEmptied(base, Promised(base))
        \/ Repeats(input.n, LAMBDA r : r.u)
        \/ Keyed /\ Repeats(input.n, LAMBDA r : r.id)
        \/ \E r \in ToSet(input.e) : ~ ({r.src, r.dst} \subseteq DOMAIN Promised(base).n)

\* A load that appends or merges takes no surviving src below the minimum.
LoadEmptiesNoSrc ==
    mode # "overwrite" =>
     \A b \in DOMAIN branch :
         branch[b] # Absent => NoneEmptied(branch[b], branch'[b])

\* Cardinality is recomputed for a src an Overwrite of the edges empties
\* (the comment of overwrite_removed_ids).
OverwriteRecounts ==
    [][\A b \in DOMAIN branch :
        branch[b] # Absent => NoneEmptied(branch[b], branch'[b])]_vars
=============================================================================
