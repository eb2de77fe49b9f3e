------------------------------- MODULE RowMerge -------------------------------
(***************************************************************************)
(* The row merge of one table (exec/merge.rs): the ordered walk over the   *)
(* cursors of the merge base, the source and the target, the writers that  *)
(* cut its output into bounded chunks, the transactions planned for the    *)
(* chunks, and their publication onto the target.                          *)
(*                                                                         *)
(* Every initial state is one merge: three tables, the route the           *)
(* classifier took, and whether the table holds blobs (then a first walk   *)
(* collects the payloads the second one will copy).  Ids are 1..Rows in    *)
(* cursor order and a row has one property besides its id.                 *)
(***************************************************************************)
EXTENDS Integers, Sequences, FiniteSets, SequencesExt

CONSTANTS
    Rows,          \* number of distinct ids
    Values,        \* property values; "null" is the missing value
    IdBytes,       \* bytes of every id and of every row
    MaxRows,       \* KEYED_WRITE_MAX_ROWS
    MaxBytes,      \* KEYED_WRITE_MAX_BYTES
    MaxRetained,   \* bytes the delete plan may retain
    MaxChain       \* MAX_BRANCH_MERGE_DATA_TRANSACTIONS

VARIABLES
    base, source, target,   \* the three tables: a cell for every id
    mode,                   \* "adopt": the target equals the base
    blob,                   \* the schema has a blob column
    pc,
    next,                   \* the least id the cursors have not passed
    selected,               \* ids whose payload the first walk admitted
    inserts, upserts,       \* StagedTableWriter: open rows and chunks
    deletes,                \* DeleteIdChunks: chunks and retained bytes
    conflicts,              \* set of [id, kind]
    queue,                  \* planned transactions not committed yet
    out                     \* the table at the target's HEAD

vars == <<base, source, target, mode, blob, pc, next, selected, inserts,
          upserts, deletes, conflicts, queue, out>>
inputs == <<base, source, target, mode, blob>>

Ids == 1..Rows
Absent == "absent"
Cells == Values \cup {Absent}
Tables == [Ids -> Cells]

-----------------------------------------------------------------------------
(* Signatures: the display text of every column.  A null prints as the     *)
(* empty string.                                                           *)

Text(v) == IF v = "null" THEN "" ELSE v
Signature(t, i) == IF t[i] = Absent THEN <<>> ELSE <<i, Text(t[i])>>

SourceChanged(i) == Signature(source, i) # Signature(base, i)
TargetChanged(i) == Signature(target, i) # Signature(base, i)
Diverged(i) == /\ SourceChanged(i) /\ TargetChanged(i)
               /\ Signature(source, i) # Signature(target, i)

\* classify_merge_conflict.
ConflictKind(i) ==
    IF base[i] = Absent THEN "DivergentInsert"
    ELSE IF source[i] = Absent \/ target[i] = Absent THEN "DeleteVsUpdate"
    ELSE "DivergentUpdate"

\* The row the three-way walk keeps.
Selection(i) ==
    IF ~SourceChanged(i) THEN target[i]
    ELSE IF ~TargetChanged(i) THEN source[i]
    ELSE target[i]

-----------------------------------------------------------------------------
(* StagedTableWriter: rows are buffered and flushed at the first of the    *)
(* two ceilings.                                                           *)

Writer == [open |-> <<>>, chunks |-> <<>>]
OpenBytes(w) == Len(w.open) * IdBytes

\* Mutant: an empty buffer is flushed too.
FlushAlways(w) == [open |-> <<>>, chunks |-> Append(w.chunks, w.open)]

Flush(w) == IF w.open = <<>> THEN w
            ELSE [open |-> <<>>, chunks |-> Append(w.chunks, w.open)]

\* Mutant: the buffer is flushed only after it passed the ceiling.
PushRowLate(w, i) ==
    LET grown == [w EXCEPT !.open = Append(@, i)] IN
    IF Len(grown.open) > MaxRows THEN Flush(grown) ELSE grown

PushRow(w, i) ==
    LET room == IF w.open # <<>> /\ (Len(w.open) >= MaxRows
                                     \/ OpenBytes(w) + IdBytes > MaxBytes)
                THEN Flush(w) ELSE w
        grown == [room EXCEPT !.open = Append(@, i)]
    IN IF Len(grown.open) >= MaxRows \/ OpenBytes(grown) >= MaxBytes
       THEN Flush(grown) ELSE grown

WriterRefuses(w) == IdBytes > MaxBytes \/ Len(w.chunks) > MaxChain

\* DeleteIdChunks: each chunk is one filter `id IN ('..', '..')`.
Literal == IdBytes + 2
FilterBytes(chunk) == 8 + Len(chunk) * Literal + (Len(chunk) - 1) * 2

StartsNewChunk(d) ==
    \/ d.chunks = <<>>
    \/ Len(Last(d.chunks)) >= MaxRows
    \/ FilterBytes(Append(Last(d.chunks), 0)) > MaxBytes

PushDelete(d, i) ==
    [retained |-> d.retained + IdBytes + 48
                  + (IF StartsNewChunk(d) THEN 64 ELSE 0),
     chunks |-> IF StartsNewChunk(d) THEN Append(d.chunks, <<i>>)
                ELSE [d.chunks EXCEPT ![Len(d.chunks)] = Append(@, i)]]

DeleteRefuses(d) == 8 + Literal > MaxBytes \/ d.retained > MaxRetained

-----------------------------------------------------------------------------
(* The walks. *)

Init ==
    /\ base \in Tables /\ source \in Tables
    /\ \/ mode = "adopt" /\ target = base
       \/ mode = "three_way" /\ target \in Tables /\ target # base
    /\ source # base
    /\ blob \in BOOLEAN
    /\ pc = IF blob THEN "select" ELSE "walk"
    /\ next = 1 /\ selected = {}
    /\ inserts = Writer /\ upserts = Writer
    /\ deletes = [chunks |-> <<>>, retained |-> 0]
    /\ conflicts = {} /\ queue = <<>> /\ out = target

\* The cursors agree on the least id any of them holds; ids no table has are
\* never seen.
Present == {i \in next..Rows : \E t \in {base, source, target} : t[i] # Absent}
NextId == CHOOSE i \in Present : \A j \in Present : i <= j

\* Mutant: the walk stops recording at the first conflict.
ConflictFirst(i) ==
    IF conflicts = {} THEN {[id |-> i, kind |-> ConflictKind(i)]} ELSE conflicts

Conflict(i) == conflicts \cup {[id |-> i, kind |-> ConflictKind(i)]}

\* collect_adopt_blob_selection and collect_three_way_blob_selection.
\* Mutant: rows only the target lacks are admitted, changed ones are not.
CopiedNewOnly(i) == source[i] # Absent /\ base[i] = Absent
Copied(i) ==
    IF mode = "adopt"
    THEN source[i] # Absent /\ SourceChanged(i)
    ELSE /\ ~Diverged(i) /\ conflicts = {}
         /\ Selection(i) # Absent
         /\ <<i, Text(Selection(i))>> # Signature(target, i)

SelectRow ==
    /\ pc = "select" /\ Present # {}
    /\ next' = NextId + 1
    /\ conflicts' = IF mode = "three_way" /\ Diverged(NextId)
                    THEN Conflict(NextId) ELSE conflicts
    /\ selected' = IF Copied(NextId) THEN selected \cup {NextId} ELSE selected
    /\ UNCHANGED <<inputs, pc, inserts, upserts, deletes, queue, out>>

\* The first walk ends; conflicts end the merge before any payload is read.
SelectDone ==
    /\ pc = "select" /\ Present = {}
    /\ pc' = IF conflicts # {} THEN "conflict" ELSE "walk"
    /\ next' = 1
    /\ UNCHANGED <<inputs, selected, inserts, upserts, deletes, conflicts,
                   queue, out>>

\* compute_adopt_delta.
AdoptRow ==
    /\ pc = "walk" /\ mode = "adopt" /\ Present # {}
    /\ LET i == NextId IN
       /\ next' = i + 1
       /\ deletes' = IF base[i] # Absent /\ source[i] = Absent
                     THEN PushDelete(deletes, i) ELSE deletes
       /\ inserts' = IF base[i] = Absent /\ source[i] # Absent
                     THEN PushRow(inserts, i) ELSE inserts
       /\ upserts' = IF base[i] # Absent /\ source[i] # Absent
                        /\ SourceChanged(i)
                     THEN PushRow(upserts, i) ELSE upserts
    /\ pc' = IF \/ inserts' # inserts /\ WriterRefuses(inserts')
                \/ upserts' # upserts /\ WriterRefuses(upserts')
                \/ deletes' # deletes /\ DeleteRefuses(deletes')
             THEN "refused" ELSE "walk"
    /\ UNCHANGED <<inputs, selected, conflicts, queue, out>>

\* stage_streaming_table_merge: once a row conflicts, the walk only goes on to
\* list the other conflicts.
MergeRow ==
    /\ pc = "walk" /\ mode = "three_way" /\ Present # {}
    /\ LET i == NextId
           s == Selection(i) IN
       /\ next' = i + 1
       /\ conflicts' = IF Diverged(i) THEN Conflict(i) ELSE conflicts
       /\ deletes' = IF conflicts' = {} /\ s = Absent /\ target[i] # Absent
                     THEN PushDelete(deletes, i) ELSE deletes
       /\ upserts' = IF conflicts' = {} /\ s # Absent
                        /\ <<i, Text(s)>> # Signature(target, i)
                     THEN PushRow(upserts, i) ELSE upserts
    /\ pc' = IF \/ upserts' # upserts /\ WriterRefuses(upserts')
                \/ deletes' # deletes /\ DeleteRefuses(deletes')
             THEN "refused" ELSE "walk"
    /\ UNCHANGED <<inputs, selected, inserts, queue, out>>

-----------------------------------------------------------------------------
(* plan_merge_transactions: one transaction for every chunk, inserts       *)
(* before updates before deletions.                                        *)

Tagged(op, chunks) == [k \in 1..Len(chunks) |-> [op |-> op, ids |-> chunks[k]]]

\* Mutant: changed rows are staged as strict inserts.
UpdateOpStrict == IF mode = "adopt" THEN "insert" ELSE "upsert"

UpdateOp == IF mode = "adopt" THEN "update" ELSE "upsert"

\* Mutant: deletions are planned first, updates dropped when there are any.
ChainSwapped(i, u, d) ==
    Tagged("delete", d) \o Tagged("insert", i)
        \o (IF d = <<>> THEN Tagged(UpdateOp, u) ELSE <<>>)

Chain(i, u, d) ==
    Tagged("insert", i) \o Tagged(UpdateOp, u) \o Tagged("delete", d)

\* The walk ends: conflicts, nothing to write (the table is adopted by pointer
\* or left alone), or an armed chain.
WalkDone ==
    /\ pc = "walk" /\ Present = {}
    /\ inserts' = Flush(inserts) /\ upserts' = Flush(upserts)
    /\ LET chain == Chain(inserts'.chunks, upserts'.chunks, deletes.chunks) IN
       /\ pc' = CASE conflicts # {} -> "conflict"
                  [] chain = <<>> -> "done"
                  [] WriterRefuses(inserts') \/ WriterRefuses(upserts')
                     \/ Len(chain) > MaxChain -> "refused"
                  [] OTHER -> "publish"
       /\ queue' = IF pc' = "publish" THEN chain ELSE <<>>
    /\ UNCHANGED <<inputs, next, selected, deletes, conflicts, out>>

\* What the storage layer demands of each kind of write.
Accepts(t) ==
    CASE t.op = "insert" -> \A i \in ToSet(t.ids) : out[i] = Absent
      [] t.op = "update" -> \A i \in ToSet(t.ids) : out[i] # Absent
      [] t.op = "delete" -> \E i \in ToSet(t.ids) : out[i] # Absent
      [] OTHER -> TRUE

\* commit_keyed_stream_chunks and commit_staged_delete_chunks, one exact
\* transaction at a time.
CommitChunk ==
    /\ pc = "publish" /\ queue # <<>>
    /\ LET t == Head(queue) IN
       IF Accepts(t)
       THEN /\ out' = [i \in Ids |->
                  IF i \notin ToSet(t.ids) THEN out[i]
                  ELSE IF t.op = "delete" THEN Absent ELSE source[i]]
            /\ queue' = Tail(queue) /\ UNCHANGED pc
       ELSE pc' = "failed" /\ UNCHANGED <<out, queue>>
    /\ UNCHANGED <<inputs, next, selected, inserts, upserts, deletes, conflicts>>

PublishDone ==
    /\ pc = "publish" /\ queue = <<>>
    /\ pc' = "done"
    /\ UNCHANGED <<inputs, next, selected, inserts, upserts, deletes,
                   conflicts, queue, out>>

Next == SelectRow \/ SelectDone \/ AdoptRow \/ MergeRow \/ WalkDone
        \/ CommitChunk \/ PublishDone

Spec == Init /\ [][Next]_vars

-----------------------------------------------------------------------------
(* Properties. *)

Committed == inserts.chunks \o upserts.chunks
AllChunks == Committed \o deletes.chunks

TypeOK ==
    /\ {base, source, target, out} \subseteq Tables
    /\ pc \in {"select", "walk", "publish", "done", "conflict", "refused",
               "failed"}
    /\ next \in 1..(Rows + 1) /\ selected \subseteq Ids
    /\ \A k \in 1..Len(AllChunks) :
          AllChunks[k] # <<>> /\ ToSet(AllChunks[k]) \subseteq Ids

\* What the ordered walk and the chunked writes leave on the target is the
\* three-way merge, row by row, as far as the signature tells values apart
\* (stage_streaming_table_merge, compute_adopt_delta and the publishers).
ResultIsMerge ==
    pc = "done" =>
        \A i \in Ids :
            Signature(out, i) = IF SourceChanged(i) THEN Signature(source, i)
                                ELSE Signature(target, i)

\* A merge stops on conflicts exactly when some row was changed differently on
\* both sides, and lists every such row, whichever walk found the first.
ConflictsExact ==
    /\ pc = "conflict" => {c.id : c \in conflicts} = {i \in Ids : Diverged(i)}
    /\ pc \in {"publish", "done"} => \A i \in Ids : ~Diverged(i)

\* Once the chain is armed no chunk is refused by the write it is staged as:
\* strict inserts are new, known-present updates exist, a deletion matches
\* (otherwise the merge would need recovery after publishing a prefix).
ArmedChainApplies == pc # "failed"

\* Every planned transaction stays within the row and byte ceilings and an id
\* is written once.
ChunksBounded ==
    /\ \A k \in 1..Len(Committed) :
          Len(Committed[k]) <= MaxRows /\ Len(Committed[k]) * IdBytes <= MaxBytes
    /\ \A k \in 1..Len(deletes.chunks) :
          /\ Len(deletes.chunks[k]) <= MaxRows
          /\ FilterBytes(deletes.chunks[k]) <= MaxBytes
    /\ \A j, k \in 1..Len(AllChunks) :
          j # k => ToSet(AllChunks[j]) \cap ToSet(AllChunks[k]) = {}

\* The payloads admitted by the first walk are those of the rows the second
\* one writes, so no payload is copied outside the operation's budget.
SelectionMatchesWrites ==
    blob /\ pc \in {"publish", "done"} =>
        selected = UNION {ToSet(Committed[k]) : k \in 1..Len(Committed)}

\* After a fast-forward the target's rows are the source's.
FastForwardExact == pc = "done" /\ mode = "adopt" => out = source
=============================================================================
