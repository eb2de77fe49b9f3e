------------------------------ MODULE PureInsert ------------------------------
(***************************************************************************)
(* The insertion-absence certificate.  A keyed write that inserted only    *)
(* ids absent from its pinned parent leaves a certificate in its Lance     *)
(* transaction.  A branch merge that finds nothing but certified inserts   *)
(* between its base and its source copies the new rows to the target       *)
(* without looking whether the target holds their ids.                     *)
(*                                                                         *)
(* One table with the refs "dev" (the merge target) and "feat" (the        *)
(* source).  A ref is a log of versions; an incarnation is the identity    *)
(* Lance gives a ref, and versions repeat from one incarnation to the next.*)
(* A row is an id, the version that created it and a value.                *)
(***************************************************************************)
EXTENDS Naturals, Sequences, FiniteSets, FiniteSetsExt, SequencesExt

CONSTANTS Ids,            \* row ids
          Kinds,          \* the writes made: strict, upsert, known, delete, overwrite, rewrite
          MaxVersion,     \* bound on the versions of a ref
          MaxIncarnation, \* bound on the incarnations ever made
          MaxWrites,      \* bound on the writes of this process
          MaxSlow,        \* bound on the writes of another process
          HistoryMax,     \* PURE_INSERT_HISTORY_MAX_VERSIONS
          ChunkRows,      \* KEYED_WRITE_MAX_ROWS
          ChunksMax       \* MAX_BRANCH_MERGE_DATA_TRANSACTIONS
VARIABLES ref,     \* the native refs of the table
          pin,     \* the version each graph branch's manifest entry names
          made,    \* incarnations, writes and foreign writes made so far
          slow,    \* a keyed write of another process, staged and not yet committed
          merge    \* the branch merge of feat into dev
vars == <<ref, pin, made, slow, merge>>

Refs == {"dev", "feat"}
Keyed == {"strict", "upsert", "known"}
NoTx == [read |-> 0, kind |-> "none", new |-> {}, touched |-> {}, cert |-> FALSE]
NoWrite == [ref |-> "none", id |-> 0, tx |-> NoTx]
Idle == [pc |-> "idle", base |-> 0, baseId |-> 0, source |-> 0, sourceId |-> 0, rows |-> {},
         chunks |-> <<>>, at |-> 0, tx |-> NoTx]

HeadOf(r) == Len(ref[r].log)
RowsAt(r, v) == ref[r].log[v].rows
Keys(rows) == {w.id : w \in rows}
Plain(rows) == {[id |-> w.id, val |-> w.val] : w \in rows}

\* What a committed transaction does to the rows (Lance keeps the creating version of a
\* row that it updates or compacts).
Effect(rows, tx, v) ==
    LET new == {[id |-> w.id, at |-> v, val |-> w.val] : w \in tx.new} IN
    CASE tx.kind = "overwrite" -> new
      [] tx.kind = "delete" -> {w \in rows : w.id \notin tx.touched}
      [] OTHER -> {IF w.id \in tx.touched THEN [w EXCEPT !.val = 1] ELSE w : w \in rows} \cup new
Committed(r, tx) ==
    [ref EXCEPT ![r].log = Append(@, [rows |-> Effect(RowsAt(r, HeadOf(r)), tx, HeadOf(r) + 1), tx |-> tx])]

\* Lance rebases a stale transaction over the commits since its read version unless one
\* inserted the same keys, touched the same rows, or replaced the table.
Collides(tx, other) ==
    \/ Keys(tx.new) \cap Keys(other.new) # {}
    \/ tx.touched \cap other.touched # {}
    \/ other.kind = "overwrite"
Rebases(r, tx) == \A v \in tx.read + 1 .. HeadOf(r) : ~Collides(tx, ref[r].log[v].tx)

----------------------------------------------------------------------------
\* Keyed writes.

\* stage_keyed_write: the statistics prove that every source row was inserted.
PureInsertStats(present, ids) == ids \cap present = {}

\* certify_insert_absence, on an upsert only as its completed statistics allow.
Staged(r, semantics, ids) ==
    LET present == Keys(RowsAt(r, HeadOf(r)))
        new == ids \ present
    IN  [read |-> HeadOf(r),
         kind |-> IF ids \cap present = {} THEN "insert" ELSE "update",
         new |-> {[id |-> i, val |-> IF semantics = "strict" THEN 0 ELSE 1] : i \in new},
         touched |-> ids \cap present,
         cert |-> semantics # "known" /\ PureInsertStats(present, ids)]

\* preflight_strict_insert_ids refuses a present id; validate_known_present_update a
\* missing one.
Admitted(r, semantics, ids) ==
    LET present == Keys(RowsAt(r, HeadOf(r))) IN
    /\ ids # {}
    /\ semantics = "strict" => ids \cap present = {}
    /\ semantics = "known" => ids \subseteq present

CanWrite(r) ==
    /\ ref[r].id # 0 /\ HeadOf(r) < MaxVersion /\ pin[r] = HeadOf(r) /\ merge.pc # "writing"
    /\ made.writes < MaxWrites /\ made' = [made EXCEPT !.writes = @ + 1]

\* A keyed write of this process: staged, committed and published under its gates.
KeyedWrite(r, semantics, ids) ==
    /\ CanWrite(r) /\ Admitted(r, semantics, ids)
    /\ ref' = Committed(r, Staged(r, semantics, ids))
    /\ pin' = [pin EXCEPT ![r] = HeadOf(r) + 1]
    /\ UNCHANGED <<slow, merge>>

\* A delete, an overwrite load or a compaction: no certificate.
OtherWrite(r, kind, ids) ==
    /\ CanWrite(r)
    /\ kind = "delete" => ids # {} /\ ids \subseteq Keys(RowsAt(r, HeadOf(r)))
    /\ kind = "rewrite" => ids = {}
    /\ ref' = Committed(r, [NoTx EXCEPT !.read = HeadOf(r), !.kind = kind,
                                        !.new = IF kind = "overwrite" THEN {[id |-> i, val |-> 0] : i \in ids} ELSE {},
                                        !.touched = IF kind = "delete" THEN ids ELSE {}])
    /\ pin' = [pin EXCEPT ![r] = HeadOf(r) + 1]
    /\ UNCHANGED <<slow, merge>>

\* Another process stages a keyed write, and commits it later wherever the ref then is;
\* it publishes the version, or dies before it does.
SlowStage(r, semantics, ids) ==
    /\ slow = NoWrite /\ ref[r].id # 0 /\ Admitted(r, semantics, ids)
    /\ made.slow < MaxSlow /\ made' = [made EXCEPT !.slow = @ + 1]
    /\ slow' = [ref |-> r, id |-> ref[r].id, tx |-> Staged(r, semantics, ids)]
    /\ UNCHANGED <<ref, pin, merge>>
SlowCommit(published) ==
    /\ slow # NoWrite /\ slow' = NoWrite
    /\ LET r == slow.ref IN
       IF ref[r].id = slow.id /\ HeadOf(r) < MaxVersion /\ Rebases(r, slow.tx)
       THEN /\ ref' = Committed(r, slow.tx)
            /\ pin' = IF published THEN [pin EXCEPT ![r] = HeadOf(r) + 1] ELSE pin
       ELSE UNCHANGED <<ref, pin>>
    /\ UNCHANGED <<made, merge>>

----------------------------------------------------------------------------
\* Branches of the table.

\* fork_branch_from_state: feat starts at the version dev's manifest entry names.
Fork ==
    /\ ref["feat"].id = 0 /\ made.refs < MaxIncarnation /\ made' = [made EXCEPT !.refs = @ + 1]
    /\ ref' = [ref EXCEPT !["feat"] = [id |-> made.refs + 1, parent |-> ref["dev"].id, fork |-> pin["dev"],
                                       log |-> SubSeq(ref["dev"].log, 1, pin["dev"])]]
    /\ pin' = [pin EXCEPT !["feat"] = pin["dev"]]
    /\ UNCHANGED <<slow, merge>>
Drop ==
    /\ ref["feat"].id # 0
    /\ ref' = [ref EXCEPT !["feat"] = [id |-> 0, parent |-> 0, fork |-> 0, log |-> <<>>]]
    /\ pin' = [pin EXCEPT !["feat"] = 0]
    /\ UNCHANGED <<made, slow, merge>>
\* dev is deleted and created again from its parent at the version it had forked at: only
\* while no branch was made from it (ensure_branch_delete_safe, Lance's RefConflict), so
\* a merge planned before meets both refs anew.
Recreate ==
    /\ ref["feat"].id = 0 /\ merge.pc # "writing" /\ made.refs < MaxIncarnation /\ made' = [made EXCEPT !.refs = @ + 1]
    /\ ref' = [ref EXCEPT !["dev"] = [@ EXCEPT !.id = made.refs + 1, !.log = SubSeq(@, 1, 1)]]
    /\ pin' = [pin EXCEPT !["dev"] = 1]
    /\ UNCHANGED <<slow, merge>>

----------------------------------------------------------------------------
\* Branch merge of feat into dev, dev's entry being the merge base's.

\* One link of the chain: the rows a certified transaction contributes, 0 for a miss.
CertifiedRows(v) ==
    LET tx == ref["feat"].log[v].tx IN
    IF tx.read = v - 1 /\ tx.cert /\ tx.kind = "insert" THEN Cardinality(tx.new) ELSE 0

CertifiedInterval(base, source) ==
    /\ \A v \in base + 1 .. source : CertifiedRows(v) > 0
    /\ MapThenSumSet(CertifiedRows, base + 1 .. source)
           = Cardinality(RowsAt("feat", source)) - Cardinality(RowsAt("feat", base))

\* scan_proven_insert_delta_bounded: the rows created in the interval.
DeltaRows(base, source) == {w \in RowsAt("feat", source) : w.at > base /\ w.at <= source}

\* try_proven_pure_insert_history; readable: no transaction of the interval was cleaned.
ProvenHistory(readable) ==
    LET base == pin["dev"]
        source == pin["feat"]
    IN  /\ source > base
        /\ Cardinality(RowsAt("feat", source)) > Cardinality(RowsAt("dev", base))
        /\ source - base <= HistoryMax
        /\ ref["feat"].parent = ref["dev"].id /\ ref["feat"].fork = base
        /\ readable /\ CertifiedInterval(base, source)

\* plan_proven_pure_insert_chunks.
Chunked(rows) ==
    LET seq == SetToSeq(rows)
        n == Len(seq)
        count == (n + ChunkRows - 1) \div ChunkRows
    IN  [c \in 1 .. count |-> {seq[i] : i \in (c - 1) * ChunkRows + 1 .. Min({c * ChunkRows, n})}]

MergePlan(readable) ==
    /\ merge.pc = "idle" /\ ref["feat"].id # 0
    /\ LET base == pin["dev"]
           source == pin["feat"]
           rows == DeltaRows(base, source)
       IN  merge' =
             IF ~ProvenHistory(readable) \/ Len(Chunked(rows)) > ChunksMax
             THEN [Idle EXCEPT !.pc = "general"]
             ELSE [Idle EXCEPT !.pc = "planned", !.base = base, !.baseId = ref["dev"].id,
                               !.source = source, !.sourceId = ref["feat"].id,
                               !.rows = RowsAt("feat", source), !.chunks = Chunked(rows)]
    /\ UNCHANGED <<ref, pin, made, slow>>

\* revalidate_proven_pure_insert_source: the ref may have advanced, not been replaced.
SourceStands ==
    /\ ref["feat"].id = merge.sourceId
    /\ pin["feat"] >= merge.source /\ HeadOf("feat") = pin["feat"]
\* revalidate_proven_pure_insert_target_incarnation and ensure_existing_effect_baseline.
TargetStands == ref["dev"].id = merge.baseId /\ pin["dev"] = merge.base /\ HeadOf("dev") = merge.base

ProofStands == SourceStands /\ TargetStands

MergeGate ==
    /\ merge.pc = "planned"
    /\ merge' = IF ProofStands
                THEN [merge EXCEPT !.pc = "writing", !.at = merge.base]
                ELSE [Idle EXCEPT !.pc = "refused"]
    /\ UNCHANGED <<ref, pin, made, slow>>

\* stage_proven_strict_insert: the chunk is staged on the target version it expects, with
\* a key filter of its ids, certified, and the target is not searched for them.
ChunkTx(rows) ==
    [read |-> merge.at, kind |-> "insert", new |-> Plain(rows), touched |-> {}, cert |-> TRUE]
ChunkStage ==
    /\ merge.pc = "writing" /\ merge.tx = NoTx /\ merge.chunks # <<>>
    /\ merge' = [merge EXCEPT !.tx = ChunkTx(Head(merge.chunks)), !.chunks = Tail(@)]
    /\ UNCHANGED <<ref, pin, made, slow>>
\* commit_exact_merge_stage: a rebased commit is not the planned one and ends the merge.
ChunkCommit ==
    /\ merge.pc = "writing" /\ merge.tx # NoTx
    /\ IF HeadOf("dev") < MaxVersion + ChunksMax /\ Rebases("dev", merge.tx)
       THEN /\ ref' = Committed("dev", merge.tx)
            /\ merge' = IF HeadOf("dev") = merge.at
                        THEN [merge EXCEPT !.tx = NoTx, !.at = @ + 1]
                        ELSE [Idle EXCEPT !.pc = "failed"]
       ELSE /\ ref' = ref /\ merge' = [Idle EXCEPT !.pc = "failed"]
    /\ UNCHANGED <<pin, made, slow>>
MergePublish ==
    /\ merge.pc = "writing" /\ merge.tx = NoTx /\ merge.chunks = <<>>
    /\ pin' = [pin EXCEPT !["dev"] = merge.at]
    /\ merge' = [merge EXCEPT !.pc = "done"]
    /\ UNCHANGED <<ref, made, slow>>

----------------------------------------------------------------------------
Init ==
    /\ \E rows \in SUBSET Ids :
          ref = [r \in Refs |->
                   IF r = "dev"
                   THEN [id |-> 1, parent |-> 0, fork |-> 1,
                         log |-> <<[rows |-> {[id |-> i, at |-> 1, val |-> 0] : i \in rows}, tx |-> NoTx]>>]
                   ELSE [id |-> 0, parent |-> 0, fork |-> 0, log |-> <<>>]]
    /\ pin = [r \in Refs |-> IF r = "dev" THEN 1 ELSE 0]
    /\ made = [refs |-> 1, writes |-> 0, slow |-> 0] /\ slow = NoWrite /\ merge = Idle

Next ==
    \/ \E r \in Refs, s \in Kinds \cap Keyed, ids \in SUBSET Ids : KeyedWrite(r, s, ids)
    \/ \E r \in Refs, k \in Kinds \ Keyed, ids \in SUBSET Ids : OtherWrite(r, k, ids)
    \/ \E r \in Refs, s \in Kinds \cap Keyed, ids \in SUBSET Ids : SlowStage(r, s, ids)
    \/ \E published \in BOOLEAN : SlowCommit(published)
    \/ Fork \/ Drop \/ Recreate
    \/ \E readable \in BOOLEAN : MergePlan(readable)
    \/ MergeGate \/ ChunkStage \/ ChunkCommit \/ MergePublish

Spec == Init /\ [][Next]_vars

----------------------------------------------------------------------------
\* Every certificate tells the truth: the keys it names were absent from the version the
\* transaction landed on and it did nothing else, certificates the merge itself passed on
\* included.
CertificatesTrue ==
    \A r \in Refs : \A v \in 2 .. HeadOf(r) :
        LET tx == ref[r].log[v].tx IN
        tx.cert => /\ Keys(tx.new) \cap Keys(RowsAt(r, v - 1)) = {}
                   /\ Plain(RowsAt(r, v)) = Plain(RowsAt(r, v - 1)) \cup tx.new

\* A merge that skipped the search of its target leaves exactly the source's rows there.
AdoptedExactly ==
    merge.pc = "done" /\ pin["dev"] = merge.at /\ ref["dev"].id = merge.baseId
        => Plain(RowsAt("dev", merge.at)) = Plain(merge.rows)

\* No version of a table ever holds two rows with one id.
IdsUnique ==
    \A r \in Refs : \A v \in 1 .. HeadOf(r) :
        Cardinality(Keys(RowsAt(r, v))) = Cardinality(RowsAt(r, v))
=============================================================================
