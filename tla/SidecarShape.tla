---------------------------- MODULE SidecarShape ----------------------------
(***************************************************************************)
(* The durable body of a recovery sidecar: what each writer puts in it,    *)
(* how it is confirmed and given a rollback plan, what a reader accepts    *)
(* (db/manifest/recovery.rs: constructors, parse_sidecar and the shape     *)
(* validators) and where the accepted body is routed.                      *)
(*                                                                         *)
(* A body is written by one process and read by another, perhaps another   *)
(* version of the program, and between the two the object may have been    *)
(* altered: `Damage` changes one field at a time.  A reader lists bodies,  *)
(* takes the gates they name, and reads the body again under them.         *)
(***************************************************************************)
EXTENDS Integers, Sequences, FiniteSets, SequencesExt

CONSTANTS
    Kinds,       \* writer kinds
    Damages,     \* fields that may be altered
    MaxDamage,   \* alterations
    MaxTransactions, \* MAX_BRANCH_MERGE_DATA_TRANSACTIONS
    OldBodies    \* versions of bodies an older program left

VARIABLES
    body,        \* the object, or NoBody
    damage,      \* the alterations so far
    reader,      \* pc, and the gates held: operation, kind, branch and table keys
    steps        \* rewrites of the body, at most two; Rejected when one was refused

vars == <<body, damage, reader, steps>>

None == "none"
NoBody == [version |-> 0]
NoUpdate == [version |-> 0, branch |-> None]
SourceVersion == 9
Uuid(i, k) == 10 * i + k
Rejected == 3

PayloadOf(kind) ==
    CASE kind \in {"Mutation", "Load"} -> {"v3"}
      [] kind = "BranchMerge" -> {"v4"}
      [] kind = "SchemaApply" -> {"v7"}
      [] kind = "EnsureIndices" -> {"v8"}
      [] kind = "Optimize" -> {}

Styles(kind) ==
    CASE kind = "BranchMerge" -> {"own", "first", "fork", "pointer"}
      [] kind = "SchemaApply" -> {"own", "add", "rename", "relabel", "drop"}
      [] kind = "EnsureIndices" -> {"own", "first"}
      [] OTHER -> {"own"}

------------------------------------------------------------------------------
(* Writers: two tables, each with a style. *)

Physical(s) == s \notin {"pointer", "relabel", "drop"}
Expected(s) == IF s = "add" THEN 0 ELSE 5
Alias(i, s) == IF s \in {"rename", "relabel"} THEN 20 + i ELSE 10 + i

Pin(i, s, branch) ==
    [id |-> i, key |-> Alias(i, s), path |-> [root |-> "graph", id |-> i],
     expected |-> Expected(s), confirmed |-> 0, branch |-> branch,
     post |-> IF s = "fork" THEN SourceVersion ELSE Expected(s) + 1]

Chain(i, s, n) == [k \in 1..n |-> [uuid |-> Uuid(i, k),
                                   read |-> Expected(s) + k - 1]]

Effect(i, s, n) ==
    [id |-> i, key |-> Alias(i, s), style |-> s,
     txns |-> IF s = "fork" THEN <<>> ELSE Chain(i, s, n),
     fork |-> IF s = "first" THEN Expected(s)
              ELSE IF s = "fork" THEN SourceVersion ELSE -1,
     done |-> FALSE, version |-> 0, ref |-> FALSE]

Slot(i, s, branch) ==
    [id |-> i, key |-> Alias(i, s), expected |-> Expected(s),
     branch |-> IF s = "pointer" THEN None ELSE branch, confirmed |-> NoUpdate]

Select(styles, P(_)) == SelectSeq(<<1, 2>>, LAMBDA i : P(styles[i]))

\* new_occ_sidecar_v9, new_branch_merge_sidecar_v9, new_schema_apply_sidecar_v9,
\* new_ensure_indices_sidecar_v9, new_optimize_sidecar_v9. The chains of a merge are as
\* long as enforce_merge_transaction_ceiling lets them be.
New(kind, branch, styles) ==
    LET each(P(_), f(_)) == LET s == Select(styles, P)
                            IN [j \in DOMAIN s |-> f(s[j])]
        n == IF kind = "BranchMerge" THEN MaxTransactions ELSE 1
        exact == kind # "Optimize"
    IN [version |-> 9, op |-> 1, kind |-> kind, branch |-> branch,
        actor |-> "actor", payload |-> PayloadOf(kind), legacy |-> {},
        tables |-> each(Physical, LAMBDA i : Pin(i, styles[i], branch)),
        authority |-> TRUE, target |-> TRUE,
        lineage |-> [branch |-> branch, actor |-> "actor", commit |-> 1,
                     merged |-> kind = "BranchMerge"],
        rollback |-> 2, outcomes |-> <<>>, phase |-> "Armed",
        effects |-> IF exact THEN each(Physical, LAMBDA i : Effect(i, styles[i], n))
                    ELSE <<>>,
        slots |-> IF exact
                  THEN each(LAMBDA s : Physical(s) \/ s = "pointer",
                            LAMBDA i : Slot(i, styles[i], branch)) ELSE <<>>,
        registrations |-> each(LAMBDA s : s = "add", LAMBDA i :
            [id |-> i, key |-> 10 + i, path |-> i, branch |-> None]),
        renames |-> each(LAMBDA s : s \in {"rename", "relabel"}, LAMBDA i :
            [id |-> i, from |-> 10 + i, key |-> 20 + i, expected |-> 5, path |-> i]),
        tombstones |-> each(LAMBDA s : s = "drop", LAMBDA i : [id |-> i])]

\* Mutant: only the slots of pinned tables are confirmed.
ConfirmedPinsOnly(b) ==
    LET out(i) == Expected("own") + 2
        confirm(s) == IF \E p \in ToSet(b.tables) : p.id = s.id
                      THEN [s EXCEPT !.confirmed = [version |-> out(s.id),
                                                    branch |-> s.branch]] ELSE s
    IN [b EXCEPT !.phase = "EffectsConfirmed",
          !.slots = [j \in DOMAIN b.slots |-> confirm(b.slots[j])]]

\* confirm_*_sidecar_v9: every transaction, output and new ref is bound.
Confirmed(b) ==
    LET out(i) == IF \E e \in ToSet(b.effects) : e.id = i
                  THEN LET e == CHOOSE e \in ToSet(b.effects) : e.id = i
                       IN IF e.style = "fork" THEN SourceVersion
                          ELSE Expected(e.style) + Len(e.txns)
                  ELSE SourceVersion
    IN [b EXCEPT !.phase = "EffectsConfirmed",
          !.tables = [j \in DOMAIN b.tables |->
              [b.tables[j] EXCEPT !.confirmed = out(b.tables[j].id)]],
          !.effects = [j \in DOMAIN b.effects |->
              [b.effects[j] EXCEPT !.done = TRUE, !.version = out(b.effects[j].id),
                                   !.ref = b.effects[j].fork >= 0]],
          !.slots = [j \in DOMAIN b.slots |->
              [b.slots[j] EXCEPT !.confirmed =
                  [version |-> out(b.slots[j].id), branch |-> b.slots[j].branch]]]]

\* rollback_table_key: a renamed table is restored under its old alias.
RollbackKey(b, pin) ==
    IF \E r \in ToSet(b.renames) : r.id = pin.id
    THEN (CHOOSE r \in ToSet(b.renames) : r.id = pin.id).from ELSE pin.key

\* prepare_fixed_rollback_audit_plan.
Planned(b) == [b EXCEPT !.outcomes = [j \in DOMAIN b.tables |->
                                          RollbackKey(b, b.tables[j])]]

------------------------------------------------------------------------------
(* Validation. *)

Ids(s) == {r.id : r \in ToSet(s)}
Keys(s) == {r.key : r \in ToSet(s)}
UniqueIds(s) == Cardinality(Ids(s)) = Len(s)
Uuids(e) == {t.uuid : t \in ToSet(e.txns)}
Txns(b) == UNION {ToSet(e.txns) : e \in ToSet(b.effects)}
TxnCount(b) == LET RECURSIVE n(_)
                   n(s) == IF s = <<>> THEN 0 ELSE Len(Head(s).txns) + n(Tail(s))
               IN n(b.effects)
EffectOf(b, i) == CHOOSE e \in ToSet(b.effects) : e.id = i
SlotOf(b, i) == CHOOSE s \in ToSet(b.slots) : s.id = i
Named(branch) == branch \notin {None, "main"}
Ref(branch) == IF Named(branch) THEN branch ELSE None

\* validate_unique_pin_identities.
UniquePins(b, nonEmpty) ==
    /\ nonEmpty => b.tables # <<>>
    /\ \A p \in ToSet(b.tables) : p.id > 0 /\ p.path.id = p.id
    /\ UniqueIds(b.tables) /\ Cardinality(Keys(b.tables)) = Len(b.tables)

\* The payload, authority, lineage and rollback identity all exact writers share.
Exact(b) ==
    /\ b.payload = PayloadOf(b.kind) /\ b.legacy = {} /\ b.authority
    /\ Ref(b.branch) = Ref(b.lineage.branch) /\ b.actor = b.lineage.actor
    /\ b.lineage.merged = (b.kind = "BranchMerge")
    /\ b.rollback # b.lineage.commit

OutcomesName(b, keys) ==
    /\ Cardinality(ToSet(b.outcomes)) = Len(b.outcomes)
    /\ ToSet(b.outcomes) \subseteq keys

\* Pins, effects, transactions and slots are one to one.
OneToOne(b) ==
    /\ UniqueIds(b.effects) /\ UniqueIds(b.slots)
    /\ Cardinality({t.uuid : t \in Txns(b)}) = Len(b.effects)
    /\ Ids(b.effects) = Ids(b.tables) /\ Ids(b.slots) = Ids(b.tables)

\* A pin, its effect and its slot describe the same pre-state.
SamePreState(b, p) ==
    LET e == EffectOf(b, p.id)
        s == SlotOf(b, p.id)
    IN /\ e.key = p.key /\ s.key = p.key
       /\ s.expected = p.expected /\ s.branch = p.branch

\* Mutant: an Armed body may carry confirmations.
PhaseHoldsLoose(b, p) ==
    b.phase = "EffectsConfirmed" =>
        /\ EffectOf(b, p.id).done
        /\ SlotOf(b, p.id).confirmed = [version |-> p.confirmed, branch |-> p.branch]
        /\ p.confirmed # 0

\* Armed: nothing is confirmed.  EffectsConfirmed: everything is, exactly.
PhaseHolds(b, p) ==
    LET e == EffectOf(b, p.id)
        s == SlotOf(b, p.id)
    IN IF b.phase = "Armed"
       THEN ~e.done /\ s.confirmed = NoUpdate /\ p.confirmed = 0 /\ ~e.ref
       ELSE /\ e.done /\ p.confirmed # 0
            /\ s.confirmed = [version |-> p.confirmed, branch |-> p.branch]

NoCatalogChange(b) ==
    b.registrations = <<>> /\ b.renames = <<>> /\ b.tombstones = <<>>

\* validate_mutation_load_shape.
MutationLoadShape(b) ==
    /\ Exact(b) /\ NoCatalogChange(b) /\ UniquePins(b, FALSE) /\ OneToOne(b)
    /\ OutcomesName(b, Keys(b.tables))
    /\ \A p \in ToSet(b.tables) :
          /\ SamePreState(b, p) /\ PhaseHolds(b, p)
          /\ EffectOf(b, p.id).txns[1].read = p.expected

\* validate_ensure_indices_v8_shape.
EnsureIndicesPin(b, p) ==
    LET e == EffectOf(b, p.id) IN
    /\ SamePreState(b, p) /\ PhaseHolds(b, p)
    /\ e.txns[1].read = p.expected /\ p.post = p.expected + 1
    /\ e.fork >= 0 => /\ Named(p.branch) /\ p.branch = b.branch
                      /\ e.fork = p.expected
    /\ b.phase = "EffectsConfirmed" => /\ p.confirmed = p.post
                                       /\ e.ref = (e.fork >= 0)

EnsureIndicesShape(b) ==
    /\ b.kind = "EnsureIndices" /\ Exact(b) /\ NoCatalogChange(b)
    /\ UniquePins(b, TRUE) /\ OneToOne(b) /\ OutcomesName(b, Keys(b.tables))
    /\ \A p \in ToSet(b.tables) : EnsureIndicesPin(b, p)

\* validate_schema_apply_v7_shape.
FirstTouchIds(b) == {e.id : e \in {e \in ToSet(b.effects) : e.style = "add"}}

CatalogHolds(b) ==
    /\ UniqueIds(b.registrations) /\ UniqueIds(b.renames) /\ UniqueIds(b.tombstones)
    /\ Ids(b.registrations) = FirstTouchIds(b)
    /\ Ids(b.registrations) \cap (Ids(b.renames) \cup Ids(b.tombstones)) = {}
    /\ Ids(b.renames) \cap Ids(b.tombstones) = {}
    /\ \A r \in ToSet(b.registrations) :
          r.path = r.id /\ r.branch = None /\ EffectOf(b, r.id).key = r.key
    /\ \A r \in ToSet(b.renames) :
          /\ r.expected # 0 /\ r.from # r.key /\ r.path = r.id
          /\ r.id \in Ids(b.slots) => /\ SlotOf(b, r.id).key = r.key
                                      /\ SlotOf(b, r.id).expected = r.expected
    /\ Cardinality(Keys(b.registrations) \cup Keys(b.renames))
          = Len(b.registrations) + Len(b.renames)

SchemaApplyPin(b, p) ==
    /\ p.branch = None /\ SamePreState(b, p) /\ PhaseHolds(b, p)
    /\ EffectOf(b, p.id).txns[1].read = p.expected
    /\ p.post = p.expected + 1
    /\ (p.id \in FirstTouchIds(b)) = (p.expected = 0)
    /\ b.phase = "EffectsConfirmed" => p.confirmed = p.post

SchemaApplyShape(b) ==
    /\ b.kind = "SchemaApply" /\ b.branch = None /\ Exact(b) /\ b.target
    /\ UniquePins(b, FALSE) /\ OneToOne(b) /\ CatalogHolds(b)
    /\ OutcomesName(b, {RollbackKey(b, p) : p \in ToSet(b.tables)})
    /\ \A p \in ToSet(b.tables) : SchemaApplyPin(b, p)

\* validate_branch_merge_transaction_chain.
ChainHolds(p, e) ==
    /\ e.txns # <<>> /\ Len(e.txns) <= MaxTransactions
    /\ p.post = p.expected + 1
    /\ \A k \in DOMAIN e.txns : e.txns[k].read = p.expected + k - 1

\* Mutant: the slots of pointers are not looked at.
SlotsHoldPins(b) == TRUE

\* Every slot, a pointer's included, is confirmed with the phase.
SlotsHold(b) ==
    \A s \in ToSet(b.slots) :
        /\ (b.phase = "Armed") = (s.confirmed = NoUpdate)
        /\ s.confirmed # NoUpdate => s.confirmed.branch = s.branch

BranchMergePin(b, p) ==
    LET e == EffectOf(b, p.id)
        fork == e.style = "fork"
    IN /\ SamePreState(b, p) /\ PhaseHolds(b, p)
       /\ e.fork >= 0 => Named(p.branch)
       /\ fork \/ ChainHolds(p, e)
       /\ ~fork /\ e.fork >= 0 => e.fork = p.expected
       /\ b.phase = "EffectsConfirmed" =>
             /\ e.ref = (e.fork >= 0)
             /\ IF fork THEN p.confirmed = e.fork
                ELSE /\ e.version = p.confirmed
                     /\ p.confirmed >= p.expected + Len(e.txns)

\* validate_branch_merge_v4_shape: pointers have a slot and no pin.
BranchMergeShape(b) ==
    /\ b.kind = "BranchMerge" /\ Exact(b) /\ NoCatalogChange(b)
    /\ UniquePins(b, TRUE) /\ OutcomesName(b, Keys(b.tables))
    /\ UniqueIds(b.effects) /\ UniqueIds(b.slots)
    /\ Cardinality(Keys(b.slots)) = Len(b.slots)
    /\ Ids(b.effects) = Ids(b.tables) /\ Ids(b.effects) \subseteq Ids(b.slots)
    /\ Cardinality({t.uuid : t \in Txns(b)}) = TxnCount(b)
    /\ SlotsHold(b)
    /\ \A p \in ToSet(b.tables) : BranchMergePin(b, p)

\* validate_optimize_v9_shape.
OptimizeShape(b) ==
    /\ b.kind = "Optimize" /\ b.payload = {} /\ UniquePins(b, TRUE)
    /\ b.legacy \subseteq {"merge_source"}

\* validate_ensure_indices_v6_shape.
EnsureIndicesV6Shape(b) ==
    /\ b.kind = "EnsureIndices" /\ b.payload = {"v6"}
    /\ b.legacy \cap {"merge_source", "registrations", "tombstones"} = {}
    /\ b.tables # <<>> /\ Cardinality(Keys(b.tables)) = Len(b.tables)
    /\ OutcomesName(b, Keys(b.tables))

SchemaApplyV5Shape(b) ==
    /\ b.kind = "SchemaApply" /\ b.branch = None
    /\ b.payload \cap {"v3", "v4", "v7", "v8"} = {} /\ "target_hash" \in b.legacy

ShapeOfKind(b) ==
    CASE b.kind \in {"Mutation", "Load"} -> MutationLoadShape(b)
      [] b.kind = "BranchMerge" -> BranchMergeShape(b)
      [] b.kind = "SchemaApply" -> SchemaApplyShape(b)
      [] b.kind = "EnsureIndices" -> EnsureIndicesShape(b)
      [] b.kind = "Optimize" -> OptimizeShape(b)

\* Mutant: the legacy generations are dispatched without looking at the kind.
ShapeByVersion(b) ==
    CASE b.version < 3 -> TRUE
      [] b.version = 9 -> UniquePins(b, FALSE)
      [] OTHER -> TRUE

\* validate_sidecar_shape.
Shape(b) ==
    /\ b.legacy \cap {"published", "target_hash"} # {} =>
          b.version = 5 /\ b.kind = "SchemaApply"
    /\ "published" \in b.legacy => "target_hash" \in b.legacy
    /\ "v6" \in b.payload => b.version = 6
    /\ CASE b.version < 3 -> b.payload \cap {"v3", "v4", "v7", "v8"} = {}
         [] b.version = 9 -> ShapeOfKind(b)
         [] b.version = 4 -> BranchMergeShape(b)
         [] b.version = 5 -> SchemaApplyV5Shape(b)
         [] b.version = 6 -> EnsureIndicesV6Shape(b)
         [] b.version = 7 -> SchemaApplyShape(b)
         [] b.version = 8 -> EnsureIndicesShape(b)
         [] OTHER -> b.kind \in {"Mutation", "Load"} /\ MutationLoadShape(b)

\* validate_identity_aware_pin_paths: a v9 pin lies under this graph's root.
OwnPaths(b) ==
    b.version = 9 => \A p \in ToSet(b.tables) :
                         p.path = [root |-> "graph", id |-> p.id]

\* parse_sidecar: a newer generation is refused before it is read, a pin with
\* no identity (a body older than v9) cannot be deserialized.
Parses(b) ==
    b.version <= 9 /\ (\A p \in ToSet(b.tables) : p.id # -1)
    /\ Shape(b) /\ OwnPaths(b)

------------------------------------------------------------------------------
(* Routing of an accepted body. *)

\* Mutant: an optimize takes the route of an index build.
RouteDefault(b) ==
    IF b.kind \in {"EnsureIndices", "Optimize"} THEN "v8"
    ELSE IF b.kind = "SchemaApply" THEN "v7"
    ELSE IF b.kind = "BranchMerge" THEN "v4" ELSE "v3"

\* process_sidecar: v9 by kind, older generations by payload.
Route(b) ==
    IF b.version = 9
    THEN CASE b.kind = "EnsureIndices" -> "v8"
           [] b.kind = "SchemaApply" -> "v7"
           [] b.kind = "BranchMerge" -> "v4"
           [] b.kind \in {"Mutation", "Load"} -> "v3"
           [] b.kind = "Optimize" -> "generic"
    ELSE IF "v8" \in b.payload THEN "v8"
    ELSE IF "v7" \in b.payload THEN "v7"
    ELSE IF "v4" \in b.payload THEN "v4"
    ELSE IF "v3" \in b.payload THEN "v3" ELSE "generic"

\* SidecarKind::classification_mode.
Mode(b) ==
    CASE b.kind \in {"Mutation", "Load"} -> IF b.version >= 3 THEN "ExactEffect"
                                            ELSE "Strict"
      [] b.kind = "BranchMerge" -> IF b.version >= 2 THEN "Confirmed" ELSE "Loose"
      [] b.kind = "SchemaApply" -> IF b.version >= 7 THEN "ExactEffect" ELSE "Loose"
      [] b.kind = "EnsureIndices" -> IF b.version >= 8 THEN "ExactEffect" ELSE "Loose"
      [] b.kind = "Optimize" -> "Loose"

------------------------------------------------------------------------------
(* The object's life. *)

\* What recovery takes gates for: the intent and each table's path and branch.
CoordinationKeys(b) ==
    [op |-> b.op, kind |-> b.kind, branch |-> b.branch,
     tables |-> [j \in DOMAIN b.tables |->
        <<b.tables[j].id, b.tables[j].key, b.tables[j].path, b.tables[j].branch>>]]

NoKeys == [op |-> 0, kind |-> None, branch |-> None, tables |-> <<>>]
Away == [pc |-> "away", gates |-> NoKeys]

\* A body an older program wrote has no table identities.
OldBody(v) ==
    LET b == New("Mutation", None, <<"own", "own">>) IN
    [b EXCEPT !.version = v, !.payload = IF v < 3 THEN {} ELSE @,
              !.tables = [j \in DOMAIN @ |-> [b.tables[j] EXCEPT !.id = -1]]]

Init ==
    /\ \/ \E kind \in Kinds : \E styles \in Styles(kind) \X Styles(kind) :
          \E branch \in {None, "main", "feature"} :
             /\ kind \in {"SchemaApply", "Optimize"} => branch = None
             /\ \A i \in 1..2 : styles[i] \in {"first", "fork"} => branch = "feature"
             /\ kind # "SchemaApply" => \E i \in 1..2 : Physical(styles[i])
             /\ body = New(kind, branch, styles)
       \/ \E v \in OldBodies : body = OldBody(v)
    /\ damage = {} /\ reader = Away /\ steps = 0

\* The rewritten body is validated before it replaces the durable one.
Write(b) ==
    /\ body # NoBody /\ damage = {} /\ steps < 2
    /\ IF Shape(b) THEN body' = b /\ steps' = steps + 1
       ELSE steps' = Rejected /\ UNCHANGED body
    /\ UNCHANGED <<damage, reader>>

Confirm == body # NoBody /\ body.kind # "Optimize" /\ body.phase = "Armed"
           /\ body.outcomes = <<>> /\ Write(Confirmed(body))
PlanRollback == body # NoBody /\ body.kind # "Optimize" /\ body.tables # <<>>
                /\ body.outcomes = <<>> /\ Write(Planned(body))

Delete ==
    /\ body # NoBody /\ reader.pc # "process"
    /\ body' = NoBody
    /\ UNCHANGED <<damage, reader, steps>>

\* The generation that introduced the payload of a kind.
Generation(kind) ==
    CASE kind \in {"Mutation", "Load"} -> 3
      [] kind = "BranchMerge" -> 4
      [] kind = "SchemaApply" -> 7
      [] kind = "EnsureIndices" -> 8
      [] kind = "Optimize" -> 1

\* One altered field.
Changed(b, d) ==
    CASE d = "payload" -> [b EXCEPT !.payload = {}]
      [] d = "extra" -> [b EXCEPT !.payload = @ \cup {"v4", "v8"}]
      [] d = "kind" -> [b EXCEPT !.kind = IF @ = "BranchMerge" THEN "Mutation"
                                          ELSE "BranchMerge"]
      [] d = "old" -> [b EXCEPT !.version = 6]
      [] d = "generation" -> [b EXCEPT !.version = Generation(b.kind)]
      [] d = "older" -> [b EXCEPT !.version = 2]
      [] d = "newer" -> [b EXCEPT !.version = 10]
      [] d = "legacy" -> [b EXCEPT !.legacy = {"tombstones"}]
      [] d = "branch" -> [b EXCEPT !.branch = "other"]
      [] d = "actor" -> [b EXCEPT !.actor = "someone"]
      [] d = "rollback" -> [b EXCEPT !.rollback = b.lineage.commit]
      [] d = "authority" -> [b EXCEPT !.authority = FALSE]
      [] d = "phase" -> [b EXCEPT !.phase = IF @ = "Armed" THEN "EffectsConfirmed"
                                            ELSE "Armed"]
      [] d = "root" -> [b EXCEPT !.tables[1].path.root = "elsewhere"]
      [] d = "identity" -> [b EXCEPT !.tables[1].id = 7]
      [] d = "table_branch" -> [b EXCEPT !.tables[1].branch = "other"]
      [] d = "expected" -> [b EXCEPT !.tables[1].expected = @ + 1]
      [] d = "confirmed" -> [b EXCEPT !.tables[1].confirmed = @ + 1]
      [] d = "drop_pin" -> [b EXCEPT !.tables = Tail(@)]
      [] d = "twice" -> [b EXCEPT !.tables = Append(@, @[1])]
      [] d = "drop_effect" -> [b EXCEPT !.effects = Tail(@)]
      [] d = "drop_slot" -> [b EXCEPT !.slots = SelectSeq(@, LAMBDA s :
                                                 s.id # b.tables[1].id)]
      [] d = "read" -> [b EXCEPT !.effects[1].txns[1].read = @ + 1]
      [] d = "longer" -> [b EXCEPT !.effects[1] = Effect(b.tables[1].id, @.style,
                                                         MaxTransactions + 1)]
      [] d = "uuid" -> [b EXCEPT !.effects[2].txns[1].uuid = Uuid(1, 1)]
      [] d = "slot_branch" -> [b EXCEPT !.slots[1].branch = "other"]
      [] d = "unconfirm" -> [b EXCEPT !.slots[Len(b.slots)].confirmed = NoUpdate]
      [] d = "unregister" -> [b EXCEPT !.registrations = <<>>]
      [] d = "same_alias" -> [b EXCEPT !.renames[1].key = b.renames[1].from]
      [] d = "outcome" -> [b EXCEPT !.outcomes = <<99>>]

\* Whether the field is there to be altered.
Present(b, d) ==
    /\ d \in {"root", "identity", "table_branch", "expected", "confirmed",
              "drop_pin", "twice", "drop_slot", "phase"} => b.tables # <<>>
    /\ d \in {"read", "drop_effect", "longer"} => b.effects # <<>>
    /\ d \in {"read", "longer"} => b.effects[1].txns # <<>>
    /\ d = "longer" => b.kind = "BranchMerge" /\ b.tables # <<>> /\ b.phase = "Armed"
    /\ d = "uuid" => /\ Len(b.effects) = 2 /\ b.effects[2].txns # <<>>
                     /\ b.effects[1].txns # <<>>
    /\ d = "slot_branch" => b.slots # <<>> /\ b.slots[1].id \in Ids(b.tables)
    /\ d = "unconfirm" => b.slots # <<>>
    /\ d = "unregister" => b.registrations # <<>>
    /\ d = "same_alias" => b.renames # <<>>
    /\ d \in {"phase", "rollback", "authority", "outcome"} => b.payload # {}
    /\ Changed(b, d) # b

Damage ==
    /\ body # NoBody /\ Cardinality(damage) < MaxDamage /\ reader.pc # "process"
    /\ \E d \in Damages \ damage :
          /\ Present(body, d)
          /\ body' = Changed(body, d) /\ damage' = damage \cup {d}
    /\ UNCHANGED <<reader, steps>>

\* list_sidecars: a body that does not parse fails the sweep.
List ==
    /\ reader.pc = "away" /\ body # NoBody
    /\ reader' = IF Parses(body)
                 THEN [pc |-> "gates", gates |-> CoordinationKeys(body)]
                 ELSE [pc |-> "refused", gates |-> NoKeys]
    /\ UNCHANGED <<body, damage, steps>>

\* Mutant: existence is all that is looked at again.
StillTheSameExists == Parses(body)
StillTheSame == Parses(body) /\ CoordinationKeys(body) = reader.gates

\* reread_sidecar_under_gates.
Reread ==
    /\ reader.pc = "gates"
    /\ reader' = IF body = NoBody THEN Away
                 ELSE IF StillTheSame THEN [reader EXCEPT !.pc = "process"]
                 ELSE [pc |-> "refused", gates |-> NoKeys]
    /\ UNCHANGED <<body, damage, steps>>

Processed ==
    /\ reader.pc = "process"
    /\ reader' = Away /\ body' = NoBody
    /\ UNCHANGED <<damage, steps>>

Next == Confirm \/ PlanRollback \/ Delete \/ Damage \/ List \/ Reread \/ Processed
Spec == Init /\ [][Next]_vars

------------------------------------------------------------------------------
(* Properties. *)

\* What a writer writes, confirms and plans the rollback of is refused neither
\* when it is written, which would strand the writer after its table effects,
\* nor by a reader, which would leave the graph unable to open.
OwnBodyAccepted ==
    /\ steps # Rejected
    /\ damage = {} /\ body # NoBody => Parses(body)

\* Optimize has no plan to compare its pins with: an older generation, another
\* branch or actor, another expected version and a missing pin go unnoticed.
Blind == {"older", "branch", "actor", "expected", "confirmed", "table_branch",
          "drop_pin"}

\* A body of an exact writer with one altered field is never acted on, unless the
\* alteration dates it back to the generation that introduced its payload.
DamageRefused ==
    reader.pc = "process" /\ Cardinality(damage) = 1 /\ damage # {"generation"} =>
        body.kind = "Optimize" /\ damage \subseteq Blind

\* An accepted body carries the payload its route reads, and an intent whose
\* effects are classified exactly carries their identities.
RouteHasPayload ==
    reader.pc = "process" =>
        /\ Route(body) # "generic" => Route(body) \in body.payload
        /\ Mode(body) = "ExactEffect" => Route(body) # "generic"

\* Recovery acts only on tables and branches whose gates it took before it read
\* the body it acts on.
GatesCoverBody ==
    reader.pc = "process" =>
        \A p \in ToSet(body.tables) :
            \E j \in DOMAIN reader.gates.tables :
                /\ reader.gates.tables[j][3] = p.path
                /\ reader.gates.tables[j][4] = p.branch

\* A confirmation is complete: every table and every pointer of the intent has
\* its output, so a roll-forward publishes the whole change.
ConfirmationComplete ==
    reader.pc = "process" /\ body.version = 9 /\ body.phase = "EffectsConfirmed" =>
        /\ \A s \in ToSet(body.slots) : s.confirmed.version > 0
        /\ \A p \in ToSet(body.tables) : p.confirmed > 0

\* A body of an older generation is interpreted with its original semantics.
OlderInterpreted == OldBodies # {} => reader.pc # "refused"
=============================================================================
