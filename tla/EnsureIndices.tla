---------------------------- MODULE EnsureIndices ----------------------------
(***************************************************************************)
(* ensure_indices (db/omnigraph/table_ops.rs) on a named branch and the    *)
(* exact recovery of its sidecar (db/manifest/recovery.rs, protocol v8).   *)
(* An index build adds no rows: one CreateIndex transaction per table that *)
(* lacks an index it can build, on the branch's own ref, which is forked   *)
(* first when the branch still inherits the table from another branch.     *)
(*                                                                         *)
(* A table version is what it holds: its row count, whether some vector is *)
(* set, its indexes, and who committed it.  One process runs the build,    *)
(* the live heal or the full sweep at a time (`proc`); other processes     *)
(* write rows, publish them, fork the table or recreate the branch, except *)
(* while the full sweep runs, which the code requires to be quiesced.      *)
(***************************************************************************)
EXTENDS Integers, Sequences, FiniteSets, SequencesExt

CONSTANTS
    OwnTables,      \* tables the branch owns
    LazyTables,     \* tables inherited from another named branch
    MainTables,     \* tables inherited from main
    EdgeTables,     \* which of them hold edges
    Declared,       \* of every node table: <<column, type>> of its index intents
    Contents,       \* initial contents of a table: <<rows, vector set>>
    MaxScan,        \* MAX_EFFECT_IDENTITY_SCAN_VERSIONS
    MaxOps, MaxFaults, MaxForeign,
    ForeignSteps    \* of "rows", "settle", "commit", "fork", "owner", "recreate"

VARIABLES
    ref,        \* the branch's native ref of every table
    owner,      \* log of the branch a table is inherited from
    manifest,   \* the branch's entry of every table: owner and version
    lineage, branch, sidecar, audit, proc,
    built,      \* specs planned by every attempt, per table
    rows,       \* rows that writers published, per table
    next_ref, ops, faults, foreign

vars == <<ref, owner, manifest, lineage, branch, sidecar, audit, proc, built,
          rows, next_ref, ops, faults, foreign>>

Tables == OwnTables \cup LazyTables \cup MainTables
NoRef == [id |-> 0]
NoSidecar == [op |-> 0]

\* Op 0 is the shared history, -1 another writer; `back` is the version a
\* restore returns to.
Version(o, n, v, ix) == [op |-> o, rows |-> n, vec |-> v, idx |-> ix, back |-> 0]
Indexed(o) == [op |-> o, kind |-> "index"]
RolledBack(o) == [op |-> o, kind |-> "rollback"]

\* publish_recovery_commit: the identity the sidecar fixed for each outcome.
OutcomeCommit(s, forward) == IF forward THEN Indexed(s.op) ELSE RolledBack(s.op)

Exists(t) == ref[t] # NoRef
HeadOf(t) == Len(ref[t].log)
InLineage(c) == \E i \in DOMAIN lineage : lineage[i] = c
GraphHead == Len(lineage)
Owned(t) == manifest[t].owner = "branch"

\* What a reader of the branch sees of a table.
Visible(t) == IF Owned(t) THEN ref[t].log[manifest[t].version]
              ELSE owner[t][manifest[t].version]

Idle == [pc |-> "idle", mode |-> "heal", todo |-> {}, head |-> 0, branch |-> 0,
         pins |-> <<>>, specs |-> <<>>, opened |-> <<>>, pending |-> <<>>,
         mine |-> {}]
Down == [Idle EXCEPT !.pc = "down"]
Step(pc) == [proc EXCEPT !.pc = pc]

Init ==
    /\ \E c \in [Tables -> Contents] :
          /\ owner = [t \in Tables |-> <<Version(0, c[t][1], c[t][2], {})>>]
          /\ rows = [t \in Tables |-> c[t][1]]
    /\ ref = [t \in Tables |-> IF t \in OwnTables
                               THEN [id |-> 1, by |-> 0, parent |-> 0, log |-> owner[t]]
                               ELSE NoRef]
    /\ manifest = [t \in Tables |->
          [owner |-> CASE t \in OwnTables -> "branch"
                       [] t \in LazyTables -> "other"
                       [] OTHER -> "main",
           version |-> 1]]
    /\ lineage = <<>> /\ branch = 1 /\ sidecar = NoSidecar /\ audit = <<>>
    /\ proc = Down /\ built = <<>> /\ next_ref = 2
    /\ ops = 0 /\ faults = 0 /\ foreign = 0

------------------------------------------------------------------------------
(* Planning: plan_index_work_node and plan_index_work_edge. *)

\* node_prop_index_kind: the index a property type gets.
IndexKind(type) ==
    CASE type \in {"enum", "scalar"} -> "btree"
      [] type = "text" -> "fts"
      [] type = "vector" -> "vector"
      [] type \in {"list", "blob"} -> "none"

\* The single-column indexes a table wants: the id, then what is declared.
Wanted(t) ==
    IF t \in EdgeTables THEN {<<c, "btree">> : c \in {"id", "src", "dst"}}
    ELSE {<<"id", "btree">>}
         \cup {<<d[1], IndexKind(d[2])>> : d \in
                  {d \in Declared[t] : IndexKind(d[2]) # "none"}}

\* Mutant: a vector index is built on a column that has no vector yet.
SpecsUntrained(t, c) == IF c.rows = 0 THEN {} ELSE Wanted(t) \ c.idx

\* An empty table gets no index; a vector column without a vector is pending.
Specs(t, c) ==
    IF c.rows = 0 THEN {}
    ELSE {s \in Wanted(t) \ c.idx : s[2] = "vector" => c.vec}

\* Mutant: what is about to be built is reported too.
PendingAll(t, c) == IF c.rows = 0 THEN {} ELSE Wanted(t) \ c.idx

Pending(t, c) ==
    IF c.rows = 0 THEN {} ELSE (Wanted(t) \ c.idx) \ Specs(t, c)

FirstTouch(t) == ~Owned(t)

\* An inherited table is planned from the exact version the branch pins, one
\* the branch owns from the ref's HEAD.
PlannedVersion(t) == IF Owned(t) THEN HeadOf(t) ELSE manifest[t].version

PlannedContent(t) == IF Owned(t) THEN ref[t].log[PlannedVersion(t)]
                     ELSE owner[t][PlannedVersion(t)]

\* Tables inherited from main are skipped on a named branch.
Visited == {t \in Tables : manifest[t].owner # "main"}

PlanSpecs ==
    [t \in Tables |-> IF t \in Visited THEN Specs(t, PlannedContent(t)) ELSE {}]

Pins == [t \in Tables |-> manifest[t]]
PinnedBy(p) == {t \in Tables : p.specs[t] # {}}

------------------------------------------------------------------------------
(* ensure_indices_for_branch *)

Plan ==
    /\ proc.pc = "idle" /\ sidecar = NoSidecar /\ ops < MaxOps
    /\ proc' = [Step("planned") EXCEPT !.head = GraphHead, !.branch = branch,
                  !.pins = Pins, !.specs = PlanSpecs,
                  !.opened = [t \in Tables |-> PlannedVersion(t)],
                  !.pending = [t \in Visited |-> Pending(t, PlannedContent(t))]]
    /\ ops' = ops + 1
    /\ built' = Append(built, PlanSpecs)
    /\ UNCHANGED <<ref, owner, manifest, lineage, branch, sidecar, audit, rows,
                   next_ref, faults, foreign>>

\* Mutant: a first touch expects the ref it is about to create.
RevalidatesRef ==
    /\ proc.head = GraphHead /\ proc.branch = branch
    /\ \A t \in PinnedBy(proc) :
          manifest[t] = proc.pins[t] /\ Exists(t)
          /\ HeadOf(t) = proc.pins[t].version

\* Under schema, branch and table gates: the captured authority, every pinned
\* entry, the HEAD of every existing target; a first touch finds no ref.
Revalidates ==
    /\ proc.head = GraphHead /\ proc.branch = branch
    /\ \A t \in PinnedBy(proc) :
          /\ manifest[t] = proc.pins[t]
          /\ IF Owned(t)
             THEN HeadOf(t) = proc.pins[t].version /\ proc.opened[t] = HeadOf(t)
             ELSE ~Exists(t)

ReadSetChanged ==
    /\ proc.pc = "planned" /\ ~Revalidates
    /\ proc' = Idle
    /\ UNCHANGED <<ref, owner, manifest, lineage, branch, sidecar, audit, built,
                   rows, next_ref, ops, faults, foreign>>

NewSidecar(o) ==
    [op |-> o, phase |-> "Armed", branch |-> proc.branch, head |-> proc.head,
     pins |-> proc.pins, fork |-> proc.opened, specs |-> proc.specs,
     first |-> {t \in PinnedBy(proc) : FirstTouch(t)},
     confirmed |-> [t \in Tables |-> 0], refs |-> [t \in Tables |-> 0],
     plan |-> FALSE]

\* Without work there is no sidecar and no commit.
Arm ==
    /\ proc.pc = "planned" /\ Revalidates
    /\ sidecar' = IF PinnedBy(proc) = {} THEN sidecar ELSE NewSidecar(ops)
    /\ proc' = IF PinnedBy(proc) = {} THEN Idle
               ELSE [Step("effects") EXCEPT !.todo = PinnedBy(proc)]
    /\ UNCHANGED <<ref, owner, manifest, lineage, branch, audit, built, rows,
                   next_ref, ops, faults, foreign>>

\* Tables are taken one after the other: a fork is followed by its commit.
Forked(u) == u \in sidecar.first /\ Exists(u) /\ ref[u].by = sidecar.op
Target(t) == Exists(t) /\ (t \in sidecar.first => Forked(t))

\* open_owned_dataset_for_branch_write: the ref must not exist yet (this
\* sidecar claims it, so one found there is not reclaimed).
Fork(t) ==
    /\ proc.pc = "effects" /\ t \in proc.todo \cap sidecar.first
    /\ ~Owned(t) /\ ~Exists(t)
    /\ \A u \in proc.todo \ {t} : ~Forked(u)
    /\ LET v == sidecar.fork[t] IN
       ref' = [ref EXCEPT ![t] = [id |-> next_ref, by |-> sidecar.op, parent |-> v,
                                  log |-> SubSeq(owner[t], 1, v)]]
    /\ next_ref' = next_ref + 1
    /\ UNCHANGED <<owner, manifest, lineage, branch, sidecar, audit, proc,
                   built, rows, ops, faults, foreign>>

CreateIndex(t) ==
    LET c == ref[t].log[HeadOf(t)]
    IN [c EXCEPT !.op = sidecar.op, !.idx = @ \cup sidecar.specs[t], !.back = 0]

\* commit_staged_exact on the planned version.
CommitExact(t) ==
    /\ proc.pc = "effects" /\ t \in proc.todo /\ Target(t)
    /\ HeadOf(t) = sidecar.fork[t] /\ \A u \in proc.todo \ {t} : ~Forked(u)
    /\ ref' = [ref EXCEPT ![t].log = Append(@, CreateIndex(t))]
    /\ proc' = [proc EXCEPT !.todo = @ \ {t}]
    /\ UNCHANGED <<owner, manifest, lineage, branch, sidecar, audit, built,
                   rows, next_ref, ops, faults, foreign>>

\* The HEAD moved: Lance may rebase the transaction over the winner, which is
\* reported as a changed read set although the effect has landed.
CommitRebased(t) ==
    /\ proc.pc = "effects" /\ t \in proc.todo /\ Target(t)
    /\ HeadOf(t) > sidecar.fork[t]
    /\ ref' = [ref EXCEPT ![t].log = Append(@, CreateIndex(t))]
    /\ proc' = Idle
    /\ UNCHANGED <<owner, manifest, lineage, branch, sidecar, audit, built,
                   rows, next_ref, ops, faults, foreign>>

\* confirm_ensure_indices_sidecar_v9.
ConfirmedBody(s) ==
    [s EXCEPT !.phase = "EffectsConfirmed",
              !.confirmed = [t \in Tables |-> s.fork[t] + 1],
              !.refs = [t \in Tables |-> IF t \in s.first THEN ref[t].id ELSE 0]]

Confirm ==
    /\ proc.pc = "effects" /\ proc.todo = {}
    /\ sidecar' = ConfirmedBody(sidecar)
    /\ proc' = Step("publish")
    /\ UNCHANGED <<ref, owner, manifest, lineage, branch, audit, built, rows,
                   next_ref, ops, faults, foreign>>

\* Mutant: only the tables the branch owned are published.
PublishedOwn(s) ==
    [t \in Tables |-> IF s.specs[t] # {} /\ t \notin s.first
                      THEN [owner |-> "branch", version |-> s.confirmed[t]]
                      ELSE manifest[t]]

Published(s) ==
    [t \in Tables |-> IF s.specs[t] # {}
                      THEN [owner |-> "branch", version |-> s.confirmed[t]]
                      ELSE manifest[t]]

PublishCas(s) ==
    /\ s.head = GraphHead /\ s.branch = branch
    /\ \A t \in PinnedBy(s) : manifest[t].version = s.pins[t].version

Publish ==
    /\ proc.pc = "publish" /\ PublishCas(sidecar)
    /\ manifest' = Published(sidecar)
    /\ lineage' = Append(lineage, Indexed(sidecar.op))
    /\ proc' = Step("retire")
    /\ UNCHANGED <<ref, owner, branch, sidecar, audit, built, rows, next_ref,
                   ops, faults, foreign>>

Retire ==
    /\ proc.pc = "retire"
    /\ sidecar' = NoSidecar
    /\ proc' = Idle
    /\ UNCHANGED <<ref, owner, manifest, lineage, branch, audit, built, rows,
                   next_ref, ops, faults, foreign>>

\* Any error after arming is RecoveryRequired; the sidecar stays.
Blocked(t) ==
    IF Target(t) THEN HeadOf(t) # sidecar.fork[t]
    ELSE t \notin sidecar.first \/ Owned(t) \/ Exists(t)

RecoveryRequired ==
    /\ \/ proc.pc = "effects" /\ \E t \in proc.todo : Blocked(t)
       \/ proc.pc = "publish" /\ ~PublishCas(sidecar)
    /\ proc' = Idle
    /\ UNCHANGED <<ref, owner, manifest, lineage, branch, sidecar, audit, built,
                   rows, next_ref, ops, faults, foreign>>

------------------------------------------------------------------------------
(* process_ensure_indices_sidecar_v8 *)

Open ==
    /\ proc.pc = "down"
    /\ proc' = [Idle EXCEPT !.pc = IF sidecar = NoSidecar THEN "idle" ELSE "sweep",
                            !.mode = "full"]
    /\ UNCHANGED <<ref, owner, manifest, lineage, branch, sidecar, audit, built,
                   rows, next_ref, ops, faults, foreign>>

Heal ==
    /\ proc.pc = "idle" /\ sidecar # NoSidecar
    /\ proc' = [Idle EXCEPT !.pc = "sweep"]
    /\ UNCHANGED <<ref, owner, manifest, lineage, branch, sidecar, audit, built,
                   rows, next_ref, ops, faults, foreign>>

\* A process whose heal defers keeps refusing writes until it is reopened.
Restart ==
    /\ proc.pc = "idle" /\ sidecar # NoSidecar
    /\ proc' = Down
    /\ UNCHANGED <<ref, owner, manifest, lineage, branch, sidecar, audit, built,
                   rows, next_ref, ops, faults, foreign>>

SidecarPins == PinnedBy(sidecar)

\* Mutant: a restore over the effect is not recognised as compensation.
OwnershipNoRestore(t) ==
    LET own == {v \in DOMAIN ref[t].log : v > sidecar.fork[t]
                                          /\ ref[t].log[v].op = sidecar.op}
    IN IF ~Exists(t) \/ own = {} THEN "None"
       ELSE IF HeadOf(t) \in own THEN "OwnAtHead" ELSE "OwnBeforeHead"

\* open_lance_head_if_present: the planned transaction is looked up by its
\* identity in the versions above the pin.
Ownership(t) ==
    IF ~Exists(t) \/ HeadOf(t) <= sidecar.pins[t].version THEN "None"
    ELSE IF HeadOf(t) - sidecar.pins[t].version > MaxScan THEN "Unverifiable"
    ELSE LET own == {v \in (sidecar.pins[t].version + 1)..HeadOf(t) :
                        ref[t].log[v].op = sidecar.op}
         IN IF own = {} THEN "None"
            ELSE IF HeadOf(t) \in own THEN "OwnAtHead"
            ELSE IF ref[t].log[HeadOf(t)].back = manifest[t].version
            THEN "OwnCompensated" ELSE "OwnBeforeHead"

Mine(t) == Ownership(t) \in {"OwnAtHead", "OwnCompensated"}
UnpublishedFork(t) == t \in sidecar.first /\ ~Owned(t)
SeenHead(t) == IF Exists(t) THEN HeadOf(t) ELSE manifest[t].version

UnsafeRef(t) ==
    IF t \in sidecar.first
    THEN Exists(t) /\ \/ ref[t].parent # sidecar.fork[t]
                      \/ sidecar.refs[t] \notin {0, ref[t].id}
    ELSE ~Exists(t)

\* A foreign writer that published below our effect leaves a version to
\* restore to; every other advance of the entry is ambiguous.
LowerWinner(t) ==
    /\ Mine(t)
    /\ manifest[t].version > sidecar.pins[t].version
    /\ manifest[t].version < HeadOf(t)

Unsafe(t) ==
    \/ UnsafeRef(t)
    \/ Ownership(t) \in {"Unverifiable", "OwnBeforeHead"}
    \/ /\ Ownership(t) = "None" /\ SeenHead(t) > manifest[t].version
       /\ ~UnpublishedFork(t)
    \/ /\ Ownership(t) # "None" /\ manifest[t].version # sidecar.pins[t].version
       /\ ~LowerWinner(t)

RolledPastExpected(t) ==
    /\ sidecar.phase = "EffectsConfirmed" /\ Ownership(t) = "OwnAtHead"
    /\ HeadOf(t) = sidecar.confirmed[t]
    /\ t \in sidecar.first => sidecar.refs[t] # 0
    /\ manifest[t].version = sidecar.pins[t].version

Recreated == sidecar.branch # branch
Physical == \E t \in SidecarPins :
                Ownership(t) # "None" \/ (t \in sidecar.first /\ Exists(t))

Decision ==
    CASE InLineage(Indexed(sidecar.op)) \/ InLineage(RolledBack(sidecar.op)) ->
           "finalize"
      [] \E t \in SidecarPins : Unsafe(t) -> "refuse"
      [] Recreated -> IF Physical THEN "refuse" ELSE "discard"
      [] \/ sidecar.plan \/ sidecar.phase = "Armed"
         \/ sidecar.head # GraphHead
         \/ \E t \in SidecarPins : ~RolledPastExpected(t) -> "back"
      [] OTHER -> "forward"

\* Mutant: an untouched fork is left where it is.
NoEffectForksKept == {}

\* The forks no owned effect was committed to, still at their fork point.
NoEffectForks ==
    {t \in SidecarPins : /\ UnpublishedFork(t) /\ Exists(t)
                         /\ Ownership(t) = "None"
                         /\ HeadOf(t) = manifest[t].version}

Sweep ==
    /\ proc.pc = "sweep"
    /\ LET d == Decision IN
       proc' = CASE d = "finalize" -> Step("audit")
                 [] d = "forward" -> Step("forward")
                 [] d = "refuse" -> IF proc.mode = "full" THEN Step("refused")
                                    ELSE Idle
                 [] proc.mode = "heal" -> Idle
                 [] d = "discard" -> Step("delete")
                 [] d = "back" -> [Step("clean") EXCEPT !.todo = NoEffectForks]
    /\ UNCHANGED <<ref, owner, manifest, lineage, branch, sidecar, audit, built,
                   rows, next_ref, ops, faults, foreign>>

\* A refused sweep fails the open; an operator may try again.
RefusedOpen ==
    /\ proc.pc = "refused"
    /\ proc' = Down
    /\ UNCHANGED <<ref, owner, manifest, lineage, branch, sidecar, audit, built,
                   rows, next_ref, ops, faults, foreign>>

\* roll_forward_ensure_indices_v8: the confirmed versions under the fixed
\* commit, on the exact graph head.
RollForward ==
    /\ proc.pc = "forward"
    /\ IF PublishCas(sidecar)
       THEN /\ manifest' = Published(sidecar)
            /\ lineage' = Append(lineage, OutcomeCommit(sidecar, TRUE))
            /\ proc' = Step("audit")
       ELSE /\ proc' = IF proc.mode = "full" THEN Step("refused") ELSE Idle
            /\ UNCHANGED <<manifest, lineage>>
    /\ UNCHANGED <<ref, owner, branch, sidecar, audit, built, rows, next_ref,
                   ops, faults, foreign>>

\* cleanup_unpublished_no_effect_forks: exactly the fork, or an error.
CleanFork(t) ==
    /\ proc.pc = "clean" /\ t \in proc.todo
    /\ IF ref[t].parent = sidecar.fork[t] /\ HeadOf(t) = sidecar.fork[t]
       THEN /\ ref' = [ref EXCEPT ![t] = NoRef]
            /\ proc' = [proc EXCEPT !.todo = @ \ {t}]
       ELSE proc' = Step("refused") /\ UNCHANGED ref
    /\ UNCHANGED <<owner, manifest, lineage, branch, sidecar, audit, built,
                   rows, next_ref, ops, faults, foreign>>

\* prepare_fixed_rollback_audit_plan, before anything is deleted or restored.
PersistPlan ==
    /\ proc.pc = "clean" /\ proc.todo = {}
    /\ sidecar' = [sidecar EXCEPT !.plan = TRUE]
    /\ proc' = [Step("unfork") EXCEPT !.todo = sidecar.first]
    /\ UNCHANGED <<ref, owner, manifest, lineage, branch, audit, built, rows,
                   next_ref, ops, faults, foreign>>

\* Mutant: every ref that stands at the fork's place is deleted.
ReclaimableAny(t) == Exists(t)

\* Only a ref with this attempt's own CreateIndex is deleted: a moved ref
\* without one is another writer's first touch.
Reclaimable(t) == Exists(t) /\ Mine(t)

Unfork(t) ==
    /\ proc.pc = "unfork" /\ t \in proc.todo
    /\ IF Owned(t) THEN proc' = Step("refused") /\ UNCHANGED ref
       ELSE /\ ref' = IF Reclaimable(t) THEN [ref EXCEPT ![t] = NoRef] ELSE ref
            /\ proc' = [proc EXCEPT !.todo = @ \ {t}]
    /\ UNCHANGED <<owner, manifest, lineage, branch, sidecar, audit, built,
                   rows, next_ref, ops, faults, foreign>>

Unforked ==
    /\ proc.pc = "unfork" /\ proc.todo = {}
    /\ LET existing == SidecarPins \ sidecar.first IN
       proc' = [Step("restore") EXCEPT
                   !.todo = {t \in existing : Ownership(t) = "OwnAtHead"},
                   !.mine = {t \in existing : Mine(t)}]
    /\ UNCHANGED <<ref, owner, manifest, lineage, branch, sidecar, audit, built,
                   rows, next_ref, ops, faults, foreign>>

\* Mutant: a table goes back to the version the sidecar pinned.
RestoreTargetPin(t) == sidecar.pins[t].version

\* The version the manifest shows now, a lower winner's included.
RestoreTarget(t) == manifest[t].version

RestoreTable(t) ==
    /\ proc.pc = "restore" /\ t \in proc.todo
    /\ LET v == RestoreTarget(t) IN
       ref' = [ref EXCEPT ![t].log =
                  Append(@, [ref[t].log[v] EXCEPT !.op = 0, !.back = v])]
    /\ proc' = [proc EXCEPT !.todo = @ \ {t}]
    /\ UNCHANGED <<owner, manifest, lineage, branch, sidecar, audit, built,
                   rows, next_ref, ops, faults, foreign>>

\* push_table_update without a version: the entry moves to the ref's HEAD.
RePinned(t) == [owner |-> "branch", version |-> HeadOf(t)]

\* The rollback commit re-pins every existing table that holds an own effect.
RollBack ==
    /\ proc.pc = "restore" /\ proc.todo = {}
    /\ manifest' = [t \in Tables |->
          IF t \in proc.mine THEN RePinned(t) ELSE manifest[t]]
    /\ lineage' = Append(lineage, OutcomeCommit(sidecar, FALSE))
    /\ proc' = Step("audit")
    /\ UNCHANGED <<ref, owner, branch, sidecar, audit, built, rows, next_ref,
                   ops, faults, foreign>>

\* Mutant: a re-entry records the outcome once more.
RecordedNever(o) == FALSE

Recorded(o) == \E i \in DOMAIN audit : audit[i].op = o

\* record_audit, or finalize_visible_v8_outcome when the row is missing.
Audit ==
    /\ proc.pc = "audit"
    /\ audit' = IF Recorded(sidecar.op) THEN audit
                ELSE Append(audit,
                        [op |-> sidecar.op,
                         kind |-> IF InLineage(Indexed(sidecar.op))
                                  THEN "index" ELSE "rollback"])
    /\ proc' = Step("delete")
    /\ UNCHANGED <<ref, owner, manifest, lineage, branch, sidecar, built, rows,
                   next_ref, ops, faults, foreign>>

DeleteSidecar ==
    /\ proc.pc = "delete"
    /\ sidecar' = NoSidecar
    /\ proc' = Idle
    /\ UNCHANGED <<ref, owner, manifest, lineage, branch, audit, built, rows,
                   next_ref, ops, faults, foreign>>

------------------------------------------------------------------------------
(* Faults and other processes. *)

Crash ==
    /\ proc.pc \notin {"down", "refused"} /\ faults < MaxFaults
    /\ proc' = Down
    /\ faults' = faults + 1
    /\ UNCHANGED <<ref, owner, manifest, lineage, branch, sidecar, audit, built,
                   rows, next_ref, ops, foreign>>

\* A storage call fails: the build returns, a sweep fails the open.
CallFails ==
    /\ proc.pc \notin {"down", "refused", "idle"} /\ faults < MaxFaults
    /\ proc' = IF proc.mode = "full" /\ sidecar # NoSidecar
                  /\ proc.pc \notin {"planned", "effects", "publish", "retire"}
               THEN Step("refused") ELSE Idle
    /\ faults' = faults + 1
    /\ UNCHANGED <<ref, owner, manifest, lineage, branch, sidecar, audit, built,
                   rows, next_ref, ops, foreign>>

Quiesced == proc.mode = "full" /\ proc.pc \notin
               {"idle", "planned", "effects", "publish", "retire"}

Foreign(kind) ==
    /\ kind \in ForeignSteps /\ foreign < MaxForeign /\ ~Quiesced
    /\ foreign' = foreign + 1

\* Another writer appends a row with a vector to a table of the branch.
ForeignRows(t) ==
    /\ Foreign("rows") /\ Exists(t) /\ Owned(t)
    /\ LET c == ref[t].log[HeadOf(t)] IN
       ref' = [ref EXCEPT ![t].log =
                  Append(@, Version(-1, c.rows + 1, TRUE, c.idx))]
    /\ UNCHANGED <<owner, manifest, lineage, branch, sidecar, audit, proc,
                   built, rows, next_ref, ops, faults>>

\* It publishes the version right above the entry.
ForeignSettle(t) ==
    /\ Foreign("settle") /\ Exists(t)
    /\ LET v == manifest[t].version + 1 IN
       /\ HeadOf(t) >= v /\ ref[t].log[v].op = -1
       /\ Owned(t) \/ ref[t].parent = manifest[t].version
       /\ manifest' = [manifest EXCEPT ![t] = [owner |-> "branch", version |-> v]]
       /\ rows' = [rows EXCEPT ![t] = ref[t].log[v].rows]
    /\ lineage' = Append(lineage, [op |-> -1, kind |-> "rows"])
    /\ UNCHANGED <<ref, owner, branch, sidecar, audit, proc, built, next_ref,
                   ops, faults>>

ForeignCommit ==
    /\ Foreign("commit")
    /\ lineage' = Append(lineage, [op |-> -1, kind |-> "rows"])
    /\ UNCHANGED <<ref, owner, manifest, branch, sidecar, audit, proc, built,
                   rows, next_ref, ops, faults>>

\* It touches an inherited table first: a fork with one row more.
ForeignFork(t) ==
    /\ Foreign("fork") /\ manifest[t].owner = "other" /\ ~Exists(t)
    /\ LET v == manifest[t].version
           c == owner[t][v] IN
       ref' = [ref EXCEPT ![t] =
                  [id |-> next_ref, by |-> -1, parent |-> v,
                   log |-> Append(SubSeq(owner[t], 1, v),
                                  Version(-1, c.rows + 1, TRUE, c.idx))]]
    /\ next_ref' = next_ref + 1
    /\ UNCHANGED <<owner, manifest, lineage, branch, sidecar, audit, proc,
                   built, rows, ops, faults>>

\* The branch a table is inherited from moves on.
OwnerAdvances(t) ==
    /\ Foreign("owner") /\ manifest[t].owner = "other"
    /\ LET c == Last(owner[t]) IN
       owner' = [owner EXCEPT ![t] =
                    Append(@, Version(-1, c.rows + 1, TRUE, c.idx))]
    /\ UNCHANGED <<ref, manifest, lineage, branch, sidecar, audit, proc, built,
                   rows, next_ref, ops, faults>>

\* The branch is deleted and created again: its refs are reclaimed and the new
\* branch inherits every table and their history.
Recreate ==
    /\ Foreign("recreate")
    /\ branch' = branch + 1
    /\ ref' = [t \in Tables |-> NoRef]
    /\ manifest' = [t \in Tables |->
          [owner |-> IF t \in MainTables THEN "main" ELSE "other", version |-> 1]]
    /\ rows' = [t \in Tables |-> owner[t][1].rows]
    /\ lineage' = <<>>
    /\ UNCHANGED <<owner, sidecar, audit, proc, built, next_ref, ops, faults>>

------------------------------------------------------------------------------
Writer ==
    \/ Plan \/ ReadSetChanged \/ Arm \/ Confirm \/ Publish \/ Retire
    \/ RecoveryRequired
    \/ \E t \in Tables : Fork(t) \/ CommitExact(t) \/ CommitRebased(t)

Recovery ==
    \/ Open \/ Heal \/ Restart \/ Sweep \/ RefusedOpen \/ RollForward \/ PersistPlan
    \/ Unforked \/ RollBack \/ Audit \/ DeleteSidecar
    \/ \E t \in Tables : CleanFork(t) \/ Unfork(t) \/ RestoreTable(t)

Others ==
    \/ ForeignCommit \/ Recreate
    \/ \E t \in Tables : \/ ForeignRows(t) \/ ForeignSettle(t)
                         \/ ForeignFork(t) \/ OwnerAdvances(t)

Next == Writer \/ Recovery \/ Crash \/ CallFails \/ Others

Spec == Init /\ [][Next]_vars


------------------------------------------------------------------------------
(* Properties *)

\* ensure_indices changes no rows: a reader of the branch sees exactly the rows
\* its writers published, whatever HEAD an index was built on, however the
\* branch a table is inherited from moved meanwhile, and whatever a rollback
\* restored.
RowsExact == \A t \in Tables : Visible(t).rows = rows[t]

\* One attempt's tables change together with its commit: when the commit is in
\* the lineage every index it planned is visible, before that none of its
\* versions is.
AllOrNothing ==
    \A o \in 1..ops :
        IF InLineage(Indexed(o))
        THEN \A t \in Tables : built[o][t] \subseteq Visible(t).idx
        ELSE \A t \in Tables : Visible(t).op # o

\* A visible index is usable: a vector index is only ever published on a table
\* that holds a vector, and no index at all on an empty table.
IndexesUsable ==
    \A t \in Tables : LET c == Visible(t) IN
        /\ c.rows = 0 => c.idx = {}
        /\ (\E s \in c.idx : s[2] = "vector") => c.vec

\* A native ref of a table the branch does not own is another writer's, or a
\* pending sidecar says whose it is: a build that failed, crashed or was rolled
\* back leaves no ref that would block the next first touch.
NoResidue ==
    \A t \in Tables :
        (Exists(t) /\ ~Owned(t)) =>
            \/ sidecar # NoSidecar /\ t \in sidecar.first
            \/ \E v \in DOMAIN ref[t].log : v > ref[t].parent
                                            /\ ref[t].log[v].op = -1

\* A ref that holds another writer's rows is never deleted: not by the cleanup
\* of untouched forks and not by the reclaim of a first touch.
ForeignKept ==
    \A t \in Tables :
       (Exists(t) /\ branch' = branch
          /\ \E v \in DOMAIN ref[t].log : v > ref[t].parent
                                          /\ ref[t].log[v].op = -1)
       => ref'[t] # NoRef

\* What an attempt recorded is what happened to it: one audit row at most, and
\* its kind is the commit that is in the lineage.
AuditTruthful ==
    /\ \A i, j \in DOMAIN audit : audit[i].op = audit[j].op => i = j
    /\ \A i \in DOMAIN audit :
          InLineage([op |-> audit[i].op, kind |-> audit[i].kind])

\* Without other processes the full sweep never refuses a build's intent for
\* what it finds: only a failing call can stop it.
SweepAccepts == (proc.pc = "sweep" /\ proc.mode = "full") => Decision # "refuse"

\* The list a successful call returns names exactly the declared indexes that
\* the branch still lacks on its non-empty tables.
PendingExact ==
    proc.pc = "retire" =>
        \A t \in Visited : Visible(t).rows > 0 =>
            Wanted(t) \ Visible(t).idx = proc.pending[t]

\* A call would still build an index the visited tables can carry.
Buildable == \E t \in Visited : Specs(t, Visible(t)) # {}
=============================================================================
