----------------------------- MODULE MergeCommit -----------------------------
(***************************************************************************)
(* The commit protocol of branch_merge (exec/merge.rs) and the exact       *)
(* recovery of its sidecar (db/manifest/recovery.rs, protocol v4).  The    *)
(* row work is RowMerge's; here a candidate table is what its publication  *)
(* does: a chain of exact transactions on the target's ref (created first  *)
(* when the target does not own the table), a fork of the source's state   *)
(* with no transaction, or a pointer that only the manifest commit moves.  *)
(*                                                                         *)
(* The merge, the live heal and the full sweep at open share a process's   *)
(* gates, so one of them runs at a time (`proc`).  Other processes are not *)
(* behind those gates: they may commit to the target, move a table's HEAD  *)
(* or delete and recreate the branch, except while the full sweep runs,    *)
(* which the code requires to be quiesced.                                 *)
(***************************************************************************)
EXTENDS Integers, Sequences, FiniteSets, SequencesExt

CONSTANTS
    ChainTables,    \* HEAD-advancing tables the target owns
    LazyTables,     \* HEAD-advancing tables the target inherits
    ForkTables,     \* adopted from a source branch, not owned by the target
    PointerTables,  \* adopted by pointer
    Leftover,       \* tables with a fork an earlier branch of this name left
    ChainLen,       \* transactions planned for a HEAD-advancing table
    MaxScan,        \* MAX_EFFECT_IDENTITY_SCAN_VERSIONS
    MaxOps,         \* merge attempts
    MaxFaults,      \* crashes and failing storage calls
    MaxForeign,     \* steps of other processes
    ForeignSteps    \* which of "commit", "table", "drift", "index", "recreate"

VARIABLES
    ref,        \* the target's native ref of every table
    manifest,   \* the target branch's entry of every table: owner and version
    lineage,    \* graph commits of the target branch
    branch,     \* incarnation of the target branch
    sidecar, audit, proc,
    next_ref,   \* identity of the next ref created
    ops, faults, foreign

vars == <<ref, manifest, lineage, branch, sidecar, audit, proc, next_ref, ops,
          faults, foreign>>

Tables == ChainTables \cup LazyTables \cup ForkTables \cup PointerTables
NoRef == [id |-> 0]
NoSidecar == [op |-> 0]
SourceVersion == 2

\* A table commit: part k of the chain of operation `op`, or a restore.  Op 0
\* is the shared history, -1 another writer, -2 its index build, -3 an earlier
\* branch of the same name.
Commit(o, k) == [op |-> o, k |-> k]
RestoreOf(v) == [op |-> 0, k |-> -v]
History(n) == [i \in 1..n |-> Commit(0, i)]
Merged(o) == [op |-> o, kind |-> "merge"]
RolledBack(o) == [op |-> o, kind |-> "rollback"]

Exists(t) == ref[t] # NoRef
HeadOf(t) == Len(ref[t].log)
InLineage(c) == \E i \in DOMAIN lineage : lineage[i] = c
GraphHead == Len(lineage)

Idle == [pc |-> "idle", mode |-> "heal", todo |-> {}, head |-> 0,
         branch |-> 0, pins |-> <<>>]
Down == [Idle EXCEPT !.pc = "down"]
Step(pc) == [proc EXCEPT !.pc = pc]

Init ==
    /\ ref = [t \in Tables |->
          CASE t \in ChainTables ->
                 [id |-> 1, by |-> 0, parent |-> 0, log |-> History(1)]
            [] t \in Leftover ->
                 [id |-> 1, by |-> -3, parent |-> 1,
                  log |-> Append(History(1), Commit(-3, 0))]
            [] OTHER -> NoRef]
    /\ manifest = [t \in Tables |->
          [owner |-> IF t \in ChainTables THEN "target" ELSE "main",
           version |-> 1]]
    /\ lineage = <<>> /\ branch = 1 /\ sidecar = NoSidecar /\ audit = <<>>
    /\ proc = Down /\ next_ref = 2
    /\ ops = 0 /\ faults = 0 /\ foreign = 0

------------------------------------------------------------------------------
(* Planning: what the publication of a candidate does. *)

IsFork(t) == t \in ForkTables /\ manifest[t].owner # "target"
IsPointer(t) == t \in PointerTables
FirstTouch(t) == ~IsPointer(t) /\ manifest[t].owner # "target"
ForkPoint(t, v) == IF IsFork(t) THEN SourceVersion ELSE v

Pinned == {t \in Tables : ~IsPointer(t)}
Pins == [t \in Tables |-> manifest[t].version]

NewSidecar(o) ==
    [op |-> o, phase |-> "Armed", branch |-> proc.branch, head |-> proc.head,
     pins |-> proc.pins, fork |-> {t \in Pinned : IsFork(t)},
     first |-> {t \in Pinned : FirstTouch(t)},
     confirmed |-> [t \in Tables |-> 0], refs |-> [t \in Tables |-> 0],
     plan |-> FALSE]

\* Transactions of the chain already on the ref.
Landed(t, s) ==
    Cardinality({v \in DOMAIN ref[t].log : ref[t].log[v].op = s.op})

------------------------------------------------------------------------------
(* branch_merge *)

\* Both branch gates are held; the target's authority is captured.
Capture ==
    /\ proc.pc = "idle" /\ sidecar = NoSidecar /\ ops < MaxOps
    /\ \A o \in 1..ops : ~InLineage(Merged(o))
    /\ proc' = [Step("captured") EXCEPT !.head = GraphHead, !.branch = branch,
                                        !.pins = Pins]
    /\ ops' = ops + 1
    /\ UNCHANGED <<ref, manifest, lineage, branch, sidecar, audit, next_ref,
                   faults, foreign>>

\* Conflicts, validation or a resource ceiling stop the merge before it arms.
Refuse ==
    /\ proc.pc = "captured"
    /\ proc' = Idle
    /\ UNCHANGED <<ref, manifest, lineage, branch, sidecar, audit, next_ref,
                   ops, faults, foreign>>

\* The table gates are held: the target's authority and every existing ref must
\* be as captured.
Revalidates ==
    /\ proc.head = GraphHead /\ proc.branch = branch /\ proc.pins = Pins
    /\ \A t \in Pinned \ {t \in Pinned : FirstTouch(t)} :
          Exists(t) /\ HeadOf(t) = manifest[t].version

ReadSetChanged ==
    /\ proc.pc = "captured" /\ ~Revalidates
    /\ proc' = Idle
    /\ UNCHANGED <<ref, manifest, lineage, branch, sidecar, audit, next_ref,
                   ops, faults, foreign>>

\* A merge of pointers only has no physical effect and writes no sidecar.
Arm ==
    /\ proc.pc = "captured" /\ Revalidates
    /\ sidecar' = IF Pinned = {} THEN sidecar ELSE NewSidecar(ops)
    /\ proc' = [Step("effects") EXCEPT !.todo = Pinned]
    /\ UNCHANGED <<ref, manifest, lineage, branch, audit, next_ref, ops,
                   faults, foreign>>

\* Tables are published one after the other.
Begun(t) == Exists(t) /\ (ref[t].by = sidecar.op \/ Landed(t, sidecar) > 0)
Turn(t) == t \in proc.todo /\ \A u \in proc.todo : Begun(u) => u = t

\* fork_dataset_from_entry_state.  A ref already there is not reclaimed: the
\* merge does not exclude its own intent, which claims the ref.
CreateRef(t) ==
    /\ proc.pc = "effects" /\ Turn(t) /\ t \in sidecar.first /\ ~Exists(t)
    /\ LET v == ForkPoint(t, sidecar.pins[t]) IN
       ref' = [ref EXCEPT ![t] = [id |-> next_ref, by |-> sidecar.op,
                                  parent |-> v, log |-> History(v)]]
    /\ next_ref' = next_ref + 1
    /\ proc' = IF t \in sidecar.fork
               THEN [proc EXCEPT !.todo = @ \ {t}] ELSE proc
    /\ UNCHANGED <<manifest, lineage, branch, sidecar, audit, ops, faults,
                   foreign>>

\* commit_exact_merge_stage: the planned transaction commits only on the
\* version it was planned on.
CommitPlanned(t) ==
    /\ proc.pc = "effects" /\ Turn(t) /\ t \notin sidecar.fork /\ Exists(t)
    /\ t \in sidecar.first => ref[t].by = sidecar.op
    /\ LET k == Landed(t, sidecar) + 1 IN
       /\ HeadOf(t) = sidecar.pins[t] + k - 1
       /\ ref' = [ref EXCEPT ![t].log = Append(@, Commit(sidecar.op, k))]
       /\ proc' = IF k = ChainLen
                  THEN [proc EXCEPT !.todo = @ \ {t}] ELSE proc
    /\ UNCHANGED <<manifest, lineage, branch, sidecar, audit, next_ref, ops,
                   faults, foreign>>

------------------------------------------------------------------------------
(* What recovery and confirmation prove about a chain. *)

\* The planned transactions found in order right above the pin.
Prefix(t, s) ==
    LET ok(n) == \A i \in 1..n : /\ s.pins[t] + i <= HeadOf(t)
                                 /\ ref[t].log[s.pins[t] + i] = Commit(s.op, i)
    IN CHOOSE n \in 0..ChainLen : ok(n) /\ (n = ChainLen \/ ~ok(n + 1))

\* Mutant: one own transaction anywhere above the pin proves ownership.
ProofLoose(t, s) ==
    IF HeadOf(t) = s.pins[t] THEN [own |-> "None", full |-> FALSE, safe |-> TRUE]
    ELSE IF \E v \in (s.pins[t] + 1)..HeadOf(t) : ref[t].log[v].op = s.op
    THEN [own |-> "OwnAtHead", full |-> Prefix(t, s) = ChainLen, safe |-> TRUE]
    ELSE [own |-> "None", full |-> FALSE, safe |-> TRUE]

\* Mutant: a restore is never this attempt's compensation.
ProofNoRestore(t, s) ==
    LET n == Prefix(t, s)
        whole == HeadOf(t) = s.pins[t] + n
    IN [own |-> IF n > 0 /\ whole THEN "OwnAtHead" ELSE "None",
        full |-> n = ChainLen /\ whole, safe |-> whole]

\* prove_branch_merge_multi_commit_effect.
Proof(t, s) ==
    LET base == s.pins[t]
        head == HeadOf(t)
        n == Prefix(t, s)
        rest == SubSeq(ref[t].log, base + n + 1, head)
        restored == rest # <<>> /\ n > 0
                    /\ Last(rest) = RestoreOf(manifest[t].version)
        tail == IF restored THEN Front(rest) ELSE rest
        indexed == tail = <<>> \/ (n = ChainLen /\ Len(tail) = 1
                                   /\ tail[1].op = -2)
        unverifiable == [own |-> "None", full |-> FALSE, safe |-> FALSE]
    IN IF head < base \/ head - base > MaxScan \/ ~indexed THEN unverifiable
       ELSE [own |-> IF n = 0 THEN "None"
                     ELSE IF restored THEN "OwnCompensated" ELSE "OwnAtHead",
             full |-> n = ChainLen /\ ~restored, safe |-> TRUE]

NoProof == [own |-> "None", full |-> FALSE, safe |-> TRUE]
ProofOf(t, s) == IF Exists(t) THEN Proof(t, s) ELSE NoProof

\* confirm_branch_merge_sidecar_v9.
Confirmable(s) ==
    \A t \in Pinned :
        /\ Exists(t)
        /\ IF t \in s.fork THEN HeadOf(t) = SourceVersion
           ELSE /\ HeadOf(t) = s.pins[t] + ChainLen
                /\ Proof(t, s).own = "OwnAtHead" /\ Proof(t, s).full

Confirm ==
    /\ proc.pc = "effects" /\ proc.todo = {}
    /\ IF sidecar = NoSidecar THEN UNCHANGED sidecar
       ELSE /\ Confirmable(sidecar)
            /\ sidecar' = [sidecar EXCEPT !.phase = "EffectsConfirmed",
                  !.confirmed = [t \in Tables |->
                        IF t \in Pinned THEN HeadOf(t) ELSE SourceVersion],
                  !.refs = [t \in Tables |->
                        IF t \in sidecar.first THEN ref[t].id ELSE 0]]
    /\ proc' = Step("publish")
    /\ UNCHANGED <<ref, manifest, lineage, branch, audit, next_ref, ops,
                   faults, foreign>>

\* Mutant: an adopted fork keeps the source's owner.
MergedManifestSource(versions) ==
    [t \in Tables |-> CASE t \in PointerTables ->
                              [owner |-> "main", version |-> SourceVersion]
                        [] t \in ForkTables ->
                              [owner |-> "source", version |-> versions[t]]
                        [] OTHER -> [owner |-> "target", version |-> versions[t]]]

\* The manifest after the merge: confirmed versions, pointers moved.
MergedManifest(versions) ==
    [t \in Tables |-> IF t \in PointerTables
                      THEN [owner |-> "main", version |-> SourceVersion]
                      ELSE [owner |-> "target", version |-> versions[t]]]

PublishCas(pins, head, incarnation) ==
    pins = Pins /\ head = GraphHead /\ incarnation = branch

\* commit_updates_on_branch_with_expected under the captured authority.
Publish ==
    /\ proc.pc = "publish" /\ PublishCas(proc.pins, proc.head, proc.branch)
    /\ manifest' = MergedManifest(IF sidecar = NoSidecar THEN proc.pins
                                  ELSE sidecar.confirmed)
    /\ lineage' = Append(lineage, Merged(ops))
    /\ proc' = Step("retire")
    /\ UNCHANGED <<ref, branch, sidecar, audit, next_ref, ops, faults, foreign>>

\* The sidecar is deleted on a best-effort basis.
Retire ==
    /\ proc.pc = "retire"
    /\ sidecar' = NoSidecar
    /\ proc' = Idle
    /\ UNCHANGED <<ref, manifest, lineage, branch, audit, next_ref, ops, faults,
                   foreign>>

\* A step after arming that cannot be taken ends in RecoveryRequired (or a
\* plain error when nothing is armed); the sidecar stays.
Stuck ==
    /\ \/ /\ proc.pc = "effects"
          /\ ~ENABLED Confirm
          /\ \A t \in Tables : ~ENABLED CreateRef(t) /\ ~ENABLED CommitPlanned(t)
       \/ proc.pc = "publish" /\ ~PublishCas(proc.pins, proc.head, proc.branch)
    /\ proc' = Idle
    /\ UNCHANGED <<ref, manifest, lineage, branch, sidecar, audit, next_ref,
                   ops, faults, foreign>>

------------------------------------------------------------------------------
(* Recovery: the live heal only rolls forward, the sweep at open is full. *)

Open ==
    /\ proc.pc = "down"
    /\ proc' = [Idle EXCEPT !.pc = IF sidecar = NoSidecar THEN "idle" ELSE "sweep",
                            !.mode = "full"]
    /\ UNCHANGED <<ref, manifest, lineage, branch, sidecar, audit, next_ref,
                   ops, faults, foreign>>

Heal ==
    /\ proc.pc = "idle" /\ sidecar # NoSidecar
    /\ proc' = [Idle EXCEPT !.pc = "sweep", !.mode = "heal"]
    /\ UNCHANGED <<ref, manifest, lineage, branch, sidecar, audit, next_ref,
                   ops, faults, foreign>>

Chains == Pinned \ sidecar.fork
Observed(t) == t \in sidecar.first /\ Exists(t)

Unsafe ==
    \E t \in Pinned :
        \/ manifest[t].version # sidecar.pins[t]
        \/ ~Exists(t) /\ t \notin sidecar.first
        \/ Observed(t) /\ ref[t].parent # (IF t \in sidecar.fork
                                           THEN SourceVersion ELSE sidecar.pins[t])
        \/ Observed(t) /\ sidecar.refs[t] # 0 /\ ref[t].id # sidecar.refs[t]
        \/ t \in Chains /\ ~ProofOf(t, sidecar).safe

Confirmed == sidecar.phase = "EffectsConfirmed"

Complete(t) ==
    /\ Confirmed /\ Exists(t) /\ HeadOf(t) = sidecar.confirmed[t]
    /\ t \in Chains => Proof(t, sidecar).full

\* Mutant: a chain this attempt already compensated is a mismatch too.
MismatchCompensated == Confirmed /\ \E t \in Pinned : ~Complete(t)

Mismatch ==
    Confirmed /\ \E t \in Pinned :
        /\ ~Complete(t)
        /\ t \in Chains => ProofOf(t, sidecar).own # "OwnCompensated"

Moved(t) == t \in Chains /\ Exists(t) /\ HeadOf(t) > sidecar.pins[t]
AnyPhysical == \E t \in Pinned : Observed(t) \/ Moved(t)
Recreated == sidecar.branch # branch
AuthorityChanged == Recreated \/ sidecar.head # GraphHead

\* Mutant: an intent whose data moved is deferred even by the full sweep.
DecisionAlwaysDefers ==
    CASE InLineage(Merged(sidecar.op)) -> "finalize_forward"
      [] InLineage(RolledBack(sidecar.op)) -> "finalize_back"
      [] ~\E t \in Pinned : Moved(t) -> "discard"
      [] OTHER -> "defer"

\* process_branch_merge_sidecar_v4.
Decision ==
    CASE InLineage(Merged(sidecar.op)) -> "finalize_forward"
      [] InLineage(RolledBack(sidecar.op)) -> "finalize_back"
      [] Unsafe \/ Mismatch \/ (Recreated /\ AnyPhysical) -> "refuse"
      [] ~AuthorityChanged /\ (\A t \in Pinned : Complete(t)) -> "forward"
      [] ~\E t \in Pinned : Moved(t) -> "discard"
      [] OTHER -> "back"

\* Mutant: only adopted forks are cleaned.
UntouchedForks(t) == t \in sidecar.fork /\ manifest[t].owner # "target"

\* unpublished_fork with no owned effect.
Untouched(t) ==
    /\ t \in Pinned /\ manifest[t].owner # "target"
    /\ t \in Chains => ProofOf(t, sidecar).own = "None"

Owned(t) == t \in Chains /\ ProofOf(t, sidecar).own # "None"

Sweep ==
    /\ proc.pc = "sweep"
    /\ LET d == Decision IN
       proc' = CASE d \in {"finalize_forward", "finalize_back"} -> Step("audit")
                 [] d = "forward" -> Step("forward")
                 [] d = "refuse" -> IF proc.mode = "full" THEN Step("refused")
                                    ELSE Idle
                 [] proc.mode = "heal" \/ d = "defer" -> Idle
                 [] d = "discard" -> [Step("discard") EXCEPT
                        !.todo = {t \in Tables : Untouched(t) /\ Exists(t)}]
                 [] OTHER -> [Step("clean") EXCEPT
                        !.todo = {t \in Tables : Untouched(t) /\ Exists(t)}]
    /\ UNCHANGED <<ref, manifest, lineage, branch, sidecar, audit, next_ref,
                   ops, faults, foreign>>

\* A refused sweep fails the open; an operator may try again.
RefusedOpen ==
    /\ proc.pc = "refused"
    /\ proc' = Down
    /\ UNCHANGED <<ref, manifest, lineage, branch, sidecar, audit, next_ref,
                   ops, faults, foreign>>

\* roll_forward_branch_merge_v4: the fixed commit, on the exact graph head.
RollForward ==
    /\ proc.pc = "forward"
    /\ IF PublishCas(sidecar.pins, sidecar.head, sidecar.branch)
       THEN /\ manifest' = MergedManifest(sidecar.confirmed)
            /\ lineage' = Append(lineage, Merged(sidecar.op))
            /\ proc' = Step("audit")
       ELSE /\ proc' = IF proc.mode = "full" THEN Step("refused") ELSE Idle
            /\ UNCHANGED <<manifest, lineage>>
    /\ UNCHANGED <<ref, branch, sidecar, audit, next_ref, ops, faults, foreign>>

\* cleanup_unpublished_no_effect_forks: only the exact untouched fork goes.
Cleanable(t) == HeadOf(t) = ref[t].parent

CleanFork(t) ==
    /\ proc.pc \in {"discard", "clean"} /\ t \in proc.todo
    /\ IF Cleanable(t)
       THEN /\ ref' = [ref EXCEPT ![t] = NoRef]
            /\ proc' = [proc EXCEPT !.todo = @ \ {t}]
       ELSE proc' = Step("refused") /\ UNCHANGED ref
    /\ UNCHANGED <<manifest, lineage, branch, sidecar, audit, next_ref, ops,
                   faults, foreign>>

\* No data moved: the intent is retired without a commit.
Discard ==
    /\ proc.pc = "discard" /\ proc.todo = {}
    /\ sidecar' = NoSidecar
    /\ proc' = Step("idle")
    /\ UNCHANGED <<ref, manifest, lineage, branch, audit, next_ref, ops, faults,
                   foreign>>

\* prepare_fixed_rollback_audit_plan, written before the first restore.
PersistPlan ==
    /\ proc.pc = "clean" /\ proc.todo = {}
    /\ sidecar' = [sidecar EXCEPT !.plan = TRUE]
    /\ proc' = [Step("restore") EXCEPT !.todo =
                   {t \in Tables : Owned(t)
                        /\ ProofOf(t, sidecar).own # "OwnCompensated"}]
    /\ UNCHANGED <<ref, manifest, lineage, branch, audit, next_ref, ops, faults,
                   foreign>>

Restore(t) ==
    /\ proc.pc = "restore" /\ t \in proc.todo
    /\ ref' = [ref EXCEPT ![t].log = Append(@, RestoreOf(manifest[t].version))]
    /\ proc' = [proc EXCEPT !.todo = @ \ {t}]
    /\ UNCHANGED <<manifest, lineage, branch, sidecar, audit, next_ref, ops,
                   faults, foreign>>

\* Mutants: the version before the restore is published; the pointer slots of
\* the intent are published with the rollback.
BackManifestUnrestored ==
    [t \in Tables |-> IF Owned(t)
                      THEN [owner |-> "target", version |-> HeadOf(t) - 1]
                      ELSE manifest[t]]
BackManifestSlots ==
    [t \in Tables |-> CASE Owned(t) -> [owner |-> "target", version |-> HeadOf(t)]
                        [] IsPointer(t) -> [owner |-> "main", version |-> SourceVersion]
                        [] OTHER -> manifest[t]]

\* The restored HEADs are published with the rollback commit.
BackManifest ==
    [t \in Tables |-> IF Owned(t) THEN [owner |-> "target", version |-> HeadOf(t)]
                      ELSE manifest[t]]

RollBack ==
    /\ proc.pc = "restore" /\ proc.todo = {}
    /\ manifest' = BackManifest
    /\ lineage' = Append(lineage, RolledBack(sidecar.op))
    /\ proc' = Step("audit")
    /\ UNCHANGED <<ref, branch, sidecar, audit, next_ref, ops, faults, foreign>>

Outcome == IF InLineage(Merged(sidecar.op)) THEN Merged(sidecar.op)
           ELSE RolledBack(sidecar.op)

\* Mutant: the row is appended without looking for an earlier one.
AuditRowsAlways(row) == Append(audit, row)
\* finalize_visible_v4_outcome, record_audit.
AuditRows(row) ==
    IF \E i \in DOMAIN audit : audit[i] = row THEN audit ELSE Append(audit, row)

Audit ==
    /\ proc.pc = "audit"
    /\ audit' = AuditRows(Outcome)
    /\ proc' = Step("delete")
    /\ UNCHANGED <<ref, manifest, lineage, branch, sidecar, next_ref, ops,
                   faults, foreign>>

DeleteSidecar ==
    /\ proc.pc = "delete"
    /\ sidecar' = NoSidecar
    /\ proc' = Step("idle")
    /\ UNCHANGED <<ref, manifest, lineage, branch, audit, next_ref, ops, faults,
                   foreign>>

------------------------------------------------------------------------------
(* Faults and other processes. *)

\* The process dies.
Crash ==
    /\ proc.pc # "down" /\ faults < MaxFaults
    /\ proc' = Down /\ faults' = faults + 1
    /\ UNCHANGED <<ref, manifest, lineage, branch, sidecar, audit, next_ref,
                   ops, foreign>>

\* A storage call after arming fails, or the sidecar's deletion does.
Fail ==
    /\ proc.pc \in {"effects", "publish", "retire"} /\ faults < MaxFaults
    /\ proc' = Idle /\ faults' = faults + 1
    /\ UNCHANGED <<ref, manifest, lineage, branch, sidecar, audit, next_ref,
                   ops, foreign>>

Quiesced == proc.mode = "full" /\ proc.pc \notin {"idle", "down"}
ForeignMay(step) ==
    /\ step \in ForeignSteps /\ foreign < MaxForeign /\ ~Quiesced
    /\ foreign' = foreign + 1

\* Another process commits to a table this merge does not touch.
ForeignCommit ==
    /\ ForeignMay("commit")
    /\ lineage' = Append(lineage, [op |-> -1, kind |-> "foreign"])
    /\ UNCHANGED <<ref, manifest, branch, sidecar, audit, proc, next_ref, ops,
                   faults>>

\* Another process writes a table of this merge and publishes it.
ForeignTable(t) ==
    /\ ForeignMay("table")
    /\ manifest[t].owner = "target" /\ HeadOf(t) = manifest[t].version
    /\ ref' = [ref EXCEPT ![t].log = Append(@, Commit(-1, 0))]
    /\ manifest' = [manifest EXCEPT ![t].version = @ + 1]
    /\ lineage' = Append(lineage, [op |-> -1, kind |-> "foreign"])
    /\ UNCHANGED <<branch, sidecar, audit, proc, next_ref, ops, faults>>

\* Another process moves a HEAD and has not published it.
ForeignDrift(t) ==
    /\ \/ ForeignMay("drift") /\ ref' = [ref EXCEPT ![t].log =
                                           Append(@, Commit(-1, 0))]
       \/ ForeignMay("index") /\ ref' = [ref EXCEPT ![t].log =
                                           Append(@, Commit(-2, 0))]
    /\ Exists(t)
    /\ UNCHANGED <<manifest, lineage, branch, sidecar, audit, proc, next_ref,
                   ops, faults>>

\* Another process deletes the target branch and creates it again from main:
\* refs the manifest names go with it, unpublished ones stay.
ForeignRecreate ==
    /\ ForeignMay("recreate")
    /\ branch' = branch + 1
    /\ ref' = [t \in Tables |-> IF manifest[t].owner = "target" THEN NoRef
                                ELSE ref[t]]
    /\ manifest' = [t \in Tables |-> [owner |-> "main", version |-> 1]]
    /\ lineage' = <<[op |-> -1, kind |-> "created"]>>
    /\ UNCHANGED <<sidecar, audit, proc, next_ref, ops, faults>>

Recovery ==
    \/ Open \/ Heal \/ Sweep \/ RefusedOpen \/ RollForward \/ Discard
    \/ PersistPlan \/ RollBack \/ Audit \/ DeleteSidecar
    \/ \E t \in Tables : CleanFork(t) \/ Restore(t)

Next ==
    \/ Capture \/ Refuse \/ ReadSetChanged \/ Arm \/ Confirm \/ Publish
    \/ Retire \/ Stuck \/ Crash \/ Fail \/ Recovery
    \/ \E t \in Tables : CreateRef(t) \/ CommitPlanned(t)
    \/ ForeignCommit \/ ForeignRecreate
    \/ \E t \in Tables : ForeignTable(t) \/ ForeignDrift(t)

Spec == Init /\ [][Next]_vars

\* A process is opened again and a sweep that began goes on.
\* The steps a running merge takes by itself.
Writing == Confirm \/ Publish \/ Retire \/ Stuck \/ Arm \/ ReadSetChanged \/ Refuse
Effects == \E t \in Tables : CreateRef(t) \/ CommitPlanned(t)

------------------------------------------------------------------------------
(* Properties. *)

TypeOK ==
    /\ \A t \in Tables : /\ manifest[t].owner \in {"main", "target"}
                         /\ manifest[t].version \in Nat
    /\ branch \in 1..(MaxForeign + 1)
    /\ proc.todo \subseteq Tables
    /\ sidecar.op \in 0..MaxOps
    /\ ops \in 0..MaxOps /\ faults \in 0..MaxFaults /\ foreign \in 0..MaxForeign

\* The transactions a version of a table's ref contains.
Content(t, version) ==
    LET C[v \in 0..version] ==
            IF v = 0 THEN {}
            ELSE LET c == ref[t].log[v] IN
                 IF c.op = 0 /\ c.k < 0 THEN C[-c.k] ELSE C[v - 1] \cup {c}
    IN C[version]

Visible(t) == IF manifest[t].owner = "target"
              THEN Content(t, manifest[t].version) ELSE {}

\* A merge is visible on all of its tables or on none: with its commit in the
\* lineage every chain is complete, every fork adopted and every pointer moved;
\* without it no reader of the target sees any part of it.
AllOrNothing ==
    \A o \in 1..ops :
        IF InLineage(Merged(o))
        THEN \A t \in Tables :
                IF t \in PointerTables THEN manifest[t].version = SourceVersion
                ELSE IF t \in ForkTables
                THEN manifest[t].owner = "target"
                ELSE \A k \in 1..ChainLen : Commit(o, k) \in Visible(t)
        ELSE \A t \in Tables : \A k \in 1..ChainLen : Commit(o, k) \notin Visible(t)

\* Pointers and forks move only with a merge commit.
PointersFollowMerge ==
    (\A o \in 1..ops : ~InLineage(Merged(o))) =>
        /\ \A t \in PointerTables : manifest[t].version = 1
        /\ \A t \in ForkTables : manifest[t].owner = "main"

\* One audit row for a recovered attempt, telling the outcome that is visible.
AuditTellsOutcome ==
    /\ \A i, j \in DOMAIN audit : audit[i].op = audit[j].op => i = j
    /\ branch = 1 => \A i \in DOMAIN audit : InLineage(audit[i])

\* With no intent pending and no writer between arming and retiring, nothing of
\* a merge is left outside the manifest: every owned HEAD is at its pin or was
\* moved by another writer, and no unpublished ref of the target remains.
NoResidue ==
    sidecar = NoSidecar /\ branch = 1 =>
        \A t \in Tables :
            Exists(t) =>
                /\ manifest[t].owner = "target"
                /\ \A v \in (manifest[t].version + 1)..HeadOf(t) :
                      ref[t].log[v].op < 0

\* Recovery never rewrites or deletes what another process put on a ref.
ForeignWork(t) == Exists(t) /\ \E v \in DOMAIN ref[t].log :
                      /\ ref[t].log[v].op = -1 /\ v > manifest[t].version
ForeignPreserved ==
    \A t \in Tables :
       ForeignWork(t) /\ branch' = branch /\ ref'[t] # ref[t] =>
           ref'[t] # NoRef /\ Last(ref'[t].log).op < 0

\* The full sweep finishes every attempt: it refuses only when another process
\* touched a ref of the merge or the branch itself.
SweepFinishes ==
    proc.pc = "refused" =>
        \/ branch > 1
        \/ \E t \in Tables : Exists(t) /\ \E v \in DOMAIN ref[t].log :
                                 ref[t].log[v].op < 0

\* A fork left by an earlier branch of the same name does not keep the graph
\* from opening: the merge that meets it reconciles it.
LeftoverReconciled == proc.pc # "refused"

NoIntent == sidecar = NoSidecar
DownWithIntent == proc.pc = "down" /\ ~ NoIntent
=============================================================================
