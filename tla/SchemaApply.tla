----------------------------- MODULE SchemaApply -----------------------------
(***************************************************************************)
(* Schema apply and its exact recovery.  One migration rewrites some       *)
(* tables, renames, drops and creates others, stages three schema files,   *)
(* confirms its recovery sidecar, publishes one manifest commit and then   *)
(* promotes the three files one rename at a time.  The process may fail or *)
(* die between any two of these steps.  A later read-write open runs the   *)
(* full sweep, which finishes the migration or undoes it; any write or     *)
(* refresh of a live process runs the roll-forward-only heal.              *)
(*                                                                         *)
(* Writer and recovery share the process's schema gate, so one of them     *)
(* runs at a time (`proc`).  Writers of other processes are not behind     *)
(* that gate: a foreign writer that saw the lock branch free may still     *)
(* commit at any later moment, except while the full sweep runs, which the *)
(* code requires to be quiesced.                                           *)
(*                                                                         *)
(* A schema is "old" or "new"; every attempt migrates to the same target.  *)
(* A table's history is the sequence of its Lance commits.                 *)
(***************************************************************************)
EXTENDS Integers, Sequences, FiniteSets

CONSTANTS
    Rewritten, Renamed, Dropped,   \* tables of the old schema
    Added,                         \* tables only the new schema has
    MaxOps,                        \* attempts to apply the migration
    MaxFaults,                     \* crashes and failing storage calls
    MaxForeign,                    \* steps of writers of other processes
    AtomicRename,                  \* FALSE: a rename is a copy and a delete
    LegacyStart                    \* TRUE: also start from the leftovers of
                                   \* an apply that wrote no sidecar

VARIABLES
    live,       \* the three schema files
    staged,     \* which of them have a .staging sibling (always the target)
    store,      \* Lance commits of every table, <<>> when no dataset
    litter,     \* added paths holding staged files
    manifest,   \* the live entries: pinned version and alias
    lineage,    \* graph commits of main
    sidecar,    \* the pending recovery intent
    lock,       \* the branch __schema_apply_lock__
    audit,      \* rows of _graph_commit_recoveries
    proc,       \* this process
    cleared,    \* a foreign writer that passed its lock check
    wrote,      \* history: the tables each attempt committed to
    ops, faults, foreign

vars == <<live, staged, store, litter, manifest, lineage, sidecar, lock,
          audit, proc, cleared, wrote, ops, faults, foreign>>

Files == {"source", "ir", "state"}
Existing == Rewritten \cup Renamed \cup Dropped
Tables == Existing \cup Added
Pinned == Rewritten \cup Added          \* tables the sidecar pins
LegacyOp == MaxOps + 1

Absent == [pin |-> 0, alias |-> "none"]
NoSidecar == [op |-> 0]
Commit(o) == [op |-> o, restores |-> 0]     \* 0 base, -1 foreign
RestoreOf(v) == [op |-> 0, restores |-> v]

\* The manifest entries a schema implies, at the given pins.
EntriesOf(schema, pins) ==
    [t \in Tables |->
        CASE t \in Added   -> IF schema = "new"
                              THEN [pin |-> pins[t], alias |-> "new"]
                              ELSE Absent
          [] t \in Dropped -> IF schema = "new" THEN Absent
                              ELSE [pin |-> pins[t], alias |-> "old"]
          [] OTHER -> [pin |-> pins[t],
                       alias |-> IF schema = "new" /\ t \in Renamed
                                 THEN "new" ELSE "old"]]

\* validate_schema_ir_against_snapshot: same tables under the same aliases.
MatchesSnapshot(schema) ==
    \A t \in Tables :
        manifest[t].alias = EntriesOf(schema, [x \in Tables |-> 0])[t].alias

\* load_validated_schema_contract: source, IR and state are one contract.
ContractValid == \A f \in Files : live[f] = live["state"]

Step(pc) == [proc EXCEPT !.pc = pc]
Down == [pc |-> "down", mode |-> "full", then |-> "idle", head |-> 0,
         todo |-> {}, states |-> <<>>]
Idle == [Down EXCEPT !.pc = "idle", !.mode = "heal"]

\* Where a leftover of the protocol without sidecars may have stopped: before
\* the manifest commit, with some files staged; or after it, mid-promotion.
LegacyFiles ==
    {<<"old", {"source"}, {}>>, <<"old", {"source", "ir"}, {}>>,
     <<"old", Files, {}>>, <<"new", Files, {}>>,
     <<"new", {"ir", "state"}, {"source"}>>,
     <<"new", {"state"}, {"source", "ir"}>>}

Init ==
    /\ \/ /\ staged = {} /\ live = [f \in Files |-> "old"]
          /\ store = [t \in Tables |-> IF t \in Added THEN <<>>
                                       ELSE <<Commit(0)>>]
          /\ manifest = EntriesOf("old", [t \in Tables |-> 1])
       \/ /\ LegacyStart
          /\ \E l \in LegacyFiles :
               /\ staged = l[2]
               /\ live = [f \in Files |-> IF f \in l[3] THEN "new" ELSE "old"]
               /\ store = [t \in Tables |->
                     IF t \in Added
                     THEN IF l[1] = "new" THEN <<Commit(LegacyOp)>> ELSE <<>>
                     ELSE IF l[1] = "new" /\ t \in Rewritten
                     THEN <<Commit(0), Commit(LegacyOp)>> ELSE <<Commit(0)>>]
               /\ manifest = EntriesOf(l[1],
                     [t \in Tables |-> IF l[1] = "new" /\ t \in Rewritten
                                       THEN 2 ELSE 1])
    /\ litter = {} /\ lineage = <<>> /\ sidecar = NoSidecar /\ lock = FALSE
    /\ audit = <<>> /\ proc = Down /\ cleared = FALSE
    /\ wrote = [o \in 1..MaxOps |-> {}]
    /\ ops = 0 /\ faults = 0 /\ foreign = 0

------------------------------------------------------------------------------
(* What the sweep reads. *)

HeadOf(t) == Len(store[t])

\* open_lance_head_if_present: whose transaction is at and above the pin.
Ownership(t, s) ==
    LET own == {i \in (s.pins[t] + 1)..HeadOf(t) : store[t][i].op = s.op} IN
    IF own = {} THEN "None"
    ELSE IF HeadOf(t) \in own THEN "OwnAtHead"
    ELSE IF store[t][HeadOf(t)].restores = manifest[t].pin /\ manifest[t].pin > 0
    THEN "OwnCompensated" ELSE "OwnBeforeHead"

Classify(t, s) ==
    LET own == Ownership(t, s)  pin == manifest[t].pin IN
    CASE HeadOf(t) < pin -> "InvariantViolation"
      [] HeadOf(t) = pin -> IF own = "None" THEN "NoMovement"
                          ELSE "UnexpectedEffectIdentity"
      [] OTHER ->
           IF /\ s.phase = "EffectsConfirmed" /\ own = "OwnAtHead"
              /\ HeadOf(t) = s.pins[t] + 1 /\ pin = s.pins[t]
           THEN "RolledPastExpected"
           ELSE IF s.phase = "Armed" /\ own \in {"OwnAtHead", "OwnCompensated"}
           THEN "IncompletePhaseB" ELSE "UnexpectedEffectIdentity"

States(s) == [t \in Pinned |->
                 [class |-> Classify(t, s), own |-> Ownership(t, s),
                  pin |-> manifest[t].pin, head |-> HeadOf(t)]]

\* Foreign or buried movement that no destructive step may touch.
Unsafe(s, st) ==
    \E t \in Pinned :
        \/ st[t].own = "OwnBeforeHead"
        \/ /\ st[t].own = "None" /\ st[t].head > st[t].pin
           /\ ~(t \in Added /\ manifest[t] = Absent)
        \/ /\ st[t].own # "None" /\ st[t].pin # s.pins[t]
           /\ ~(/\ st[t].own \in {"OwnAtHead", "OwnCompensated"}
                /\ s.pins[t] < st[t].pin /\ st[t].pin < st[t].head)

Visible(kind, o) == \E i \in 1..Len(lineage) : lineage[i] = <<kind, o>>

AuthorityChanged(s) == Len(lineage) # s.head \/ live["state"] # "old"

AllConfirmed(st) == \A t \in Pinned : st[t].class = "RolledPastExpected"

\* validate_exact_schema_staging_target: every file, where it now is, is the
\* target's.
StagingIsTarget == \A f \in Files : f \in staged \/ live[f] = "new"

------------------------------------------------------------------------------
(* The manifest commit of the migration, by the writer or by recovery.  The *)
(* publisher demands the captured graph head and the captured pins.         *)

ForwardAllowed(s) ==
    /\ Len(lineage) = s.head
    /\ \A t \in Tables :
        IF t \in Added THEN manifest[t] = Absent
        ELSE manifest[t] = [pin |-> s.pins[t], alias |-> "old"]

\* Mutant: rewritten tables are published at the version before the rewrite.
PublishForwardStale(s) ==
    /\ manifest' = EntriesOf("new",
          [t \in Tables |-> IF t \in Added THEN s.pins[t] + 1 ELSE s.pins[t]])
    /\ lineage' = Append(lineage, <<"original", s.op>>)

\* Mutant: an added table is published one version too far.
PublishForwardFar(s) ==
    /\ manifest' = EntriesOf("new",
          [t \in Tables |-> IF t \in Added THEN s.pins[t] + 2
                            ELSE IF t \in Pinned THEN s.pins[t] + 1 ELSE s.pins[t]])
    /\ lineage' = Append(lineage, <<"original", s.op>>)

PublishForward(s) ==
    /\ manifest' = EntriesOf("new",
          [t \in Tables |-> IF t \in Pinned THEN s.pins[t] + 1 ELSE s.pins[t]])
    /\ lineage' = Append(lineage, <<"original", s.op>>)

\* Promotion renames, and the discard deletes, one file at a time.  On an
\* object store the process can stop between the copy and the delete of a
\* rename.
FirstStaged ==
    IF "source" \in staged THEN "source"
    ELSE IF "ir" \in staged THEN "ir" ELSE "state"

RenameNext ==
    /\ live' = [live EXCEPT ![FirstStaged] = "new"]
    /\ \/ staged' = staged \ {FirstStaged}
       \/ ~AtomicRename /\ live[FirstStaged] = "old" /\ staged' = staged

\* Mutant: the discard removes the live file.
DiscardNextLive ==
    /\ live' = [live EXCEPT ![FirstStaged] = "none"]
    /\ staged' = staged \ {FirstStaged}

DiscardNext == staged' = staged \ {FirstStaged} /\ UNCHANGED live

\* The rows of the audit table.
Recorded(o, kind) == \E i \in 1..Len(audit) : audit[i].op = o
                                              /\ audit[i].kind = kind
Record(o, kind, tables) ==
    audit' = Append(audit, [op |-> o, kind |-> kind, tables |-> tables])

------------------------------------------------------------------------------
(* The writer: apply_schema. *)

BeginApply ==
    /\ proc.pc = "idle" /\ ops < MaxOps
    /\ ops' = ops + 1
    /\ proc' = [Step("sweep") EXCEPT !.then = "lock"]
    /\ UNCHANGED <<live, staged, store, litter, manifest, lineage, sidecar,
                   lock, audit, cleared, wrote, faults, foreign>>

AcquireLock ==
    /\ proc.pc = "lock"
    /\ IF lock \/ ~ContractValid
       THEN proc' = Idle /\ UNCHANGED lock
       ELSE proc' = Step("plan") /\ lock' = TRUE
    /\ UNCHANGED <<live, staged, store, litter, manifest, lineage, sidecar,
                   audit, cleared, wrote, ops, faults, foreign>>

\* An empty plan ends here: the migration is already accepted.
PlanApply ==
    /\ proc.pc = "plan"
    /\ proc' = IF live["state"] = "new" THEN Step("release")
               ELSE [Step("arm") EXCEPT !.head = Len(lineage)]
    /\ UNCHANGED <<live, staged, store, litter, manifest, lineage, sidecar,
                   lock, audit, cleared, wrote, ops, faults, foreign>>

\* Under all gates: nothing pending, the captured authority still current,
\* every dataset at its pin, no dataset where a table is to be created.
ArmAllowed ==
    /\ sidecar = NoSidecar
    /\ Len(lineage) = proc.head
    /\ live["state"] = "old"
    /\ \A t \in Existing : HeadOf(t) = manifest[t].pin
    /\ \A t \in Added : store[t] = <<>> /\ t \notin litter

\* Every transaction is minted before arming, at its table's pin; a table to
\* be created is planned at version zero.
PlannedPins == [t \in Tables |-> manifest[t].pin]

Arm ==
    /\ proc.pc = "arm"
    /\ IF ArmAllowed
       THEN /\ sidecar' = [op |-> ops, phase |-> "Armed", head |-> proc.head,
                           pins |-> PlannedPins,
                           plan |-> FALSE, outcomes |-> {}]
            /\ proc' = [Step("create") EXCEPT !.todo = Added]
       ELSE proc' = Step("release") /\ UNCHANGED sidecar
    /\ UNCHANGED <<live, staged, store, litter, manifest, lineage, lock, audit,
                   cleared, wrote, ops, faults, foreign>>

\* First-touch tables: data files, then a create that only wins on an absent
\* dataset.
StageCreate(t) ==
    /\ proc.pc = "create" /\ t \in proc.todo /\ t \notin litter
    /\ litter' = litter \cup {t}
    /\ UNCHANGED <<live, staged, store, manifest, lineage, sidecar, lock,
                   audit, proc, cleared, wrote, ops, faults, foreign>>

\* Mutant: a dataset that is already there counts as created.
CommitCreateAdopts(t) ==
    /\ proc.pc = "create" /\ t \in proc.todo /\ t \in litter
    /\ store' = IF store[t] = <<>>
                THEN [store EXCEPT ![t] = <<Commit(ops)>>] ELSE store
    /\ wrote' = [wrote EXCEPT ![ops] = @ \cup {t}]
    /\ proc' = [proc EXCEPT !.todo = @ \ {t}]
    /\ UNCHANGED <<live, staged, litter, manifest, lineage, sidecar, lock,
                   audit, cleared, ops, faults, foreign>>

CommitCreate(t) ==
    /\ proc.pc = "create" /\ t \in proc.todo /\ t \in litter
    /\ IF store[t] = <<>>
       THEN /\ store' = [store EXCEPT ![t] = <<Commit(ops)>>]
            /\ wrote' = [wrote EXCEPT ![ops] = @ \cup {t}]
            /\ proc' = [proc EXCEPT !.todo = @ \ {t}]
       ELSE proc' = Step("release") /\ UNCHANGED <<store, wrote>>
    /\ UNCHANGED <<live, staged, litter, manifest, lineage, sidecar, lock,
                   audit, cleared, ops, faults, foreign>>

BeginRewrites ==
    /\ proc.pc = "create" /\ proc.todo = {}
    /\ proc' = [Step("rewrite") EXCEPT !.todo = Rewritten]
    /\ UNCHANGED <<live, staged, store, litter, manifest, lineage, sidecar,
                   lock, audit, cleared, wrote, ops, faults, foreign>>

\* commit_staged_exact has no retry budget: a moved head is a conflict.
CommitRewrite(t) ==
    /\ proc.pc = "rewrite" /\ t \in proc.todo
    /\ IF HeadOf(t) = sidecar.pins[t]
       THEN /\ store' = [store EXCEPT ![t] = Append(@, Commit(ops))]
            /\ wrote' = [wrote EXCEPT ![ops] = @ \cup {t}]
            /\ proc' = [proc EXCEPT !.todo = @ \ {t}]
       ELSE proc' = Step("release") /\ UNCHANGED <<store, wrote>>
    /\ UNCHANGED <<live, staged, litter, manifest, lineage, sidecar, lock,
                   audit, cleared, ops, faults, foreign>>

StageFile ==
    /\ proc.pc = "rewrite" /\ proc.todo = {} /\ staged # Files
    /\ staged' = staged \cup
          {IF "source" \notin staged THEN "source"
           ELSE IF "ir" \notin staged THEN "ir" ELSE "state"}
    /\ UNCHANGED <<live, store, litter, manifest, lineage, sidecar, lock,
                   audit, proc, cleared, wrote, ops, faults, foreign>>

Confirm ==
    /\ proc.pc = "rewrite" /\ proc.todo = {} /\ staged = Files
    /\ sidecar' = [sidecar EXCEPT !.phase = "EffectsConfirmed"]
    /\ proc' = Step("publish")
    /\ UNCHANGED <<live, staged, store, litter, manifest, lineage, lock, audit,
                   cleared, wrote, ops, faults, foreign>>

\* Mutant: a refused publish is taken for a successful one.
PublishIgnored ==
    /\ proc.pc = "publish"
    /\ IF ForwardAllowed(sidecar) THEN PublishForward(sidecar)
       ELSE UNCHANGED <<manifest, lineage>>
    /\ proc' = Step("promote")
    /\ UNCHANGED <<live, staged, store, litter, sidecar, lock, audit, cleared,
                   wrote, ops, faults, foreign>>

Publish ==
    /\ proc.pc = "publish"
    /\ IF ForwardAllowed(sidecar)
       THEN PublishForward(sidecar) /\ proc' = Step("promote")
       ELSE proc' = Step("release") /\ UNCHANGED <<manifest, lineage>>
    /\ UNCHANGED <<live, staged, store, litter, sidecar, lock, audit, cleared,
                   wrote, ops, faults, foreign>>

Promote ==
    /\ proc.pc = "promote"
    /\ IF staged # {} THEN RenameNext /\ UNCHANGED proc
       ELSE proc' = Step("retire") /\ UNCHANGED <<live, staged>>
    /\ UNCHANGED <<store, litter, manifest, lineage, sidecar, lock, audit,
                   cleared, wrote, ops, faults, foreign>>

\* Deleting the sidecar is best effort: the apply has succeeded either way.
Retire ==
    /\ proc.pc = "retire"
    /\ \/ sidecar' = NoSidecar /\ UNCHANGED faults
       \/ /\ faults < MaxFaults /\ faults' = faults + 1
          /\ UNCHANGED sidecar
    /\ proc' = Step("release")
    /\ UNCHANGED <<live, staged, store, litter, manifest, lineage, lock, audit,
                   cleared, wrote, ops, foreign>>

Release ==
    /\ proc.pc = "release"
    /\ lock' = FALSE /\ proc' = Idle
    /\ UNCHANGED <<live, staged, store, litter, manifest, lineage, sidecar,
                   audit, cleared, wrote, ops, faults, foreign>>

\* After arming, any failing call leaves the sidecar and releases the lock.
WriterFails ==
    /\ proc.pc \in {"create", "rewrite", "publish", "promote"}
    /\ faults < MaxFaults /\ faults' = faults + 1
    /\ proc' = Step("release")
    /\ UNCHANGED <<live, staged, store, litter, manifest, lineage, sidecar,
                   lock, audit, cleared, wrote, ops, foreign>>
------------------------------------------------------------------------------
(* Recovery: the full sweep of a read-write open, or the heal of a live      *)
(* process.                                                                  *)

Full == proc.mode = "full"
Failed == IF Full THEN Down ELSE Idle
Done == IF Full THEN [Down EXCEPT !.pc = "openread"]
        ELSE [Idle EXCEPT !.pc = proc.then]

\* The tables a manifest lists are those a schema declares.
KeysOf(schema) == MatchesSnapshot(schema)

\* Mutant: a promotion interrupted after its first file is taken for staging
\* of an apply that never committed.
PrePassNoPartial ==
    IF staged = {} \/ sidecar # NoSidecar THEN "sweep"
    ELSE IF "source" \notin staged \/ KeysOf("old") THEN "pre_clean"
    ELSE "pre_rename"

\* recover_schema_state_files: staging without a sidecar is settled by the
\* manifest's table set; staging an exact sidecar owns is left to the sweep.
PrePass ==
    LET at(f) == IF f \in staged THEN "new" ELSE live[f] IN
    IF staged = {} \/ sidecar # NoSidecar THEN "sweep"
    ELSE IF "source" \notin staged
         THEN IF at("ir") = at("state") /\ at("state") = live["source"]
              THEN "pre_rename" ELSE "fail"
    ELSE IF live["source"] = "new" THEN "pre_clean"
    ELSE IF Added \cup Dropped \cup Renamed = {} THEN "fail"
    ELSE IF KeysOf("old") THEN "pre_clean"
    ELSE IF KeysOf("new") THEN "pre_rename" ELSE "fail"

Open ==
    /\ proc.pc = "down"
    /\ proc' = IF PrePass = "fail" THEN Down ELSE Step(PrePass)
    /\ UNCHANGED <<live, staged, store, litter, manifest, lineage, sidecar,
                   lock, audit, cleared, wrote, ops, faults, foreign>>

FinishPrePass ==
    /\ proc.pc \in {"pre_rename", "pre_clean"}
    /\ IF staged = {} THEN proc' = Step("sweep") /\ UNCHANGED <<live, staged>>
       ELSE /\ IF proc.pc = "pre_rename" THEN RenameNext ELSE DiscardNext
            /\ UNCHANGED proc
    /\ UNCHANGED <<store, litter, manifest, lineage, sidecar, lock, audit,
                   cleared, wrote, ops, faults, foreign>>

\* Refresh and every write entry heal first.
Heal ==
    /\ proc.pc = "idle" /\ sidecar # NoSidecar
    /\ proc' = [Step("sweep") EXCEPT !.then = "idle"]
    /\ UNCHANGED <<live, staged, store, litter, manifest, lineage, sidecar,
                   lock, audit, cleared, wrote, ops, faults, foreign>>

\* Mutants: a visible rollback is not looked for; the full sweep leaves an armed intent.
DecisionBlind(s, st) ==
    IF Visible("original", s.op) THEN "fin_promote"
    ELSE IF Unsafe(s, st) THEN IF Full THEN "fail" ELSE "done"
    ELSE IF s.phase = "Armed" \/ AuthorityChanged(s) \/ ~AllConfirmed(st)
         THEN IF Full THEN "rb_plan" ELSE "done"
    ELSE "rf_publish"
DecisionDefers(s, st) ==
    IF Visible("original", s.op) THEN "fin_promote"
    ELSE IF Visible("rollback", s.op) THEN "fin_discard"
    ELSE IF s.phase = "Armed" \/ ~AllConfirmed(st) THEN "done"
    ELSE "rf_publish"

\* process_schema_apply_sidecar_v7, up to its first durable step.
Decision(s, st) ==
    LET original == Visible("original", s.op)
        undone   == Visible("rollback", s.op)
    IN
    IF original /\ (undone \/ s.phase = "Armed") THEN "fail"
    ELSE IF original THEN "fin_promote"
    ELSE IF undone THEN "fin_discard"
    ELSE IF \E t \in Pinned \cap Renamed : manifest[t].alias # "old" THEN "fail"
    ELSE IF Unsafe(s, st) THEN IF Full THEN "fail" ELSE "done"
    ELSE IF ~ContractValid THEN "fail"
    ELSE IF \/ s.plan \/ s.phase = "Armed" \/ AuthorityChanged(s)
            \/ ~AllConfirmed(st)
         THEN IF Full THEN "rb_plan" ELSE "done"
    ELSE IF StagingIsTarget THEN "rf_publish" ELSE "fail"

Sweep ==
    /\ proc.pc = "sweep"
    /\ IF sidecar = NoSidecar THEN proc' = Done
       ELSE LET st == States(sidecar)  d == Decision(sidecar, st) IN
            proc' = CASE d = "fail" -> Failed
                      [] d = "done" -> Done
                      [] OTHER -> [Step(d) EXCEPT !.states = st]
    /\ UNCHANGED <<live, staged, store, litter, manifest, lineage, sidecar,
                   lock, audit, cleared, wrote, ops, faults, foreign>>

\* The audit outcomes are made durable before the first destructive step.
Owned(st, t) == st[t].own \in {"OwnAtHead", "OwnCompensated"}

\* Mutant: every pass recomputes the outcomes.
PlanRollbackAgain ==
    /\ proc.pc = "rb_plan"
    /\ sidecar' = [sidecar EXCEPT !.plan = TRUE, !.outcomes =
                      {t \in Pinned : Owned(proc.states, t)}]
    /\ proc' = [Step("rb_touch") EXCEPT !.todo = Added]
    /\ UNCHANGED <<live, staged, store, litter, manifest, lineage, lock, audit,
                   cleared, wrote, ops, faults, foreign>>

PlanRollback ==
    /\ proc.pc = "rb_plan"
    /\ sidecar' = IF sidecar.plan THEN sidecar
                  ELSE [sidecar EXCEPT !.plan = TRUE, !.outcomes =
                          {t \in Pinned : /\ Owned(proc.states, t)
                                          /\ proc.states[t].class \notin
                                               {"NoMovement",
                                                "InvariantViolation"}}]
    /\ proc' = [Step("rb_touch") EXCEPT !.todo = Added]
    /\ UNCHANGED <<live, staged, store, litter, manifest, lineage, lock, audit,
                   cleared, wrote, ops, faults, foreign>>

\* Mutant: whatever is at a first-touch path is deleted.
MayDeleteAny(st, t) == st[t].own \in {"OwnAtHead", "None"}

\* A first-touch dataset has no version to restore.  Only this attempt's own
\* version one, or files that never became a dataset, are deleted; another
\* creator's dataset stays.
MayDelete(st, t) ==
    \/ st[t].own = "OwnAtHead" /\ st[t].head = 1
    \/ st[t].own = "None" /\ st[t].head = 0

\* Mutant: first-touch datasets are left where they are.
UndoCreateNothing(t) ==
    /\ proc.pc = "rb_touch" /\ t \in proc.todo
    /\ proc' = [proc EXCEPT !.todo = @ \ {t}]
    /\ UNCHANGED <<live, staged, store, litter, manifest, lineage, sidecar,
                   lock, audit, cleared, wrote, ops, faults, foreign>>

UndoCreate(t) ==
    /\ proc.pc = "rb_touch" /\ t \in proc.todo
    /\ IF manifest[t] # Absent \/ (Owned(proc.states, t)
                                   /\ ~MayDelete(proc.states, t))
       THEN proc' = Failed /\ UNCHANGED <<store, litter>>
       ELSE /\ proc' = [proc EXCEPT !.todo = @ \ {t}]
            /\ IF MayDelete(proc.states, t)
               THEN /\ store' = [store EXCEPT ![t] = <<>>]
                    /\ litter' = litter \ {t}
               ELSE UNCHANGED <<store, litter>>
    /\ UNCHANGED <<live, staged, manifest, lineage, sidecar, lock, audit,
                   cleared, wrote, ops, faults, foreign>>

\* Mutant: the head is republished without a restore.
BeginRestoresNone ==
    /\ proc.pc = "rb_touch" /\ proc.todo = {}
    /\ proc' = [Step("rb_restore") EXCEPT !.todo = {}]
    /\ UNCHANGED <<live, staged, store, litter, manifest, lineage, sidecar,
                   lock, audit, cleared, wrote, ops, faults, foreign>>

BeginRestores ==
    /\ proc.pc = "rb_touch" /\ proc.todo = {}
    /\ proc' = [Step("rb_restore") EXCEPT
                   !.todo = {t \in Rewritten : proc.states[t].own = "OwnAtHead"}]
    /\ UNCHANGED <<live, staged, store, litter, manifest, lineage, sidecar,
                   lock, audit, cleared, wrote, ops, faults, foreign>>

Restore(t) ==
    /\ proc.pc = "rb_restore" /\ t \in proc.todo
    /\ store' = [store EXCEPT ![t] = Append(@, RestoreOf(proc.states[t].pin))]
    /\ proc' = [proc EXCEPT !.todo = @ \ {t}]
    /\ UNCHANGED <<live, staged, litter, manifest, lineage, sidecar, lock,
                   audit, cleared, wrote, ops, faults, foreign>>

\* Mutant: the rollback keeps the staging files.
DiscardNothing ==
    /\ \/ proc.pc = "rb_restore" /\ proc.todo = {}
       \/ proc.pc = "fin_discard"
    /\ proc' = Step(IF proc.pc = "rb_restore" THEN "rb_publish" ELSE "fin_audit")
    /\ UNCHANGED <<live, staged, store, litter, manifest, lineage, sidecar,
                   lock, audit, cleared, wrote, ops, faults, foreign>>

\* discard_exact_schema_staging, on the way to the rollback commit or when it
\* is already visible.
Discard ==
    /\ \/ proc.pc = "rb_restore" /\ proc.todo = {}
       \/ proc.pc = "fin_discard"
    /\ IF live["state"] # "old" THEN proc' = Failed /\ UNCHANGED <<live, staged>>
       ELSE IF staged # {} THEN DiscardNext /\ UNCHANGED proc
       ELSE /\ proc' = IF proc.pc = "rb_restore" THEN Step("rb_publish")
                       ELSE IF sidecar.plan THEN Step("fin_audit") ELSE Failed
            /\ UNCHANGED <<live, staged>>
    /\ UNCHANGED <<store, litter, manifest, lineage, sidecar, lock, audit,
                   cleared, wrote, ops, faults, foreign>>

PublishRollback ==
    LET undo == {t \in Rewritten : Owned(proc.states, t)} IN
    /\ proc.pc = "rb_publish"
    /\ IF \A t \in undo : manifest[t] = [pin |-> proc.states[t].pin,
                                         alias |-> "old"]
       THEN /\ manifest' = [t \in Tables |->
                  IF t \in undo THEN [manifest[t] EXCEPT !.pin = HeadOf(t)]
                  ELSE manifest[t]]
            /\ lineage' = Append(lineage, <<"rollback", sidecar.op>>)
            /\ proc' = Step("rb_audit")
       ELSE proc' = Failed /\ UNCHANGED <<manifest, lineage>>
    /\ UNCHANGED <<live, staged, store, litter, sidecar, lock, audit, cleared,
                   wrote, ops, faults, foreign>>

\* A lost race for the graph head is rolled back by the full sweep and left
\* alone by the heal.
RollForward ==
    /\ proc.pc = "rf_publish"
    /\ IF ForwardAllowed(sidecar)
       THEN PublishForward(sidecar) /\ proc' = Step("rf_promote")
       ELSE /\ proc' = IF Full THEN Step("rb_plan") ELSE Done
            /\ UNCHANGED <<manifest, lineage>>
    /\ UNCHANGED <<live, staged, store, litter, sidecar, lock, audit, cleared,
                   wrote, ops, faults, foreign>>

PromoteRecovered ==
    /\ proc.pc \in {"rf_promote", "fin_promote"}
    /\ IF ~StagingIsTarget THEN proc' = Failed /\ UNCHANGED <<live, staged>>
       ELSE IF staged # {} THEN RenameNext /\ UNCHANGED proc
       ELSE /\ proc' = Step(IF proc.pc = "rf_promote" THEN "rf_audit"
                            ELSE "fin_audit")
            /\ UNCHANGED <<live, staged>>
    /\ UNCHANGED <<store, litter, manifest, lineage, sidecar, lock, audit,
                   cleared, wrote, ops, faults, foreign>>

RecordOutcome ==
    /\ proc.pc \in {"rb_audit", "rf_audit", "fin_audit"}
    /\ LET forward == Visible("original", sidecar.op)
           kind == IF forward THEN "RolledForward" ELSE "RolledBack"
       IN IF proc.pc = "fin_audit" /\ Recorded(sidecar.op, kind)
          THEN UNCHANGED audit
          ELSE Record(sidecar.op, kind,
                      IF forward THEN Pinned ELSE sidecar.outcomes)
    /\ proc' = Step("drop")
    /\ UNCHANGED <<live, staged, store, litter, manifest, lineage, sidecar,
                   lock, cleared, wrote, ops, faults, foreign>>

DropSidecar ==
    /\ proc.pc = "drop"
    /\ sidecar' = NoSidecar /\ proc' = Done
    /\ UNCHANGED <<live, staged, store, litter, manifest, lineage, lock, audit,
                   cleared, wrote, ops, faults, foreign>>

\* The open then reads the contract and checks it against the manifest.
OpenRead ==
    /\ proc.pc = "openread"
    /\ proc' = IF ContractValid /\ MatchesSnapshot(live["state"])
               THEN Idle ELSE Down
    /\ UNCHANGED <<live, staged, store, litter, manifest, lineage, sidecar,
                   lock, audit, cleared, wrote, ops, faults, foreign>>

\* Mutant: a read-only open does not look at the pending intent.
ReadOnlyOpensBlind == ContractValid /\ MatchesSnapshot(live["state"])

\* ensure_read_only_schema_coherent and the contract read of a read-only open.
ReadOnlyOpens ==
    /\ sidecar # NoSidecar =>
         live["state"] = IF Visible("original", sidecar.op)
                         THEN "new" ELSE "old"
    /\ ContractValid
    /\ MatchesSnapshot(live["state"])

Close ==
    /\ proc.pc = "idle" /\ proc' = Down
    /\ UNCHANGED <<live, staged, store, litter, manifest, lineage, sidecar,
                   lock, audit, cleared, wrote, ops, faults, foreign>>

Crash ==
    /\ proc.pc \notin {"down", "idle"}
    /\ faults < MaxFaults /\ faults' = faults + 1
    /\ proc' = Down
    /\ UNCHANGED <<live, staged, store, litter, manifest, lineage, sidecar,
                   lock, audit, cleared, wrote, ops, foreign>>
------------------------------------------------------------------------------
(* Writers of other processes. *)

Quiesced == Full /\ proc.pc # "down"

ForeignClear ==
    /\ foreign < MaxForeign /\ ~lock /\ ~cleared
    /\ cleared' = TRUE
    /\ UNCHANGED <<live, staged, store, litter, manifest, lineage, sidecar,
                   lock, audit, proc, wrote, ops, faults, foreign>>

Foreign ==
    /\ cleared /\ ~Quiesced /\ foreign < MaxForeign
    /\ foreign' = foreign + 1
    /\ UNCHANGED <<live, staged, litter, sidecar, lock, audit, proc, cleared,
                   wrote, ops, faults>>

\* A commit on tables the migration does not touch.
ForeignCommit ==
    /\ Foreign
    /\ lineage' = Append(lineage, <<"foreign", 0>>)
    /\ UNCHANGED <<store, manifest>>

\* A foreign transaction at the head of a table, later published or not.
ForeignEffect(t) ==
    /\ Foreign /\ store[t] # <<>> /\ manifest[t] # Absent
    /\ store' = [store EXCEPT ![t] = Append(@, Commit(-1))]
    /\ UNCHANGED <<manifest, lineage>>

ForeignPublish(t) ==
    /\ Foreign /\ manifest[t] # Absent /\ HeadOf(t) = manifest[t].pin + 1
    /\ store[t][HeadOf(t)].op = -1
    /\ manifest' = [manifest EXCEPT ![t].pin = HeadOf(t)]
    /\ lineage' = Append(lineage, <<"foreign", 0>>)
    /\ UNCHANGED store

ForeignCreate(t) ==
    /\ Foreign /\ store[t] = <<>>
    /\ store' = [store EXCEPT ![t] = <<Commit(-1)>>]
    /\ UNCHANGED <<manifest, lineage>>

Process ==
    \/ AcquireLock \/ PlanApply \/ Arm \/ BeginRewrites \/ StageFile \/ Confirm
    \/ Publish \/ Promote \/ Retire \/ Release
    \/ \E t \in Added : StageCreate(t) \/ CommitCreate(t) \/ UndoCreate(t)
    \/ \E t \in Rewritten : CommitRewrite(t) \/ Restore(t)
    \/ Open \/ FinishPrePass \/ Sweep \/ PlanRollback \/ BeginRestores
    \/ Discard \/ PublishRollback \/ RollForward \/ PromoteRecovered
    \/ RecordOutcome \/ DropSidecar \/ OpenRead

Next ==
    \/ Process \/ BeginApply \/ Heal \/ Close \/ Crash \/ WriterFails
    \/ ForeignClear \/ ForeignCommit
    \/ \E t \in Rewritten : ForeignEffect(t) \/ ForeignPublish(t)
    \/ \E t \in Added : ForeignCreate(t)

Spec == Init /\ [][Next]_vars

(* The process keeps running its steps, and after a failed apply someone    *)
(* reopens the graph, which is what the error asks for.                     *)
Reopen == sidecar # NoSidecar /\ Close

------------------------------------------------------------------------------
(* Properties. *)

Schemas == {"old", "new"}

\* Every variable has its type.
TypeOK ==
    /\ live \in [Files -> Schemas] /\ staged \subseteq Files
    /\ litter \subseteq Added /\ lock \in BOOLEAN /\ cleared \in BOOLEAN
    /\ \A t \in Tables :
        /\ manifest[t].pin \in Nat
        /\ manifest[t].alias \in Schemas \cup {"none"}
        /\ \A i \in 1..HeadOf(t) : store[t][i].op \in -1..LegacyOp
    /\ sidecar # NoSidecar =>
        /\ sidecar.op \in 1..MaxOps
        /\ sidecar.phase \in {"Armed", "EffectsConfirmed"}
        /\ sidecar.outcomes \subseteq Pinned
    /\ proc.mode \in {"full", "heal"} /\ proc.todo \subseteq Tables

\* The schema the data of a table's version is written in.
Shape(t) ==
    LET f[i \in 0..HeadOf(t)] ==
          IF i = 0 THEN "none"
          ELSE LET c == store[t][i] IN
               IF c.op > 0 THEN "new"
               ELSE IF c.restores > 0 THEN f[c.restores]
               ELSE IF c.op = 0 THEN "old" ELSE f[i - 1]
    IN f

\* The accepted contract, the manifest's tables and aliases and the data of
\* every rewritten table belong to one schema.
Coherent ==
    /\ ContractValid /\ MatchesSnapshot(live["state"])
    /\ \A t \in Rewritten : Shape(t)[manifest[t].pin] = live["state"]

\* Whenever the process is open for work and no intent is pending, the three
\* files, the manifest and the data agree (the pairing that
\* promote_exact_schema_staging, discard_exact_schema_staging and the two
\* manifest commits are ordered to keep).
CoherentAtRest == proc.pc = "idle" /\ sidecar = NoSidecar => Coherent

\* A read-only open, which repairs nothing, never serves the new manifest with
\* the old contract or the reverse (ensure_read_only_schema_coherent).
ReadOnlyCoherent ==
    proc.pc \in {"down", "idle"} /\ ReadOnlyOpens => Coherent

\* Staging files always have an intent that owns them, so the table-set
\* comparison of recover_schema_state_files, which gives up on property-only
\* migrations, is never needed for an apply that wrote a sidecar.
StagingCovered == ops > 0 /\ staged # {} => sidecar # NoSidecar

\* An attempt is published or rolled back, never both, and never twice
\* (the fixed commit ids of detect_visible_v7_outcome).
OneOutcome ==
    \A o \in 1..MaxOps :
        Cardinality({i \in 1..Len(lineage) :
            lineage[i] \in {<<"original", o>>, <<"rollback", o>>}}) <= 1

\* No attempt leaves a dataset or files behind once its rollback is complete,
\* so a retry finds the path free unless somebody else created it
\* (roll_back_schema_apply_v7 deletes before it publishes).
NothingLeftBehind ==
    \A o \in 1..MaxOps :
        Visible("rollback", o) =>
            \A t \in Added : \A i \in 1..HeadOf(t) : store[t][i].op # o

\* Manifest entries only point at versions that exist, and an attempt's data
\* is visible only if its commit is.
PinsExact ==
    \A t \in Tables : manifest[t] # Absent =>
        /\ manifest[t].pin <= HeadOf(t)
        /\ LET o == store[t][manifest[t].pin].op IN
           o \in 1..MaxOps => Visible("original", o)

\* Recovery records each attempt once, under the outcome that is visible, and
\* a rollback's row names exactly the tables the attempt had moved, however
\* often the rollback itself was interrupted (prepare_fixed_rollback_audit_plan
\* is durable before the first deletion).
AuditExact ==
    \A i \in 1..Len(audit) :
        LET r == audit[i] IN
        /\ \A j \in 1..Len(audit) : audit[j].op = r.op => i = j
        /\ IF r.kind = "RolledForward" THEN Visible("original", r.op)
           ELSE Visible("rollback", r.op) /\ r.tables = wrote[r.op]

\* Nothing this process does removes or covers a foreign commit that arrived
\* after the intent was armed: not the writer's exact commits, not a restore,
\* not the deletion of a first-touch dataset.
ForeignKept ==
    \A t \in Pinned :
       /\ sidecar # NoSidecar /\ HeadOf(t) > 0
       /\ HeadOf(t) > sidecar.pins[t] /\ store[t][HeadOf(t)].op = -1
       /\ store'[t] # store[t]
       => Len(store'[t]) = HeadOf(t) + 1
          /\ store'[t][HeadOf(t) + 1].op = -1

\* When nothing is staged and nothing is pending, the three live files are one
\* contract: whatever the pre-pass of an open does with leftover staging files,
\* it does not throw away the half of the contract that is still staged
\* (recover_schema_state_files).
NoTornContract == staged = {} /\ sidecar = NoSidecar => ContractValid

NoIntent == sidecar = NoSidecar

\* A graph that has been reopened and has nothing to recover accepts writes:
\* every write refuses while the lock branch exists.
RecoveredGraphIsWritable ==
    proc.pc = "idle" /\ sidecar = NoSidecar => ~lock
=============================================================================
