------------------------------ MODULE WritePath ------------------------------
(***************************************************************************)
(* The mutation / load write protocol of one graph branch, with process    *)
(* crashes, failing storage calls, the live roll-forward healer and the    *)
(* open-time Full recovery sweep.                                          *)
(*                                                                         *)
(* Durable state: one Lance history per table (log, ref), the graph        *)
(* manifest (pin, owned, lineage), the recovery sidecars (sc, plan,        *)
(* scPlan) and the recovery audit table (audit).  Volatile state: the      *)
(* tasks of each process and the process-local write gates.                *)
(*                                                                         *)
(* Every mutating task takes the schema gate before any other gate, so in  *)
(* one process the gate set of commit_all, of the healer and of the open   *)
(* sweep behaves as one mutex, and is one variable here.                   *)
(***************************************************************************)
EXTENDS Naturals, Sequences, FiniteSets

CONSTANTS
    Procs,           \* processes that have the graph open
    Tasks,           \* concurrent requests and opens
    ProcOf,          \* the process a task runs in
    Tables,          \* node and edge tables of the branch
    ForkTables,      \* tables the branch still inherits (first-touch forks)
    Kinds,           \* request kinds, a subset of {"insert", "strict", "cas"}
    NoTask,          \* "the gate is free"
    MaxRequests,     \* bound: write requests of a behaviour
    MaxReprepares,   \* MAX_PRE_EFFECT_REPREPARES (32 in the code)
    MaxCrashes,      \* bound: process crashes
    MaxFaults        \* bound: storage calls that return an error

ASSUME ConstantsAssumption ==
    /\ ProcOf \in [Tasks -> Procs]
    /\ ForkTables \subseteq Tables
    /\ Kinds \subseteq {"insert", "strict", "cas"}
    /\ NoTask \notin Tasks
    /\ MaxRequests \in Nat /\ MaxReprepares \in Nat
    /\ MaxCrashes \in Nat /\ MaxFaults \in Nat

\* Operation ids: one per attempt that reaches the sidecar, in ULID order.
MaxOps == MaxRequests * (MaxReprepares + 1)
Ops == 1..MaxOps

\* Graph commit ids.  Both ids of an operation are fixed when it is armed.
Genesis == [kind |-> "genesis", op |-> 0]
CommitId(o) == [kind |-> "commit", op |-> o]
RollbackId(o) == [kind |-> "rollback", op |-> o]
Ids == [kind : {"genesis", "commit", "rollback"}, op : 0..MaxOps]

\* A Lance version: the operation whose transaction made it (0 when none of
\* ours did), the version a Restore copied (0 for data), and its contents as
\* the set of operations whose rows it holds.
Version == [op : 0..MaxOps, restore : Nat, rows : SUBSET Ops]
FirstVersion == [op |-> 0, restore |-> 0, rows |-> {}]

\* The immutable part of a prepared attempt: authority token (graph head),
\* pinned table versions, touched tables, the touched tables that need a
\* first-touch fork, and the caller's expected head when it gave one.
NoHead == [kind |-> "none", op |-> 0]
Plan == [head : Ids, pins : [Tables -> Nat], tabs : SUBSET Tables,
         forks : SUBSET Tables, want : Ids \cup {NoHead}]
NoPlan == [head |-> Genesis, pins |-> [t \in Tables |-> 1], tabs |-> {},
           forks |-> {}, want |-> NoHead]

\* Task locals: the request being served, and the recovery pass or the
\* operation in hand.
Request == [kind : {"insert", "strict", "cas"}, tries : 0..MaxReprepares, base : Plan]
Job == [mode : {"Full", "RollForwardOnly"}, op : 0..MaxOps, todo : SUBSET Ops,
        left : SUBSET Tables, blocked : BOOLEAN]
NoReq == [kind |-> "strict", tries |-> 0, base |-> NoPlan]
NoJob == [mode |-> "Full", op |-> 0, todo |-> {}, left |-> {}, blocked |-> FALSE]

VARIABLES
    log,      \* Lance versions of each table on this branch's ref
    ref,      \* whether the branch's own ref of the table exists
    pin,      \* manifest: the table version the branch head selects
    owned,    \* manifest: the entry names the branch's own ref
    lineage,  \* manifest: graph commit ids, oldest first
    plan,     \* immutable sidecar body of each armed operation
    sc,       \* sidecar file: "none", "Armed" or "EffectsConfirmed"
    scPlan,   \* the sidecar carries its rollback audit outcomes
    audit,    \* rows of _graph_commit_recoveries per operation and kind
    pc, req, job,          \* per task: control point, request, recovery job
    gate,     \* per process: the task that holds the write gates
    up,       \* per process: it has an open read-write handle
    result,   \* what the caller of an operation was told
    nextOp, requests, crashes, faults

table == <<log, ref>>
manifest == <<pin, owned, lineage>>
sidecars == <<plan, sc, scPlan, audit>>
control == <<up, nextOp, requests, crashes>>
vars == <<log, ref, pin, owned, lineage, plan, sc, scPlan, audit, pc, req,
          job, gate, up, result, nextOp, requests, crashes, faults>>

GraphHead == lineage[Len(lineage)]
Published == {lineage[i] : i \in DOMAIN lineage}
Committed == {o \in Ops : CommitId(o) \in Published}
Pending == {o \in Ops : sc[o] # "none"}

Init ==
    /\ log = [t \in Tables |-> <<FirstVersion>>]
    /\ ref = [t \in Tables |-> t \notin ForkTables]
    /\ pin = [t \in Tables |-> 1]
    /\ owned = [t \in Tables |-> t \notin ForkTables]
    /\ lineage = <<Genesis>>
    /\ plan = [o \in Ops |-> NoPlan]
    /\ sc = [o \in Ops |-> "none"]
    /\ scPlan = [o \in Ops |-> FALSE]
    /\ audit = [o \in Ops |-> [a \in {"RolledForward", "RolledBack"} |-> 0]]
    /\ pc = [k \in Tasks |-> "idle"]
    /\ req = [k \in Tasks |-> NoReq]
    /\ job = [k \in Tasks |-> NoJob]
    /\ gate = [p \in Procs |-> NoTask]
    /\ up = [p \in Procs |-> TRUE]
    /\ result = [o \in Ops |-> "none"]
    /\ nextOp = 1 /\ requests = 0 /\ crashes = 0 /\ faults = 0

-----------------------------------------------------------------------------
\* Helpers shared by the actions.

Goto(k, p) == pc' = [pc EXCEPT ![k] = p]

\* Dropping the guards: only the holder's process gate changes.
Release(k) == gate' = [gate EXCEPT ![ProcOf[k]] = IF @ = k THEN NoTask ELSE @]

\* The task goes on with everything it holds, or ends: its answer is out,
\* its locals and its guards are dropped.
Advance(k, p) == Goto(k, p) /\ UNCHANGED <<gate, req, job>>
Leave(k) ==
    /\ Goto(k, "idle") /\ Release(k)
    /\ req' = [req EXCEPT ![k] = NoReq]
    /\ job' = [job EXCEPT ![k] = NoJob]

\* A storage call succeeds, fails with no effect, or fails after its effect
\* became durable (the answer was lost).
IoResults == {"ok", "lost", "landed"}
Io(r) ==
    /\ r = "ok" \/ faults < MaxFaults
    /\ faults' = IF r = "ok" THEN faults ELSE faults + 1

Reply(o, answer) == result' = [result EXCEPT ![o] = answer]

\* Full recovery is supported only while no other process works on the graph.
Sweeping(k) == pc[k] # "idle" /\ job[k].mode = "Full"
ForeignIdle(k) ==
    \A j \in Tasks : ProcOf[j] # ProcOf[k] => pc[j] = "idle"
NoForeignSweep(k) ==
    \A j \in Tasks : ProcOf[j] # ProcOf[k] => ~Sweeping(j)

-----------------------------------------------------------------------------
\* What recovery observes of operation o on table t.

Top(t) == log[t][Len(log[t])]

\* The versions past the pinned one that o's planned transaction made.
OwnVersions(o, t) ==
    {v \in (plan[o].pins[t] + 1)..Len(log[t]) : log[t][v].op = o}

OwnAtHead(o, t) == Len(log[t]) \in OwnVersions(o, t)

\* A previous sweep restored the table and died before it published that.
OwnCompensatedAtHead(o, t) ==
    /\ OwnVersions(o, t) # {}
    /\ ~OwnAtHead(o, t)
    /\ Top(t).restore = pin[t]

OwnBeforeHead(o, t) ==
    /\ OwnVersions(o, t) # {}
    /\ ~OwnAtHead(o, t)
    /\ ~OwnCompensatedAtHead(o, t)

Compensable(o) ==
    {t \in plan[o].tabs : OwnAtHead(o, t) \/ OwnCompensatedAtHead(o, t)}

\* Mutated: an operation counts as applied only when every table has its effect.
EveryOwnEffect(o) == \A t \in plan[o].tabs : OwnVersions(o, t) # {}

AnyOwnEffect(o) == \E t \in plan[o].tabs : OwnVersions(o, t) # {}

\* The manifest moved under an owned effect, other than to a winner that our
\* rebased transaction landed on top of.
AmbiguousAdvance(o, t) ==
    /\ OwnVersions(o, t) # {}
    /\ pin[t] # plan[o].pins[t]
    /\ ~(t \in Compensable(o) /\ pin[t] > plan[o].pins[t] /\ pin[t] < Len(log[t]))

ForeignDrift(o, t) == OwnVersions(o, t) = {} /\ Len(log[t]) > pin[t]

Interleaved(o) == \E t \in plan[o].tabs :
    OwnBeforeHead(o, t) \/ AmbiguousAdvance(o, t) \/ ForeignDrift(o, t)

\* Mutated: the expected HEAD is off by one.
RolledPastByTwo(o, t) ==
    /\ sc[o] = "EffectsConfirmed"
    /\ pin[t] = plan[o].pins[t]
    /\ Len(log[t]) = plan[o].pins[t] + 2
    /\ Top(t).op = o

\* TableClassification::RolledPastExpected under ExactEffect.
RolledPastExpected(o, t) ==
    /\ sc[o] = "EffectsConfirmed"
    /\ pin[t] = plan[o].pins[t]
    /\ Len(log[t]) = plan[o].pins[t] + 1
    /\ Top(t).op = o

UnpublishedForks(o) == {t \in plan[o].tabs : ~owned[t]}

\* process_sidecar for a Mutation / Load sidecar, read under the gates.
Verdict(o, mode) ==
    LET visibleCommit == CommitId(o) \in Published
        visibleRollback == RollbackId(o) \in Published
        live == mode = "RollForwardOnly"
    IN CASE sc[o] = "none" -> "gone"
         [] sc[o] # "none" /\ visibleCommit /\ visibleRollback -> "error"
         [] sc[o] # "none" /\ visibleCommit /\ ~visibleRollback -> "committed"
         [] sc[o] # "none" /\ ~visibleCommit /\ visibleRollback ->
              IF scPlan[o] THEN "rolledBack" ELSE "error"
         [] OTHER ->
              IF ~AnyOwnEffect(o)
              THEN IF live /\ (sc[o] = "Armed" \/ UnpublishedForks(o) # {})
                   THEN "defer" ELSE "abandon"
              ELSE IF Interleaved(o) THEN IF live THEN "defer" ELSE "error"
              ELSE IF GraphHead = plan[o].head
                      /\ \A t \in plan[o].tabs : RolledPastExpected(o, t)
                   THEN "rollForward"
              ELSE IF live THEN "defer" ELSE "rollBack"

\* Mutated: only a confirmed sidecar claims its tables.
ClaimedByConfirmed(o, t) == \E other \in Pending \ {o} :
    t \in plan[other].tabs /\ sc[other] = "EffectsConfirmed"

\* No-effect first-touch forks of o that no other sidecar claims.
Claimed(o, t) == \E other \in Pending \ {o} : t \in plan[other].tabs
Reclaimable(o) ==
    {t \in UnpublishedForks(o) : OwnVersions(o, t) = {} /\ ~Claimed(o, t)}
CleanForks(o) == \A t \in Reclaimable(o) : Len(log[t]) = plan[o].pins[t]

\* Mutated: the unpublished forks are left in place.
KeepForks(o) == Reclaimable(o) \subseteq Tables /\ UNCHANGED <<log, ref>>

ReclaimForks(o) ==
    /\ ref' = [t \in Tables |-> ref[t] /\ t \notin Reclaimable(o)]
    /\ UNCHANGED log

\* One manifest publish: move the pins of tabs to the given versions and
\* append id.
PublishManifest(tabs, at, id) ==
    /\ pin' = [t \in Tables |-> IF t \in tabs THEN at[t] ELSE pin[t]]
    /\ owned' = [t \in Tables |-> owned[t] \/ t \in tabs]
    /\ lineage' = Append(lineage, id)

-----------------------------------------------------------------------------
\* Entry points.

\* A write request: mutate_with_current_actor starts its first attempt.  A
\* conditional request carries the graph head its caller last saw.
BeginWrite(k) ==
    /\ pc[k] = "idle" /\ up[ProcOf[k]] /\ NoForeignSweep(k)
    /\ requests < MaxRequests
    /\ \E kind \in Kinds :
         req' = [req EXCEPT ![k] =
                   [kind |-> kind, tries |-> 0,
                    base |-> [NoPlan EXCEPT !.want =
                                IF kind = "cas" THEN GraphHead ELSE NoHead]]]
    /\ job' = [job EXCEPT ![k].mode = "RollForwardOnly"]
    /\ requests' = requests + 1
    /\ Goto(k, "list")
    /\ UNCHANGED <<table, manifest, sidecars, gate, up, result, nextOp,
                   crashes, faults>>

\* A read-write open of any handle; it holds the schema gate for the whole
\* recovery pass.
BeginOpen(k) ==
    /\ pc[k] = "idle" /\ gate[ProcOf[k]] = NoTask /\ ForeignIdle(k)
    /\ gate' = [gate EXCEPT ![ProcOf[k]] = k]
    /\ job' = [job EXCEPT ![k].mode = "Full"]
    /\ Goto(k, "list")
    /\ UNCHANGED <<table, manifest, sidecars, req, control, result, faults>>

-----------------------------------------------------------------------------
\* The recovery pass: heal_pending_sidecars_roll_forward and
\* recover_manifest_drift share it, the mode tells them apart.

\* Mutated: only confirmed sidecars are listed.
ListConfirmed(k) ==
    /\ pc[k] = "list"
    /\ job' = [job EXCEPT ![k].todo = {o \in Pending : sc[o] = "EffectsConfirmed"},
                         ![k].blocked = FALSE]
    /\ Goto(k, "next")
    /\ UNCHANGED <<table, manifest, sidecars, req, gate, control, result, faults>>

ListSidecars(k) ==
    /\ pc[k] = "list"
    /\ job' = [job EXCEPT ![k].todo = Pending, ![k].blocked = FALSE]
    /\ Goto(k, "next")
    /\ UNCHANGED <<table, manifest, sidecars, req, gate, control, result, faults>>

\* Mutated: a processed sidecar stays on the list.
SameSidecar(k) ==
    /\ pc[k] = "next" /\ job[k].todo # {}
    /\ gate[ProcOf[k]] = IF job[k].mode = "Full" THEN k ELSE NoTask
    /\ gate' = [gate EXCEPT ![ProcOf[k]] = k]
    /\ \E o \in job[k].todo : job' = [job EXCEPT ![k].op = o]
    /\ Goto(k, "classify")
    /\ UNCHANGED <<table, manifest, sidecars, req, control, result, faults>>

\* Take the next listed sidecar in ULID order; the healer takes the gates for
\* each one, the sweep already holds them.
NextSidecar(k) ==
    /\ pc[k] = "next" /\ job[k].todo # {}
    /\ gate[ProcOf[k]] = IF job[k].mode = "Full" THEN k ELSE NoTask
    /\ gate' = [gate EXCEPT ![ProcOf[k]] = k]
    /\ \E o \in job[k].todo :
         /\ \A other \in job[k].todo : o <= other
         /\ job' = [job EXCEPT ![k].op = o, ![k].todo = @ \ {o}]
    /\ Goto(k, "classify")
    /\ UNCHANGED <<table, manifest, sidecars, req, control, result, faults>>

\* After one sidecar: the healer drops the gates, the sweep keeps them.
ToNext(k, unresolved) ==
    /\ Goto(k, "next")
    /\ IF job[k].mode = "Full" THEN UNCHANGED gate ELSE Release(k)
    /\ job' = [job EXCEPT ![k].blocked = @ \/ unresolved]
    /\ UNCHANGED req

\* A write blocks on an unresolved intent of its branch; an open installs its
\* handle.
FinishPass(k) ==
    /\ pc[k] = "next" /\ job[k].todo = {}
    /\ IF job[k].mode = "Full"
       THEN Leave(k) /\ up' = [up EXCEPT ![ProcOf[k]] = TRUE]
       ELSE /\ IF job[k].blocked THEN Leave(k) ELSE Advance(k, "prepare")
            /\ UNCHANGED up
    /\ UNCHANGED <<table, manifest, sidecars, result, nextOp, requests,
                   crashes, faults>>

\* Re-read the sidecar under the gates and decide what to do with it.
Classify(k) ==
    /\ pc[k] = "classify"
    /\ LET o == job[k].op
           v == Verdict(o, job[k].mode)
       IN \/ v \in {"gone", "defer"} /\ ToNext(k, v = "defer")
          \/ v = "error" /\ Leave(k)
          \/ v = "committed" /\ Advance(k, "auditCommitted")
          \/ v = "rolledBack" /\ Advance(k, "auditRolledBack")
          \/ v = "rollForward" /\ Advance(k, "rollForward")
          \/ /\ v = "abandon"
             /\ Advance(k, IF job[k].mode = "Full" THEN "reclaim" ELSE "unlink")
          \/ v = "rollBack" /\ Advance(k, "reclaim")
    /\ UNCHANGED <<table, manifest, sidecars, control, result, faults>>

\* Mutated: the publish compares the table versions and not the graph head.
PinsUnmoved(o) == \A t \in plan[o].tabs : pin[t] = plan[o].pins[t]

\* publish_recovery_commit with the original lineage and the sidecar's exact
\* graph head; on a lost race the fixed outcome may already be visible.
CanPublish(o) ==
    /\ GraphHead = plan[o].head
    /\ \A t \in plan[o].tabs : pin[t] = plan[o].pins[t]

\* The versions a commit selects, and those a rollback selects.
Effects(o) == [t \in Tables |-> plan[o].pins[t] + 1]
LiveHeads == [t \in Tables |-> Len(log[t])]

\* Mutated: the healer publishes what it classified without a precondition.
RollForwardUnchecked(k) ==
    /\ pc[k] = "rollForward"
    /\ LET o == job[k].op IN
       PublishManifest(plan[o].tabs, Effects(o), CommitId(o))
    /\ Advance(k, "auditForward")
    /\ UNCHANGED <<table, sidecars, control, result, faults>>

RollForward(k) ==
    /\ pc[k] = "rollForward"
    /\ LET o == job[k].op IN
       \/ /\ CanPublish(o)
          /\ \E r \in IoResults :
               /\ Io(r)
               /\ IF r = "lost" THEN UNCHANGED manifest
                  ELSE PublishManifest(plan[o].tabs, Effects(o), CommitId(o))
               /\ IF r = "ok" THEN Advance(k, "auditForward") ELSE Leave(k)
       \/ /\ ~CanPublish(o)
          /\ IF CommitId(o) \in Published
             THEN Advance(k, "auditCommitted") ELSE Leave(k)
          /\ UNCHANGED <<manifest, faults>>
    /\ UNCHANGED <<table, sidecars, control, result>>

\* Mutated: an outcome found already visible is audited again.
NeverAudited(k, kind) == pc[k] = "unlink" /\ audit[job[k].op][kind] > 0

\* The lookup that guards the audit row of an outcome found already visible.
AlreadyAudited(k, kind) ==
    /\ pc[k] \in {"auditCommitted", "auditRolledBack"}
    /\ audit[job[k].op][kind] > 0

\* Append the audit row: always after a publish of this pass, only when no
\* row exists when the outcome was found already visible.
Audit(k) ==
    /\ pc[k] \in {"auditForward", "auditBack", "auditCommitted", "auditRolledBack"}
    /\ LET o == job[k].op
           kind == IF pc[k] \in {"auditForward", "auditCommitted"}
                   THEN "RolledForward" ELSE "RolledBack"
       IN \E r \in IoResults :
            /\ Io(r)
            /\ audit' = IF AlreadyAudited(k, kind) \/ r = "lost" THEN audit
                        ELSE [audit EXCEPT ![o][kind] = @ + 1]
            /\ IF r = "ok" THEN Advance(k, "unlink") ELSE Leave(k)
    /\ UNCHANGED <<table, manifest, plan, sc, scPlan, control, result>>

\* delete_sidecar_by_operation_id; a failure aborts the pass.
Unlink(k) ==
    /\ pc[k] = "unlink"
    /\ \E r \in IoResults :
         /\ Io(r)
         /\ sc' = IF r = "lost" THEN sc ELSE [sc EXCEPT ![job[k].op] = "none"]
         /\ IF r = "ok" THEN ToNext(k, FALSE) ELSE Leave(k)
    /\ UNCHANGED <<table, manifest, plan, scPlan, audit, control, result>>

\* Mutated: the test for a restore still to be done is inverted.
RestoredTables(o) == {t \in Compensable(o) : ~OwnAtHead(o, t)}

\* table_requires_rollback_effect: a table that a previous sweep restored is
\* not restored again.
RestoreTargets(o) == {t \in Compensable(o) : OwnAtHead(o, t)}

\* cleanup_unpublished_no_effect_forks, before a rollback's first durable
\* step or before an effect-free intent is retired.
Reclaim(k) ==
    /\ pc[k] = "reclaim"
    /\ LET o == job[k].op IN
       IF CleanForks(o)
       THEN /\ ReclaimForks(o)
            /\ job' = [job EXCEPT ![k].left = RestoreTargets(o)]
            /\ Goto(k, IF AnyOwnEffect(o) THEN "auditPlan" ELSE "unlink")
            /\ UNCHANGED <<gate, req>>
       ELSE Leave(k) /\ UNCHANGED table
    /\ UNCHANGED <<manifest, sidecars, control, result, faults>>

\* Mutated: the outcomes are prepared and never written to the sidecar.
ForgetRollbackPlan(k) ==
    /\ pc[k] = "auditPlan"
    /\ Advance(k, "restore")
    /\ UNCHANGED <<table, manifest, sidecars, control, result, faults>>

\* prepare_fixed_rollback_audit_plan: persist the outcomes once, before the
\* first restore.
PersistRollbackPlan(k) ==
    /\ pc[k] = "auditPlan"
    /\ \E r \in IoResults :
         /\ Io(r)
         /\ scPlan' = IF r = "lost" THEN scPlan ELSE [scPlan EXCEPT ![job[k].op] = TRUE]
         /\ IF r = "ok" THEN Advance(k, "restore") ELSE Leave(k)
    /\ UNCHANGED <<table, manifest, plan, sc, audit, control, result>>

\* One table of the current loop is done.
Done(k, t) ==
    /\ job' = [job EXCEPT ![k].left = @ \ {t}]
    /\ UNCHANGED <<pc, gate, req>>

\* restore_table_to_version appends one version with the pinned contents.
RestoreTable(k) ==
    /\ pc[k] = "restore" /\ job[k].left # {}
    /\ \E t \in job[k].left, r \in IoResults :
         /\ Io(r)
         /\ log' = IF r = "lost" THEN log
                   ELSE [log EXCEPT ![t] = Append(@,
                          [op |-> 0, restore |-> pin[t], rows |-> @[pin[t]].rows])]
         /\ IF r = "ok" THEN Done(k, t) ELSE Leave(k)
    /\ UNCHANGED <<ref, manifest, sidecars, control, result>>

\* Publish the restored HEADs under the fixed rollback id.
RollBack(k) ==
    /\ pc[k] = "restore" /\ job[k].left = {}
    /\ LET o == job[k].op IN \E r \in IoResults :
         /\ Io(r)
         /\ IF r = "lost" THEN UNCHANGED manifest
            ELSE PublishManifest(Compensable(o), LiveHeads, RollbackId(o))
         /\ IF r = "ok" THEN Advance(k, "auditBack") ELSE Leave(k)
    /\ UNCHANGED <<table, sidecars, control, result>>

-----------------------------------------------------------------------------
\* The write attempt after the recovery barrier.

MayReprepare(k) ==
    req[k].kind \in {"insert", "cas"} /\ req[k].tries < MaxReprepares

\* A pre-effect conflict: an insert-only request is prepared again within its
\* budget, everything else is answered with the conflict.
Retry(k) ==
    IF MayReprepare(k)
    THEN /\ req' = [req EXCEPT ![k].tries = @ + 1]
         /\ Goto(k, "list") /\ Release(k) /\ UNCHANGED job
    ELSE Leave(k)

\* Mutated: the caller's head is compared only when the attempt is a retry.
CallerHeadMovedOnRetry(k) ==
    req[k].tries > 0 /\ req[k].base.want \notin {NoHead, GraphHead}

\* The caller's expected head, compared with the captured one.
CallerHeadMoved(k) == req[k].base.want \notin {NoHead, GraphHead}

\* open_write_txn, execution, validation and staging against one captured
\* authority.  Nothing durable happens; the touched tables are the outcome.  An
\* execution error and a request that changes nothing end here.
Prepare(k) ==
    /\ pc[k] = "prepare"
    /\ \/ Leave(k)
       \/ /\ ~CallerHeadMoved(k)
          /\ \E tabs \in SUBSET Tables :
               req' = [req EXCEPT ![k].base =
                         [head |-> GraphHead, pins |-> pin, tabs |-> tabs,
                          forks |-> {t \in tabs : ~owned[t]},
                          want |-> req[k].base.want]]
          /\ Goto(k, "gates") /\ UNCHANGED <<gate, job>>
    /\ UNCHANGED <<table, manifest, sidecars, control, result, faults>>

AcquireGates(k) ==
    /\ pc[k] = "gates" /\ gate[ProcOf[k]] = NoTask
    /\ gate' = [gate EXCEPT ![ProcOf[k]] = k]
    /\ Goto(k, "validate")
    /\ UNCHANGED <<table, manifest, sidecars, req, job, control, result, faults>>

\* Under the gates: re-list sidecars, revalidate the authority token, the
\* table pins and the live HEADs.  A caller's moved head is never retried.
Validate(k) ==
    /\ pc[k] = "validate"
    /\ LET base == req[k].base IN
       \/ Pending # {} /\ Leave(k)
       \/ /\ Pending = {} /\ GraphHead # base.head
          /\ IF base.want # NoHead THEN Leave(k) ELSE Retry(k)
       \/ /\ Pending = {} /\ GraphHead = base.head
          /\ IF \E t \in base.tabs \ base.forks : Len(log[t]) > pin[t]
             THEN Leave(k) ELSE Advance(k, "arm")
    /\ UNCHANGED <<table, manifest, sidecars, control, result, faults>>

\* Write the Armed sidecar.  A lineage-only attempt arms nothing.
Arm(k) ==
    /\ pc[k] = "arm" /\ nextOp <= MaxOps
    /\ nextOp' = nextOp + 1
    /\ plan' = [plan EXCEPT ![nextOp] = req[k].base]
    /\ LET armed(p) ==
             /\ job' = [job EXCEPT ![k].op = nextOp, ![k].left = req[k].base.forks]
             /\ Goto(k, p) /\ UNCHANGED <<gate, req, result>>
       IN IF req[k].base.tabs = {}
          THEN armed("publish") /\ UNCHANGED <<sc, faults>>
          ELSE \E r \in IoResults :
                 /\ Io(r)
                 /\ sc' = IF r = "lost" THEN sc ELSE [sc EXCEPT ![nextOp] = "Armed"]
                 /\ IF r = "ok" THEN armed("fork")
                    ELSE Leave(k) /\ Reply(nextOp, "rejected")
    /\ UNCHANGED <<table, manifest, scPlan, audit, up, requests, crashes>>

\* Mutated: an uncertain effect is reported as a plain conflict.
Conflicts(k) == Leave(k) /\ Reply(job[k].op, "rejected")

\* The caller gets RecoveryRequired; the sidecar decides the outcome.
NeedsRecovery(k) == Leave(k) /\ Reply(job[k].op, "recovery")

\* Create the first-touch refs, then stage on them.  A live or claimed ref is
\* never reclaimed; staging on the fork can still find a duplicate key.
ForkTable(k) ==
    /\ pc[k] = "fork" /\ job[k].left # {}
    /\ \E t \in job[k].left :
         \/ /\ ref[t] /\ (owned[t] \/ Claimed(job[k].op, t))
            /\ NeedsRecovery(k)
            /\ UNCHANGED <<table, faults>>
         \/ /\ ~(ref[t] /\ (owned[t] \/ Claimed(job[k].op, t)))
            /\ \E r \in IoResults :
                 /\ Io(r)
                 /\ ref' = IF r = "lost" THEN ref ELSE [ref EXCEPT ![t] = TRUE]
                 /\ log' = IF r = "lost" THEN log
                           ELSE [log EXCEPT ![t] = SubSeq(@, 1, req[k].base.pins[t])]
                 /\ IF r # "ok" THEN NeedsRecovery(k)
                    ELSE /\ \/ Done(k, t)
                            \/ req[k].kind # "strict" /\ Advance(k, "duplicate")
                         /\ UNCHANGED result
    /\ UNCHANGED <<manifest, sidecars, control>>

ForksReady(k) ==
    /\ pc[k] = "fork" /\ job[k].left = {}
    /\ job' = [job EXCEPT ![k].left = req[k].base.tabs]
    /\ Goto(k, "commit")
    /\ UNCHANGED <<table, manifest, sidecars, req, gate, control, result, faults>>

\* Mutated: a commit that Lance rebased over a foreign one passes as exact.
LandedSomewhere(k, t) == Len(log[t]) >= req[k].base.pins[t]

\* is_exact: the commit landed directly on the version it was staged against.
Exact(k, t) == Len(log[t]) = req[k].base.pins[t]

\* commit_staged_exact with no conflict retry.  On an advanced HEAD Lance
\* either rebases the transaction over it, which is not exact, or reports a
\* retryable conflict, which is effect-free only before the first commit.
CommitTable(k) ==
    /\ pc[k] = "commit" /\ job[k].left # {}
    /\ \E t \in job[k].left :
         LET o == job[k].op
             exact == Exact(k, t)
             landed == [log EXCEPT ![t] = Append(@,
                          [op |-> o, restore |-> 0, rows |-> Top(t).rows \cup {o}])]
         IN \/ \E r \in IoResults :
                 /\ Io(r)
                 /\ log' = IF r = "lost" THEN log ELSE landed
                 /\ IF r = "ok" /\ exact THEN Done(k, t) /\ UNCHANGED result
                    ELSE NeedsRecovery(k)
            \/ /\ ~exact
               /\ IF job[k].left = req[k].base.tabs
                  THEN Advance(k, "withdraw") /\ UNCHANGED result
                  ELSE NeedsRecovery(k)
               /\ UNCHANGED <<log, faults>>
    /\ UNCHANGED <<ref, manifest, sidecars, control>>

\* finalize_effect_free_occ_sidecar: prove that nothing of ours landed, drop
\* the untouched forks, then the sidecar.  A duplicate key is a final answer,
\* so it spends the remaining reprepares.
Withdraw(k) ==
    /\ pc[k] \in {"withdraw", "duplicate"}
    /\ LET o == job[k].op IN
       IF sc[o] = "Armed" /\ ~AnyOwnEffect(o) /\ CleanForks(o)
       THEN /\ ReclaimForks(o)
            /\ Goto(k, "retract") /\ UNCHANGED <<gate, job, result>>
            /\ req' = IF pc[k] = "duplicate"
                      THEN [req EXCEPT ![k].tries = MaxReprepares] ELSE req
       ELSE NeedsRecovery(k) /\ UNCHANGED table
    /\ UNCHANGED <<manifest, sidecars, control, faults>>

Retract(k) ==
    /\ pc[k] = "retract"
    /\ \E r \in IoResults :
         /\ Io(r)
         /\ sc' = IF r = "lost" THEN sc ELSE [sc EXCEPT ![job[k].op] = "none"]
         /\ IF r = "ok" THEN Reply(job[k].op, "rejected") /\ Retry(k)
            ELSE NeedsRecovery(k)
    /\ UNCHANGED <<table, manifest, plan, scPlan, audit, control>>

\* confirm_occ_sidecar_v9
Confirm(k) ==
    /\ pc[k] = "commit" /\ job[k].left = {}
    /\ \E r \in IoResults :
         /\ Io(r)
         /\ sc' = IF r = "lost" THEN sc
                  ELSE [sc EXCEPT ![job[k].op] = "EffectsConfirmed"]
         /\ IF r = "ok" THEN Advance(k, "publish") /\ UNCHANGED result
            ELSE NeedsRecovery(k)
    /\ UNCHANGED <<table, manifest, plan, scPlan, audit, control>>

\* commit_updates_on_branch_with_expected: one manifest CAS on the captured
\* graph head and table versions.
Publish(k) ==
    /\ pc[k] = "publish"
    /\ LET o == job[k].op IN
       \/ /\ CanPublish(o)
          /\ \E r \in IoResults :
               /\ Io(r)
               /\ IF r = "lost" THEN UNCHANGED manifest
                  ELSE PublishManifest(plan[o].tabs, Effects(o), CommitId(o))
               /\ IF r = "ok"
                  THEN /\ Reply(o, "ok")
                       /\ IF plan[o].tabs = {} THEN Leave(k)
                          ELSE Advance(k, "cleanup")
                  ELSE NeedsRecovery(k)
       \/ /\ ~CanPublish(o) /\ plan[o].tabs # {}
          /\ NeedsRecovery(k) /\ UNCHANGED <<manifest, faults>>
       \/ /\ ~CanPublish(o) /\ plan[o].tabs = {}
          /\ Reply(o, "rejected") /\ Retry(k) /\ UNCHANGED <<manifest, faults>>
    /\ UNCHANGED <<table, sidecars, control>>

\* Mutated: a failed delete is reported to the caller.
CleanupOrFail(k) ==
    /\ pc[k] = "cleanup"
    /\ \E r \in IoResults :
         /\ Io(r)
         /\ sc' = IF r = "lost" THEN sc ELSE [sc EXCEPT ![job[k].op] = "none"]
         /\ IF r = "ok" THEN Leave(k) /\ UNCHANGED result ELSE NeedsRecovery(k)
    /\ UNCHANGED <<table, manifest, plan, scPlan, audit, control>>

\* The caller succeeds whether or not the sidecar delete does.
CleanupSidecar(k) ==
    /\ pc[k] = "cleanup"
    /\ \E r \in IoResults :
         /\ Io(r)
         /\ sc' = IF r = "lost" THEN sc ELSE [sc EXCEPT ![job[k].op] = "none"]
    /\ Leave(k)
    /\ UNCHANGED <<table, manifest, plan, scPlan, audit, control, result>>

-----------------------------------------------------------------------------
\* A process dies: its tasks and its gates are gone, storage stays.
Crash(p) ==
    /\ crashes < MaxCrashes
    /\ crashes' = crashes + 1
    /\ pc' = [k \in Tasks |-> IF ProcOf[k] = p THEN "idle" ELSE pc[k]]
    /\ req' = [k \in Tasks |-> IF ProcOf[k] = p THEN NoReq ELSE req[k]]
    /\ job' = [k \in Tasks |-> IF ProcOf[k] = p THEN NoJob ELSE job[k]]
    /\ gate' = [gate EXCEPT ![p] = NoTask]
    /\ up' = [up EXCEPT ![p] = FALSE]
    /\ UNCHANGED <<table, manifest, sidecars, result, nextOp, requests, faults>>

Recover(k) ==
    \/ ListSidecars(k) \/ NextSidecar(k) \/ FinishPass(k) \/ Classify(k)
    \/ RollForward(k) \/ Audit(k) \/ Unlink(k) \/ Reclaim(k)
    \/ PersistRollbackPlan(k) \/ RestoreTable(k) \/ RollBack(k)

Attempt(k) ==
    \/ Prepare(k) \/ AcquireGates(k) \/ Validate(k) \/ Arm(k) \/ ForkTable(k)
    \/ ForksReady(k) \/ CommitTable(k) \/ Withdraw(k) \/ Retract(k)
    \/ Confirm(k) \/ Publish(k) \/ CleanupSidecar(k)

TaskStep(k) == BeginWrite(k) \/ BeginOpen(k) \/ Recover(k) \/ Attempt(k)

Next == (\E k \in Tasks : TaskStep(k)) \/ (\E p \in Procs : Crash(p))

Spec == Init /\ [][Next]_vars

-----------------------------------------------------------------------------
\* Properties.

Points == {"idle", "list", "next", "classify", "rollForward", "auditForward",
           "auditBack", "auditCommitted", "auditRolledBack", "unlink",
           "reclaim", "auditPlan", "restore", "prepare", "gates", "validate",
           "arm", "fork", "commit", "withdraw", "duplicate", "retract",
           "publish", "cleanup"}

StorageOK ==
    /\ log \in [Tables -> Seq(Version)]
    /\ ref \in [Tables -> BOOLEAN]
    /\ pin \in [Tables -> Nat]
    /\ owned \in [Tables -> BOOLEAN]
    /\ lineage \in Seq(Ids) /\ Len(lineage) > 0

SidecarsOK ==
    /\ plan \in [Ops -> Plan]
    /\ sc \in [Ops -> {"none", "Armed", "EffectsConfirmed"}]
    /\ scPlan \in [Ops -> BOOLEAN]
    /\ audit \in [Ops -> [{"RolledForward", "RolledBack"} -> Nat]]

TasksOK ==
    /\ pc \in [Tasks -> Points]
    /\ req \in [Tasks -> Request]
    /\ job \in [Tasks -> Job]
    /\ gate \in [Procs -> Tasks \cup {NoTask}]

ControlOK ==
    /\ up \in [Procs -> BOOLEAN]
    /\ result \in [Ops -> {"none", "ok", "rejected", "recovery"}]
    /\ nextOp \in Nat /\ requests \in Nat /\ crashes \in Nat /\ faults \in Nat

\* Every variable holds a value of its shape: versions are positive, op ids
\* are minted once, a gate is free or held by a task.
TypeOK == StorageOK /\ SidecarsOK /\ TasksOK /\ ControlOK

\* Graph-visible atomicity: at every moment the versions the manifest selects
\* hold exactly the rows of the committed operations, so a reader sees all
\* tables of a multi-table write or none, through crashes between table
\* commits, partial rollbacks and rebased transactions.
VisibleAtomic == \A t \in Tables :
    /\ pin[t] \in DOMAIN log[t]
    /\ log[t][pin[t]].rows = {o \in Committed : t \in plan[o].tabs}

\* An operation leaves at most one graph commit: never its commit and its
\* rollback, and neither of them twice, however often recovery re-enters.
OneOutcome == \A i, j \in DOMAIN lineage :
    i # j => lineage[i].op # lineage[j].op

\* No silent re-parenting: a commit's parent is the graph head its attempt was
\* validated against, also when recovery publishes it later, and it is the
\* head a conditional caller asked for.
CommitOnAuthority == \A i \in 2..Len(lineage) :
    LET o == lineage[i].op IN
    lineage[i].kind = "commit" =>
        /\ lineage[i - 1] = plan[o].head
        /\ plan[o].want \in {NoHead, lineage[i - 1]}

\* What callers were told stays true: an acknowledged write is committed and
\* stays so, a write rejected with a conflict never becomes visible.
AnswersHold == \A o \in Ops :
    /\ result[o] = "ok" => o \in Committed
    /\ result[o] = "rejected" => o \notin Committed

\* A table HEAD ahead of the manifest is always covered by a sidecar that
\* names the table, so no drift ever needs an operator's repair.
DriftCovered == \A t \in Tables :
    Len(log[t]) # pin[t] => \E o \in Pending : t \in plan[o].tabs

\* A first-touch ref the manifest does not select is covered by a sidecar too:
\* every path that gives up an attempt removes its fork first.
ForksCovered == \A t \in Tables :
    ref[t] # owned[t] => \E o \in Pending : t \in plan[o].tabs

\* Recovery writes one audit row per recovered operation, of the kind of its
\* visible outcome, and removes a rolled-back sidecar only after that row.
AuditExact == \A o \in Ops :
    /\ audit[o]["RolledForward"] <= (IF o \in Committed THEN 1 ELSE 0)
    /\ audit[o]["RolledBack"] <= (IF RollbackId(o) \in Published THEN 1 ELSE 0)
    /\ RollbackId(o) \in Published /\ sc[o] = "none" => audit[o]["RolledBack"] = 1

\* Within one process recovery never meets a state it refuses to act on: no
\* foreign interleaving, no fork past its fork point, no missing audit plan.
NeverWedged == \A k \in Tasks :
    /\ pc[k] = "classify" => Verdict(job[k].op, job[k].mode) # "error"
    /\ pc[k] \in {"reclaim", "withdraw", "duplicate"} => CleanForks(job[k].op)

=============================================================================
