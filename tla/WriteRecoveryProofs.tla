------------------------ MODULE WriteRecoveryProofs -------------------------
(***************************************************************************)
(* What the write gates add within one process: at most one intent is      *)
(* pending, and the manifest stays where that intent was prepared.  So     *)
(* recovery audits every outcome exactly once, no attempt leaves a fork    *)
(* behind that no sidecar covers, and recovery never meets a state that it *)
(* refuses to act on.                                                      *)
(***************************************************************************)
EXTENDS WriteDriftProofs

-----------------------------------------------------------------------------
\* Alone behind the gates.

\* One task of the process is past the gates.
LEMMA GateAlone ==
    ASSUME OneProcess, Exclusive, NEW j \in Tasks, NEW k \in Tasks,
           pc[j] \in Gated, pc[k] \in Gated
    PROVE  j = k
  BY Zenon DEF OneProcess, Exclusive

\* Nothing durable moves under a task that holds the gates but what it does
\* itself.
LEMMA Undisturbed ==
    ASSUME OneProcess, WriteInv, [Next]_vars, NEW j \in Tasks, ~TaskStep(j), pc[j] \in Gated
    PROVE  UNCHANGED <<table, manifest, sidecars>>
  <1>0. ASSUME NEW k \in Tasks, pc[k] \in Gated, TaskStep(k) PROVE FALSE
    BY <1>0, GateAlone, Zenon DEF WriteInv
  <1>1. ASSUME NEW k \in Tasks,
               \/ Reclaim(k) \/ RestoreTable(k) \/ ForkTable(k) \/ CommitTable(k)
               \/ Withdraw(k)
        PROVE  FALSE
    BY <1>0, <1>1, Zenon DEF Reclaim, RestoreTable, ForkTable, CommitTable, Withdraw, TaskStep,
       Recover, Attempt, Gated
  <1>2. ASSUME NEW k \in Tasks,
               \/ RollForward(k) \/ RollBack(k) \/ Publish(k) \/ PersistRollbackPlan(k)
               \/ Audit(k)
        PROVE  FALSE
    BY <1>0, <1>2, Zenon DEF RollForward, RollBack, Publish, PersistRollbackPlan, Audit,
       TaskStep, Recover, Attempt, Gated
  <1>3. ASSUME NEW k \in Tasks,
               \/ Unlink(k) \/ Arm(k) \/ Retract(k) \/ Confirm(k) \/ CleanupSidecar(k)
        PROVE  FALSE
    BY <1>0, <1>3, Zenon DEF Unlink, Arm, Retract, Confirm, CleanupSidecar, TaskStep, Recover,
       Attempt, Gated
  <1>4. UNCHANGED table /\ UNCHANGED manifest
    BY <1>1, <1>2, TablesStep, ManifestStep, Zenon
  <1>5. UNCHANGED sc /\ UNCHANGED plan /\ UNCHANGED <<scPlan, audit>>
    BY <1>2, <1>3, SidecarStep, PlanStep, AuditStep, Zenon
  <1>. QED  BY <1>4, <1>5, Zenon DEF sidecars

\* A sidecar that exists after a step existed before or has just been armed.
LEMMA PendingStep ==
    ASSUME WriteInv, [Next]_vars, NEW o \in Pending'
    PROVE  \/ o \in Pending /\ o < nextOp /\ plan'[o] = plan[o]
           \/ \E k \in Tasks : Arm(k) /\ o = nextOp
  <1>0. TypeOK /\ o \in Ops /\ sc'[o] # "none"
    BY Zenon DEF WriteInv, Pending
  <1>1. ASSUME NEW k \in Tasks, o = job[k].op, Unlink(k) \/ Retract(k) \/ CleanupSidecar(k)
        PROVE  sc'[o] = sc[o]
    BY <1>0, <1>1, Zenon DEF Unlink, Retract, CleanupSidecar, TypeOK, SidecarsOK
  <1>2. ASSUME NEW k \in Tasks, o = job[k].op, Confirm(k) PROVE sc[o] # "none"
    BY <1>2, Zenon DEF Confirm, WriteInv, Phases, Phase, PreConfirm
  <1>3. sc[o] # "none" \/ \E k \in Tasks : Arm(k) /\ o = nextOp
    BY <1>0, <1>1, <1>2, SidecarEffect, Zenon
  <1>4. ASSUME sc[o] # "none" PROVE o < nextOp
    BY <1>0, <1>4 DEF WriteInv, Minted, TypeOK, ControlOK, Ops
  <1>. QED  BY <1>0, <1>3, <1>4, PlanKept, Zenon DEF Pending

\* Where a classified sidecar goes says what process_sidecar found.
LEMMA Classified ==
    ASSUME TasksOK, NEW k \in Tasks, Classify(k)
    PROVE  LET v == Verdict(job[k].op, job[k].mode) IN
           /\ pc'[k] = "unlink" => v = "abandon" /\ job[k].mode = "RollForwardOnly"
           /\ pc'[k] = "reclaim" => v \in {"abandon", "rollBack"}
           /\ pc'[k] = "auditRolledBack" => v = "rolledBack"
           /\ UNCHANGED <<table, manifest, sidecars>>
  <1>1. \A p : Advance(k, p) => pc'[k] = p
    BY Zenon DEF Advance, Goto, TasksOK
  <1>2. Leave(k) => pc'[k] = "idle"
    BY Zenon DEF Leave, Goto, TasksOK
  <1>3. \A u : ToNext(k, u) => pc'[k] = "next"
    BY Zenon DEF ToNext, Goto, TasksOK
  <1>4. job[k].mode \in {"Full", "RollForwardOnly"}
    BY Zenon DEF TasksOK, Job
  <1>. QED  BY <1>1, <1>2, <1>3, <1>4, Zenon DEF Classify

-----------------------------------------------------------------------------
\* One intent, and the manifest it was prepared against.

\* An attempt is armed only when it found no intent under the gates.
LEMMA OneIntentStep ==
    ASSUME OneProcess, WriteInv, OneIntent, [Next]_vars PROVE OneIntent'
  <1>0. TypeOK /\ TasksOK
    BY Zenon DEF WriteInv, TypeOK
  <1>1. ASSUME NEW o \in Pending', NEW other \in Pending' PROVE o = other
    <2>1. ASSUME NEW k \in Tasks, Arm(k) PROVE Pending = {}
      BY <2>1, Zenon DEF Arm, OneIntent
    <2>. QED  BY <1>1, <2>1, PendingStep, Zenon DEF OneIntent
  <1>2. ASSUME NEW k \in Tasks, pc'[k] = "arm" PROVE Pending' = {}
    <2>1. CASE ~TaskStep(k)
      <3>1. pc[k] = "arm"
        BY <1>0, <1>2, <2>1, OthersStay, Zenon
      <3>. QED  BY <2>1, <3>1, Undisturbed, Zenon DEF Gated, OneIntent, Pending, sidecars
    <2>2. CASE TaskStep(k)
      <3>1. Validate(k)
        BY <1>0, <1>2, <2>2, RecoverArrives, AttemptArrives, Zenon DEF TaskStep, Arrives
      <3>2. ~Leave(k) /\ ~Retry(k)
        BY <1>0, <1>2, Zenon DEF Leave, Retry, Goto, TasksOK
      <3>. QED  BY <3>1, <3>2, Zenon DEF Validate, sidecars, Pending
    <2>. QED  BY <2>1, <2>2
  <1>3. ASSUME NEW k \in Tasks, pc'[k] = "publish", plan'[job'[k].op].tabs = {}
        PROVE  Pending' = {}
    <2>1. CASE ~TaskStep(k)
      <3>1. pc[k] = "publish" /\ job'[k] = job[k]
        BY <1>0, <1>3, <2>1, OthersStay, Zenon
      <3>2. UNCHANGED <<table, manifest, sidecars>>
        BY <2>1, <3>1, Undisturbed, Zenon DEF Gated
      <3>. QED  BY <1>3, <3>1, <3>2, Zenon DEF OneIntent, Pending, sidecars
    <2>2. CASE Arm(k)
      <3>1. ~Leave(k)
        BY <1>0, <1>3, Zenon DEF Leave, Goto, TasksOK
      <3>2. UNCHANGED sc
        BY <1>0, <1>3, <2>2, <3>1, Zenon DEF Arm, Goto, TasksOK
      <3>. QED  BY <2>2, <3>2, Zenon DEF Arm, OneIntent, Pending
    <2>3. CASE Confirm(k)
      <3>1. sc[job[k].op] # "none" /\ job[k].op \in Ops
        BY <1>0, <2>3, InHandOp, Zenon DEF Confirm, WriteInv, Phases, Phase, PreConfirm, InHand, Gated
      <3>2. job'[k].op = job[k].op /\ UNCHANGED plan
        BY <1>0, <1>3, <2>3, Zenon DEF Confirm, Advance, NeedsRecovery, Leave, Goto, TasksOK
      <3>. QED  BY <1>3, <3>1, <3>2, Zenon DEF WriteInv, Recorded
    <2>4. TaskStep(k) => Arm(k) \/ Confirm(k)
      BY <1>0, <1>3, RecoverArrives, AttemptArrives, Zenon DEF TaskStep, Arrives
    <2>. QED  BY <2>1, <2>2, <2>3, <2>4
  <1>. QED  BY <1>1, <1>2, <1>3, Zenon DEF OneIntent

\* Whoever is about to settle an operation has its sidecar, unless it wrote
\* no table.
LEMMA SettlerPending ==
    ASSUME InductiveInv, NEW k \in Tasks, NEW o \in Ops, o = job[k].op, o \notin Committed,
           RollForward(k) \/ Publish(k) \/ RollBack(k)
    PROVE  o \in Pending \/ (pc[k] = "publish" /\ plan[o].tabs = {})
  <1>1. CASE RollForward(k) \/ Publish(k)
    BY <1>1, Zenon DEF InductiveInv, WriteInv, Phases, Phase, RollForward, Publish, Pending
  <1>2. CASE RollBack(k)
    BY <1>2, Zenon DEF InductiveInv, DriftInv, EffectsInHand, RollBack, Pending
  <1>. QED  BY <1>1, <1>2

\* A publish leaves a head that was never seen before.
LEMMA FreshHead ==
    ASSUME StorageOK, NEW tabs, NEW at, NEW id, PublishManifest(tabs, at, id), id \notin Published
    PROVE  GraphHead' \notin Published
  <1>1. lineage' = Append(lineage, id) /\ lineage \in Seq(Ids)
    BY Zenon DEF PublishManifest, StorageOK
  <1>2. lineage'[Len(lineage')] = id
    BY <1>1
  <1>. QED  BY <1>2, Zenon DEF GraphHead

\* While an intent is open nothing else is published, and an attempt that is
\* about to arm one holds the current pins.
LEMMA AuthorityStep ==
    ASSUME OneProcess, InductiveInv, OneIntent, AuthorityHeld, [Next]_vars PROVE AuthorityHeld'
  <1>0. /\ WriteInv /\ OutcomeInv /\ TypeOK /\ TasksOK /\ StorageOK
    BY Zenon DEF InductiveInv, WriteInv, TypeOK
  <1>1. \/ UNCHANGED manifest
        \/ /\ GraphHead' \notin Published
           /\ \E k \in Tasks : \E o \in Ops :
                /\ o = job[k].op /\ o \notin Committed
                /\ RollForward(k) \/ Publish(k) \/ RollBack(k)
                /\ o \in Committed' \/ RollbackId(o) \in Published'
    <2>1. ASSUME NEW tabs, NEW at, NEW id, PublishManifest(tabs, at, id)
          PROVE  Published' = Published \cup {id} /\ (id \notin Published => GraphHead' \notin Published)
      BY <1>0, <2>1, PublishedGrows, FreshHead, Zenon
    <2>2. ASSUME NEW k \in Tasks, NEW o \in Ops, o = job[k].op, o \notin Committed,
                 RollbackId(o) \notin Published,
                 \/ /\ RollForward(k) \/ Publish(k)
                    /\ PublishManifest(plan[o].tabs, Effects(o), CommitId(o))
                 \/ /\ RollBack(k)
                    /\ PublishManifest(Compensable(o), LiveHeads, RollbackId(o))
          PROVE  /\ GraphHead' \notin Published
                 /\ o \in Committed' \/ RollbackId(o) \in Published'
                 /\ RollForward(k) \/ Publish(k) \/ RollBack(k)
      <3>1. ASSUME PublishManifest(plan[o].tabs, Effects(o), CommitId(o))
            PROVE  GraphHead' \notin Published /\ o \in Committed'
        <4>1. CommitId(o) \notin Published
          BY <2>2, Zenon DEF Committed
        <4>2. GraphHead' \notin Published /\ CommitId(o) \in Published'
          BY <2>1, <3>1, <4>1, Zenon
        <4>. QED  BY <4>2, Zenon DEF Committed
      <3>2. ASSUME PublishManifest(Compensable(o), LiveHeads, RollbackId(o))
            PROVE  GraphHead' \notin Published /\ RollbackId(o) \in Published'
        BY <2>1, <2>2, <3>2, Zenon
      <3>. QED  BY <2>2, <3>1, <3>2, Zenon
    <2>. QED  BY <1>0, <2>2, SettlesOpen, Zenon
  <1>2. ASSUME NEW k \in Tasks, pc'[k] \in {"gates", "validate", "arm"},
               req'[k].base.head = GraphHead'
        PROVE  req'[k].base.pins = pin'
    <2>1. CASE ~TaskStep(k)
      <3>1. pc[k] = pc'[k] /\ req'[k] = req[k]
        BY <1>0, <1>2, <2>1, OthersStay, Zenon
      <3>2. req[k].base.head \in Published
        BY <1>0, <1>2, <3>1, Zenon DEF OutcomeInv, Authorized
      <3>3. UNCHANGED manifest
        BY <1>1, <1>2, <3>1, <3>2, Zenon
      <3>. QED  BY <1>2, <3>1, <3>3, Zenon DEF manifest, GraphHead, AuthorityHeld
    <2>2. CASE TaskStep(k)
      <3>1. Prepare(k) \/ AcquireGates(k) \/ Validate(k)
        BY <1>0, <1>2, <2>2, RecoverArrives, AttemptArrives, Zenon DEF TaskStep, Arrives
      <3>2. UNCHANGED manifest
        BY <3>1, Zenon DEF Prepare, AcquireGates, Validate
      <3>3. ~Leave(k) /\ ~Retry(k)
        BY <1>0, <1>2, Zenon DEF Leave, Retry, Goto, TasksOK
      <3>4. CASE Prepare(k)
        BY <1>0, <3>2, <3>3, <3>4 DEF Prepare, TasksOK, Request, manifest
      <3>5. CASE AcquireGates(k) \/ Validate(k)
        <4>1. req' = req /\ pc[k] \in {"gates", "validate"}
          BY <3>3, <3>5, Zenon DEF AcquireGates, Validate, Advance
        <4>. QED  BY <1>2, <3>2, <4>1, Zenon DEF manifest, GraphHead, AuthorityHeld
      <3>. QED  BY <3>1, <3>4, <3>5
    <2>. QED  BY <2>1, <2>2
  <1>3. ASSUME NEW k \in Tasks, pc'[k] = "arm" PROVE req'[k].base.head = GraphHead'
    <2>1. CASE ~TaskStep(k)
      <3>1. pc[k] = "arm" /\ req'[k] = req[k]
        BY <1>0, <1>3, <2>1, OthersStay, Zenon
      <3>2. UNCHANGED manifest
        BY <1>0, <2>1, <3>1, Undisturbed, Zenon DEF Gated
      <3>. QED  BY <3>1, <3>2, Zenon DEF manifest, GraphHead, AuthorityHeld
    <2>2. CASE TaskStep(k)
      <3>1. Validate(k)
        BY <1>0, <1>3, <2>2, RecoverArrives, AttemptArrives, Zenon DEF TaskStep, Arrives
      <3>2. ~Leave(k) /\ ~Retry(k)
        BY <1>0, <1>3, Zenon DEF Leave, Retry, Goto, TasksOK
      <3>. QED  BY <3>1, <3>2, Zenon DEF Validate, Advance, manifest, GraphHead
    <2>. QED  BY <2>1, <2>2
  <1>4. ASSUME NEW o \in Pending', o \notin Committed', RollbackId(o) \notin Published'
        PROVE  plan'[o].pins = pin'
    <2>1. ASSUME o \in Pending, plan'[o] = plan[o] PROVE plan'[o].pins = pin'
      <3>1. o \in Ops /\ o \notin Committed /\ RollbackId(o) \notin Published
        BY <1>0, <1>4, <2>1, PublishedStays, Zenon DEF Pending, Committed
      <3>2. ASSUME NEW k \in Tasks, NEW x \in Ops, x = job[k].op, x \notin Committed,
                   RollForward(k) \/ Publish(k) \/ RollBack(k)
            PROVE  x = o
        BY <2>1, <3>2, SettlerPending, Zenon DEF OneIntent
      <3>3. UNCHANGED manifest
        BY <1>1, <1>4, <3>2, Zenon
      <3>. QED  BY <2>1, <3>1, <3>3, Zenon DEF manifest, AuthorityHeld
    <2>2. ASSUME NEW k \in Tasks, Arm(k), o = nextOp PROVE plan'[o].pins = pin'
      <3>1. plan' = [plan EXCEPT ![o] = req[k].base] /\ UNCHANGED manifest /\ pc[k] = "arm"
        BY <2>2, Zenon DEF Arm
      <3>2. plan'[o] = req[k].base
        BY <1>0, <1>4, <3>1, Zenon DEF TypeOK, SidecarsOK, Pending
      <3>. QED  BY <3>1, <3>2, Zenon DEF AuthorityHeld, manifest
    <2>. QED  BY <1>0, <2>1, <2>2, PendingStep, Zenon
  <1>. QED  BY <1>2, <1>3, <1>4, Zenon DEF AuthorityHeld

-----------------------------------------------------------------------------
\* Rollbacks have a plan, and restore what is pinned.

\* A confirmed operation about to be published is at the HEAD of its tables.
LEMMA ExactHead ==
    ASSUME InductiveInv, OneIntent, NEW k \in Tasks, NEW o \in Ops, o = job[k].op,
           pc[k] \in {"publish", "rollForward"}, o \notin Committed,
           NEW t \in plan[o].tabs, pin[t] = plan[o].pins[t]
    PROVE  t \in Tables /\ Len(log[t]) = pin[t] + 1
  <1>0. /\ WriteInv /\ DriftInv /\ TypeOK /\ t \in Tables
    BY Zenon DEF InductiveInv, WriteInv, TypeOK, SidecarsOK, Plan
  <1>1. sc[o] = "EffectsConfirmed" /\ o \in Pending
    BY <1>0, Zenon DEF WriteInv, Phases, Phase, Pending
  <1>2. LandedOn(o, t)
    BY <1>0, <1>1, Zenon DEF WriteInv, Recorded, Landed
  <1>3. /\ Len(log[t]) \in Nat /\ pin[t] \in Nat /\ pin[t] + 1 <= Len(log[t])
        /\ log[t][pin[t] + 1].op = o
    <2>1. pin[t] + 1 <= Len(log[t]) /\ log[t][pin[t] + 1].op = o
      BY <1>2, Zenon DEF LandedOn
    <2>2. Len(log[t]) \in Nat /\ pin[t] \in 1..Len(log[t])
      BY <1>0, VersionOps, Zenon
    <2>3. pin[t] \in Nat
      BY <2>2
    <2>. QED  BY <2>1, <2>2, <2>3
  <1>4. ASSUME pin[t] + 2 <= Len(log[t]) PROVE FALSE
    <2>. DEFINE v == pin[t] + 2
    <2>1. /\ v \in 1..Len(log[t]) /\ v > pin[t] /\ v - 1 = pin[t] + 1 /\ v # pin[t] + 1
          /\ pin[t] + 1 \in 1..Len(log[t])
      <3>1. Len(log[t]) \in Nat /\ pin[t] \in Nat
        BY <1>3
      <3>. QED  BY <1>4, <3>1
    <2>. HIDE DEF v
    <2>2. CASE log[t][v].op # 0
      <3>1. log[t][v].op \in Pending
        BY <1>0, <2>1, <2>2, VersionOps, Zenon DEF DriftInv, DriftOwned, Pending
      <3>2. log[t][v].op = o
        BY <1>1, <3>1, Zenon DEF OneIntent
      <3>3. \A u \in 1..Len(log[t]) : log[t][u].op = o => u = v
        BY <1>0, <2>1, <3>2, EffectOwned, Zenon
      <3>. QED  BY <1>3, <2>1, <3>3, Zenon
    <2>3. CASE log[t][v].op = 0
      <3>1. Doomed(o)
        BY <1>0, <1>3, <2>1, <2>3, Zenon DEF DriftInv, DriftOwned
      <3>. QED  BY <3>1, Zenon DEF Doomed
    <2>. QED  BY <2>2, <2>3
  <1>. QED  BY <1>0, <1>3, <1>4

\* A restored version past the pin stays a copy of the pinned one.
LEMMA RestoresPinned ==
    ASSUME InductiveInv, OneIntent, RollbackPlanned, [Next]_vars,
           NEW t \in Tables, NEW v \in 1..Len(log'[t]), v > pin'[t], log'[t][v].op = 0
    PROVE  log'[t][v].restore = pin'[t]
  <1>0. WriteInv /\ OutcomeInv /\ TypeOK
    BY Zenon DEF InductiveInv, WriteInv
  <1>1. ASSUME NEW k \in Tasks, RestoreTable(k), log'[t][v] = RestoreOf(t)
        PROVE  log'[t][v].restore = pin'[t]
    <2>1. pin' = pin
      BY <1>1, TableAlone, Zenon
    <2>. QED  BY <1>1, <2>1 DEF RestoreOf
  <1>2. ASSUME NEW k \in Tasks, CommitTable(k), log'[t][v] = EffectOf(job[k].op, t)
        PROVE  FALSE
    <2>1. job[k].op \in Ops
      BY <1>0, <1>2, InHandOp, Zenon DEF CommitTable, InHand, Gated, WriteInv
    <2>. QED  BY <1>2, <2>1 DEF EffectOf, Ops
  <1>3. ASSUME v \in 1..Len(log[t]), log'[t][v] = log[t][v]
        PROVE  log'[t][v].restore = pin'[t]
    <2>0. Len(log[t]) \in Nat /\ pin[t] \in Nat
      BY <1>0, VersionOps
    <2>1. ASSUME pin'[t] = pin[t] PROVE log'[t][v].restore = pin'[t]
      BY <1>3, <2>1, Zenon DEF RollbackPlanned
    <2>2. ASSUME NEW k \in Tasks, NEW o \in Ops, o = job[k].op, o \notin Committed, CanPublish(o),
                 RollForward(k) \/ Publish(k),
                 PublishManifest(plan[o].tabs, Effects(o), CommitId(o))
          PROVE  pin'[t] = pin[t]
      <3>1. ASSUME t \in plan[o].tabs PROVE FALSE
        <4>1. pin[t] = plan[o].pins[t] /\ pc[k] \in {"publish", "rollForward"}
          BY <2>2, <3>1, Zenon DEF CanPublish, RollForward, Publish
        <4>2. Len(log[t]) = pin[t] + 1
          BY <2>2, <3>1, <4>1, ExactHead, Zenon
        <4>3. pin'[t] = pin[t] + 1
          BY <2>2, <3>1, <4>1, Zenon DEF PublishManifest, Effects
        <4>. QED  BY <1>3, <2>0, <4>2, <4>3
      <3>. QED  BY <2>2, <3>1, Zenon DEF PublishManifest
    <2>3. ASSUME NEW o \in Ops, PublishManifest(Compensable(o), LiveHeads, RollbackId(o))
          PROVE  pin'[t] = pin[t]
      <3>1. ASSUME t \in Compensable(o) PROVE FALSE
        <4>1. pin'[t] = Len(log[t])
          BY <2>3, <3>1, Zenon DEF PublishManifest, LiveHeads
        <4>. QED  BY <1>3, <2>0, <4>1
      <3>. QED  BY <2>3, <3>1, Zenon DEF PublishManifest
    <2>4. UNCHANGED manifest => pin'[t] = pin[t]
      BY Zenon DEF manifest
    <2>. QED  BY <1>0, <2>1, <2>2, <2>3, <2>4, SettlesOpen, Zenon
  <1>. QED  BY <1>0, <1>1, <1>2, <1>3, VersionStep, Zenon

\* The outcomes are in the sidecar before the first restore, and stay there.
LEMMA RollbackPlannedStep ==
    ASSUME InductiveInv, OneIntent, RollbackPlanned, [Next]_vars PROVE RollbackPlanned'
  <1>0. WriteInv /\ OutcomeInv /\ TypeOK /\ TasksOK
    BY Zenon DEF InductiveInv, WriteInv, TypeOK
  <1>1. ASSUME NEW o \in Ops, scPlan[o] PROVE scPlan'[o]
    <2>1. ASSUME NEW k \in Tasks, PersistRollbackPlan(k) PROVE scPlan'[o]
      BY <1>0, <1>1, <2>1, Zenon DEF PersistRollbackPlan, TypeOK, SidecarsOK
    <2>2. ASSUME NEW k \in Tasks, Audit(k) PROVE scPlan'[o]
      BY <1>1, <2>2, Zenon DEF Audit
    <2>. QED  BY <1>1, <2>1, <2>2, AuditStep, Zenon
  <1>2. ASSUME NEW o \in Ops, RollbackId(o) \in Published' PROVE scPlan'[o]
    <2>1. ASSUME NEW k \in Tasks, o = job[k].op, RollBack(k) PROVE scPlan[o]
      BY <2>1, Zenon DEF RollBack, RollbackPlanned
    <2>2. RollbackId(o) \in Published => scPlan[o]
      BY Zenon DEF RollbackPlanned
    <2>. QED  BY <1>0, <1>1, <1>2, <2>1, <2>2, OutcomeEffect, Zenon DEF WriteInv
  <1>3. ASSUME NEW k \in Tasks, pc'[k] = "restore" PROVE scPlan'[job'[k].op]
    <2>0. ASSUME pc[k] = "restore" PROVE job[k].op \in Ops /\ scPlan[job[k].op]
      BY <1>0, <2>0, InHandOp, Zenon DEF InHand, Gated, WriteInv, RollbackPlanned
    <2>1. CASE ~TaskStep(k)
      BY <1>0, <1>1, <1>3, <2>0, <2>1, OthersStay, Zenon
    <2>2. CASE PersistRollbackPlan(k)
      <3>1. ~Leave(k)
        BY <1>0, <1>3, Zenon DEF Leave, Goto, TasksOK
      <3>2. job[k].op \in Ops
        BY <1>0, <2>2, InHandOp, Zenon DEF InHand, Gated, WriteInv, PersistRollbackPlan
      <3>3. scPlan' = [scPlan EXCEPT ![job[k].op] = TRUE] /\ job' = job
        BY <2>2, <3>1, Zenon DEF PersistRollbackPlan, Advance, IoResults
      <3>. QED  BY <1>0, <3>2, <3>3, Zenon DEF TypeOK, SidecarsOK
    <2>3. CASE RestoreTable(k)
      <3>1. job'[k].op = job[k].op /\ pc[k] = "restore"
        BY <1>0, <1>3, <2>3, RecoverArrives, Zenon DEF RestoreTable, Recover, Arrives,
           Classify, RollForward, Audit, Reclaim, PersistRollbackPlan, RollBack
      <3>. QED  BY <1>1, <2>0, <3>1, Zenon
    <2>4. TaskStep(k) => PersistRollbackPlan(k) \/ RestoreTable(k)
      BY <1>0, <1>3, RecoverArrives, AttemptArrives, Zenon DEF TaskStep, Arrives
    <2>. QED  BY <2>1, <2>2, <2>3, <2>4
  <1>. QED  BY <1>2, <1>3, RestoresPinned, Zenon DEF RollbackPlanned

-----------------------------------------------------------------------------
\* The audit trail.

\* A committed operation is not rolled back.
LEMMA Settled ==
    ASSUME OutcomeInv, NEW o \in Ops, o \in Committed PROVE RollbackId(o) \notin Published
  <1>1. PICK i \in DOMAIN lineage : lineage[i] = CommitId(o)
    BY Zenon DEF Committed, Published
  <1>2. ASSUME NEW j \in DOMAIN lineage, lineage[j] = RollbackId(o) PROVE FALSE
    <2>1. lineage[i].op = o /\ lineage[j].op = o /\ lineage[i] # lineage[j]
      BY <1>1, <1>2 DEF CommitId, RollbackId
    <2>. QED  BY <2>1, Zenon DEF OutcomeInv, OneOutcome
  <1>. QED  BY <1>2, Zenon DEF Published

\* An audit row is added for one operation at a time, and none is removed.
LEMMA AuditEffect ==
    ASSUME TypeOK, [Next]_vars, NEW o \in Ops, NEW kind \in {"RolledForward", "RolledBack"}
    PROVE  \/ audit'[o][kind] = audit[o][kind]
           \/ \E k \in Tasks :
                /\ Audit(k) /\ o = job[k].op /\ audit'[o][kind] = audit[o][kind] + 1
                /\ kind = IF pc[k] \in {"auditForward", "auditCommitted"}
                          THEN "RolledForward" ELSE "RolledBack"
                /\ ~AlreadyAudited(k, kind)
  <1>1. ASSUME NEW k \in Tasks, Audit(k)
        PROVE  \/ audit' = audit
               \/ \E a \in {"RolledForward", "RolledBack"} :
                    /\ a = IF pc[k] \in {"auditForward", "auditCommitted"}
                           THEN "RolledForward" ELSE "RolledBack"
                    /\ ~AlreadyAudited(k, a)
                    /\ audit' = [audit EXCEPT ![job[k].op][a] = @ + 1]
    BY <1>1, Zenon DEF Audit
  <1>2. audit \in [Ops -> [{"RolledForward", "RolledBack"} -> Nat]]
    BY Zenon DEF TypeOK, SidecarsOK
  <1>3. ASSUME NEW k \in Tasks, NEW a \in {"RolledForward", "RolledBack"},
               audit' = [audit EXCEPT ![job[k].op][a] = @ + 1]
        PROVE  \/ audit'[o][kind] = audit[o][kind]
               \/ o = job[k].op /\ kind = a /\ audit'[o][kind] = audit[o][kind] + 1
    BY <1>2, <1>3
  <1>4. ASSUME NEW k \in Tasks, PersistRollbackPlan(k) PROVE audit' = audit
    BY <1>4, Zenon DEF PersistRollbackPlan
  <1>. QED  BY <1>1, <1>3, <1>4, AuditStep, Zenon

\* Each outcome gets its row once, and a rolled-back sidecar is removed only
\* after it.
LEMMA AuditExactStep ==
    ASSUME InductiveInv, Audited, [Next]_vars PROVE AuditExact'
  <1>0. WriteInv /\ OutcomeInv /\ TypeOK /\ TypeOK'
    BY WriteInvStep, Zenon DEF InductiveInv, WriteInv
  <1>1. ASSUME NEW o \in Ops
        PROVE  audit[o]["RolledForward"] \in Nat /\ audit[o]["RolledBack"] \in Nat
    BY <1>0, Zenon DEF TypeOK, SidecarsOK
  <1>2. ASSUME NEW o \in Ops
        PROVE  audit'[o]["RolledForward"] <= (IF o \in Committed' THEN 1 ELSE 0)
    <2>1. audit[o]["RolledForward"] <= (IF o \in Committed THEN 1 ELSE 0)
      BY Zenon DEF Audited, AuditExact
    <2>2. o \in Committed => o \in Committed'
      BY <1>0, OutcomeEffect, Zenon DEF WriteInv
    <2>3. ASSUME NEW k \in Tasks, Audit(k), o = job[k].op,
                 pc[k] \in {"auditForward", "auditCommitted"},
                 ~AlreadyAudited(k, "RolledForward")
          PROVE  audit[o]["RolledForward"] = 0 /\ o \in Committed
      <3>1. o \in Committed
        BY <1>0, <2>3, Zenon DEF WriteInv, Phases, Phase
      <3>2. pc[k] = "auditForward" => audit[o]["RolledForward"] = 0
        BY <2>3, Zenon DEF Audited
      <3>3. pc[k] = "auditCommitted" => ~(audit[o]["RolledForward"] > 0)
        BY <2>3, Zenon DEF AlreadyAudited
      <3>. QED  BY <1>1, <2>3, <3>1, <3>2, <3>3
    <2>4. \/ audit'[o]["RolledForward"] = audit[o]["RolledForward"]
          \/ /\ audit'[o]["RolledForward"] = audit[o]["RolledForward"] + 1
             /\ audit[o]["RolledForward"] = 0 /\ o \in Committed
      BY <1>0, <2>3, AuditEffect, Zenon
    <2>. QED  BY <1>1, <2>1, <2>2, <2>4
  <1>3. ASSUME NEW o \in Ops
        PROVE  /\ audit'[o]["RolledBack"] <= (IF RollbackId(o) \in Published' THEN 1 ELSE 0)
               /\ audit'[o]["RolledBack"] >= audit[o]["RolledBack"]
    <2>1. audit[o]["RolledBack"] <= (IF RollbackId(o) \in Published THEN 1 ELSE 0)
      BY Zenon DEF Audited, AuditExact
    <2>2. RollbackId(o) \in Published => RollbackId(o) \in Published'
      BY <1>0, OutcomeEffect, Zenon DEF WriteInv
    <2>3. ASSUME NEW k \in Tasks, Audit(k), o = job[k].op,
                 pc[k] \notin {"auditForward", "auditCommitted"},
                 ~AlreadyAudited(k, "RolledBack")
          PROVE  audit[o]["RolledBack"] = 0 /\ RollbackId(o) \in Published
      <3>1. pc[k] \in {"auditBack", "auditRolledBack"}
        BY <2>3, Zenon DEF Audit
      <3>2. RollbackId(o) \in Published
        BY <1>0, <2>3, <3>1, Zenon DEF WriteInv, Phases, Phase
      <3>3. pc[k] = "auditBack" => audit[o]["RolledBack"] = 0
        BY <2>3, Zenon DEF Audited
      <3>4. pc[k] = "auditRolledBack" => ~(audit[o]["RolledBack"] > 0)
        BY <2>3, Zenon DEF AlreadyAudited
      <3>. QED  BY <1>1, <3>1, <3>2, <3>3, <3>4
    <2>4. \/ audit'[o]["RolledBack"] = audit[o]["RolledBack"]
          \/ /\ audit'[o]["RolledBack"] = audit[o]["RolledBack"] + 1
             /\ audit[o]["RolledBack"] = 0 /\ RollbackId(o) \in Published
      BY <1>0, <2>3, AuditEffect, Zenon
    <2>. QED  BY <1>1, <2>1, <2>2, <2>4
  <1>4. ASSUME NEW o \in Ops, RollbackId(o) \in Published', sc'[o] = "none"
        PROVE  audit[o]["RolledBack"] = 1
    <2>1. ASSUME NEW k \in Tasks, o = job[k].op, RollBack(k) PROVE FALSE
      <3>1. sc[o] # "none" /\ sc' = sc
        BY <2>1, Zenon DEF RollBack, sidecars, InductiveInv, DriftInv, EffectsInHand
      <3>. QED  BY <1>4, <3>1, Zenon
    <2>2. RollbackId(o) \in Published
      BY <1>0, <1>4, <2>1, OutcomeEffect, Zenon DEF WriteInv
    <2>3. ASSUME NEW k \in Tasks, o = job[k].op, Unlink(k) PROVE audit[o]["RolledBack"] = 1
      BY <2>2, <2>3, Zenon DEF Unlink, Audited
    <2>4. ASSUME NEW k \in Tasks, o = job[k].op, Retract(k) PROVE FALSE
      BY <1>0, <2>2, <2>4, Zenon DEF Retract, WriteInv, Phases, Phase, PreConfirm
    <2>5. ASSUME NEW k \in Tasks, o = job[k].op, CleanupSidecar(k) PROVE FALSE
      <3>1. o \in Committed
        BY <1>0, <2>5, Zenon DEF CleanupSidecar, WriteInv, Phases, Phase
      <3>. QED  BY <1>0, <2>2, <3>1, Settled, Zenon
    <2>6. ASSUME NEW k \in Tasks, Arm(k), o = nextOp PROVE FALSE
      <3>1. o >= nextOp
        BY <1>0, <2>6 DEF TypeOK, ControlOK
      <3>. QED  BY <1>0, <2>2, <3>1, Zenon DEF WriteInv, Minted
    <2>7. sc[o] = "none" => audit[o]["RolledBack"] = 1
      BY <2>2, Zenon DEF Audited, AuditExact
    <2>. QED  BY <1>0, <1>4, <2>3, <2>4, <2>5, <2>6, <2>7, SidecarEffect, Zenon
  <1>5. ASSUME NEW o \in Ops, RollbackId(o) \in Published', sc'[o] = "none"
        PROVE  audit'[o]["RolledBack"] = 1
    <2>1. audit'[o]["RolledBack"] \in Nat
      BY <1>0, Zenon DEF TypeOK, SidecarsOK
    <2>. QED  BY <1>3, <1>4, <1>5, <2>1
  <1>. QED  BY <1>2, <1>3, <1>5, Zenon DEF AuditExact

\* Who is about to add an audit row, or to remove a rolled-back sidecar, knows
\* what the audit table holds.
LEMMA AuditedStep ==
    ASSUME OneProcess, InductiveInv, Audited, [Next]_vars PROVE Audited'
  <1>0. /\ WriteInv /\ OutcomeInv /\ TypeOK /\ TasksOK
        /\ audit \in [Ops -> [{"RolledForward", "RolledBack"} -> Nat]]
    BY Zenon DEF InductiveInv, WriteInv, TypeOK, SidecarsOK
  <1>1. ASSUME NEW o \in Ops
        PROVE  /\ o \notin Committed => audit[o]["RolledForward"] = 0
               /\ RollbackId(o) \notin Published => audit[o]["RolledBack"] = 0
               /\ audit[o]["RolledBack"] > 0 => audit[o]["RolledBack"] = 1
               /\ ~(audit[o]["RolledBack"] > 0) => audit[o]["RolledBack"] = 0
    <2>1. audit[o]["RolledForward"] \in Nat /\ audit[o]["RolledBack"] \in Nat
      BY <1>0, Zenon
    <2>2. /\ audit[o]["RolledForward"] <= (IF o \in Committed THEN 1 ELSE 0)
          /\ audit[o]["RolledBack"] <= (IF RollbackId(o) \in Published THEN 1 ELSE 0)
      BY Zenon DEF Audited, AuditExact
    <2>. QED  BY <2>1, <2>2
  <1>2. ASSUME NEW k \in Tasks, ~TaskStep(k), pc'[k] \in {"auditForward", "auditBack", "unlink"}
        PROVE  /\ pc'[k] = pc[k] /\ job'[k] = job[k]
               /\ UNCHANGED audit /\ Published' = Published
    <2>1. pc'[k] = pc[k] /\ job'[k] = job[k]
      BY <1>0, <1>2, OthersStay, Zenon
    <2>2. UNCHANGED <<table, manifest, sidecars>>
      BY <1>0, <1>2, <2>1, Undisturbed, Zenon DEF Gated
    <2>. QED  BY <2>1, <2>2, Zenon DEF manifest, sidecars, Published
  <1>3. ASSUME NEW k \in Tasks, pc'[k] = "auditForward"
        PROVE  audit'[job'[k].op]["RolledForward"] = 0
    <2>1. CASE ~TaskStep(k)
      BY <1>2, <1>3, <2>1, Zenon DEF Audited
    <2>2. CASE TaskStep(k)
      <3>1. RollForward(k) /\ job'[k].op = job[k].op
        BY <1>0, <1>3, <2>2, RecoverArrives, AttemptArrives, Zenon DEF TaskStep, Arrives
      <3>2. ~Leave(k) /\ ~Advance(k, "auditCommitted")
        BY <1>0, <1>3, Zenon DEF Leave, Advance, Goto, TasksOK
      <3>3. CanPublish(job[k].op) /\ audit' = audit
        BY <3>1, <3>2, Zenon DEF RollForward, sidecars
      <3>4. job[k].op \in Ops
        BY <1>0, <3>1, InHandOp, Zenon DEF RollForward, InHand, Gated, WriteInv
      <3>. QED  BY <1>0, <1>1, <3>1, <3>3, <3>4, HeadsDoNotRecur, Zenon
    <2>. QED  BY <2>1, <2>2
  <1>4. ASSUME NEW k \in Tasks, pc'[k] = "auditBack"
        PROVE  audit'[job'[k].op]["RolledBack"] = 0
    <2>1. CASE ~TaskStep(k)
      BY <1>2, <1>4, <2>1, Zenon DEF Audited
    <2>2. CASE TaskStep(k)
      <3>1. RollBack(k) /\ job'[k].op = job[k].op
        BY <1>0, <1>4, <2>2, RecoverArrives, AttemptArrives, Zenon DEF TaskStep, Arrives
      <3>2. RollbackId(job[k].op) \notin Published /\ audit' = audit
        BY <1>0, <3>1, Zenon DEF RollBack, OutcomeInv, OpenInHand, sidecars
      <3>3. job[k].op \in Ops
        BY <1>0, <3>1, InHandOp, Zenon DEF RollBack, InHand, Gated, WriteInv
      <3>. QED  BY <1>1, <3>1, <3>2, <3>3, Zenon
    <2>. QED  BY <2>1, <2>2
  <1>5. ASSUME NEW k \in Tasks, pc'[k] = "unlink", RollbackId(job'[k].op) \in Published'
        PROVE  audit'[job'[k].op]["RolledBack"] = 1
    <2>1. CASE ~TaskStep(k)
      BY <1>2, <1>5, <2>1, Zenon DEF Audited
    <2>2. CASE TaskStep(k)
      <3>. DEFINE o == job[k].op
      <3>1. /\ job'[k].op = o
            /\ Classify(k) \/ Audit(k) \/ Reclaim(k)
        BY <1>0, <1>5, <2>2, RecoverArrives, AttemptArrives, Zenon DEF TaskStep, Arrives
      <3>2. o \in Ops /\ UNCHANGED manifest
        BY <1>0, <3>1, InHandOp, Zenon DEF Classify, Audit, Reclaim, InHand, Gated, WriteInv
      <3>3. RollbackId(o) \in Published
        BY <1>5, <3>1, <3>2, Zenon DEF manifest, Published
      <3>4. CASE Classify(k)
        <4>1. Verdict(o, job[k].mode) = "abandon" /\ job[k].mode = "RollForwardOnly"
          BY <1>0, <1>5, <3>4, Classified, Zenon
        <4>. QED  BY <3>3, <4>1, VerdictMeans, Zenon
      <3>5. CASE Reclaim(k)
        BY <1>0, <3>3, <3>5, Zenon DEF Reclaim, OutcomeInv, OpenInHand
      <3>6. CASE Audit(k)
        <4>1. pc[k] \in {"auditBack", "auditRolledBack"}
          BY <1>0, <3>2, <3>3, <3>6, Settled, Zenon DEF Audit, WriteInv, Phases, Phase
        <4>2. ~Leave(k)
          BY <1>0, <1>5, Zenon DEF Leave, Goto, TasksOK
        <4>3. audit' = IF AlreadyAudited(k, "RolledBack") THEN audit
                       ELSE [audit EXCEPT ![o]["RolledBack"] = @ + 1]
          BY <3>6, <4>1, <4>2, Zenon DEF Audit, IoResults
        <4>4. CASE AlreadyAudited(k, "RolledBack")
          BY <1>1, <3>1, <3>2, <4>3, <4>4, Zenon DEF AlreadyAudited
        <4>5. CASE ~AlreadyAudited(k, "RolledBack")
          <5>1. audit[o]["RolledBack"] = 0
            BY <1>1, <3>2, <4>1, <4>5, Zenon DEF AlreadyAudited, Audited
          <5>2. audit'[o]["RolledBack"] = audit[o]["RolledBack"] + 1
            BY <1>0, <3>2, <4>3, <4>5
          <5>. QED  BY <3>1, <5>1, <5>2
        <4>. QED  BY <4>4, <4>5
      <3>. QED  BY <3>1, <3>4, <3>5, <3>6
    <2>. QED  BY <2>1, <2>2
  <1>. QED  BY <1>3, <1>4, <1>5, AuditExactStep, Zenon DEF Audited

-----------------------------------------------------------------------------
\* First-touch forks.

\* How a step changes whether a table has its own ref.
LEMMA RefEffect ==
    ASSUME WriteInv, [Next]_vars, NEW t \in Tables
    PROVE  \/ ref'[t] = ref[t]
           \/ \E k \in Tasks : /\ Reclaim(k) \/ Withdraw(k)
                               /\ ReclaimForks(job[k].op)
           \/ \E k \in Tasks : ForkTable(k) /\ t \in job[k].left /\ ref'[t]
  <1>0. TypeOK /\ Pinned /\ Captured /\ Minted /\ ref \in [Tables -> BOOLEAN]
    BY Zenon DEF WriteInv, TypeOK, StorageOK
  <1>1. ASSUME NEW k \in Tasks, NEW u \in Tables, ForkTable(k), u \in job[k].left,
               ref' = [ref EXCEPT ![u] = TRUE]
        PROVE  ref'[t] = ref[t] \/ (t \in job[k].left /\ ref'[t])
    BY <1>0, <1>1, Zenon
  <1>. QED  BY <1>0, <1>1, TableEffect, Zenon

\* A table that a committed operation wrote is selected.
LEMMA CommittedOwned ==
    ASSUME WriteInv, NEW o \in Ops, o \in Committed, NEW t \in plan[o].tabs
    PROVE  t \in Tables /\ owned[t] /\ ref[t]
  <1>1. t \in Tables /\ owned[t] \in BOOLEAN
    BY Zenon DEF WriteInv, TypeOK, SidecarsOK, StorageOK, Plan
  <1>2. pin[t] > plan[o].pins[t] /\ plan[o].pins[t] >= 1 /\ plan[o].pins[t] \in Nat /\ pin[t] \in Nat
    <2>1. pin[t] > plan[o].pins[t]
      BY Zenon DEF WriteInv, Recorded
    <2>2. plan[o].pins[t] >= 1
      BY <1>1, Zenon DEF WriteInv, Captured
    <2>3. plan[o].pins[t] \in Nat /\ pin[t] \in Nat
      BY <1>1 DEF WriteInv, TypeOK, SidecarsOK, StorageOK, Plan
    <2>. QED  BY <2>1, <2>2, <2>3, Zenon
  <1>3. pin[t] # 1
    BY <1>2
  <1>. QED  BY <1>1, <1>3, Zenon DEF WriteInv, Pinned

\* The retired forks of the one pending intent are all of those that have no
\* effect of it.
LEMMA ForksReclaimed ==
    ASSUME WriteInv, OneIntent, NEW o \in Pending, ReclaimForks(o), NEW t \in plan[o].tabs,
           OwnVersions(o, t) = {}
    PROVE  ref'[t] = owned[t]
  <1>1. t \in Tables /\ owned[t] \in BOOLEAN /\ (owned[t] => ref[t])
    BY Zenon DEF WriteInv, TypeOK, SidecarsOK, StorageOK, Plan, Pending, Pinned
  <1>2. ~Claimed(o, t)
    BY Zenon DEF Claimed, OneIntent
  <1>3. t \in Reclaimable(o) <=> ~owned[t]
    BY <1>2, Zenon DEF Reclaimable, UnpublishedForks
  <1>4. ref'[t] = (ref[t] /\ t \notin Reclaimable(o))
    BY <1>1, Zenon DEF ReclaimForks
  <1>5. CASE owned[t] = TRUE
    <2>1. ref[t] /\ t \notin Reclaimable(o)
      BY <1>1, <1>3, <1>5, Zenon
    <2>. QED  BY <1>4, <1>5, <2>1, Zenon
  <1>6. CASE owned[t] = FALSE
    <2>1. t \in Reclaimable(o)
      BY <1>3, <1>6, Zenon
    <2>. QED  BY <1>4, <1>6, <2>1, Zenon
  <1>. QED  BY <1>1, <1>5, <1>6, Zenon

\* A live pass retires an intent without effects only when it has no fork to
\* reclaim; a visible rollback is one of an intent that is still there.
LEMMA VerdictForks ==
    ASSUME NEW o
    PROVE  /\ Verdict(o, "RollForwardOnly") = "abandon" => UnpublishedForks(o) = {}
           /\ \A mode : Verdict(o, mode) = "rolledBack" => sc[o] # "none"
  BY Zenon DEF Verdict

\* The rollback of an operation selects the forks that have an effect of it.
LEMMA RollbackSelects ==
    ASSUME InductiveInv, ForksAccounted, NEW k \in Tasks, pc[k] = "restore",
           NEW o \in Ops, o = job[k].op, UNCHANGED table,
           PublishManifest(Compensable(o), LiveHeads, RollbackId(o)), NEW t \in plan[o].tabs
    PROVE  ref'[t] = owned'[t]
  <1>0. WriteInv /\ TypeOK /\ Pinned /\ Captured /\ t \in Tables
    BY Zenon DEF InductiveInv, WriteInv, TypeOK, SidecarsOK, Plan
  <1>1. owned'[t] = (owned[t] \/ t \in Compensable(o)) /\ ref' = ref
    BY <1>0, Zenon DEF PublishManifest, table
  <1>2. OwnVersions(o, t) # {} => t \in Compensable(o) /\ ref[t]
    BY <1>0, OwnNeedsRef, Zenon DEF InductiveInv, DriftInv, EffectsInHand, OwnBeforeHead, Compensable
  <1>3. t \in Compensable(o) => OwnVersions(o, t) # {}
    BY Zenon DEF Compensable, OwnAtHead, OwnCompensatedAtHead
  <1>4. ref[t] = owned[t] \/ OwnVersions(o, t) # {}
    BY Zenon DEF ForksAccounted
  <1>5. ref[t] \in BOOLEAN /\ owned[t] \in BOOLEAN
    BY <1>0, Zenon DEF TypeOK, StorageOK
  <1>. QED  BY <1>1, <1>2, <1>3, <1>4, <1>5, Zenon

\* A fork is covered from before it is made until it is selected or removed.
LEMMA ForksCoveredStep ==
    ASSUME InductiveInv, ForksAccounted, [Next]_vars PROVE ForksCovered'
  <1>0. WriteInv /\ TypeOK /\ Pinned' /\ TypeOK'
    BY WriteInvStep, Zenon DEF InductiveInv, WriteInv
  <1>1. SUFFICES ASSUME NEW t \in Tables, ref'[t] # owned'[t]
                 PROVE  \E o \in Pending' : t \in plan'[o].tabs
    BY Zenon DEF ForksCovered
  <1>2. ref'[t] /\ ~owned'[t]
    <2>1. ref'[t] \in BOOLEAN /\ owned'[t] \in BOOLEAN /\ (owned'[t] => ref'[t])
      BY <1>0, Zenon DEF TypeOK, StorageOK, Pinned
    <2>2. /\ ref'[t] = TRUE \/ ref'[t] = FALSE
          /\ owned'[t] = TRUE \/ owned'[t] = FALSE
      BY <2>1, Zenon
    <2>3. owned'[t] = FALSE /\ ref'[t] = TRUE
      BY <1>1, <2>1, <2>2, Zenon
    <2>. QED  BY <2>3, Zenon
  <1>3. ~owned[t]
    BY <1>0, <1>2, ManifestGrows, Zenon
  <1>4. CASE ref[t]
    <2>1. PICK o \in Pending : t \in plan[o].tabs
      BY <1>3, <1>4, Zenon DEF ForksAccounted, ForksCovered
    <2>2. o \in Ops /\ sc[o] # "none" /\ o < nextOp
      <3>1. o \in Ops /\ sc[o] # "none"
        BY Zenon DEF Pending
      <3>. QED  BY <1>0, <3>1 DEF WriteInv, Minted, TypeOK, ControlOK, Ops
    <2>3. ASSUME NEW k \in Tasks, o = job[k].op, Unlink(k) \/ Retract(k) PROVE FALSE
      <3>1. NoForks(o)
        BY <2>3, Zenon DEF ForksAccounted, Unlink, Retract
      <3>. QED  BY <1>3, <1>4, <2>1, <3>1, Zenon DEF NoForks
    <2>4. ASSUME NEW k \in Tasks, o = job[k].op, CleanupSidecar(k) PROVE FALSE
      <3>1. o \in Committed
        BY <1>0, <2>4, Zenon DEF CleanupSidecar, WriteInv, Phases, Phase
      <3>. QED  BY <1>0, <1>3, <2>1, <2>2, <3>1, CommittedOwned, Zenon
    <2>5. o # nextOp
      BY <1>0, <2>2 DEF TypeOK, ControlOK, Ops
    <2>6. sc'[o] # "none"
      BY <1>0, <2>2, <2>3, <2>4, <2>5, SidecarEffect, Zenon
    <2>7. plan'[o] = plan[o]
      BY <1>0, <2>2, PlanKept, Zenon
    <2>. QED  BY <2>1, <2>2, <2>6, <2>7, Zenon DEF Pending
  <1>5. CASE ~ref[t]
    <2>1. ASSUME NEW k \in Tasks, ReclaimForks(job[k].op) PROVE FALSE
      BY <1>2, <1>5, <2>1, Zenon DEF ReclaimForks
    <2>2. PICK k \in Tasks : ForkTable(k) /\ t \in job[k].left
      BY <1>0, <1>2, <1>5, <2>1, RefEffect, Zenon
    <2>3. job[k].op \in Ops /\ sc[job[k].op] = "Armed" /\ t \in plan[job[k].op].tabs
      BY <1>0, <2>2, InHandOp, Zenon DEF ForkTable, WriteInv, Phases, Phase, PreConfirm, InHand,
         Gated, ForksAccounted
    <2>4. plan' = plan /\ sc' = sc
      BY <2>2, TableAlone, Zenon
    <2>. QED  BY <2>3, <2>4, Zenon DEF Pending
  <1>. QED  BY <1>4, <1>5

\* Once the one pending intent is rolled back, nothing more is done to the
\* tables and the manifest before its sidecar is gone.
LEMMA RolledBackQuiet ==
    ASSUME InductiveInv, OneIntent, [Next]_vars, NEW o \in Pending, RollbackId(o) \in Published
    PROVE  UNCHANGED manifest /\ UNCHANGED ref
  <1>0. WriteInv /\ OutcomeInv /\ TypeOK /\ Pinned /\ Captured /\ Minted
    BY Zenon DEF InductiveInv, WriteInv
  <1>1. ASSUME NEW k \in Tasks, NEW x \in Ops, x = job[k].op, x \notin Committed,
               RollbackId(x) \notin Published, RollForward(k) \/ Publish(k) \/ RollBack(k)
        PROVE  FALSE
    <2>1. x \in Pending \/ Pending = {}
      BY <1>1, SettlerPending, Zenon DEF OneIntent
    <2>. QED  BY <1>1, <2>1, Zenon DEF OneIntent
  <1>2. UNCHANGED manifest
    BY <1>0, <1>1, SettlesOpen, Zenon
  <1>3. ASSUME NEW k \in Tasks, ForkTable(k) \/ Withdraw(k) PROVE FALSE
    <2>1. job[k].op \in Ops /\ sc[job[k].op] = "Armed" /\ RollbackId(job[k].op) \notin Published
      BY <1>0, <1>3, InHandOp, Zenon DEF ForkTable, Withdraw, WriteInv, Phases, Phase,
         PreConfirm, InHand, Gated
    <2>. QED  BY <2>1, Zenon DEF OneIntent, Pending
  <1>4. ASSUME NEW k \in Tasks, Reclaim(k) PROVE FALSE
    <2>1. job[k].op \in Ops /\ sc[job[k].op] # "none" /\ RollbackId(job[k].op) \notin Published
      BY <1>0, <1>4, InHandOp, Zenon DEF Reclaim, OutcomeInv, OpenInHand, InductiveInv, DriftInv,
         EffectsInHand, InHand, Gated
    <2>. QED  BY <2>1, Zenon DEF OneIntent, Pending
  <1>5. UNCHANGED ref
    BY <1>0, <1>3, <1>4, TableEffect, Zenon
  <1>. QED  BY <1>2, <1>5

\* The intent of a visible rollback has no unselected ref.
LEMMA RolledBackForks ==
    ASSUME InductiveInv, OneIntent, ForksAccounted, [Next]_vars,
           NEW o \in Pending', RollbackId(o) \in Published'
    PROVE  NoForks(o)'
  <1>0. WriteInv /\ OutcomeInv /\ TypeOK /\ Minted /\ Recorded /\ Phases /\ o \in Ops
    BY Zenon DEF InductiveInv, WriteInv, Pending
  <1>1. ASSUME NEW k \in Tasks, Arm(k), o = nextOp PROVE FALSE
    <2>1. o >= nextOp
      BY <1>0, <1>1 DEF TypeOK, ControlOK
    <2>2. RollbackId(o) \notin Published /\ UNCHANGED manifest
      BY <1>0, <1>1, <2>1, Zenon DEF Minted, Arm
    <2>. QED  BY <2>2, Zenon DEF manifest, Published
  <1>2. o \in Pending /\ plan'[o] = plan[o]
    BY <1>0, <1>1, PendingStep, Zenon
  <1>3. CASE RollbackId(o) \in Published
    <2>1. UNCHANGED manifest /\ UNCHANGED ref
      BY <1>2, <1>3, RolledBackQuiet, Zenon
    <2>. QED  BY <1>2, <1>3, <2>1, Zenon DEF ForksAccounted, NoForks, manifest
  <1>4. CASE RollbackId(o) \notin Published
    <2>1. PICK k \in Tasks : o = job[k].op /\ RollBack(k)
      BY <1>0, <1>4, OutcomeEffect, Zenon
    <2>2. ~UNCHANGED manifest
      BY <1>4, Zenon DEF manifest, Published
    <2>3. /\ pc[k] = "restore" /\ UNCHANGED table
          /\ PublishManifest(Compensable(o), LiveHeads, RollbackId(o))
      BY <2>1, <2>2, Zenon DEF RollBack
    <2>. QED  BY <1>0, <1>2, <2>1, <2>3, RollbackSelects, Zenon DEF NoForks
  <1>. QED  BY <1>3, <1>4

\* The forks of an attempt are among its tables.
LEMMA ForksAreTables ==
    ASSUME WriteInv, ForksAccounted, [Next]_vars, NEW k \in Tasks
    PROVE  req'[k].base.forks \subseteq req'[k].base.tabs
  <1>0. TypeOK /\ TasksOK
    BY Zenon DEF WriteInv, TypeOK
  <1>1. CASE req'[k].base = req[k].base
    BY <1>1, Zenon DEF ForksAccounted
  <1>2. ASSUME NEW tabs \in SUBSET Tables,
               req'[k].base = [head |-> GraphHead, pins |-> pin, tabs |-> tabs,
                               forks |-> {t \in tabs : ~owned[t]},
                               want |-> req[k].base.want]
        PROVE  req'[k].base.forks \subseteq req'[k].base.tabs
    BY <1>2
  <1>3. ASSUME req'[k].base.forks = {}
        PROVE  req'[k].base.forks \subseteq req'[k].base.tabs
    BY <1>3, Zenon
  <1>4. ASSUME NEW j \in Tasks, TaskStep(j)
        PROVE  req'[k].base.forks \subseteq req'[k].base.tabs
    <2>1. CASE j = k
      BY <1>0, <1>1, <1>2, <1>3, <1>4, <2>1, BaseStep, Zenon
    <2>2. CASE j # k
      BY <1>0, <1>1, <1>4, <2>2, TaskFrame, Zenon
    <2>. QED  BY <2>1, <2>2
  <1>5. ASSUME NEW p \in Procs, Crash(p)
        PROVE  req'[k].base.forks \subseteq req'[k].base.tabs
    <2>1. NoReq.base.forks = {}
      BY DEF NoReq, NoPlan
    <2>. QED  BY <1>1, <1>3, <1>5, <2>1, CrashFrame, Zenon
  <1>6. CASE UNCHANGED vars
    BY <1>1, <1>6, Zenon DEF vars
  <1>. QED  BY <1>4, <1>5, <1>6, Zenon DEF Next

\* What a task that holds the gates knows of the forks stays true while it
\* does not step.
LEMMA ForksUndisturbed ==
    ASSUME OneProcess, WriteInv, [Next]_vars, NEW k \in Tasks, ~TaskStep(k), pc'[k] \in Gated
    PROVE  /\ pc'[k] = pc[k] /\ job'[k] = job[k]
           /\ UNCHANGED <<log, ref, owned, plan>>
  <1>1. TypeOK /\ pc'[k] # "idle"
    BY Zenon DEF WriteInv, Gated
  <1>2. pc'[k] = pc[k] /\ job'[k] = job[k]
    BY <1>1, OthersStay, Zenon
  <1>3. UNCHANGED <<table, manifest, sidecars>>
    BY <1>2, Undisturbed, Zenon
  <1>. QED  BY <1>2, <1>3, Zenon DEF table, manifest, sidecars

\* A forking attempt forks tables that it writes.
LEMMA LeftToFork ==
    ASSUME OneProcess, WriteInv, ForksAccounted, [Next]_vars, NEW k \in Tasks, pc'[k] = "fork"
    PROVE  job'[k].left \subseteq plan'[job'[k].op].tabs
  <1>0. TypeOK /\ TasksOK
    BY Zenon DEF WriteInv, TypeOK
  <1>1. CASE ~TaskStep(k)
    BY <1>1, ForksUndisturbed, Zenon DEF Gated, ForksAccounted
  <1>2. CASE Arm(k)
    <2>1. ~Leave(k) /\ nextOp \in Ops
      BY <1>0, <1>2 DEF Leave, Goto, TasksOK, WriteInv, Minted, Arm, TypeOK, ControlOK, Ops
    <2>2. job' = [job EXCEPT ![k].op = nextOp, ![k].left = req[k].base.forks]
      BY <1>2, <2>1, Zenon DEF Arm
    <2>3. job'[k].op = nextOp /\ job'[k].left = req[k].base.forks
      BY <1>0, <2>2 DEF TasksOK, Job
    <2>4. plan'[nextOp] = req[k].base
      BY <1>0, <1>2, <2>1, Zenon DEF Arm, TypeOK, SidecarsOK
    <2>. QED  BY <2>3, <2>4, Zenon DEF ForksAccounted
  <1>3. CASE ForkTable(k)
    <2>1. ~Leave(k) /\ ~Advance(k, "duplicate")
      BY <1>0, <1>3, Zenon DEF Leave, Advance, Goto, TasksOK
    <2>2. PICK t \in job[k].left : Done(k, t)
      BY <1>3, <2>1, Zenon DEF ForkTable, NeedsRecovery
    <2>3. job'[k].op = job[k].op /\ job'[k].left \subseteq job[k].left /\ pc[k] = "fork"
      BY <1>0, <1>3, <2>2 DEF Done, TasksOK, Job, ForkTable
    <2>4. plan' = plan
      BY <1>3, TableAlone, Zenon
    <2>. QED  BY <2>3, <2>4, Zenon DEF ForksAccounted
  <1>4. TaskStep(k) => Arm(k) \/ ForkTable(k)
    BY <1>0, RecoverArrives, AttemptArrives, Zenon DEF TaskStep, Arrives
  <1>. QED  BY <1>1, <1>2, <1>3, <1>4

\* Before a sidecar is removed, and once a rollback is visible, the operation
\* has no unselected ref.
LEMMA ForksGone ==
    ASSUME OneProcess, InductiveInv, OneIntent, ForksAccounted, [Next]_vars, NEW k \in Tasks,
           pc'[k] \in {"retract", "unlink", "auditBack", "auditRolledBack"}
    PROVE  NoForks(job[k].op)'
  <1>0. WriteInv /\ TypeOK /\ TasksOK /\ Minted
    BY Zenon DEF InductiveInv, WriteInv, TypeOK
  <1>. DEFINE o == job[k].op
  <1>1. CASE ~TaskStep(k)
    BY <1>0, <1>1, ForksUndisturbed, Zenon DEF Gated, ForksAccounted, NoForks
  <1>2. CASE TaskStep(k)
    <2>1. /\ job'[k].op = o
          /\ \/ Classify(k) /\ pc'[k] \in {"unlink", "auditRolledBack"}
             \/ Audit(k) /\ pc'[k] = "unlink"
             \/ Reclaim(k) /\ pc'[k] = "unlink"
             \/ RollBack(k) /\ pc'[k] = "auditBack"
             \/ Withdraw(k) /\ pc'[k] = "retract"
      BY <1>0, <1>2, RecoverArrives, AttemptArrives, Zenon DEF TaskStep, Arrives
    <2>2. o \in Ops
      BY <1>0, <2>1, InHandOp, Zenon DEF Classify, Audit, Reclaim, RollBack, Withdraw, InHand, Gated
    <2>3. ~Leave(k)
      BY <1>0, Zenon DEF Leave, Goto, TasksOK
    <2>4. plan' = plan
      BY <2>1, Zenon DEF Classify, Audit, Reclaim, RollBack, Withdraw, sidecars
    <2>5. SUFFICES ASSUME NEW t \in plan[o].tabs PROVE ref'[t] = owned'[t]
      BY <2>1, <2>4, Zenon DEF NoForks
    <2>6. t \in Tables /\ owned[t] \in BOOLEAN /\ ref[t] \in BOOLEAN /\ (owned[t] => ref[t])
      BY <1>0, <2>2, Zenon DEF TypeOK, SidecarsOK, StorageOK, Plan, WriteInv, Pinned
    <2>7. ASSUME ref[t] /\ owned[t] PROVE ref[t] = owned[t]
      BY <2>6, <2>7, Zenon
    <2>8. CASE Classify(k) /\ pc'[k] = "unlink"
      <3>1. UnpublishedForks(o) = {}
        BY <1>0, <2>8, Classified, VerdictForks, Zenon
      <3>2. ref[t] = owned[t]
        BY <2>6, <2>7, <3>1, Zenon DEF UnpublishedForks
      <3>. QED  BY <2>8, <3>2, Zenon DEF Classify, table, manifest
    <2>9. CASE Classify(k) /\ pc'[k] = "auditRolledBack"
      <3>1. Verdict(o, job[k].mode) = "rolledBack" /\ job[k].mode \in {"Full", "RollForwardOnly"}
        BY <1>0, <2>9, Classified, Zenon DEF TasksOK, Job
      <3>2. o \in Pending /\ RollbackId(o) \in Published
        BY <2>2, <3>1, VerdictMeans, VerdictForks, Zenon DEF Pending
      <3>3. ref[t] = owned[t]
        BY <3>2, Zenon DEF ForksAccounted, NoForks
      <3>. QED  BY <2>9, <3>3, Zenon DEF Classify, table, manifest
    <2>10. CASE Audit(k)
      <3>1. pc[k] \in {"auditForward", "auditCommitted"} => ref[t] = owned[t]
        BY <1>0, <2>2, <2>7, CommittedOwned, Zenon DEF WriteInv, Phases, Phase
      <3>2. pc[k] \in {"auditBack", "auditRolledBack"} => ref[t] = owned[t]
        BY Zenon DEF ForksAccounted, NoForks
      <3>. QED  BY <2>10, <3>1, <3>2, Zenon DEF Audit, table, manifest
    <2>11. CASE Reclaim(k) /\ pc'[k] = "unlink"
      <3>1. o \in Pending /\ UNCHANGED owned
        BY <2>2, <2>11, Zenon DEF Reclaim, InductiveInv, DriftInv, EffectsInHand, Pending, manifest
      <3>2. ReclaimForks(o) /\ Goto(k, IF AnyOwnEffect(o) THEN "auditPlan" ELSE "unlink")
        BY <2>3, <2>11, Zenon DEF Reclaim
      <3>3. ~AnyOwnEffect(o)
        BY <1>0, <2>11, <3>2, Zenon DEF Goto, TasksOK
      <3>. QED  BY <1>0, <3>1, <3>2, <3>3, ForksReclaimed, Zenon DEF AnyOwnEffect
    <2>12. CASE RollBack(k)
      <3>1. /\ pc[k] = "restore" /\ UNCHANGED table
            /\ PublishManifest(Compensable(o), LiveHeads, RollbackId(o))
        BY <2>3, <2>12, Zenon DEF RollBack, IoResults
      <3>. QED  BY <2>2, <3>1, RollbackSelects, Zenon
    <2>13. CASE Withdraw(k)
      <3>1. /\ sc[o] = "Armed" /\ ~AnyOwnEffect(o) /\ ReclaimForks(o) /\ UNCHANGED owned
        BY <2>3, <2>13, Zenon DEF Withdraw, NeedsRecovery, manifest
      <3>. QED  BY <1>0, <2>2, <3>1, ForksReclaimed, Zenon DEF AnyOwnEffect, Pending
    <2>. QED  BY <2>1, <2>8, <2>9, <2>10, <2>11, <2>12, <2>13, Zenon
  <1>. QED  BY <1>1, <1>2

\* An effect of an operation stays one while its table is kept.
LEMMA OwnStays ==
    ASSUME WriteInv, NEW o \in Ops, NEW t \in Tables, OwnVersions(o, t) # {}, Kept(t),
           plan'[o] = plan[o], TypeOK'
    PROVE  OwnVersions(o, t)' # {}
  <1>1. /\ Len(log[t]) \in Nat /\ Len(log'[t]) \in Nat /\ plan[o].pins[t] \in Nat
    BY DEF WriteInv, TypeOK, StorageOK, SidecarsOK, Plan
  <1>2. PICK v \in (plan[o].pins[t] + 1)..Len(log[t]) : log[t][v].op = o
    BY Zenon DEF OwnVersions
  <1>3. v \in 1..Len(log[t]) /\ v \in (plan[o].pins[t] + 1)..Len(log'[t])
    <2>1. Len(log[t]) <= Len(log'[t])
      BY Zenon DEF Kept
    <2>. QED  BY <1>1, <1>2, <2>1
  <1>4. log'[t][v].op = o
    BY <1>2, <1>3, Zenon DEF Kept
  <1>. QED  BY <1>3, <1>4, Zenon DEF OwnVersions

\* A fork that a rollback did not reclaim has an effect to restore.
LEMMA ForksToUndo ==
    ASSUME OneProcess, InductiveInv, OneIntent, ForksAccounted, [Next]_vars, NEW k \in Tasks,
           pc'[k] \in {"auditPlan", "restore"}
    PROVE  (\A t \in plan[job[k].op].tabs : ref[t] = owned[t] \/ OwnVersions(job[k].op, t) # {})'
  <1>0. WriteInv /\ TypeOK /\ TasksOK /\ Minted /\ Pinned /\ Captured /\ TypeOK'
    BY WriteInvStep, Zenon DEF InductiveInv, WriteInv, TypeOK
  <1>. DEFINE o == job[k].op
  <1>1. CASE ~TaskStep(k)
    <2>1. /\ pc'[k] = pc[k] /\ job'[k] = job[k]
          /\ UNCHANGED <<log, ref, owned, plan>>
      BY <1>0, <1>1, ForksUndisturbed, Zenon DEF Gated
    <2>2. \A t \in plan[o].tabs : ref[t] = owned[t] \/ OwnVersions(o, t) # {}
      BY <2>1, Zenon DEF ForksAccounted
    <2>3. \A t : OwnVersions(o, t)' = OwnVersions(o, t)
      BY <2>1, Zenon DEF OwnVersions
    <2>. QED  BY <2>1, <2>2, <2>3, Zenon
  <1>2. CASE TaskStep(k)
    <2>1. /\ job'[k].op = o
          /\ Reclaim(k) \/ PersistRollbackPlan(k) \/ RestoreTable(k)
      BY <1>0, <1>2, RecoverArrives, AttemptArrives, Zenon DEF TaskStep, Arrives
    <2>2. o \in Ops
      BY <1>0, <2>1, InHandOp, Zenon DEF Reclaim, PersistRollbackPlan, RestoreTable, InHand, Gated
    <2>3. plan' = plan /\ owned' = owned
      BY <2>1, Zenon DEF Reclaim, PersistRollbackPlan, RestoreTable, sidecars, manifest
    <2>4. ~Leave(k)
      BY <1>0, Zenon DEF Leave, Goto, TasksOK
    <2>5. SUFFICES ASSUME NEW t \in plan[o].tabs
                   PROVE  ref'[t] = owned[t] \/ OwnVersions(o, t)' # {}
      BY <2>1, <2>3, Zenon DEF OwnVersions
    <2>6. t \in Tables
      BY <1>0, <2>2, Zenon DEF TypeOK, SidecarsOK, Plan
    <2>7. CASE Reclaim(k)
      <3>1. o \in Pending /\ ReclaimForks(o)
        BY <2>2, <2>4, <2>7, Zenon DEF Reclaim, InductiveInv, DriftInv, EffectsInHand, Pending
      <3>2. OwnVersions(o, t)' = OwnVersions(o, t)
        BY <2>1, <2>3, <3>1, Zenon DEF ReclaimForks, OwnVersions
      <3>. QED  BY <1>0, <3>1, <3>2, ForksReclaimed, Zenon
    <2>8. CASE PersistRollbackPlan(k)
      <3>1. ref' = ref /\ log' = log /\ pc[k] = "auditPlan"
        BY <2>8, Zenon DEF PersistRollbackPlan, table
      <3>2. OwnVersions(o, t)' = OwnVersions(o, t)
        BY <2>1, <2>3, <3>1, Zenon DEF OwnVersions
      <3>. QED  BY <3>1, <3>2, Zenon DEF ForksAccounted
    <2>9. CASE RestoreTable(k)
      <3>1. ref' = ref /\ pc[k] = "restore"
        BY <2>9, Zenon DEF RestoreTable
      <3>2. ASSUME NEW j \in Tasks, ForkTable(j) PROVE FALSE
        <4>1. pc[j] = "fork"
          BY <3>2, Zenon DEF ForkTable
        <4>2. j = k
          BY <1>0, <3>1, <4>1, GateAlone, Zenon DEF Gated, WriteInv
        <4>. QED  BY <3>1, <4>1, <4>2, Zenon
      <3>3. Kept(t)
        BY <1>0, <2>6, <3>2, KeptUnlessForked, Zenon
      <3>4. ref[t] = owned[t] \/ OwnVersions(o, t) # {}
        BY <3>1, Zenon DEF ForksAccounted
      <3>5. ASSUME NEW w \in Ops, w = o, OwnVersions(w, t) # {} PROVE OwnVersions(w, t)' # {}
        BY <1>0, <2>3, <2>6, <3>3, <3>5, OwnStays, Zenon
      <3>6. OwnVersions(o, t) # {} => OwnVersions(o, t)' # {}
        BY <2>1, <2>2, <3>5, Zenon DEF OwnVersions
      <3>. QED  BY <3>1, <3>4, <3>6, Zenon
    <2>. QED  BY <2>1, <2>7, <2>8, <2>9, Zenon
  <1>. QED  BY <1>1, <1>2

\* Every fork stays accounted for.
LEMMA ForksAccountedStep ==
    ASSUME OneProcess, InductiveInv, OneIntent, ForksAccounted, [Next]_vars
    PROVE  ForksAccounted'
  <1>0. WriteInv
    BY Zenon DEF InductiveInv
  <1>1. ASSUME NEW k \in Tasks
        PROVE  (LET o == job[k].op IN
                /\ req[k].base.forks \subseteq req[k].base.tabs
                /\ pc[k] = "fork" => job[k].left \subseteq plan[o].tabs
                /\ pc[k] \in {"retract", "unlink", "auditBack", "auditRolledBack"} => NoForks(o)
                /\ pc[k] \in {"auditPlan", "restore"} =>
                     \A t \in plan[o].tabs : ref[t] = owned[t] \/ OwnVersions(o, t) # {})'
    BY <1>0, ForksAreTables, LeftToFork, ForksGone, ForksToUndo, Zenon
  <1>. QED  BY <1>1, ForksCoveredStep, RolledBackForks, Zenon DEF ForksAccounted

-----------------------------------------------------------------------------
\* What holds within one process.

LEMMA SoloInit ==
    ASSUME Init PROVE SoloInv
  <1>1. /\ Pending = {} /\ \A k \in Tasks : pc[k] = "idle" /\ req[k] = NoReq
        /\ sc = [o \in Ops |-> "none"]
    BY Zenon DEF Init, Pending
  <1>2. \A o \in Ops : CommitId(o) \notin Published /\ RollbackId(o) \notin Published
    BY DEF Init, Published, CommitId, RollbackId, Genesis
  <1>3. OneIntent /\ AuthorityHeld
    BY <1>1, Zenon DEF OneIntent, AuthorityHeld
  <1>4. RollbackPlanned
    <2>1. \A t \in Tables : Len(log[t]) = 1 /\ pin[t] = 1
      BY DEF Init, FirstVersion
    <2>2. ASSUME NEW t \in Tables, NEW v \in 1..Len(log[t]), v > pin[t] PROVE FALSE
      <3>1. v \in 1..1 /\ v > 1
        BY <2>1, <2>2, Zenon
      <3>. QED  BY <3>1
    <2>. QED  BY <1>1, <1>2, <2>2, Zenon DEF RollbackPlanned
  <1>5. Audited
    <2>1. \A o \in Ops : audit[o]["RolledForward"] = 0 /\ audit[o]["RolledBack"] = 0
      BY Zenon DEF Init
    <2>2. ASSUME NEW o \in Ops
          PROVE  /\ audit[o]["RolledForward"] <= (IF o \in Committed THEN 1 ELSE 0)
                 /\ audit[o]["RolledBack"] <= (IF RollbackId(o) \in Published THEN 1 ELSE 0)
      BY <1>2, <2>1 DEF Committed
    <2>. QED  BY <1>1, <1>2, <2>2, Zenon DEF Audited, AuditExact
  <1>6. ForksAccounted
    <2>1. \A t \in Tables : ref[t] = owned[t]
      BY Zenon DEF Init
    <2>2. NoReq.base.forks = {}
      BY DEF NoReq, NoPlan
    <2>. QED  BY <1>1, <2>1, <2>2, Zenon DEF ForksAccounted, ForksCovered
  <1>. QED  BY <1>3, <1>4, <1>5, <1>6, Zenon DEF SoloInv

LEMMA SoloStep ==
    ASSUME OneProcess, InductiveInv, SoloInv, [Next]_vars PROVE SoloInv'
  <1>1. WriteInv /\ OneIntent /\ AuthorityHeld /\ RollbackPlanned /\ Audited /\ ForksAccounted
    BY Zenon DEF SoloInv, InductiveInv
  <1>. QED  BY <1>1, OneIntentStep, AuthorityStep, RollbackPlannedStep, AuditedStep,
            ForksAccountedStep, Zenon DEF SoloInv

\* While one intent is pending, every version past a pin is its effect or the
\* restored copy on top of it.
LEMMA OwnDrift ==
    ASSUME InductiveInv, OneIntent, NEW o \in Pending, NEW t \in Tables,
           NEW v \in 1..Len(log[t]), v > pin[t]
    PROVE  \/ log[t][v].op = o
           \/ /\ log[t][v].op = 0 /\ log[t][v - 1].op = o
              /\ v - 1 \in 1..Len(log[t]) /\ v - 1 > pin[t]
  <1>0. WriteInv /\ DriftOwned
    BY Zenon DEF InductiveInv, DriftInv
  <1>1. ASSUME NEW u \in 1..Len(log[t]), u > pin[t], log[t][u].op # 0
        PROVE  log[t][u].op = o
    BY <1>0, <1>1, VersionOps, Zenon DEF DriftOwned, OneIntent, Pending
  <1>2. CASE log[t][v].op = 0
    <2>1. v - 1 > pin[t] /\ log[t][v - 1].op # 0
      BY <1>0, <1>2, Zenon DEF DriftOwned
    <2>2. v - 1 \in 1..Len(log[t])
      <3>1. Len(log[t]) \in Nat /\ pin[t] \in 1..Len(log[t])
        BY <1>0, VersionOps, Zenon
      <3>. QED  BY <2>1, <3>1
    <2>. QED  BY <1>1, <1>2, <2>1, <2>2, Zenon
  <1>. QED  BY <1>1, <1>2, Zenon

\* Recovery in the writer's process meets no interleaving: nothing but the open
\* intent moved the tables, and nothing moved the manifest under it.
LEMMA NotInterleaved ==
    ASSUME InductiveInv, SoloInv, NEW o \in Pending, o \notin Committed,
           RollbackId(o) \notin Published, NEW t \in plan[o].tabs
    PROVE  /\ plan[o].pins[t] = pin[t]
           /\ ~OwnBeforeHead(o, t) /\ ~AmbiguousAdvance(o, t) /\ ~ForeignDrift(o, t)
  <1>0. /\ WriteInv /\ OneIntent /\ RollbackPlanned /\ t \in Tables
        /\ plan[o].pins[t] = pin[t]
    BY Zenon DEF InductiveInv, SoloInv, AuthorityHeld, WriteInv, TypeOK, SidecarsOK, Plan, Pending
  <1>1. Len(log[t]) \in Nat /\ pin[t] \in 1..Len(log[t])
    BY <1>0, VersionOps, Zenon
  <1>2. ASSUME NEW v \in 1..Len(log[t]), v > pin[t] PROVE v \in (plan[o].pins[t] + 1)..Len(log[t])
    <2>1. v \in (pin[t] + 1)..Len(log[t])
      BY <1>1, <1>2
    <2>. QED  BY <1>0, <2>1, Zenon
  <1>3. ~AmbiguousAdvance(o, t)
    BY <1>0, Zenon DEF AmbiguousAdvance
  <1>4. ASSUME Len(log[t]) > pin[t]
        PROVE  /\ OwnVersions(o, t) # {}
               /\ OwnAtHead(o, t) \/ Top(t).restore = pin[t]
    <2>. DEFINE n == Len(log[t])
    <2>1. n \in 1..Len(log[t]) /\ n > pin[t]
      BY <1>1, <1>4
    <2>2. CASE log[t][n].op = o
      BY <1>2, <2>1, <2>2, Zenon DEF OwnVersions, OwnAtHead
    <2>3. CASE log[t][n].op # o
      <3>1. /\ log[t][n].op = 0 /\ log[t][n - 1].op = o
            /\ n - 1 \in 1..Len(log[t]) /\ n - 1 > pin[t]
        BY <1>0, <2>1, <2>3, OwnDrift, Zenon
      <3>2. log[t][n].restore = pin[t]
        BY <1>0, <2>1, <3>1, Zenon DEF RollbackPlanned
      <3>. QED  BY <1>2, <3>1, <3>2, Zenon DEF OwnVersions, Top
    <2>. QED  BY <2>2, <2>3
  <1>5. ASSUME OwnVersions(o, t) # {} PROVE Len(log[t]) > pin[t]
    <2>1. PICK v \in (plan[o].pins[t] + 1)..Len(log[t]) : TRUE
      BY <1>5, Zenon DEF OwnVersions
    <2>2. v \in (pin[t] + 1)..Len(log[t])
      BY <1>0, <2>1, Zenon
    <2>. QED  BY <1>1, <2>2
  <1>. QED  BY <1>0, <1>3, <1>4, <1>5, Zenon DEF OwnBeforeHead, OwnCompensatedAtHead, ForeignDrift

\* The states recovery refuses to act on.
LEMMA VerdictErrors ==
    ASSUME NEW o, NEW mode \in {"Full", "RollForwardOnly"}, Verdict(o, mode) = "error"
    PROVE  /\ sc[o] # "none"
           /\ \/ CommitId(o) \in Published /\ RollbackId(o) \in Published
              \/ RollbackId(o) \in Published /\ ~scPlan[o]
              \/ CommitId(o) \notin Published /\ RollbackId(o) \notin Published /\ Interleaved(o)
  BY Zenon DEF Verdict

LEMMA NotWedged ==
    ASSUME InductiveInv, SoloInv PROVE NeverWedged
  <1>0. WriteInv /\ OutcomeInv /\ DriftInv /\ RollbackPlanned /\ TypeOK /\ TasksOK /\ Minted
    BY Zenon DEF InductiveInv, SoloInv, WriteInv, TypeOK
  <1>1. ASSUME NEW k \in Tasks, pc[k] = "classify", Verdict(job[k].op, job[k].mode) = "error"
        PROVE  FALSE
    <2>1. PICK o \in Ops : o = job[k].op
      BY <1>0, <1>1, InHandOp, Zenon DEF InHand, Gated
    <2>2. job[k].mode \in {"Full", "RollForwardOnly"}
      BY <1>0, Zenon DEF TasksOK, Job
    <2>3. /\ o \in Pending
          /\ \/ CommitId(o) \in Published /\ RollbackId(o) \in Published
             \/ RollbackId(o) \in Published /\ ~scPlan[o]
             \/ CommitId(o) \notin Published /\ RollbackId(o) \notin Published /\ Interleaved(o)
      BY <1>1, <2>1, <2>2, VerdictErrors, Zenon DEF Pending
    <2>4. ~(CommitId(o) \in Published /\ RollbackId(o) \in Published)
      BY <1>0, Settled, Zenon DEF Committed
    <2>5. ~(RollbackId(o) \in Published /\ ~scPlan[o])
      BY <1>0, Zenon DEF RollbackPlanned
    <2>6. CASE CommitId(o) \notin Published /\ RollbackId(o) \notin Published
      BY <2>3, <2>6, NotInterleaved, Zenon DEF Interleaved, Committed
    <2>. QED  BY <2>3, <2>4, <2>5, <2>6
  <1>2. ASSUME NEW k \in Tasks, pc[k] \in {"reclaim", "withdraw", "duplicate"}
        PROVE  CleanForks(job[k].op)
    <2>1. PICK o \in Ops : o = job[k].op
      BY <1>0, <1>2, InHandOp, Zenon DEF InHand, Gated
    <2>2. o \in Pending /\ o \notin Committed /\ RollbackId(o) \notin Published
      BY <1>0, <1>2, <2>1, Zenon DEF OutcomeInv, OpenInHand, DriftInv, EffectsInHand, WriteInv,
         Phases, Phase, PreConfirm, Pending
    <2>3. SUFFICES ASSUME NEW t \in Reclaimable(o) PROVE Len(log[t]) = plan[o].pins[t]
      BY <2>1, Zenon DEF CleanForks
    <2>4. t \in plan[o].tabs /\ OwnVersions(o, t) = {}
      BY Zenon DEF Reclaimable, UnpublishedForks
    <2>5. t \in Tables
      BY <1>0, <2>4, Zenon DEF WriteInv, TypeOK, SidecarsOK, Plan
    <2>6. plan[o].pins[t] = pin[t] /\ ~(Len(log[t]) > pin[t])
      BY <2>2, <2>4, NotInterleaved, Zenon DEF ForeignDrift
    <2>7. Len(log[t]) \in Nat /\ pin[t] \in 1..Len(log[t])
      BY <1>0, <2>5, VersionOps, Zenon
    <2>. QED  BY <2>6, <2>7
  <1>. QED  BY <1>1, <1>2, Zenon DEF NeverWedged

-----------------------------------------------------------------------------
\* The theorems of one process.  The gates of a branch are process-local, so
\* these hold where every task runs in the writer's process; another process is
\* outside the supported envelope of RFC-022's recovery.

\* What the gates of one process keep: one intent at a time, the manifest where
\* that intent captured it, and every fork, restored version and audit row
\* accounted for.
THEOREM SoloInvariant == ASSUME OneProcess PROVE Spec => []SoloInv
  <1>1. Init => SoloInv
    BY SoloInit, Zenon
  <1>2. InductiveInv /\ SoloInv /\ [Next]_vars => SoloInv'
    BY SoloStep, Zenon
  <1>. QED  BY <1>1, <1>2, DriftAccounted, PTL DEF Spec

\* Each outcome is audited at most once and only when it is visible, and a
\* rolled-back sidecar is removed only after its audit row: record_audit and the
\* fixed rollback plan hold across crashes and retried passes.
THEOREM AuditsExact == ASSUME OneProcess PROVE Spec => []AuditExact
  <1>1. SoloInv => AuditExact
    BY Zenon DEF SoloInv, Audited
  <1>2. Spec => []SoloInv
    BY SoloInvariant
  <1>. QED  BY <1>1, <1>2, PTL

\* A branch ref the manifest has not selected is named by a pending sidecar, so
\* no first-touch fork is lost by a crash, a withdrawn write or a rollback.
THEOREM ForksAreCovered == ASSUME OneProcess PROVE Spec => []ForksCovered
  <1>1. SoloInv => ForksCovered
    BY Zenon DEF SoloInv, ForksAccounted
  <1>2. Spec => []SoloInv
    BY SoloInvariant
  <1>. QED  BY <1>1, <1>2, PTL

\* Recovery never meets a state it refuses to act on: process_sidecar returns no
\* error and reclaim finds every unselected fork at its fork point.
THEOREM RecoveryNeverWedged == ASSUME OneProcess PROVE Spec => []NeverWedged
  <1>1. InductiveInv /\ SoloInv => NeverWedged
    BY NotWedged, Zenon
  <1>2. Spec => []SoloInv
    BY SoloInvariant
  <1>. QED  BY <1>1, <1>2, DriftAccounted, PTL

=============================================================================
