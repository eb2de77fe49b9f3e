-------------------------- MODULE WriteDriftProofs --------------------------
(***************************************************************************)
(* The versions an operation makes: at most one of a table, above the pin  *)
(* it captured; and an operation that no pass can publish any more never   *)
(* becomes publishable again.  From these, whose the versions past the     *)
(* manifest's pins are: every one belongs to an operation whose sidecar is *)
(* still there, so that no drift of a table HEAD is ever left to an        *)
(* operator's repair.                                                      *)
(***************************************************************************)
EXTENDS WriteOutcomeProofs


-----------------------------------------------------------------------------
\* Versions and what a step does to them.

\* What OwnOnce says of one effect.
LEMMA EffectOwned ==
    ASSUME WriteInv, DriftInv, NEW t \in Tables, NEW v \in 1..Len(log[t]),
           NEW o \in Ops, log[t][v].op = o
    PROVE  /\ o < nextOp /\ t \in plan[o].tabs /\ plan[o].pins[t] < v
           /\ o \in log[t][v].rows /\ log[t][v].restore = 0
           /\ v \in OwnVersions(o, t)
           /\ \A u \in 1..Len(log[t]) : log[t][u].op = o => u = v
  <1>1. o # 0
    BY DEF Ops
  <1>2. /\ o < nextOp /\ t \in plan[o].tabs /\ plan[o].pins[t] < v
        /\ o \in log[t][v].rows /\ log[t][v].restore = 0
        /\ \A u \in 1..Len(log[t]) : log[t][u].op = o => u = v
    BY <1>1, Zenon DEF DriftInv, OwnOnce
  <1>3. plan[o].pins[t] \in Nat
    BY DEF WriteInv, TypeOK, SidecarsOK, Plan
  <1>4. v \in OwnVersions(o, t)
    BY <1>2, <1>3, VersionOps DEF OwnVersions
  <1>. QED  BY <1>2, <1>4, Zenon

\* What recovery takes for the absence of effects is one.
LEMMA NothingOwned ==
    ASSUME WriteInv, DriftInv, NEW o \in Ops, ~AnyOwnEffect(o)
    PROVE  \A t \in Tables : NoEffectOn(o, t)
  BY EffectOwned, Zenon DEF NoEffectOn, AnyOwnEffect

-----------------------------------------------------------------------------
\* The parts of the invariant, one lemma each.

\* The manifest's pins never fall behind a capture.
LEMMA PinsForwardStep ==
    ASSUME WriteInv, DriftInv, [Next]_vars PROVE PinsForward'
  <1>0. \A t \in Tables : pin[t] \in Nat /\ pin'[t] \in Nat /\ pin[t] >= 1 /\ pin[t] <= pin'[t]
    <2>1. WriteInv'
      BY WriteInvStep, Zenon
    <2>. QED  BY <2>1, ManifestGrows DEF WriteInv, Pinned, TypeOK, StorageOK
  <1>1. /\ \A k \in Tasks, t \in Tables : req[k].base.pins[t] \in Nat
        /\ \A o \in Ops, t \in Tables : plan[o].pins[t] \in Nat
    <2>1. /\ \A k \in Tasks : req[k].base.pins \in [Tables -> Nat]
          /\ \A o \in Ops : plan[o].pins \in [Tables -> Nat]
      BY Zenon DEF WriteInv, TypeOK, TasksOK, SidecarsOK, Request, Plan
    <2>. QED  BY <2>1, Zenon
  <1>2. ASSUME NEW o \in Ops, NEW t \in Tables PROVE plan'[o].pins[t] <= pin'[t]
    <2>1. plan[o].pins[t] <= pin[t] /\ \A k \in Tasks : req[k].base.pins[t] <= pin[t]
      BY Zenon DEF DriftInv, PinsForward
    <2>2. ASSUME NEW k \in Tasks, Arm(k) PROVE plan'[o] = plan[o] \/ plan'[o] = req[k].base
      BY <2>2, Zenon DEF Arm, WriteInv, TypeOK, SidecarsOK
    <2>3. plan'[o] = plan[o] \/ \E k \in Tasks : plan'[o] = req[k].base
      BY <2>2, PlanStep, Zenon
    <2>. QED  BY <1>0, <1>1, <2>1, <2>3
  <1>3. ASSUME NEW k \in Tasks, NEW t \in Tables PROVE req'[k].base.pins[t] <= pin'[t]
    <2>1. CASE req'[k].base = req[k].base
      BY <1>0, <1>1, <2>1 DEF DriftInv, PinsForward
    <2>2. CASE req'[k].base.pins = [u \in Tables |-> 1]
      BY <1>0, <2>2
    <2>3. CASE req'[k].base.pins = pin
      BY <1>0, <2>3, Zenon
    <2>4. ASSUME NEW j \in Tasks, TaskStep(j)
          PROVE  req'[k].base.pins[t] <= pin'[t]
      <3>1. CASE j # k
        BY <2>1, <2>4, <3>1, TaskFrame, Zenon DEF WriteInv, TypeOK
      <3>2. CASE j = k
        <4>1. ASSUME NEW tabs \in SUBSET Tables,
                     req'[k].base = [head |-> GraphHead, pins |-> pin, tabs |-> tabs,
                                     forks |-> {u \in tabs : ~owned[u]},
                                     want |-> req[k].base.want]
              PROVE  req'[k].base.pins = pin
          BY <4>1
        <4>. QED  BY <2>1, <2>2, <2>3, <2>4, <3>2, <4>1, BaseStep, Zenon DEF WriteInv
      <3>. QED  BY <3>1, <3>2, Zenon
    <2>5. ASSUME NEW p \in Procs, Crash(p) PROVE req'[k].base.pins[t] <= pin'[t]
      BY <2>1, <2>2, <2>5, CrashFrame, SMTT(30) DEF NoReq, NoPlan
    <2>6. CASE UNCHANGED vars
      BY <2>1, <2>6, Zenon DEF vars
    <2>. QED  BY <2>4, <2>5, <2>6, Zenon DEF Next
  <1>. QED  BY <1>2, <1>3, Zenon DEF PinsForward

\* The committing task has not yet written the table it commits.
LEMMA FirstEffect ==
    ASSUME WriteInv, DriftInv, NEW k \in Tasks, CommitTable(k), NEW t \in job[k].left
    PROVE  /\ job[k].op \in Ops /\ job[k].op < nextOp /\ t \in Tables
           /\ t \in plan[job[k].op].tabs /\ sc[job[k].op] = "Armed"
           /\ job[k].op \notin Committed /\ RollbackId(job[k].op) \notin Published
           /\ NoEffectOn(job[k].op, t)
  <1>1. pc[k] = "commit"
    BY Zenon DEF CommitTable
  <1>2. job[k].op \in Ops
    BY <1>1, InHandOp, Zenon DEF WriteInv, InHand, Gated
  <1>3. t \in plan[job[k].op].tabs
    BY <1>1, Zenon DEF WriteInv, Phases, Phase
  <1>4. t \in Tables
    BY <1>2, <1>3, Zenon DEF WriteInv, TypeOK, SidecarsOK, Plan
  <1>5. /\ sc[job[k].op] = "Armed" /\ job[k].op \notin Committed
        /\ RollbackId(job[k].op) \notin Published
    BY <1>1, Zenon DEF WriteInv, Phases, Phase, PreConfirm
  <1>6. job[k].op < nextOp
    BY Zenon DEF WriteInv, Minted
  <1>7. NoEffectOn(job[k].op, t)
    BY <1>1, Zenon DEF DriftInv, EffectsInHand, NoEffectOn
  <1>. QED  BY <1>2, <1>3, <1>4, <1>5, <1>6, <1>7, Zenon

\* An operation makes at most one version of a table.
LEMMA OwnOnceStep ==
    ASSUME WriteInv, DriftInv, [Next]_vars PROVE OwnOnce'
  <1>. SUFFICES ASSUME NEW t \in Tables, NEW v \in 1..Len(log'[t])
                PROVE  LET o == log'[t][v].op IN
                       IF o = 0 THEN v > pin'[t] => log'[t][v].restore # 0
                       ELSE /\ o < nextOp' /\ t \in plan'[o].tabs /\ plan'[o].pins[t] < v
                            /\ o \in log'[t][v].rows /\ log'[t][v].restore = 0
                            /\ \A u \in 1..Len(log'[t]) : log'[t][u].op = o => u = v
    BY Zenon DEF OwnOnce
  <1>0. /\ pin[t] \in Nat /\ pin[t] >= 1 /\ pin'[t] \in Nat /\ pin[t] <= pin'[t]
        /\ Len(log[t]) \in Nat /\ Len(log'[t]) \in Nat
        /\ nextOp \in Nat /\ nextOp' \in Nat /\ nextOp <= nextOp'
    <2>1. WriteInv'
      BY WriteInvStep, Zenon
    <2>2. \A k \in Tasks : Arm(k) => nextOp' = nextOp + 1
      BY Zenon DEF Arm
    <2>. QED  BY <2>1, <2>2, VersionOps, NextOpStep, ManifestGrows
              DEF WriteInv, Pinned, TypeOK, StorageOK, ControlOK
  <1>1. ASSUME NEW u \in 1..Len(log'[t]), NEW o \in Ops, log'[t][u].op = o
        PROVE  \/ u \in 1..Len(log[t]) /\ log[t][u] = log'[t][u] /\ log[t][u].op = o
               \/ /\ u = Len(log[t]) + 1 /\ log'[t][u] = EffectOf(o, t)
                  /\ \E k \in Tasks : CommitTable(k) /\ t \in job[k].left /\ job[k].op = o
    <2>1. log'[t][u] # RestoreOf(t)
      BY <1>1 DEF Ops, RestoreOf
    <2>2. ASSUME NEW k \in Tasks, log'[t][u] = EffectOf(job[k].op, t) PROVE job[k].op = o
      BY <1>1, <2>2 DEF EffectOf
    <2>3. \/ u \in 1..Len(log[t]) /\ log'[t][u] = log[t][u]
          \/ /\ u = Len(log[t]) + 1
             /\ \E k \in Tasks : /\ CommitTable(k) /\ t \in job[k].left
                                 /\ log'[t][u] = EffectOf(job[k].op, t)
      BY <2>1, VersionStep, Zenon
    <2>. QED  BY <1>1, <2>2, <2>3, Zenon
  <1>2. CASE log'[t][v].op = 0
    <2>1. CASE v \in 1..Len(log[t]) /\ log'[t][v] = log[t][v]
      BY <1>0, <1>2, <2>1 DEF DriftInv, OwnOnce
    <2>2. CASE log'[t][v] = RestoreOf(t)
      BY <1>0, <1>2, <2>2 DEF RestoreOf
    <2>3. ASSUME NEW k \in Tasks, CommitTable(k), t \in job[k].left,
                 log'[t][v] = EffectOf(job[k].op, t)
          PROVE  FALSE
      BY <1>2, <2>3, FirstEffect DEF EffectOf, Ops
    <2>. QED  BY <1>2, <2>1, <2>2, <2>3, VersionStep, Zenon
  <1>3. CASE log'[t][v].op # 0
    <2>. DEFINE o == log'[t][v].op
    <2>0. o \in Ops
      <3>1. WriteInv'
        BY WriteInvStep, Zenon
      <3>2. log'[t] \in Seq(Version)
        BY <3>1, Zenon DEF WriteInv, TypeOK, StorageOK
      <3>3. log'[t][v] \in Version
        BY <3>2
      <3>. QED  BY <1>3, <3>3, Shapes DEF Version, Ops
    <2>1. CASE v \in 1..Len(log[t]) /\ log[t][v] = log'[t][v] /\ log[t][v].op = o
      <3>1. /\ o < nextOp /\ t \in plan[o].tabs /\ plan[o].pins[t] < v
            /\ o \in log[t][v].rows /\ log[t][v].restore = 0
            /\ \A u \in 1..Len(log[t]) : log[t][u].op = o => u = v
        BY <2>0, <2>1, EffectOwned
      <3>2. plan'[o] = plan[o]
        BY <2>0, <3>1, PlanKept, Zenon DEF WriteInv
      <3>3. ASSUME NEW k \in Tasks, CommitTable(k), t \in job[k].left, job[k].op = o PROVE FALSE
        BY <2>1, <3>3, FirstEffect, Zenon DEF NoEffectOn
      <3>4. ASSUME NEW u \in 1..Len(log'[t]), log'[t][u].op = o PROVE u = v
        BY <1>1, <2>0, <3>1, <3>3, <3>4, Zenon
      <3>5. o < nextOp'
        BY <1>0, <2>0, <3>1 DEF Ops
      <3>. HIDE DEF o
      <3>. QED  BY <1>3, <2>1, <3>1, <3>2, <3>4, <3>5, Zenon DEF o
    <2>2. ASSUME NEW k \in Tasks, CommitTable(k), t \in job[k].left, job[k].op = o,
                 v = Len(log[t]) + 1, log'[t][v] = EffectOf(o, t)
          PROVE  /\ o < nextOp' /\ t \in plan'[o].tabs /\ plan'[o].pins[t] < v
                 /\ o \in log'[t][v].rows /\ log'[t][v].restore = 0
                 /\ \A u \in 1..Len(log'[t]) : log'[t][u].op = o => u = v
      <3>1. o < nextOp /\ t \in plan[o].tabs /\ NoEffectOn(o, t)
        BY <2>2, FirstEffect, Zenon
      <3>2. plan'[o] = plan[o]
        BY <2>0, <3>1, PlanKept, Zenon DEF WriteInv
      <3>3. plan[o].pins[t] \in Nat /\ plan[o].pins[t] <= pin[t] /\ pin[t] <= Len(log[t])
        <4>1. plan[o].pins \in [Tables -> Nat]
          BY <2>0, Zenon DEF WriteInv, TypeOK, SidecarsOK, Plan
        <4>2. plan[o].pins[t] <= pin[t]
          BY <2>0, Zenon DEF DriftInv, PinsForward
        <4>. QED  BY <4>1, <4>2, VersionOps
      <3>4. ASSUME NEW u \in 1..Len(log'[t]), log'[t][u].op = o PROVE u = v
        BY <1>1, <2>0, <2>2, <3>1, <3>4, Zenon DEF NoEffectOn
      <3>5. o < nextOp'
        BY <1>0, <2>0, <3>1, SMTT(30) DEF Ops
      <3>6. plan'[o].pins[t] < v
        BY <1>0, <2>2, <3>2, <3>3
      <3>7. o \in log'[t][v].rows /\ log'[t][v].restore = 0
        BY <2>2 DEF EffectOf
      <3>. QED  BY <3>1, <3>2, <3>4, <3>5, <3>6, <3>7, Zenon
    <2>. QED  BY <1>1, <1>3, <2>0, <2>1, <2>2, Zenon
  <1>. QED  BY <1>2, <1>3, Zenon

\* The control points from which an operation may still be published.
Publishing == PreConfirm \cup {"publish", "rollForward"}

\* Why the confirmed effects of o are not what a roll-forward asks for.
Spoiled(o) ==
    \/ sc[o] # "EffectsConfirmed"
    \/ GraphHead # plan[o].head
    \/ \E t \in plan[o].tabs : pin[t] # plan[o].pins[t] \/ Len(log[t]) > plan[o].pins[t] + 1

\* Nobody gets back to publishing a doomed operation.
LEMMA NobodyPublishes ==
    ASSUME WriteInv, [Next]_vars, NEW o \in Ops, o < nextOp, Doomed(o),
           NEW j \in Tasks, pc'[j] \in Publishing
    PROVE  job'[j].op # o
  <1>0. TasksOK /\ TypeOK /\ nextOp \in Nat /\ job[j].mode \in {"Full", "RollForwardOnly"}
    BY Zenon DEF WriteInv, TypeOK, TasksOK, Job, ControlOK
  <1>1. pc[j] \in Publishing => job[j].op # o
    BY Zenon DEF Doomed, Publishing
  <1>2. CASE ~TaskStep(j)
    BY <1>0, <1>1, <1>2, OthersStay, Zenon DEF Publishing, PreConfirm
  <1>3. CASE TaskStep(j)
    <2>1. \/ job'[j].op = job[j].op /\ pc[j] \in Publishing
          \/ Arm(j) /\ job'[j].op = nextOp
          \/ Classify(j) /\ pc'[j] = "rollForward" /\ job'[j].op = job[j].op
      BY <1>0, <1>3, RecoverArrives, AttemptArrives, Zenon
         DEF TaskStep, Arrives, Publishing, PreConfirm, ForkTable, ForksReady, CommitTable,
             Withdraw, Confirm
    <2>2. ASSUME Classify(j), pc'[j] = "rollForward", job[j].op = o PROVE FALSE
      <3>1. Verdict(o, job[j].mode) = "rollForward"
        BY <1>0, <2>2, Zenon DEF Classify, Leave, ToNext, Advance, Goto, TasksOK
      <3>2. /\ GraphHead = plan[o].head
            /\ \A t \in plan[o].tabs : RolledPastExpected(o, t)
        BY <1>0, <3>1, VerdictPremises, Zenon
      <3>3. sc[o] = "EffectsConfirmed"
        <4>1. plan[o].tabs # {}
          BY <1>0, <3>1, VerdictPremises, Zenon DEF WriteInv, Recorded
        <4>. QED  BY <3>2, <4>1, Zenon DEF RolledPastExpected
      <3>4. \A t \in plan[o].tabs : /\ pin[t] = plan[o].pins[t]
                                    /\ Len(log[t]) = plan[o].pins[t] + 1
        BY <3>2, Zenon DEF RolledPastExpected
      <3>5. \A t \in plan[o].tabs : plan[o].pins[t] \in Nat
        BY DEF WriteInv, TypeOK, SidecarsOK, Plan
      <3>. QED  BY <3>2, <3>3, <3>4, <3>5 DEF Doomed
    <2>3. nextOp # o
      BY <1>0 DEF Ops
    <2>. QED  BY <1>1, <2>1, <2>2, <2>3, Zenon
  <1>. QED  BY <1>2, <1>3, Zenon

\* Nothing a step does makes spoiled effects publishable again.
LEMMA StaysSpoiled ==
    ASSUME WriteInv, OutcomeInv, DriftInv, [Next]_vars, NEW o \in Ops, o < nextOp, Doomed(o)
    PROVE  Spoiled(o)'
  <1>0. /\ plan'[o] = plan[o] /\ nextOp \in Nat
        /\ sc \in [Ops -> {"none", "Armed", "EffectsConfirmed"}]
    BY PlanKept, Zenon DEF WriteInv, TypeOK, SidecarsOK, ControlOK
  <1>1. CASE sc[o] # "EffectsConfirmed"
    <2>1. ASSUME NEW k \in Tasks, Confirm(k) PROVE job[k].op # o
      BY <2>1, Zenon DEF Confirm, Doomed, PreConfirm
    <2>2. ASSUME NEW k \in Tasks, o = job[k].op, Unlink(k) \/ Retract(k) \/ CleanupSidecar(k)
          PROVE  sc' = sc \/ sc' = [sc EXCEPT ![o] = "none"]
      BY <2>2, Zenon DEF Unlink, Retract, CleanupSidecar
    <2>3. o # nextOp
      BY <1>0 DEF Ops
    <2>4. \/ sc'[o] = sc[o]
          \/ \E k \in Tasks : o = job[k].op /\ (Unlink(k) \/ Retract(k) \/ CleanupSidecar(k))
      BY <2>1, <2>3, SidecarEffect, Zenon DEF WriteInv
    <2>5. sc'[o] # "EffectsConfirmed"
      BY <1>0, <1>1, <2>2, <2>4, Zenon
    <2>. QED  BY <2>5, Zenon DEF Spoiled
  <1>2. CASE GraphHead # plan[o].head
    <2>1. plan[o].head \in Published
      BY Zenon DEF OutcomeInv, Authorized
    <2>2. ASSUME NEW id, id \notin Published, lineage' = Append(lineage, id)
          PROVE  GraphHead' # plan[o].head
      <3>1. GraphHead' = id
        BY <2>2 DEF GraphHead, WriteInv, TypeOK, StorageOK
      <3>. QED  BY <2>1, <2>2, <3>1, Zenon
    <2>3. CASE UNCHANGED manifest
      BY <1>0, <1>2, <2>3, Zenon DEF Spoiled, manifest, GraphHead
    <2>4. ASSUME NEW x \in Ops, x \notin Committed, RollbackId(x) \notin Published,
                 lineage' = Append(lineage, CommitId(x)) \/ lineage' = Append(lineage, RollbackId(x))
          PROVE  GraphHead' # plan[o].head
      BY <2>2, <2>4, Zenon DEF Committed
    <2>5. GraphHead' # plan[o].head => Spoiled(o)'
      BY <1>0, Zenon DEF Spoiled
    <2>. QED  BY <2>3, <2>4, <2>5, SettlesOpen, Zenon DEF PublishManifest
  <1>3. ASSUME NEW t \in plan[o].tabs, pin[t] # plan[o].pins[t] PROVE Spoiled(o)'
    <2>0. t \in Tables /\ plan[o].pins[t] \in Nat
      BY DEF WriteInv, TypeOK, SidecarsOK, Plan
    <2>1. plan[o].pins[t] <= pin[t]
      BY <2>0, Zenon DEF DriftInv, PinsForward
    <2>2. pin[t] \in Nat /\ pin'[t] \in Nat /\ pin[t] <= pin'[t]
      BY <2>0, WriteInvStep, ManifestGrows, Zenon DEF WriteInv, TypeOK, StorageOK
    <2>3. pin'[t] # plan[o].pins[t]
      BY <1>3, <2>0, <2>1, <2>2
    <2>. QED  BY <1>0, <1>3, <2>3, Zenon DEF Spoiled
  <1>4. ASSUME NEW t \in plan[o].tabs, Len(log[t]) > plan[o].pins[t] + 1,
               sc[o] = "EffectsConfirmed"
        PROVE  Spoiled(o)'
    <2>0. t \in Tables /\ plan[o].pins[t] \in Nat
      BY DEF WriteInv, TypeOK, SidecarsOK, Plan
    <2>1. \A k \in Tasks : ForkTable(k) => job[k].op # o
      BY Zenon DEF ForkTable, Doomed, PreConfirm
    <2>2. Kept(t)
      BY <1>4, <2>1, ClaimedKept, Zenon
    <2>3. Len(log[t]) \in Nat /\ Len(log'[t]) \in Nat
      BY <2>0, WriteInvStep DEF WriteInv, TypeOK, StorageOK
    <2>4. Len(log'[t]) > plan[o].pins[t] + 1
      BY <1>4, <2>0, <2>2, <2>3 DEF Kept
    <2>. QED  BY <1>0, <1>4, <2>4, Zenon DEF Spoiled
  <1>. QED  BY <1>1, <1>2, <1>3, <1>4, Zenon DEF Doomed

\* A doomed operation stays doomed.
LEMMA DoomedStays ==
    ASSUME WriteInv, OutcomeInv, DriftInv, [Next]_vars, NEW o \in Ops, o < nextOp, Doomed(o)
    PROVE  Doomed(o)'
  <1>1. \A k \in Tasks : pc'[k] \in Publishing => job'[k].op # o
    BY NobodyPublishes, Zenon
  <1>2. Spoiled(o)'
    BY StaysSpoiled, Zenon
  <1>. QED  BY <1>1, <1>2, Zenon DEF Doomed, Spoiled, Publishing

\* A sidecar goes only when the effects it covers are below the pins.
LEMMA CoverStays ==
    ASSUME WriteInv, DriftInv, [Next]_vars, NEW t \in Tables, NEW v \in 1..Len(log[t]),
           NEW o \in Ops, log[t][v].op = o, v > pin[t], sc[o] # "none"
    PROVE  sc'[o] # "none"
  <1>0. o < nextOp /\ nextOp \in Nat
    BY EffectOwned DEF WriteInv, TypeOK, ControlOK
  <1>1. ~(o \in Committed \/ RollbackId(o) \in Published)
    <2>1. ~(v <= pin[t])
      BY VersionOps
    <2>. QED  BY <2>1, Zenon DEF DriftInv, SettledBelow
  <1>2. ~NoEffect(o)
    BY Zenon DEF NoEffect
  <1>3. ASSUME NEW k \in Tasks, o = job[k].op, Unlink(k) \/ Retract(k) \/ CleanupSidecar(k)
        PROVE  FALSE
    <2>1. CASE Unlink(k)
      BY <1>1, <1>2, <1>3, <2>1, Zenon DEF Unlink, DriftInv, EffectsInHand
    <2>2. CASE Retract(k)
      BY <1>2, <1>3, <2>2, Zenon DEF Retract, DriftInv, EffectsInHand
    <2>3. CASE CleanupSidecar(k)
      BY <1>1, <1>3, <2>3, Zenon DEF CleanupSidecar, WriteInv, Phases, Phase
    <2>. QED  BY <1>3, <2>1, <2>2, <2>3, Zenon
  <1>4. o # nextOp
    BY <1>0 DEF Ops
  <1>5. sc'[o] = sc[o] \/ sc'[o] = "EffectsConfirmed"
    BY <1>3, <1>4, SidecarEffect, Zenon DEF WriteInv
  <1>. QED  BY <1>5, Zenon

-----------------------------------------------------------------------------
\* Drift past the pins.

\* The HEAD that a sweep restores is past the pin: a pinned version holds only
\* committed rows.
LEMMA RestoresDrift ==
    ASSUME WriteInv, OutcomeInv, DriftInv, NEW k \in Tasks, RestoreTable(k), NEW t \in job[k].left
    PROVE  /\ t \in Tables /\ Len(log[t]) > pin[t]
           /\ Top(t).op = job[k].op /\ job[k].op \in Ops /\ job[k].op < nextOp
           /\ Doomed(job[k].op)
  <1>. DEFINE o == job[k].op
  <1>1. pc[k] = "restore"
    BY Zenon DEF RestoreTable
  <1>2. o \in Ops /\ o < nextOp
    BY <1>1, InHandOp, Zenon DEF WriteInv, InHand, Gated, Minted
  <1>3. t \in plan[o].tabs /\ OwnAtHead(o, t)
    BY <1>1, Zenon DEF WriteInv, Phases, Phase
  <1>4. t \in Tables
    BY <1>2, <1>3, Zenon DEF WriteInv, TypeOK, SidecarsOK, Plan
  <1>5. Top(t).op = o
    BY <1>3, Zenon DEF OwnAtHead, OwnVersions, Top
  <1>6. Len(log[t]) \in Nat /\ pin[t] \in 1..Len(log[t])
    BY <1>4, VersionOps, Zenon
  <1>7. Len(log[t]) # pin[t]
    <2>. SUFFICES ASSUME Len(log[t]) = pin[t] PROVE FALSE
      BY Zenon
    <2>1. o \in log[t][pin[t]].rows
      BY <1>2, <1>4, <1>5, <1>6, EffectOwned, Zenon DEF Top
    <2>2. o \in Committed
      BY <1>4, <2>1, Zenon DEF WriteInv, VisibleAtomic
    <2>. QED  BY <1>1, <2>2, Zenon DEF OutcomeInv, OpenInHand
  <1>8. Doomed(o)
    BY <1>1, Zenon DEF DriftInv, EffectsInHand
  <1>. QED  BY <1>2, <1>4, <1>5, <1>6, <1>7, <1>8

\* What is past the pins stays covered.
LEMMA DriftOwnedStep ==
    ASSUME WriteInv, OutcomeInv, DriftInv, [Next]_vars PROVE DriftOwned'
  <1>. SUFFICES ASSUME NEW t \in Tables, NEW v \in 1..Len(log'[t]), v > pin'[t]
                PROVE  (IF log[t][v].op # 0 THEN sc[log[t][v].op] # "none"
                        ELSE v - 1 > pin[t] /\ log[t][v - 1].op # 0 /\ Doomed(log[t][v - 1].op))'
    BY Zenon DEF DriftOwned, Doomed
  <1>0. /\ pin[t] \in Nat /\ pin[t] >= 1 /\ pin'[t] \in Nat /\ pin[t] <= pin'[t]
        /\ Len(log[t]) \in Nat /\ pin[t] <= Len(log[t]) /\ v \in Nat /\ v > pin[t]
    <2>1. pin'[t] \in Nat /\ Len(log'[t]) \in Nat
      BY WriteInvStep DEF WriteInv, TypeOK, StorageOK
    <2>. QED  BY <2>1, VersionOps, ManifestGrows
  <1>1. CASE /\ v \in 1..Len(log[t]) /\ log'[t][v] = log[t][v] /\ log[t][v].op # 0
    <2>1. log[t][v].op \in Ops
      BY <1>1, VersionOps, Zenon
    <2>2. sc[log[t][v].op] # "none"
      BY <1>0, <1>1, Zenon DEF DriftInv, DriftOwned
    <2>3. sc'[log[t][v].op] # "none"
      BY <1>0, <1>1, <2>1, <2>2, CoverStays, Zenon
    <2>. QED  BY <1>1, <2>3, Zenon
  <1>2. CASE /\ v \in 1..Len(log[t]) /\ log'[t][v] = log[t][v] /\ log[t][v].op = 0
    <2>0. v - 1 > pin[t] /\ log[t][v - 1].op # 0 /\ Doomed(log[t][v - 1].op)
      BY <1>0, <1>2, Zenon DEF DriftInv, DriftOwned
    <2>2. v - 1 \in 1..Len(log[t])
      BY <1>0, <1>2, <2>0
    <2>3. PICK o \in Ops : o = log[t][v - 1].op
      BY <2>0, <2>2, VersionOps, Zenon
    <2>1. v - 1 > pin[t] /\ o # 0 /\ Doomed(o) /\ o < nextOp
      BY <2>0, <2>2, <2>3, EffectOwned
    <2>4. Doomed(o)'
      BY <2>1, <2>3, DoomedStays, Zenon
    <2>5. log'[t][v - 1] = log[t][v - 1]
      <3>1. CASE Kept(t)
        BY <2>2, <3>1, Zenon DEF Kept
      <3>2. CASE ~Kept(t)
        <4>1. Cut(t)
          BY <3>2, KeptUnlessForked, Zenon DEF WriteInv
        <4>. QED  BY <1>0, <4>1 DEF Cut
      <3>. QED  BY <3>1, <3>2, Zenon
    <2>6. pin'[t] # v - 1
      <3>. SUFFICES ASSUME pin'[t] = v - 1 PROVE FALSE
        BY Zenon
      <3>1. ~UNCHANGED manifest
        BY <2>1 DEF manifest
      <3>2. ASSUME NEW k \in Tasks, RollForward(k) \/ Publish(k), job[k].op \in Ops,
                   CanPublish(job[k].op), Landed(job[k].op, plan[job[k].op].tabs),
                   PublishManifest(plan[job[k].op].tabs, Effects(job[k].op), CommitId(job[k].op))
            PROVE  FALSE
        <4>1. t \in plan[job[k].op].tabs /\ pin'[t] = plan[job[k].op].pins[t] + 1
          BY <1>0, <2>1, <3>2 DEF PublishManifest, Effects
        <4>2. log[t][v - 1].op = job[k].op
          <5>1. LandedOn(job[k].op, t)
            BY <3>2, <4>1, Zenon DEF Landed
          <5>2. plan[job[k].op].pins[t] + 1 = v - 1
            BY <4>1, Zenon
          <5>3. log[t][plan[job[k].op].pins[t] + 1].op = job[k].op
            BY <5>1, Zenon DEF LandedOn
          <5>. QED  BY <5>2, <5>3, Zenon
        <4>3. job[k].op # o
          BY <2>1, <3>2, Zenon DEF Doomed, RollForward, Publish
        <4>. QED  BY <2>3, <4>2, <4>3, Zenon
      <3>3. ASSUME NEW x \in Ops, PublishManifest(Compensable(x), LiveHeads, RollbackId(x))
            PROVE  FALSE
        <4>1. pin'[t] = pin[t] \/ pin'[t] = Len(log[t])
          BY <3>3, Zenon DEF PublishManifest, LiveHeads
        <4>. QED  BY <1>0, <1>2, <2>1, <4>1
      <3>. QED  BY <3>1, <3>2, <3>3, PublishEffect, Zenon DEF WriteInv
    <2>7. v - 1 > pin'[t]
      BY <1>0, <2>6
    <2>8. log'[t][v - 1].op = o
      BY <2>3, <2>5, Zenon
    <2>9. Doomed(log[t][v - 1].op)'
      BY <2>4, <2>8, Zenon DEF Doomed
    <2>. QED  BY <1>2, <2>1, <2>7, <2>8, <2>9, Zenon
  <1>3. ASSUME NEW k \in Tasks, CommitTable(k), t \in job[k].left,
               log'[t][v] = EffectOf(job[k].op, t)
        PROVE  log'[t][v].op # 0 /\ sc'[log'[t][v].op] # "none"
    <2>1. log'[t][v].op = job[k].op /\ UNCHANGED sc
      BY <1>3, TableAlone DEF EffectOf
    <2>2. sc[job[k].op] = "Armed" /\ job[k].op \in Ops
      BY <1>3, FirstEffect, Zenon
    <2>. QED  BY <2>1, <2>2 DEF Ops
  <1>4. ASSUME NEW k \in Tasks, RestoreTable(k), t \in job[k].left, Kept(t),
               v = Len(log[t]) + 1, log'[t][v] = RestoreOf(t)
        PROVE  (/\ log[t][v].op = 0
                /\ v - 1 > pin[t] /\ log[t][v - 1].op # 0 /\ Doomed(log[t][v - 1].op))'
    <2>1. log'[t][v].op = 0 /\ UNCHANGED pin
      BY <1>4, TableAlone, SMTT(30) DEF RestoreOf
    <2>2. PICK o \in Ops : /\ Len(log[t]) > pin[t] /\ Top(t).op = o /\ o < nextOp /\ Doomed(o)
      BY <1>4, RestoresDrift, Zenon
    <2>3. Doomed(o)'
      BY <2>2, DoomedStays, Zenon
    <2>4. v - 1 = Len(log[t]) /\ log'[t][v - 1] = Top(t)
      BY <1>0, <1>4 DEF Kept, Top
    <2>5. log'[t][v - 1].op = o /\ o # 0
      BY <2>2, <2>4 DEF Ops
    <2>6. Doomed(log[t][v - 1].op)'
      BY <2>3, <2>5, Zenon DEF Doomed
    <2>. QED  BY <2>1, <2>2, <2>4, <2>5, <2>6, Zenon
  <1>. QED  BY <1>1, <1>2, <1>3, <1>4, VersionStep, Zenon

\* A settled operation leaves nothing above the pins.
LEMMA SettledStep ==
    ASSUME WriteInv, OutcomeInv, DriftInv, [Next]_vars PROVE SettledBelow'
  <1>. SUFFICES ASSUME NEW o \in Ops, o \in Committed' \/ RollbackId(o) \in Published',
                       NEW t \in Tables, NEW v \in 1..Len(log'[t]), log'[t][v].op = o
                PROVE  v <= pin'[t]
    BY Zenon DEF SettledBelow
  <1>0. /\ pin[t] \in Nat /\ pin'[t] \in Nat /\ pin[t] <= pin'[t]
        /\ Len(log[t]) \in Nat /\ o # 0 /\ v \in Nat
    <2>1. pin'[t] \in Nat /\ Len(log'[t]) \in Nat
      BY WriteInvStep DEF WriteInv, TypeOK, StorageOK
    <2>. QED  BY <2>1, VersionOps, ManifestGrows DEF Ops
  <1>1. CASE o \in Committed \/ RollbackId(o) \in Published
    <2>1. ASSUME NEW k \in Tasks, CommitTable(k), t \in job[k].left,
                 log'[t][v] = EffectOf(job[k].op, t)
          PROVE  FALSE
      BY <1>1, <2>1, FirstEffect DEF EffectOf
    <2>2. log'[t][v] # RestoreOf(t)
      BY <1>0 DEF RestoreOf
    <2>3. v \in 1..Len(log[t]) /\ log[t][v].op = o
      BY <2>1, <2>2, VersionStep, Zenon
    <2>4. v <= pin[t]
      BY <1>1, <2>3, Zenon DEF DriftInv, SettledBelow
    <2>. QED  BY <1>0, <2>4
  <1>2. CASE ~(o \in Committed \/ RollbackId(o) \in Published)
    <2>1. ~UNCHANGED manifest
      BY <1>2, Zenon DEF manifest, Committed, Published
    <2>2. ASSUME UNCHANGED table
          PROVE  /\ v \in 1..Len(log[t]) /\ log[t][v].op = o
                 /\ t \in plan[o].tabs /\ v \in OwnVersions(o, t)
                 /\ \A u \in 1..Len(log[t]) : log[t][u].op = o => u = v
      <3>1. v \in 1..Len(log[t]) /\ log[t][v].op = o
        BY <2>2, Zenon DEF table
      <3>. QED  BY <3>1, EffectOwned, Zenon
    <2>3. ASSUME NEW k \in Tasks, UNCHANGED table, job[k].op \in Ops,
                 Landed(job[k].op, plan[job[k].op].tabs),
                 PublishManifest(plan[job[k].op].tabs, Effects(job[k].op), CommitId(job[k].op))
          PROVE  v <= pin'[t]
      <3>1. Published' = Published \cup {CommitId(job[k].op)}
        BY <2>3, PublishedGrows, Zenon DEF WriteInv, TypeOK
      <3>2. o = job[k].op
        BY <1>2, <2>3, <3>1, CommitPublished, Zenon
      <3>3. LandedOn(o, t) /\ plan[o].pins[t] + 1 = pin'[t]
        BY <2>2, <2>3, <3>2, Zenon DEF Landed, PublishManifest, Effects
      <3>4. plan[o].pins[t] + 1 = v
        <4>1. plan[o].pins[t] + 1 \in 1..Len(log[t])
          BY <1>0, <3>3 DEF LandedOn, WriteInv, TypeOK, SidecarsOK, Plan
        <4>. QED  BY <2>2, <2>3, <3>3, <4>1, Zenon DEF LandedOn
      <3>. QED  BY <1>0, <3>3, <3>4
    <2>4. ASSUME NEW k \in Tasks, UNCHANGED table, RollBack(k), job[k].op \in Ops,
                 PublishManifest(Compensable(job[k].op), LiveHeads, RollbackId(job[k].op))
          PROVE  v <= pin'[t]
      <3>1. Published' = Published \cup {RollbackId(job[k].op)}
        BY <2>4, PublishedGrows, Zenon DEF WriteInv, TypeOK
      <3>2. o = job[k].op
        BY <1>2, <2>4, <3>1, RollbackPublished, Zenon
      <3>3. ~OwnBeforeHead(o, t)
        BY <2>2, <2>4, <3>2, Zenon DEF RollBack, DriftInv, EffectsInHand
      <3>4. t \in Compensable(o)
        BY <2>2, <2>4, <3>3, Zenon DEF OwnBeforeHead, Compensable
      <3>5. pin'[t] = Len(log[t])
        BY <2>4, <3>2, <3>4, Zenon DEF PublishManifest, LiveHeads
      <3>. QED  BY <1>0, <2>2, <2>4, <3>5, SMTT(30)
    <2>. QED  BY <2>1, <2>3, <2>4, PublishEffect, Zenon DEF WriteInv, table
  <1>. QED  BY <1>1, <1>2, Zenon

-----------------------------------------------------------------------------
\* What tasks know of the effects of their operation.

\* A writer that has not committed a table finds no effect of its own there.
LEMMA WriterEffects ==
    ASSUME WriteInv, OutcomeInv, DriftInv, [Next]_vars, NEW j \in Tasks,
           pc'[j] \in {"fork", "retract", "commit"}, NEW t \in Tables,
           pc'[j] = "commit" => t \in job'[j].left
    PROVE  \A v \in 1..Len(log'[t]) : log'[t][v].op # job'[j].op
  <1>0. TasksOK /\ TypeOK /\ nextOp \in Nat /\ job \in [Tasks -> Job]
    BY Zenon DEF WriteInv, TypeOK, TasksOK, ControlOK
  <1>1. ASSUME NEW o \in Ops, NoEffectOn(o, t), job'[j].op = o,
               \A k \in Tasks : CommitTable(k) => job[k].op # o
        PROVE  \A v \in 1..Len(log'[t]) : log'[t][v].op # job'[j].op
    BY <1>1, NoEffectStays, Zenon DEF NoEffectOn
  <1>2. ASSUME NEW k \in Tasks, CommitTable(k) PROVE TaskStep(k) /\ pc[k] = "commit"
    BY <1>2, Zenon DEF TaskStep, Attempt, CommitTable
  <1>3. ASSUME NEW k \in Tasks, pc[k] \in Writer PROVE job[k].op \in Ops /\ job[k].op < nextOp
    BY <1>0, <1>3, InHandOp, Zenon DEF WriteInv, Writer, PreConfirm, InHand, Gated, Minted
  <1>4. CASE CommitTable(j)
    <2>1. PICK u \in job[j].left : /\ Done(j, u)
                                   /\ \/ log' = log
                                      \/ \E x : log' = [log EXCEPT ![u] = Append(@, x)]
      <3>1. ~NeedsRecovery(j) /\ ~Advance(j, "withdraw")
        BY <1>0, Zenon DEF NeedsRecovery, Leave, Advance, Goto, TasksOK
      <3>. QED  BY <1>4, <3>1, Zenon DEF CommitTable
    <2>2. pc'[j] = "commit" /\ job'[j].op = job[j].op /\ t \in job[j].left /\ t # u
      BY <1>0, <1>4, <2>1, Zenon DEF CommitTable, Done, Job
    <2>3. log'[t] = log[t]
      BY <2>1, <2>2, Zenon DEF WriteInv, TypeOK, StorageOK
    <2>4. NoEffectOn(job[j].op, t)
      BY <1>4, <2>2, FirstEffect, Zenon
    <2>. QED  BY <2>2, <2>3, <2>4, Zenon DEF NoEffectOn
  <1>5. CASE ~CommitTable(j) /\ pc'[j] = pc[j] /\ job'[j] = job[j]
    <2>1. pc[j] \in Writer
      BY <1>5, Zenon DEF Writer, PreConfirm
    <2>2. \A k \in Tasks : CommitTable(k) => job[k].op # job[j].op
      BY <1>2, <1>5, <2>1, Zenon DEF WriteInv, Minted, Writer, PreConfirm
    <2>3. NoEffectOn(job[j].op, t)
      BY <1>5, Zenon DEF DriftInv, EffectsInHand, NoEffect, NoEffectOn
    <2>. QED  BY <1>1, <1>3, <1>5, <2>1, <2>2, <2>3, Zenon
  <1>6. CASE ~CommitTable(j) /\ ~(pc'[j] = pc[j] /\ job'[j] = job[j])
    <2>1. TaskStep(j)
      BY <1>0, <1>6, OthersStay, Zenon
    <2>2. \A k \in Tasks : ~CommitTable(k)
      BY <1>0, <1>2, <1>6, TaskFrame, Zenon
    <2>3. ASSUME NEW o \in Ops, job'[j].op = o, NoEffectOn(o, t)
          PROVE  \A v \in 1..Len(log'[t]) : log'[t][v].op # job'[j].op
      BY <1>1, <2>2, <2>3, Zenon
    <2>4. \/ Arm(j) /\ job'[j].op = nextOp
          \/ /\ ForkTable(j) \/ ForksReady(j) \/ (Withdraw(j) /\ pc'[j] = "retract")
             /\ job'[j].op = job[j].op
      BY <1>0, <1>6, <2>1, RecoverArrives, AttemptArrives, Zenon DEF TaskStep, Arrives
    <2>5. CASE Arm(j) /\ job'[j].op = nextOp
      <3>1. nextOp \in Ops
        BY <2>5, Shapes DEF Arm, WriteInv, Minted, TypeOK, ControlOK, Ops
      <3>2. NoEffectOn(nextOp, t)
        BY <1>0, <3>1, EffectOwned DEF NoEffectOn
      <3>. QED  BY <2>3, <2>5, <3>1, <3>2, Zenon
    <2>6. CASE ForkTable(j) \/ ForksReady(j)
      <3>1. pc[j] = "fork" /\ pc[j] \in Writer
        BY <2>6, Zenon DEF ForkTable, ForksReady, Writer, PreConfirm
      <3>2. NoEffectOn(job[j].op, t)
        BY <3>1, Zenon DEF DriftInv, EffectsInHand, NoEffect, NoEffectOn
      <3>3. ~Arm(j)
        BY <3>1, Zenon DEF Arm
      <3>. QED  BY <1>3, <2>3, <2>4, <3>1, <3>2, <3>3, Zenon
    <2>7. CASE Withdraw(j) /\ pc'[j] = "retract" /\ job'[j].op = job[j].op
      <3>1. pc[j] \in Writer
        BY <2>7, Zenon DEF Withdraw, Writer, PreConfirm
      <3>2. ~NeedsRecovery(j)
        BY <1>0, <2>7, Zenon DEF NeedsRecovery, Leave, Goto, TasksOK
      <3>3. ~AnyOwnEffect(job[j].op)
        BY <2>7, <3>2, Zenon DEF Withdraw
      <3>. QED  BY <1>3, <2>3, <2>7, <3>1, <3>3, NothingOwned, Zenon
    <2>. QED  BY <2>4, <2>5, <2>6, <2>7, Zenon
  <1>. QED  BY <1>4, <1>5, <1>6, Zenon

\* A recovery pass deletes only a sidecar whose operation is settled or never
\* had an effect.
LEMMA UnlinkEffects ==
    ASSUME WriteInv, OutcomeInv, DriftInv, [Next]_vars, NEW j \in Tasks, pc'[j] = "unlink"
    PROVE  (\/ job[j].op \in Committed \/ RollbackId(job[j].op) \in Published
            \/ NoEffect(job[j].op))'
  <1>0. TasksOK /\ TypeOK /\ job[j].mode \in {"Full", "RollForwardOnly"}
    BY Zenon DEF WriteInv, TypeOK, TasksOK, Job
  <1>1. \/ pc[j] = "unlink" /\ job'[j] = job[j]
        \/ /\ TaskStep(j) /\ job'[j].op = job[j].op
           /\ Classify(j) \/ Audit(j) \/ Reclaim(j)
    BY <1>0, OthersStay, RecoverArrives, AttemptArrives, Zenon DEF TaskStep, Arrives
  <1>2. pc[j] \in InHand /\ job'[j].op = job[j].op
    BY <1>1, Zenon DEF InHand, Gated, Classify, Audit, Reclaim
  <1>3. PICK o \in Ops : o = job[j].op
    BY <1>0, <1>2, InHandOp, Zenon DEF WriteInv
  <1>4. CASE o \in Committed \/ RollbackId(o) \in Published
    <2>1. o \in Committed' \/ RollbackId(o) \in Published'
      BY <1>4, PublishedStays, Zenon DEF Committed
    <2>. QED  BY <1>2, <1>3, <2>1, Zenon
  <1>5. ASSUME \A t \in Tables : NoEffectOn(o, t),
               \A k \in Tasks : CommitTable(k) => job[k].op # o
        PROVE  NoEffect(job[j].op)'
    <2>1. \A t \in Tables : NoEffectOn(o, t)'
      BY <1>5, NoEffectStays, Zenon
    <2>. QED  BY <1>2, <1>3, <2>1, Zenon DEF NoEffect, NoEffectOn
  <1>6. CASE pc[j] = "unlink" /\ ~(o \in Committed \/ RollbackId(o) \in Published)
    <2>1. Sweeping(j) /\ NoEffect(o)
      BY <1>3, <1>6, Zenon DEF WriteInv, Phases, Phase, DriftInv, EffectsInHand
    <2>2. ASSUME NEW k \in Tasks, CommitTable(k) PROVE FALSE
      <3>1. pc[k] = "commit" /\ pc[k] \in Gated
        BY <2>2, Zenon DEF CommitTable, Gated
      <3>. QED  BY <1>6, <2>1, <3>1, SweepAlone, Zenon DEF WriteInv
    <2>. QED  BY <1>5, <2>1, <2>2, Zenon DEF NoEffect, NoEffectOn
  <1>7. CASE Audit(j)
    <2>1. o \in Committed \/ RollbackId(o) \in Published
      BY <1>3, <1>7, Zenon DEF Audit, WriteInv, Phases, Phase
    <2>. QED  BY <1>4, <2>1, Zenon
  <1>8. CASE Classify(j) \/ Reclaim(j)
    <2>1. ~AnyOwnEffect(o)
      <3>1. CASE Reclaim(j)
        BY <1>0, <1>3, <3>1, Zenon DEF Reclaim, Leave, Goto, TasksOK
      <3>2. CASE Classify(j)
        <4>1. Verdict(o, job[j].mode) = "abandon"
          BY <1>0, <1>3, <3>2, Zenon DEF Classify, Leave, ToNext, Advance, Goto, TasksOK
        <4>. QED  BY <1>0, <4>1, VerdictMeans, Zenon
      <3>. QED  BY <1>8, <3>1, <3>2, Zenon
    <2>2. ASSUME NEW k \in Tasks, CommitTable(k) PROVE FALSE
      <3>1. pc[k] = "commit" /\ TaskStep(k)
        BY <2>2, Zenon DEF CommitTable, TaskStep, Attempt
      <3>2. pc[j] \in {"classify", "reclaim"}
        BY <1>8, Zenon DEF Classify, Reclaim
      <3>3. pc'[j] = pc[j]
        BY <1>0, <3>1, <3>2, TaskFrame, Zenon
      <3>. QED  BY <3>2, <3>3, Zenon
    <2>. QED  BY <1>5, <2>1, <2>2, NothingOwned, Zenon
  <1>. QED  BY <1>1, <1>4, <1>6, <1>7, <1>8, Zenon

\* Classified for undoing, an operation is spoiled, and a sweep can tell its
\* effects from everybody else's.
LEMMA ClassifiedSpoiled ==
    ASSUME WriteInv, NEW o \in Ops, Verdict(o, "Full") \in {"abandon", "rollBack"}
    PROVE  Spoiled(o) /\ \A t \in plan[o].tabs : ~OwnBeforeHead(o, t)
  <1>1. sc[o] # "none"
    BY VerdictMeans, Zenon
  <1>2. CASE Verdict(o, "Full") = "abandon"
    <2>1. ~AnyOwnEffect(o)
      BY <1>2, VerdictMeans, Zenon
    <2>2. \A t \in plan[o].tabs : ~OwnBeforeHead(o, t)
      BY <2>1, Zenon DEF AnyOwnEffect, OwnBeforeHead
    <2>3. sc[o] # "EffectsConfirmed"
      <3>. SUFFICES ASSUME sc[o] = "EffectsConfirmed" PROVE FALSE
        BY Zenon
      <3>1. PICK t \in plan[o].tabs : LandedOn(o, t)
        BY <1>1, Zenon DEF WriteInv, Recorded, Landed
      <3>2. t \in Tables
        BY Zenon DEF WriteInv, TypeOK, SidecarsOK, Plan
      <3>. QED  BY <2>1, <3>1, <3>2, LandedOwn, Zenon DEF AnyOwnEffect, WriteInv
    <2>. QED  BY <2>2, <2>3, Zenon DEF Spoiled
  <1>3. CASE Verdict(o, "Full") = "rollBack"
    <2>1. /\ ~Interleaved(o)
          /\ ~(/\ GraphHead = plan[o].head
               /\ \A t \in plan[o].tabs : RolledPastExpected(o, t))
      BY <1>3, VerdictPremises, Zenon
    <2>2. \A t \in plan[o].tabs : ~OwnBeforeHead(o, t)
      BY <2>1, Zenon DEF Interleaved
    <2>3. ASSUME sc[o] = "EffectsConfirmed", NEW t \in plan[o].tabs, ~RolledPastExpected(o, t)
          PROVE  pin[t] # plan[o].pins[t] \/ Len(log[t]) > plan[o].pins[t] + 1
      <3>0. t \in Tables /\ plan[o].pins[t] \in Nat
        BY DEF WriteInv, TypeOK, SidecarsOK, Plan
      <3>1. LandedOn(o, t)
        BY <2>3, Zenon DEF WriteInv, Recorded, Landed
      <3>2. Len(log[t]) \in Nat
        BY <3>0, VersionOps, Zenon
      <3>. QED  BY <2>3, <3>0, <3>1, <3>2 DEF LandedOn, RolledPastExpected, Top
    <2>4. Spoiled(o)
      BY <2>1, <2>3, Zenon DEF Spoiled
    <2>. QED  BY <2>2, <2>4, Zenon
  <1>. QED  BY <1>2, <1>3, Zenon

\* What a sweep undoes keeps its sidecar, will not be published, and has no
\* effect below a foreign version.
LEMMA UndoEffects ==
    ASSUME WriteInv, OutcomeInv, DriftInv, [Next]_vars, NEW j \in Tasks,
           pc'[j] \in {"reclaim", "auditPlan", "restore"}
    PROVE  (/\ sc[job[j].op] # "none" /\ Doomed(job[j].op)
            /\ \A t \in plan[job[j].op].tabs : ~OwnBeforeHead(job[j].op, t))'
  <1>. DEFINE Undo == {"reclaim", "auditPlan", "restore"}
  <1>0. /\ TasksOK /\ TypeOK /\ job[j].mode \in {"Full", "RollForwardOnly"}
        /\ job \in [Tasks -> Job] /\ pc \in [Tasks -> Points]
    BY Zenon DEF WriteInv, TypeOK, TasksOK, Job
  <1>1. \/ ~TaskStep(j) /\ pc[j] \in Undo /\ job'[j] = job[j]
        \/ /\ TaskStep(j) /\ job'[j].op = job[j].op
           /\ Classify(j) \/ Reclaim(j) \/ PersistRollbackPlan(j) \/ RestoreTable(j)
    BY <1>0, OthersStay, RecoverArrives, AttemptArrives, Zenon DEF TaskStep, Arrives
  <1>2. pc[j] \in InHand /\ job'[j].op = job[j].op
    BY <1>1, Zenon DEF InHand, Gated, Classify, Reclaim, PersistRollbackPlan, RestoreTable
  <1>3. PICK o \in Ops : o = job[j].op
    BY <1>0, <1>2, InHandOp, Zenon DEF WriteInv
  <1>4. o < nextOp /\ plan'[o] = plan[o] /\ plan[o].tabs \subseteq Tables
    BY <1>3, PlanKept, Zenon DEF WriteInv, Minted, TypeOK, SidecarsOK, Plan
  <1>5. ASSUME sc'[o] # "none", Doomed(o)', \A t \in plan[o].tabs : ~OwnBeforeHead(o, t)'
        PROVE  (/\ sc[job[j].op] # "none" /\ Doomed(job[j].op)
                /\ \A t \in plan[job[j].op].tabs : ~OwnBeforeHead(job[j].op, t))'
    <2>1. Doomed(job[j].op)'
      BY <1>2, <1>3, <1>5, Zenon DEF Doomed
    <2>2. \A t \in plan'[o].tabs : ~OwnBeforeHead(job[j].op, t)'
      BY <1>2, <1>3, <1>4, <1>5, SMTT(30)
         DEF OwnBeforeHead, OwnCompensatedAtHead, OwnAtHead, OwnVersions
    <2>. QED  BY <1>2, <1>3, <1>5, <2>1, <2>2, Zenon
  <1>6. ASSUME UNCHANGED <<log, pin>>, NEW t \in Tables, ~OwnBeforeHead(o, t)
        PROVE  ~OwnBeforeHead(o, t)'
    BY <1>4, <1>6, Zenon DEF OwnBeforeHead, OwnCompensatedAtHead, OwnAtHead, OwnVersions, Top
  <1>7. ASSUME pc[j] \in Undo
        PROVE  sc[o] # "none" /\ Doomed(o)' /\ \A t \in plan[o].tabs : ~OwnBeforeHead(o, t)
    <2>1. sc[o] # "none" /\ Doomed(o) /\ \A t \in plan[o].tabs : ~OwnBeforeHead(o, t)
      BY <1>3, <1>7, Zenon DEF DriftInv, EffectsInHand
    <2>. QED  BY <1>4, <2>1, DoomedStays, Zenon
  <1>8. CASE ~TaskStep(j) /\ pc[j] \in Undo
    <2>1. Sweeping(j)
      BY <1>8, Zenon DEF WriteInv, Exclusive
    <2>2. UNCHANGED <<log, pin, sc>>
      BY <1>8, <2>1, SweepUndisturbed, Zenon DEF table, manifest
    <2>. QED  BY <1>4, <1>5, <1>6, <1>7, <1>8, <2>2, Zenon
  <1>9. CASE Reclaim(j) \/ PersistRollbackPlan(j)
    <2>1. pc[j] \in Undo
      BY <1>9, Zenon DEF Reclaim, PersistRollbackPlan
    <2>2. UNCHANGED <<log, pin, sc>>
      BY <1>9, Zenon DEF Reclaim, PersistRollbackPlan, ReclaimForks, table, manifest, sidecars
    <2>. QED  BY <1>4, <1>5, <1>6, <1>7, <2>1, <2>2, Zenon
  <1>10. CASE RestoreTable(j)
    <2>1. pc[j] = "restore" /\ UNCHANGED <<pin, sc>>
      BY <1>10, Zenon DEF RestoreTable, manifest, sidecars
    <2>2. sc'[o] # "none" /\ Doomed(o)' /\ \A t \in plan[o].tabs : ~OwnBeforeHead(o, t)
      BY <1>7, <2>1, Zenon
    <2>3. ASSUME NEW u \in Tables, log' = [log EXCEPT ![u] = Append(@, RestoreOf(u))],
                 NEW t \in Tables, ~OwnBeforeHead(o, t)
          PROVE  ~OwnBeforeHead(o, t)'
      <3>1. CASE t # u
        <4>1. log'[t] = log[t]
          BY <2>3, <3>1, Zenon DEF WriteInv, TypeOK, StorageOK
        <4>. QED  BY <1>4, <2>1, <2>3, <4>1, Zenon
                  DEF OwnBeforeHead, OwnCompensatedAtHead, OwnAtHead, OwnVersions, Top
      <3>2. CASE t = u
        <4>1. log[t] \in Seq(Version)
          BY Zenon DEF WriteInv, TypeOK, StorageOK
        <4>2. log'[t] = Append(log[t], RestoreOf(t))
          BY <2>3, <3>2, Zenon DEF WriteInv, TypeOK, StorageOK
        <4>3. log'[t][Len(log'[t])] = RestoreOf(t)
          BY <4>1, <4>2
        <4>4. Top(t)'.restore = pin'[t]
          BY <2>1, <4>3 DEF Top, RestoreOf
        <4>. QED  BY <4>4, Zenon DEF OwnBeforeHead, OwnCompensatedAtHead
      <3>. QED  BY <3>1, <3>2, Zenon
    <2>4. \/ log' = log
          \/ \E u \in job[j].left : log' = [log EXCEPT ![u] = Append(@, RestoreOf(u))]
      BY <1>10, Zenon DEF RestoreTable, RestoreOf, WriteInv, TypeOK, StorageOK
    <2>5. job[j].left \subseteq Tables
      BY <1>0, Zenon DEF Job
    <2>6. \A t \in plan[o].tabs : ~OwnBeforeHead(o, t)'
      BY <1>4, <1>6, <2>1, <2>2, <2>3, <2>4, <2>5, Zenon
    <2>. QED  BY <1>5, <2>2, <2>6, Zenon
  <1>11. CASE Classify(j)
    <2>1. pc[j] = "classify" /\ UNCHANGED <<log, pin, lineage, plan, sc>>
      BY <1>11, Zenon DEF Classify, table, manifest, sidecars
    <2>2. /\ Verdict(o, job[j].mode) \in {"abandon", "rollBack"}
          /\ pc'[j] = "reclaim" /\ job[j].mode = "Full"
      <3>1. /\ Verdict(o, job[j].mode) \in {"abandon", "rollBack"}
            /\ pc'[j] = "reclaim"
            /\ Verdict(o, job[j].mode) = "abandon" => job[j].mode = "Full"
        BY <1>0, <1>3, <1>11, Zenon DEF Classify, Leave, ToNext, Advance, Goto
      <3>. QED  BY <1>0, <3>1, VerdictMeans, Zenon
    <2>3. sc[o] # "none"
      BY <1>0, <2>2, VerdictMeans, Zenon
    <2>4. Spoiled(o) /\ \A t \in plan[o].tabs : ~OwnBeforeHead(o, t)
      BY <2>2, ClassifiedSpoiled, Zenon
    <2>5. Spoiled(o)'
      BY <2>1, <2>4, Zenon DEF Spoiled, GraphHead
    <2>6. ASSUME NEW k \in Tasks, pc'[k] \in Publishing PROVE FALSE
      <3>1. k # j
        BY <2>2, <2>6, Zenon DEF Publishing, PreConfirm
      <3>2. TaskStep(j)
        BY <1>11, Zenon DEF TaskStep, Recover
      <3>3. pc[k] \in Gated
        BY <1>0, <2>6, <3>1, <3>2, TaskFrame, Zenon DEF Publishing, PreConfirm, Gated
      <3>4. Sweeping(j)
        BY <2>1, <2>2, Zenon DEF Sweeping
      <3>. QED  BY <3>1, <3>3, <3>4, SweepAlone, Zenon DEF WriteInv
    <2>7. Doomed(o)'
      BY <2>5, <2>6, Zenon DEF Doomed, Spoiled, Publishing
    <2>. QED  BY <1>4, <1>5, <1>6, <2>1, <2>3, <2>4, <2>7, Zenon
  <1>. QED  BY <1>1, <1>8, <1>9, <1>10, <1>11, Zenon

\* Together: every step keeps what tasks know of the effects of their operation.
LEMMA EffectsInHandStep ==
    ASSUME WriteInv, OutcomeInv, DriftInv, [Next]_vars PROVE EffectsInHand'
  <1>1. ASSUME NEW k \in Tasks, pc'[k] \in {"fork", "retract"} PROVE NoEffect(job[k].op)'
    BY <1>1, WriterEffects, Zenon DEF NoEffect
  <1>2. ASSUME NEW k \in Tasks, pc'[k] = "commit", NEW t \in job'[k].left
        PROVE  \A v \in 1..Len(log'[t]) : log'[t][v].op # job'[k].op
    <2>1. t \in Tables
      BY <1>2, WriteInvStep, Zenon DEF WriteInv, TypeOK, TasksOK, Job
    <2>. QED  BY <1>2, <2>1, WriterEffects, Zenon
  <1>. QED  BY <1>1, <1>2, UnlinkEffects, UndoEffects, Zenon DEF EffectsInHand

\* The invariant holds initially: one version per table, nobody at work.
LEMMA DriftInit ==
    ASSUME Init PROVE DriftInv
  <1>1. WriteInv
    BY InitInv, Zenon
  <1>2. /\ \A t \in Tables : Len(log[t]) = 1 /\ log[t][1] = FirstVersion /\ pin[t] = 1
        /\ \A k \in Tasks : pc[k] = "idle" /\ req[k] = NoReq
        /\ \A o \in Ops : plan[o] = NoPlan
    BY Zenon DEF Init
  <1>3. PinsForward
    BY <1>2 DEF PinsForward, NoReq, NoPlan
  <1>4. OwnOnce /\ DriftOwned
    BY <1>2 DEF OwnOnce, DriftOwned, FirstVersion
  <1>5. SettledBelow
    BY <1>2 DEF SettledBelow
  <1>6. EffectsInHand
    BY <1>2, Zenon DEF EffectsInHand
  <1>. QED  BY <1>3, <1>4, <1>5, <1>6, Zenon DEF DriftInv

\* Every version past a pin is accounted for, in every reachable state.
THEOREM DriftAccounted == Spec => []InductiveInv
  <1>1. Init => DriftInv
    BY DriftInit, Zenon
  <1>2. WriteInv /\ OutcomeInv /\ DriftInv /\ [Next]_vars => DriftInv'
    BY PinsForwardStep, OwnOnceStep, DriftOwnedStep, SettledStep, EffectsInHandStep, Zenon
       DEF DriftInv
  <1>. QED  BY <1>1, <1>2, OutcomesHold, PTL DEF Spec, InductiveInv

\* A table HEAD ahead of the manifest is always covered by a sidecar that names
\* the table: whatever crashes and failed storage calls leave behind, recovery
\* finds it from __recovery alone.
THEOREM DriftIsCovered == Spec => []DriftCovered
  <1>1. WriteInv /\ DriftInv => DriftCovered
    <2>. SUFFICES ASSUME WriteInv, DriftInv, NEW t \in Tables, Len(log[t]) # pin[t]
                  PROVE  \E o \in Pending : t \in plan[o].tabs
      BY Zenon DEF DriftCovered
    <2>. DEFINE n == Len(log[t])
    <2>1. n \in Nat /\ pin[t] \in 1..n /\ n > pin[t]
      BY VersionOps
    <2>2. ASSUME NEW v \in 1..n, v > pin[t], log[t][v].op # 0
          PROVE  \E o \in Pending : t \in plan[o].tabs
      <3>1. PICK o \in Ops : o = log[t][v].op
        BY <2>2, VersionOps, Zenon
      <3>2. sc[o] # "none"
        BY <2>2, <3>1, Zenon DEF DriftInv, DriftOwned
      <3>3. t \in plan[o].tabs
        BY <2>2, <3>1, EffectOwned, Zenon
      <3>. QED  BY <3>1, <3>2, <3>3, Zenon DEF Pending
    <2>3. CASE log[t][n].op = 0
      <3>1. n - 1 > pin[t] /\ log[t][n - 1].op # 0
        BY <2>1, <2>3 DEF DriftInv, DriftOwned
      <3>2. n - 1 \in 1..n
        BY <2>1, <3>1
      <3>. QED  BY <2>2, <3>1, <3>2, Zenon
    <2>4. CASE log[t][n].op # 0
      BY <2>1, <2>2, <2>4
    <2>. QED  BY <2>3, <2>4, Zenon
  <1>. QED  BY <1>1, DriftAccounted, PTL DEF InductiveInv

=============================================================================
