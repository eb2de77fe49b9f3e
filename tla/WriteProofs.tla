---------------------------- MODULE WriteProofs -----------------------------
(***************************************************************************)
(* A sidecar records what its operation did, an operation id is in the     *)
(* hands of one task at a time, and what a task knows at its control point *)
(* survives the steps of the other tasks and its own.  So WriteInv is      *)
(* inductive; type correctness and graph-visible atomicity of the write    *)
(* path follow.                                                            *)
(***************************************************************************)
EXTENDS WriteAtomicProofs

-----------------------------------------------------------------------------
\* Sidecars and commits.

\* An exact effect stays where it landed while the table only grows.
LEMMA LandedKept ==
    ASSUME TypeOK, Captured, NEW o \in Ops, NEW t \in Tables, LandedOn(o, t),
           plan'[o] = plan[o], Kept(t), TypeOK'
    PROVE  LandedOn(o, t)'
  <1>. DEFINE p == plan[o].pins[t]
  <1>1. p \in Nat /\ p >= 1 /\ Len(log[t]) \in Nat /\ Len(log'[t]) \in Nat
    BY DEF TypeOK, SidecarsOK, Plan, StorageOK, Captured
  <1>2. /\ p + 1 <= Len(log[t]) /\ log[t][p + 1].op = o
        /\ log[t][p + 1].rows = log[t][p].rows \cup {o}
    BY Zenon DEF LandedOn
  <1>3. p + 1 \in 1..Len(log[t]) /\ p \in 1..Len(log[t])
    BY <1>1, <1>2, SMTT(30)
  <1>4. /\ log'[t][p + 1] = log[t][p + 1] /\ log'[t][p] = log[t][p]
        /\ Len(log[t]) <= Len(log'[t])
    BY <1>3, Zenon DEF Kept
  <1>5. p + 1 <= Len(log'[t])
    BY <1>1, <1>2, <1>4, SMTT(30)
  <1>6. plan'[o].pins[t] = p
    BY Zenon
  <1>. HIDE DEF p
  <1>. QED  BY <1>2, <1>4, <1>5, <1>6, Zenon DEF LandedOn

\* The tables of a live sidecar are never cut by another writer's fork.
LEMMA ClaimedKept ==
    ASSUME WriteInv, [Next]_vars, NEW o \in Ops, NEW t \in plan[o].tabs, sc[o] # "none",
           \A k \in Tasks : ForkTable(k) => job[k].op # o
    PROVE  Kept(t)
  <1>. USE DEF WriteInv
  <1>1. t \in Tables
    BY Zenon DEF TypeOK, SidecarsOK, Plan
  <1>2. \A k \in Tasks : ForkTable(k) => Claimed(job[k].op, t)
    BY Zenon DEF Claimed, Pending
  <1>. QED  BY <1>1, <1>2, KeptUnlessForked, Zenon

\* Confirmed sidecars keep their effects and committed pins never go back.
LEMMA RecordedStep ==
    ASSUME WriteInv, [Next]_vars PROVE Recorded'
  <1>. USE DEF WriteInv
  <1>1. ASSUME NEW o \in Ops
        PROVE  /\ sc'[o] # "none" => plan'[o].tabs # {}
               /\ sc'[o] # "none" /\ ~(\E k \in Tasks : Arm(k) /\ o = nextOp) =>
                    sc[o] # "none" /\ plan'[o] = plan[o]
               /\ sc'[o] = "EffectsConfirmed" /\ sc[o] # "EffectsConfirmed" =>
                    \E k \in Tasks : Confirm(k) /\ o = job[k].op
    <2>1. CASE sc' = sc /\ plan' = plan
      BY <2>1, Zenon DEF Recorded
    <2>2. ASSUME NEW k \in Tasks, Unlink(k) \/ Retract(k) \/ CleanupSidecar(k)
          PROVE  sc'[o] \in {sc[o], "none"} /\ plan' = plan
      BY <2>2, Zenon DEF Unlink, Retract, CleanupSidecar, TypeOK, SidecarsOK
    <2>3. ASSUME NEW k \in Tasks, Confirm(k)
          PROVE  /\ sc'[o] = sc[o] \/ (sc'[o] = "EffectsConfirmed" /\ o = job[k].op)
                 /\ plan' = plan /\ sc[job[k].op] = "Armed"
      BY <2>3, Zenon DEF Confirm, TypeOK, SidecarsOK, Phases, Phase, PreConfirm
    <2>4. ASSUME NEW k \in Tasks, Arm(k)
          PROVE  IF o = nextOp
                 THEN /\ sc'[o] \in {sc[o], "Armed"} /\ plan'[o] = req[k].base
                      /\ sc'[o] = "Armed" => req[k].base.tabs # {}
                 ELSE sc'[o] = sc[o] /\ plan'[o] = plan[o]
      <3>1. plan' = [plan EXCEPT ![nextOp] = req[k].base]
        BY <2>4, Zenon DEF Arm
      <3>2. \/ sc' = sc
            \/ sc' = [sc EXCEPT ![nextOp] = "Armed"] /\ req[k].base.tabs # {}
        BY <2>4, Zenon DEF Arm
      <3>3. o = nextOp => sc[o] = "none"
        BY DEF Minted, TypeOK, ControlOK
      <3>. QED  BY <3>1, <3>2, <3>3, Zenon DEF TypeOK, SidecarsOK
    <2>5. o = nextOp => sc[o] = "none"
      BY DEF Minted, TypeOK, ControlOK
    <2>6. ASSUME sc' = sc, NEW k \in Tasks, Arm(k), o = nextOp PROVE sc'[o] = "none"
      BY <2>5, <2>6, Zenon
    <2>. QED  BY <2>1, <2>2, <2>3, <2>4, <2>5, <2>6, SidecarStep, PlanStep, Zenon DEF Recorded
  <1>2. ASSUME NEW o \in Ops, sc'[o] = "EffectsConfirmed" PROVE Landed(o, plan[o].tabs)'
    <2>1. sc[o] # "none" /\ plan'[o] = plan[o] /\ plan[o].tabs \in SUBSET Tables
      <3>1. ~(\E k \in Tasks : Arm(k) /\ o = nextOp)
        <4>1. ASSUME NEW k \in Tasks, Arm(k), o = nextOp PROVE sc'[o] # "EffectsConfirmed"
          BY <4>1 DEF Arm, TypeOK, SidecarsOK, Minted, ControlOK
        <4>. QED  BY <1>2, <4>1, Zenon
      <3>. QED  BY <1>1, <1>2, <3>1, Zenon DEF TypeOK, SidecarsOK, Plan
    <2>2. Landed(o, plan[o].tabs)
      <3>1. CASE sc[o] = "EffectsConfirmed"
        BY <3>1, Zenon DEF Recorded
      <3>2. ASSUME NEW k \in Tasks, Confirm(k), o = job[k].op PROVE Landed(o, plan[o].tabs)
        BY <3>2, Zenon DEF Confirm, Phases, Phase, Landed
      <3>. QED  BY <1>1, <1>2, <3>1, <3>2, Zenon
    <2>3. ASSUME NEW k \in Tasks, ForkTable(k) PROVE job[k].op # o
      <3>1. sc[job[k].op] = "Armed"
        BY <2>3, Zenon DEF ForkTable, Phases, Phase, PreConfirm
      <3>2. sc' = sc
        BY <2>3, TableAlone, Zenon
      <3>. QED  BY <1>2, <3>1, <3>2, Zenon
    <2>4. \A t \in plan[o].tabs : Kept(t)
      BY <2>1, <2>3, ClaimedKept, Zenon
    <2>5. TypeOK'
      BY TypeStep, Zenon
    <2>6. \A t \in plan[o].tabs : LandedOn(o, t)'
      BY <2>1, <2>2, <2>4, <2>5, LandedKept, Zenon DEF Landed
    <2>. QED  BY <2>1, <2>6, Zenon DEF Landed
  <1>3. ASSUME NEW o \in Ops, o \in Committed', NEW t \in plan'[o].tabs
        PROVE  pin'[t] > plan'[o].pins[t]
    <2>1. CASE o \in Committed
      <3>1. plan'[o] = plan[o]
        <4>1. o # nextOp
          BY <2>1 DEF Minted, TypeOK, ControlOK, Ops
        <4>. QED  BY <4>1, PlanStep, Zenon DEF Arm, TypeOK, SidecarsOK
      <3>2. t \in Tables /\ plan[o].pins[t] \in Nat /\ pin[t] \in Nat /\ pin'[t] \in Nat
        BY <3>1, TypeStep DEF TypeOK, SidecarsOK, StorageOK, Plan
      <3>3. pin[t] > plan[o].pins[t] /\ pin[t] <= pin'[t]
        BY <2>1, <3>1, <3>2, ManifestGrows, Zenon DEF Recorded
      <3>. QED  BY <3>1, <3>2, <3>3
    <2>2. CASE o \notin Committed
      <3>1. ASSUME NEW x \in Ops, UNCHANGED <<table, plan>>,
                   PublishManifest(plan[x].tabs, Effects(x), CommitId(x))
            PROVE  pin'[t] > plan'[o].pins[t]
        <4>1. x = o
          BY <1>3, <2>2, <3>1, PublishedGrows, CommitPublished, Zenon DEF TypeOK
        <4>2. t \in Tables /\ plan[o].pins[t] \in Nat
          BY <1>3, <3>1 DEF TypeOK, SidecarsOK, Plan
        <4>. QED  BY <1>3, <3>1, <4>1, <4>2 DEF PublishManifest, Effects
      <3>2. ASSUME NEW x \in Ops, PublishManifest(Compensable(x), LiveHeads, RollbackId(x))
            PROVE  FALSE
        BY <1>3, <2>2, <3>2, PublishedGrows, RollbackPublished, Zenon DEF TypeOK
      <3>3. ~UNCHANGED manifest
        BY <1>3, <2>2, Zenon DEF Committed, Published, manifest
      <3>. QED  BY <3>1, <3>2, <3>3, PublishEffect, Zenon
    <2>. QED  BY <2>1, <2>2, Zenon
  <1>. QED  BY <1>1, <1>2, <1>3, Zenon DEF Recorded

-----------------------------------------------------------------------------
\* Operation ids.

\* Ids are minted by arming alone.
LEMMA NextOpStep ==
    ASSUME [Next]_vars PROVE UNCHANGED nextOp \/ \E k \in Tasks : Arm(k)
  <1>1. ASSUME NEW k \in Tasks,
               \/ BeginWrite(k) \/ BeginOpen(k) \/ ListSidecars(k)
               \/ NextSidecar(k) \/ FinishPass(k) \/ Classify(k)
               \/ RollForward(k) \/ Audit(k) \/ Unlink(k) \/ Reclaim(k)
               \/ PersistRollbackPlan(k) \/ RestoreTable(k) \/ RollBack(k)
        PROVE  UNCHANGED nextOp
    BY <1>1, Zenon DEF BeginWrite, BeginOpen, ListSidecars, NextSidecar, FinishPass,
                Classify, RollForward, Audit, Unlink, Reclaim,
                PersistRollbackPlan, RestoreTable, RollBack, control
  <1>2. ASSUME NEW k \in Tasks,
               \/ Prepare(k) \/ AcquireGates(k) \/ Validate(k) \/ ForkTable(k)
               \/ ForksReady(k) \/ CommitTable(k) \/ Withdraw(k) \/ Retract(k)
               \/ Confirm(k) \/ Publish(k) \/ CleanupSidecar(k)
        PROVE  UNCHANGED nextOp
    BY <1>2, Zenon DEF Prepare, AcquireGates, Validate, ForkTable, ForksReady,
                CommitTable, Withdraw, Retract, Confirm, Publish,
                CleanupSidecar, control
  <1>3. ASSUME NEW p \in Procs, Crash(p) PROVE UNCHANGED nextOp
    BY <1>3, Zenon DEF Crash, control
  <1>4. CASE UNCHANGED vars
    BY <1>4, Zenon DEF vars
  <1>. QED  BY <1>1, <1>2, <1>3, <1>4, Zenon DEF Next, TaskStep, Recover, Attempt

\* The ids and the plan a task holds, and which writer it was before.
Holds(k) ==
    /\ job[k].op < nextOp
    /\ \A o \in job[k].todo : o < nextOp
    /\ pc[k] \in InHand => job[k].op >= 1
    /\ pc[k] \in Writer => plan[job[k].op] = req[k].base

\* What the next four lemmas say of a task that goes on: it keeps its ids, and
\* it is a writer only if it was one.
Keeps(k) == Holds(k)' /\ (pc'[k] \in Writer => pc[k] \in Writer /\ job'[k].op = job[k].op)

\* Ending drops the task's ids with its locals.
LEMMA LeaveHolds ==
    ASSUME TasksOK, NEW k \in Tasks, Leave(k), nextOp' \in Nat, nextOp' >= 1
    PROVE  Keeps(k)
  BY DEF TasksOK, Leave, Goto, Holds, Keeps, NoJob, InHand, Gated, Writer, PreConfirm

\* Going on with everything.
LEMMA AdvanceHolds ==
    ASSUME TasksOK, NEW k \in Tasks, NEW p, Advance(k, p), Holds(k),
           UNCHANGED <<plan, nextOp>>,
           p \in Writer => pc[k] \in Writer,
           p \in InHand => pc[k] \in InHand
    PROVE  Keeps(k)
  BY Zenon DEF TasksOK, Advance, Goto, Holds, Keeps

\* Going on to the next sidecar of a pass.
LEMMA ToNextHolds ==
    ASSUME TasksOK, NEW k \in Tasks, NEW u \in BOOLEAN, ToNext(k, u), Holds(k),
           UNCHANGED <<plan, nextOp>>
    PROVE  Keeps(k)
  BY Zenon DEF TasksOK, ToNext, Goto, Holds, Keeps, Job, InHand, Gated, Writer, PreConfirm

\* Finishing one table of a loop.
LEMMA DoneHolds ==
    ASSUME TasksOK, NEW k \in Tasks, NEW t \in Tables, Done(k, t), Holds(k),
           UNCHANGED <<plan, nextOp>>
    PROVE  Keeps(k)
  BY Zenon DEF TasksOK, Done, Holds, Keeps, Job

\* Starting the attempt again, or giving up.
LEMMA RetryHolds ==
    ASSUME TasksOK, NEW k \in Tasks, Retry(k), Holds(k), nextOp \in Nat, nextOp >= 1,
           UNCHANGED <<plan, nextOp>>
    PROVE  Keeps(k)
  <1>1. CASE Leave(k)
    BY <1>1, LeaveHolds, Zenon
  <1>2. CASE ~Leave(k)
    BY <1>2, Zenon DEF TasksOK, Retry, Goto, Holds, Keeps, InHand, Gated, Writer, PreConfirm
  <1>. QED  BY <1>1, <1>2, Zenon

\* A step keeps what its task holds; only arming makes a new writer, and gives
\* it the id minted there.
LEMMA OwnIds ==
    ASSUME TypeOK, Minted, NEW k \in Tasks, TaskStep(k)
    PROVE  \/ Keeps(k)
           \/ Holds(k)' /\ Arm(k) /\ job'[k].op = nextOp
  <1>. USE DEF TypeOK
  <1>0. Holds(k) /\ nextOp \in Nat /\ nextOp >= 1 /\ MaxOps \in Nat
    BY Shapes, Zenon DEF Minted, Holds, ControlOK
  <1>j. /\ job \in [Tasks -> Job] /\ pc \in [Tasks -> Points]
        /\ req \in [Tasks -> Request] /\ job[k] \in Job
        /\ job[k].left \subseteq Tables
    BY Zenon DEF TasksOK, Job
  <1>. USE <1>0, <1>j, LeaveHolds, AdvanceHolds
  <1>1. CASE BeginWrite(k)
    BY <1>1, Zenon DEF BeginWrite, Goto, Holds, Keeps, InHand, Gated, Writer, PreConfirm, sidecars, control, Job
  <1>2. CASE BeginOpen(k)
    BY <1>2, Zenon DEF BeginOpen, Goto, Holds, Keeps, InHand, Gated, Writer, PreConfirm, sidecars, control, Job
  <1>3. CASE ListSidecars(k)
    BY <1>3, SMTT(30) DEF ListSidecars, Goto, Holds, Keeps, InHand, Gated, Writer, PreConfirm, sidecars, control, Job, Pending, Minted, Ops
  <1>4. CASE NextSidecar(k)
    BY <1>4, SMTT(30) DEF NextSidecar, Goto, Holds, Keeps, InHand, Gated, Writer, PreConfirm, sidecars, control, Job, Ops
  <1>5. CASE FinishPass(k)
    BY <1>5, Zenon DEF FinishPass, InHand, Gated, Writer, PreConfirm, sidecars, control
  <1>6. CASE Classify(k)
    BY <1>6, ToNextHolds, Zenon DEF Classify, InHand, Gated, Writer, PreConfirm, sidecars, control
  <1>7. CASE RollForward(k)
    BY <1>7, Zenon DEF RollForward, InHand, Gated, Writer, PreConfirm, sidecars, control
  <1>8. CASE Audit(k)
    BY <1>8, Zenon DEF Audit, InHand, Gated, Writer, PreConfirm, sidecars, control
  <1>9. CASE Unlink(k)
    BY <1>9, ToNextHolds, Zenon DEF Unlink, InHand, Gated, Writer, PreConfirm, sidecars, control
  <1>10. CASE Reclaim(k)
    BY <1>10 DEF Reclaim, Goto, Holds, Keeps, InHand, Gated, Writer, PreConfirm, sidecars, control, Job
  <1>11. CASE PersistRollbackPlan(k)
    BY <1>11, Zenon DEF PersistRollbackPlan, InHand, Gated, Writer, PreConfirm, sidecars, control
  <1>12. CASE RestoreTable(k)
    BY <1>12, DoneHolds, Zenon DEF RestoreTable, InHand, Gated, Writer, PreConfirm, sidecars, control
  <1>13. CASE RollBack(k)
    BY <1>13, Zenon DEF RollBack, InHand, Gated, Writer, PreConfirm, sidecars, control
  <1>14. CASE Prepare(k)
    BY <1>14, Zenon DEF Prepare, Goto, Holds, Keeps, InHand, Gated, Writer, PreConfirm, sidecars, control
  <1>15. CASE AcquireGates(k)
    BY <1>15, Zenon DEF AcquireGates, Goto, Holds, Keeps, InHand, Gated, Writer, PreConfirm, sidecars, control
  <1>16. CASE Validate(k)
    BY <1>16, RetryHolds, Zenon DEF Validate, InHand, Gated, Writer, PreConfirm, sidecars, control
  <1>17. CASE Arm(k)
    <2>1. CASE Leave(k)
      BY <1>17, <2>1 DEF Arm
    <2>2. CASE ~Leave(k)
      <3>1. /\ job' = [job EXCEPT ![k].op = nextOp, ![k].left = req[k].base.forks]
            /\ \E p \in {"publish", "fork"} : pc' = [pc EXCEPT ![k] = p]
            /\ plan' = [plan EXCEPT ![nextOp] = req[k].base]
            /\ nextOp' = nextOp + 1 /\ req' = req /\ nextOp \in Ops
        BY <1>17, <2>2 DEF Arm, Goto, Ops
      <3>2. job'[k].op = nextOp /\ job'[k].todo = job[k].todo
        BY <3>1, Zenon DEF Job
      <3>3. plan'[job'[k].op] = req'[k].base
        BY <3>1, <3>2 DEF SidecarsOK
      <3>. QED  BY <1>17, <3>1, <3>2, <3>3 DEF Holds, Ops, Job
    <2>. QED  BY <2>1, <2>2, Zenon
  <1>18. CASE ForkTable(k)
    BY <1>18, DoneHolds, Zenon DEF ForkTable, InHand, Gated, Writer, PreConfirm, sidecars, control, NeedsRecovery
  <1>19. CASE ForksReady(k)
    BY <1>19, Zenon DEF ForksReady, Goto, Holds, Keeps, InHand, Gated, Writer, PreConfirm, sidecars, control, Job
  <1>20. CASE CommitTable(k)
    BY <1>20, DoneHolds, Zenon DEF CommitTable, InHand, Gated, Writer, PreConfirm, sidecars, control, NeedsRecovery
  <1>21. CASE Withdraw(k)
    BY <1>21 DEF Withdraw, Goto, Holds, Keeps, InHand, Gated, Writer, PreConfirm, sidecars, control, NeedsRecovery, Request
  <1>22. CASE Retract(k)
    BY <1>22, RetryHolds, Zenon DEF Retract, InHand, Gated, Writer, PreConfirm, sidecars, control, NeedsRecovery
  <1>23. CASE Confirm(k)
    BY <1>23, Zenon DEF Confirm, InHand, Gated, Writer, PreConfirm, sidecars, control, NeedsRecovery
  <1>24. CASE Publish(k)
    BY <1>24, RetryHolds, Zenon DEF Publish, InHand, Gated, Writer, PreConfirm, sidecars, control, NeedsRecovery
  <1>25. CASE CleanupSidecar(k)
    BY <1>25, Zenon DEF CleanupSidecar, InHand, Gated, Writer, PreConfirm, sidecars, control
  <1>. QED
    BY <1>1, <1>2, <1>3, <1>4, <1>5, <1>6, <1>7, <1>8, <1>9, <1>10, <1>11,
       <1>12, <1>13, <1>14, <1>15, <1>16, <1>17, <1>18, <1>19, <1>20, <1>21,
       <1>22, <1>23, <1>24, <1>25, Zenon DEF TaskStep, Recover, Attempt

\* A sidecar changes in the hands of the task that has the operation, or when
\* it is armed under the id minted there.
LEMMA SidecarEffect ==
    ASSUME TypeOK, [Next]_vars, NEW o \in Ops
    PROVE  \/ sc'[o] = sc[o]
           \/ \E k \in Tasks :
                /\ o = job[k].op
                /\ \/ Unlink(k) \/ Retract(k) \/ CleanupSidecar(k)
                   \/ Confirm(k) /\ sc'[o] = "EffectsConfirmed"
           \/ \E k \in Tasks : Arm(k) /\ o = nextOp
  <1>1. sc \in [Ops -> {"none", "Armed", "EffectsConfirmed"}]
    BY Zenon DEF TypeOK, SidecarsOK
  <1>2. ASSUME NEW k \in Tasks, Unlink(k) \/ Retract(k) \/ CleanupSidecar(k)
        PROVE  sc'[o] = sc[o] \/ o = job[k].op
    BY <1>1, <1>2, Zenon DEF Unlink, Retract, CleanupSidecar
  <1>3. ASSUME NEW k \in Tasks, Confirm(k)
        PROVE  sc'[o] = sc[o] \/ (o = job[k].op /\ sc'[o] = "EffectsConfirmed")
    BY <1>1, <1>3, Zenon DEF Confirm
  <1>4. ASSUME NEW k \in Tasks, Arm(k) PROVE sc'[o] = sc[o] \/ o = nextOp
    BY <1>1, <1>4, Zenon DEF Arm
  <1>. QED  BY <1>2, <1>3, <1>4, SidecarStep, Zenon

\* Outcomes are never taken back, and only the task that has the operation in
\* hand publishes one.
LEMMA OutcomeEffect ==
    ASSUME TypeOK, Minted, Recorded, Phases, [Next]_vars, NEW o \in Ops
    PROVE  /\ o \in Committed => o \in Committed'
           /\ RollbackId(o) \in Published => RollbackId(o) \in Published'
           /\ o \in Committed' =>
                \/ o \in Committed
                \/ \E k \in Tasks : o = job[k].op /\ (RollForward(k) \/ Publish(k))
           /\ RollbackId(o) \in Published' =>
                \/ RollbackId(o) \in Published
                \/ \E k \in Tasks : o = job[k].op /\ RollBack(k)
  <1>1. CASE UNCHANGED manifest
    BY <1>1, Zenon DEF manifest, Committed, Published
  <1>2. ASSUME NEW k \in Tasks, RollForward(k) \/ Publish(k), job[k].op \in Ops,
               PublishManifest(plan[job[k].op].tabs, Effects(job[k].op), CommitId(job[k].op))
        PROVE  /\ Committed' = Committed \cup {job[k].op}
               /\ RollbackId(o) \in Published' <=> RollbackId(o) \in Published
    BY <1>2, PublishedGrows, CommitPublished, Zenon DEF TypeOK
  <1>3. ASSUME NEW k \in Tasks, RollBack(k), job[k].op \in Ops,
               PublishManifest(Compensable(job[k].op), LiveHeads, RollbackId(job[k].op))
        PROVE  /\ Committed' = Committed
               /\ RollbackId(o) \in Published' <=>
                    (o = job[k].op \/ RollbackId(o) \in Published)
    BY <1>3, PublishedGrows, RollbackPublished, Zenon DEF TypeOK
  <1>. QED  BY <1>1, <1>2, <1>3, PublishEffect, Zenon

\* The body of an armed sidecar is immutable.
LEMMA PlanKept ==
    ASSUME TypeOK, [Next]_vars, NEW o \in Ops, o < nextOp
    PROVE  plan'[o] = plan[o]
  <1>1. ASSUME NEW k \in Tasks, Arm(k) PROVE plan'[o] = plan[o]
    <2>1. nextOp # o
      BY DEF TypeOK, ControlOK, Ops
    <2>. QED  BY <1>1, <2>1, Zenon DEF Arm, TypeOK, SidecarsOK
  <1>. QED  BY <1>1, PlanStep, Zenon

\* Operation ids stay minted once and stay with their writer.
LEMMA MintedStep ==
    ASSUME WriteInv, [Next]_vars PROVE Minted'
  <1>. USE DEF WriteInv
  <1>1. nextOp' \in Nat /\ nextOp \in Nat /\ nextOp' >= nextOp /\ nextOp >= 1
    <2>1. nextOp \in Nat /\ nextOp >= 1
      BY Zenon DEF TypeOK, ControlOK, Minted
    <2>2. ASSUME NEW k \in Tasks, Arm(k) PROVE nextOp' = nextOp + 1
      BY <2>2, Zenon DEF Arm
    <2>. QED  BY <2>1, <2>2, NextOpStep
  <1>2. ASSUME NEW o \in Ops, o >= nextOp'
        PROVE  sc'[o] = "none" /\ o \notin Committed' /\ RollbackId(o) \notin Published'
    <2>1. /\ o \in Nat /\ o >= nextOp /\ sc[o] = "none" /\ o \notin Committed
          /\ RollbackId(o) \notin Published
      BY <1>1, <1>2 DEF Minted, Ops
    <2>2. \A k \in Tasks : job[k].op < nextOp /\ job[k].op \in Nat
      BY DEF Minted, TypeOK, TasksOK, Job
    <2>3. \A k \in Tasks : o # job[k].op
      BY <1>1, <2>1, <2>2
    <2>4. ASSUME NEW k \in Tasks, Arm(k) PROVE o # nextOp
      BY <1>1, <1>2, <2>4 DEF Arm
    <2>. QED  BY <2>1, <2>3, <2>4, SidecarEffect, OutcomeEffect, Zenon
  <1>3. ASSUME NEW k \in Tasks, TaskStep(k), NEW j \in Tasks, j # k PROVE Holds(j)'
    <2>1. /\ pc'[j] = pc[j] /\ req'[j] = req[j] /\ job'[j] = job[j] /\ Holds(j)
          /\ job[j] \in Job
      BY <1>3, TaskFrame, Zenon DEF TypeOK, TasksOK, Minted, Holds
    <2>2. \A o \in job[j].todo : o \in Nat
      BY <2>1 DEF Job, Ops
    <2>3. pc[j] \in Writer => plan'[job[j].op] = plan[job[j].op]
      BY <2>1, InHandOp, PlanKept, Zenon DEF Holds, InHand, Gated, Writer, PreConfirm
    <2>. QED  BY <1>1, <2>1, <2>2, <2>3 DEF Holds, Job
  <1>4. ASSUME NEW k \in Tasks, TaskStep(k)
        PROVE  /\ \A j \in Tasks : Holds(j)'
               /\ \A i, j \in Tasks : i # j /\ pc'[i] \in Writer /\ pc'[j] \in Writer
                                        => job'[i].op # job'[j].op
    <2>1. \A j \in Tasks : Holds(j)'
      BY <1>3, <1>4, OwnIds, Zenon DEF Keeps
    <2>2. \A j \in Tasks : job[j].op < nextOp /\ job[j].op \in Nat
      BY SMTT(30) DEF Minted, TypeOK, TasksOK, Job
    <2>3. ASSUME NEW j \in Tasks, j # k, pc'[j] \in Writer, pc'[k] \in Writer
          PROVE  job'[k].op # job'[j].op
      <3>1. pc[j] \in Writer /\ job'[j] = job[j]
        BY <1>4, <2>3, TaskFrame, Zenon DEF TypeOK
      <3>2. CASE pc[k] \in Writer /\ job'[k].op = job[k].op
        BY <2>3, <3>1, <3>2, Zenon DEF Minted
      <3>3. CASE job'[k].op = nextOp
        BY <1>1, <2>2, <3>1, <3>3
      <3>. QED  BY <1>4, <2>3, <3>2, <3>3, OwnIds, Zenon DEF Keeps
    <2>4. ASSUME NEW i \in Tasks, NEW j \in Tasks, i # j, i # k, j # k,
                 pc'[i] \in Writer, pc'[j] \in Writer
          PROVE  job'[i].op # job'[j].op
      BY <1>4, <2>4, TaskFrame DEF TypeOK, Minted
    <2>. QED  BY <2>1, <2>3, <2>4, Zenon
  <1>5. ASSUME NEW p \in Procs, Crash(p)
        PROVE  /\ \A j \in Tasks : Holds(j)'
               /\ \A i, j \in Tasks : i # j /\ pc'[i] \in Writer /\ pc'[j] \in Writer
                                        => job'[i].op # job'[j].op
    <2>1. plan' = plan /\ nextOp' = nextOp
      BY <1>5, Zenon DEF Crash, sidecars
    <2>2. "idle" \notin InHand /\ "idle" \notin Writer
      BY Zenon DEF InHand, Gated, Writer, PreConfirm
    <2>3. ASSUME NEW j \in Tasks PROVE Holds(j)'
      <3>1. CASE pc'[j] = "idle" /\ job'[j] = NoJob
        BY <1>1, <2>1, <2>2, <3>1, SMTT(30) DEF Holds, NoJob
      <3>2. CASE pc'[j] = pc[j] /\ req'[j] = req[j] /\ job'[j] = job[j]
        <4>1. Holds(j)
          BY Zenon DEF Minted, Holds
        <4>. QED  BY <2>1, <3>2, <4>1, Zenon DEF Holds
      <3>. QED  BY <1>5, <3>1, <3>2, CrashFrame, Zenon
    <2>4. \A j \in Tasks : pc'[j] \in Writer => pc[j] \in Writer /\ job'[j] = job[j]
      BY <1>5, <2>2, CrashFrame, Zenon
    <2>. QED  BY <2>3, <2>4, Zenon DEF Minted
  <1>6. CASE UNCHANGED vars
    BY <1>6, Zenon DEF vars, Minted, Committed, Published
  <1>7. ASSUME \A j \in Tasks : Holds(j)',
               \A i, j \in Tasks : i # j /\ pc'[i] \in Writer /\ pc'[j] \in Writer
                                     => job'[i].op # job'[j].op
        PROVE  Minted'
    BY <1>1, <1>2, <1>7, SMTT(30) DEF Minted, Holds
  <1>. QED  BY <1>4, <1>5, <1>6, <1>7, Zenon DEF Next

-----------------------------------------------------------------------------
\* Phases: what other tasks' steps leave alone.

\* No other task removes or rewrites the sidecar of an undecided operation.
LEMMA OthersSidecar ==
    ASSUME WriteInv, [Next]_vars, NEW j \in Tasks, ~TaskStep(j), pc[j] \in InHand,
           job[j].op \notin Committed, RollbackId(job[j].op) \notin Published,
           pc[j] \in Writer \/ sc[job[j].op] = "EffectsConfirmed"
    PROVE  sc'[job[j].op] = sc[job[j].op]
  <1>. DEFINE o == job[j].op
  <1>. USE DEF WriteInv
  <1>1. o \in Ops
    BY InHandOp, Zenon
  <1>2. ASSUME NEW k \in Tasks, o = job[k].op, Unlink(k) PROVE FALSE
    <2>1. k # j /\ pc[k] = "unlink" /\ Phase(k)
      BY <1>2, Zenon DEF Unlink, TaskStep, Recover, Phases
    <2>2. Sweeping(k)
      BY <1>2, <2>1, Zenon DEF Phase
    <2>. QED  BY <2>1, <2>2, SweepAlone, Zenon DEF InHand
  <1>3. ASSUME NEW k \in Tasks, o = job[k].op, Retract(k) \/ CleanupSidecar(k) \/ Confirm(k)
        PROVE  FALSE
    <2>1. k # j /\ pc[k] \in Writer /\ Phase(k)
      BY <1>3, Zenon DEF Retract, CleanupSidecar, Confirm, TaskStep, Attempt, Phases,
         Writer, PreConfirm
    <2>2. sc[o] # "EffectsConfirmed"
      BY <1>3, Zenon DEF Retract, CleanupSidecar, Confirm, Phases, Phase, PreConfirm
    <2>. QED  BY <1>3, <2>1, <2>2, Zenon DEF Minted
  <1>4. o # nextOp
    BY <1>1 DEF Minted, Ops, TypeOK, ControlOK
  <1>. QED  BY <1>1, <1>2, <1>3, <1>4, SidecarEffect, Zenon

\* No other task decides an operation in a writer's hands.
LEMMA OthersOutcome ==
    ASSUME WriteInv, [Next]_vars, NEW j \in Tasks, ~TaskStep(j), pc[j] \in InHand
    PROVE  /\ RollbackId(job[j].op) \in Published' => RollbackId(job[j].op) \in Published
           /\ pc[j] \in PreConfirm => job[j].op \notin Committed'
  <1>. DEFINE o == job[j].op
  <1>. USE DEF WriteInv
  <1>1. o \in Ops
    BY InHandOp, Zenon
  <1>2. ASSUME NEW k \in Tasks, o = job[k].op, RollBack(k) PROVE FALSE
    <2>1. k # j /\ pc[k] = "restore"
      BY <1>2, Zenon DEF RollBack, TaskStep, Recover
    <2>2. Sweeping(k)
      BY <2>1, Zenon DEF Exclusive
    <2>. QED  BY <2>1, <2>2, SweepAlone, Zenon DEF InHand
  <1>3. ASSUME NEW k \in Tasks, o = job[k].op, RollForward(k), pc[j] \in PreConfirm
        PROVE  FALSE
    <2>1. pc[k] = "rollForward"
      BY <1>3, Zenon DEF RollForward
    <2>. QED  BY <1>3, <2>1, Zenon DEF Phases, Phase
  <1>4. ASSUME NEW k \in Tasks, o = job[k].op, Publish(k), pc[j] \in PreConfirm
        PROVE  FALSE
    <2>1. k # j /\ pc[k] = "publish"
      BY <1>4, Zenon DEF Publish, TaskStep, Attempt
    <2>. QED  BY <1>4, <2>1, Zenon DEF Minted, Writer
  <1>5. pc[j] \in PreConfirm => o \notin Committed
    BY Zenon DEF Phases, Phase
  <1>. QED  BY <1>1, <1>2, <1>3, <1>4, <1>5, OutcomeEffect, Zenon

\* No other task drops a ref of a writer that has not confirmed.
LEMMA OthersRef ==
    ASSUME WriteInv, [Next]_vars, NEW j \in Tasks, ~TaskStep(j), pc[j] \in PreConfirm,
           NEW t \in plan[job[j].op].tabs, ref[t]
    PROVE  ref'[t]
  <1>. DEFINE o == job[j].op
  <1>. USE DEF WriteInv
  <1>1. o \in Ops /\ sc[o] = "Armed" /\ t \in Tables
    BY InHandOp, Zenon DEF InHand, Gated, PreConfirm, Phases, Phase, TypeOK, SidecarsOK, Plan
  <1>2. ref \in [Tables -> BOOLEAN]
    BY Zenon DEF TypeOK, StorageOK
  <1>3. ASSUME NEW k \in Tasks, Reclaim(k) PROVE FALSE
    <2>1. k # j /\ Sweeping(k)
      BY <1>3, Zenon DEF Reclaim, TaskStep, Recover, Exclusive
    <2>. QED  BY <2>1, SweepAlone, Zenon DEF PreConfirm, Gated
  <1>4. ASSUME NEW k \in Tasks, Withdraw(k), ReclaimForks(job[k].op) PROVE ref'[t]
    <2>1. k # j /\ pc[k] \in Writer
      BY <1>4, Zenon DEF Withdraw, TaskStep, Attempt, Writer, PreConfirm
    <2>2. job[k].op # o
      BY <2>1, Zenon DEF Minted, Writer
    <2>3. t \notin Reclaimable(job[k].op)
      BY <1>1, <2>2, Zenon DEF Reclaimable, Claimed, Pending
    <2>. QED  BY <1>1, <1>4, <2>3, Zenon DEF ReclaimForks
  <1>5. ASSUME NEW u \in Tables, ref' = [ref EXCEPT ![u] = TRUE] PROVE ref'[t]
    BY <1>1, <1>2, <1>5, Zenon
  <1>. QED  BY <1>3, <1>4, <1>5, TableEffect, Zenon

\* No other task moves the tables under a Full sweep.
LEMMA OthersTables ==
    ASSUME WriteInv, [Next]_vars, NEW j \in Tasks, ~TaskStep(j), Sweeping(j)
    PROVE  UNCHANGED table
  <1>1. ASSUME NEW k \in Tasks,
               \/ Reclaim(k) \/ RestoreTable(k) \/ ForkTable(k) \/ CommitTable(k)
               \/ Withdraw(k)
        PROVE  FALSE
    <2>1. k # j /\ pc[k] \in Gated
      BY <1>1, Zenon DEF Reclaim, RestoreTable, ForkTable, CommitTable, Withdraw, TaskStep,
         Recover, Attempt, Gated
    <2>. QED  BY <2>1, SweepAlone, Zenon DEF WriteInv
  <1>. QED  BY <1>1, TablesStep, Zenon

\* The phase of a task that does not move survives everyone else's steps.
LEMMA PhaseFrame ==
    ASSUME WriteInv, [Next]_vars, NEW j \in Tasks, ~TaskStep(j),
           pc'[j] = pc[j], job'[j] = job[j]
    PROVE  Phase(j)'
  <1>. DEFINE o == job[j].op
  <1>. USE DEF WriteInv
  <1>0. CASE pc[j] \notin InHand
    BY <1>0, Zenon DEF Phase, InHand, Gated, PreConfirm
  <1>1. CASE pc[j] \in InHand
    <2>1. o \in Ops /\ o < nextOp /\ Phase(j)
      BY <1>1, InHandOp, Zenon DEF Minted, Phases
    <2>2. plan'[o] = plan[o]
      BY <2>1, PlanKept, Zenon
    <2>3. /\ o \in Committed => o \in Committed'
          /\ RollbackId(o) \in Published => RollbackId(o) \in Published'
      BY <2>1, OutcomeEffect, Zenon
    <2>4. pc[j] \in PreConfirm => sc'[o] = "Armed" /\ o \notin Committed'
      BY <1>1, <2>1, OthersSidecar, OthersOutcome, Zenon DEF Phase, Writer
    <2>5. pc[j] \in PreConfirm \cup {"publish", "rollForward"} =>
            RollbackId(o) \notin Published'
      BY <1>1, <2>1, OthersOutcome, Zenon DEF Phase
    <2>6. pc[j] = "fork" => \A t \in plan[o].tabs \ job[j].left : ref'[t]
      BY <2>1, OthersRef, Zenon DEF Phase, PreConfirm
    <2>7. ASSUME pc[j] = "commit"
          PROVE  /\ job[j].left \subseteq plan[o].tabs
                 /\ \A t \in plan[o].tabs : ref'[t]
                 /\ Landed(o, plan[o].tabs \ job[j].left)'
      <3>1. \A t \in plan[o].tabs : ref'[t]
        BY <2>1, <2>7, OthersRef, Zenon DEF Phase, PreConfirm
      <3>2. \A k \in Tasks : ForkTable(k) => job[k].op # o
        BY <2>7, Zenon DEF ForkTable, TaskStep, Attempt, Minted, Writer, PreConfirm
      <3>3. ASSUME NEW t \in plan[o].tabs \ job[j].left PROVE LandedOn(o, t)'
        <4>1. Kept(t) /\ LandedOn(o, t) /\ t \in Tables
          BY <2>1, <2>7, <3>2, <3>3, ClaimedKept, Zenon
             DEF Phase, PreConfirm, Landed, TypeOK, SidecarsOK, Plan
        <4>2. TypeOK'
          BY TypeStep, Zenon
        <4>. QED  BY <2>1, <2>2, <4>1, <4>2, LandedKept, Zenon
      <3>4. Landed(o, plan[o].tabs \ job[j].left)'
        BY <2>2, <3>3, Zenon DEF Landed
      <3>. QED  BY <2>1, <2>7, <3>1, <3>4, Zenon DEF Phase
    <2>8. pc[j] = "publish" =>
            plan[o].tabs = {} \/ sc'[o] = "EffectsConfirmed" \/ o \in Committed'
      BY <1>1, <2>1, <2>3, OthersSidecar, Zenon DEF Phase
    <2>9. pc[j] = "rollForward" => sc'[o] = "EffectsConfirmed" \/ o \in Committed'
      BY <1>1, <2>1, <2>3, OthersSidecar, Zenon DEF Phase
    <2>10. pc[j] \in {"auditPlan", "restore"} =>
             job[j].left = {t \in plan[o].tabs : OwnAtHead(o, t)'}
      <3>1. ASSUME pc[j] \in {"auditPlan", "restore"} PROVE UNCHANGED log
        BY <3>1, OthersTables, Zenon DEF Exclusive, table
      <3>2. ASSUME UNCHANGED log PROVE \A t : OwnAtHead(o, t)' <=> OwnAtHead(o, t)
        BY <2>2, <3>2, Zenon DEF OwnAtHead, OwnVersions
      <3>. QED  BY <2>1, <3>1, <3>2, Zenon DEF Phase
    <2>11. Sweeping(j)' <=> Sweeping(j)
      BY Zenon DEF Sweeping
    <2>. HIDE DEF WriteInv
    <2>. QED  BY <2>1, <2>2, <2>3, <2>4, <2>5, <2>6, <2>7, <2>8, <2>9, <2>10, <2>11, Zenon
              DEF Phase
  <1>. QED  BY <1>0, <1>1, Zenon

\* A sweep works alone: no other task's step reaches the tables, the manifest
\* or the sidecars.
LEMMA SweepUndisturbed ==
    ASSUME WriteInv, [Next]_vars, NEW j \in Tasks, ~TaskStep(j), Sweeping(j)
    PROVE  UNCHANGED <<table, manifest, sc>>
  <1>1. ASSUME NEW k \in Tasks, TaskStep(k) PROVE pc[k] \notin Gated
    BY <1>1, SweepAlone, Zenon DEF WriteInv
  <1>2. UNCHANGED table
    BY OthersTables, Zenon
  <1>3. ASSUME NEW k \in Tasks, RollForward(k) \/ RollBack(k) \/ Publish(k) PROVE FALSE
    <2>1. TaskStep(k) /\ pc[k] \in Gated
      BY <1>3, Zenon DEF TaskStep, Recover, Attempt, RollForward, RollBack, Publish, Gated
    <2>. QED  BY <1>1, <2>1, Zenon
  <1>4. ASSUME NEW k \in Tasks, Unlink(k) \/ Arm(k) \/ Retract(k) \/ Confirm(k) \/ CleanupSidecar(k)
        PROVE  FALSE
    <2>1. TaskStep(k) /\ pc[k] \in Gated
      BY <1>4, Zenon DEF TaskStep, Recover, Attempt, Unlink, Arm, Retract, Confirm,
         CleanupSidecar, Gated
    <2>. QED  BY <1>1, <2>1, Zenon
  <1>. QED  BY <1>2, <1>3, <1>4, ManifestStep, SidecarStep, Zenon

-----------------------------------------------------------------------------
\* Versions: where they come from, and who makes the effects of an operation.

\* A version is nobody's or an operation's.
LEMMA VersionOps ==
    ASSUME WriteInv, NEW t \in Tables
    PROVE  /\ Len(log[t]) \in Nat /\ pin[t] \in 1..Len(log[t])
           /\ \A v \in 1..Len(log[t]) : log[t][v].op = 0 \/ log[t][v].op \in Ops
  <1>1. log[t] \in Seq(Version)
    BY Zenon DEF WriteInv, TypeOK, StorageOK
  <1>2. pin[t] \in 1..Len(log[t])
    BY Zenon DEF WriteInv, Pinned
  <1>3. \A v \in 1..Len(log[t]) : log[t][v] \in Version
    BY <1>1
  <1>4. ASSUME NEW n \in 0..MaxOps PROVE n = 0 \/ n \in Ops
    BY Shapes DEF Ops
  <1>. QED  BY <1>1, <1>2, <1>3, <1>4 DEF Version

\* Where the versions of a table come from.
LEMMA VersionStep ==
    ASSUME WriteInv, [Next]_vars, NEW t \in Tables, NEW v \in 1..Len(log'[t])
    PROVE  \/ v \in 1..Len(log[t]) /\ log'[t][v] = log[t][v]
           \/ /\ v = Len(log[t]) + 1 /\ Kept(t)
              /\ \E k \in Tasks : /\ RestoreTable(k) /\ t \in job[k].left
                                  /\ log'[t][v] = RestoreOf(t)
           \/ /\ v = Len(log[t]) + 1 /\ Kept(t)
              /\ \E k \in Tasks : /\ CommitTable(k) /\ t \in job[k].left
                                  /\ log'[t][v] = EffectOf(job[k].op, t)
  <1>1. Len(log[t]) \in Nat /\ 1 <= Len(log[t])
    BY VersionOps
  <1>2. CASE log'[t] = log[t]
    BY <1>2, Zenon
  <1>3. CASE Cut(t)
    BY <1>1, <1>3 DEF Cut
  <1>4. ASSUME NEW x, Grown(t, x)
        PROVE  \/ v \in 1..Len(log[t]) /\ log'[t][v] = log[t][v]
               \/ v = Len(log[t]) + 1 /\ log'[t][v] = x /\ Kept(t)
    BY <1>1, <1>4 DEF Grown, Kept
  <1>5. ASSUME NEW u \in Tables, NEW x, u # t, Grown(u, x) \/ Cut(u) PROVE log'[t] = log[t]
    BY <1>5, Zenon DEF Grown, Cut
  <1>6. ASSUME NEW k \in Tasks, ReclaimForks(job[k].op) PROVE log'[t] = log[t]
    BY <1>6, Zenon DEF ReclaimForks
  <1>7. \/ log' = log
        \/ \E k \in Tasks : ReclaimForks(job[k].op)
        \/ \E k \in Tasks, u \in Tables :
             RestoreTable(k) /\ u \in job[k].left /\ Grown(u, RestoreOf(u))
        \/ \E u \in Tables : Cut(u)
        \/ \E k \in Tasks, u \in Tables :
             CommitTable(k) /\ u \in job[k].left /\ Grown(u, EffectOf(job[k].op, u))
    BY TableEffect, Zenon DEF WriteInv
  <1>8. ASSUME NEW k \in Tasks, NEW u \in Tables, RestoreTable(k), u \in job[k].left,
               Grown(u, RestoreOf(u)), log'[t] # log[t]
        PROVE  \/ v \in 1..Len(log[t]) /\ log'[t][v] = log[t][v]
               \/ /\ v = Len(log[t]) + 1 /\ Kept(t) /\ RestoreTable(k) /\ t \in job[k].left
                  /\ log'[t][v] = RestoreOf(t)
    <2>1. u = t
      BY <1>5, <1>8, Zenon
    <2>. QED  BY <1>4, <1>8, <2>1, Zenon
  <1>9. ASSUME NEW k \in Tasks, NEW u \in Tables, CommitTable(k), u \in job[k].left,
               Grown(u, EffectOf(job[k].op, u)), log'[t] # log[t]
        PROVE  \/ v \in 1..Len(log[t]) /\ log'[t][v] = log[t][v]
               \/ /\ v = Len(log[t]) + 1 /\ Kept(t) /\ CommitTable(k) /\ t \in job[k].left
                  /\ log'[t][v] = EffectOf(job[k].op, t)
    <2>1. u = t
      BY <1>5, <1>9, Zenon
    <2>. QED  BY <1>4, <1>9, <2>1, Zenon
  <1>10. ASSUME NEW u \in Tables, Cut(u), log'[t] # log[t] PROVE Cut(t)
    BY <1>5, <1>10, Zenon
  <1>. QED  BY <1>2, <1>3, <1>6, <1>7, <1>8, <1>9, <1>10, Zenon

\* No version of t is an effect of o.
NoEffectOn(o, t) == \A v \in 1..Len(log[t]) : log[t][v].op # o

\* Only its own writer makes an effect of an operation.
LEMMA NoEffectStays ==
    ASSUME WriteInv, [Next]_vars, NEW o \in Ops, NEW t \in Tables, NoEffectOn(o, t),
           \A k \in Tasks : CommitTable(k) => job[k].op # o
    PROVE  NoEffectOn(o, t)'
  <1>1. o # 0
    BY DEF Ops
  <1>2. RestoreOf(t).op = 0 /\ \A k \in Tasks : EffectOf(job[k].op, t).op = job[k].op
    BY Zenon DEF RestoreOf, EffectOf
  <1>3. ASSUME NEW v \in 1..Len(log'[t]) PROVE log'[t][v].op # o
    BY <1>1, <1>2, VersionStep, Zenon DEF NoEffectOn
  <1>. QED  BY <1>3, Zenon DEF NoEffectOn

-----------------------------------------------------------------------------
\* Phases: what a task's own step establishes.

\* Control points that promise nothing.
Quiet == {"idle", "list", "next", "classify", "reclaim", "prepare", "gates",
          "validate", "arm"}

\* A task that ends, retries or has not begun promises nothing.
LEMMA QuietPhase ==
    ASSUME TasksOK, NEW k \in Tasks,
           \/ pc'[k] \in Quiet \/ Leave(k) \/ Retry(k)
           \/ \E u \in BOOLEAN : ToNext(k, u)
    PROVE  Phase(k)'
  <1>1. pc'[k] \in Quiet
    BY Zenon DEF TasksOK, Leave, Retry, ToNext, Goto, Quiet
  <1>. QED  BY <1>1, Zenon DEF Quiet, Phase, PreConfirm

\* An exact effect is one of the operation's own versions.
LEMMA LandedOwn ==
    ASSUME TypeOK, NEW o \in Ops, NEW t \in Tables, LandedOn(o, t)
    PROVE  plan[o].pins[t] + 1 \in OwnVersions(o, t)
  <1>. DEFINE p == plan[o].pins[t]
  <1>1. p \in Nat /\ Len(log[t]) \in Nat
    BY DEF TypeOK, SidecarsOK, Plan, StorageOK
  <1>2. p + 1 <= Len(log[t]) /\ log[t][p + 1].op = o
    BY Zenon DEF LandedOn
  <1>3. OwnVersions(o, t) = {v \in (p + 1)..Len(log[t]) : log[t][v].op = o}
    BY Zenon DEF OwnVersions
  <1>. HIDE DEF p
  <1>4. p + 1 \in OwnVersions(o, t)
    BY <1>1, <1>2, <1>3
  <1>. QED  BY <1>4, Zenon DEF p

\* What recovery knows after it classified, published or wrote its audit row.
LEMMA RecoverPhase ==
    ASSUME WriteInv, NEW k \in Tasks,
           Classify(k) \/ RollForward(k) \/ Audit(k) \/ Unlink(k) \/ RollBack(k)
    PROVE  Phase(k)'
  <1>. DEFINE o == job[k].op
  <1>. USE DEF WriteInv
  <1>0. /\ pc[k] \in InHand /\ o \in Ops /\ Phase(k) /\ job[k].mode \in {"Full", "RollForwardOnly"}
        /\ pc \in [Tasks -> Points] /\ StorageOK /\ TasksOK
    BY InHandOp, Zenon DEF Classify, RollForward, Audit, Unlink, RollBack, InHand, Gated,
       Phases, TypeOK, TasksOK, Job
  <1>1. CASE Classify(k)
    <2>1. UNCHANGED <<manifest, sidecars>>
      BY <1>1, Zenon DEF Classify
    <2>2. /\ Committed' = Committed /\ Published' = Published
          /\ sc' = sc /\ plan' = plan
      BY <2>1, Zenon DEF manifest, sidecars, Committed, Published
    <2>3. CASE Leave(k) \/ \E u \in BOOLEAN : ToNext(k, u)
      BY <1>0, <2>3, QuietPhase, Zenon
    <2>4. ASSUME Verdict(o, job[k].mode) = "committed", Advance(k, "auditCommitted")
          PROVE  Phase(k)'
      <3>1. pc'[k] = "auditCommitted" /\ job' = job /\ o \in Committed
        BY <1>0, <2>4, VerdictMeans, Zenon DEF Advance, Goto, Committed
      <3>. QED  BY <2>2, <3>1, Zenon DEF Phase, PreConfirm
    <2>5. ASSUME Verdict(o, job[k].mode) = "rolledBack", Advance(k, "auditRolledBack")
          PROVE  Phase(k)'
      <3>1. pc'[k] = "auditRolledBack" /\ job' = job /\ RollbackId(o) \in Published
        BY <1>0, <2>5, VerdictMeans, Zenon DEF Advance, Goto
      <3>. QED  BY <2>2, <3>1, Zenon DEF Phase, PreConfirm
    <2>6. ASSUME Verdict(o, job[k].mode) = "rollForward", Advance(k, "rollForward")
          PROVE  Phase(k)'
      <3>1. pc'[k] = "rollForward" /\ job' = job
        BY <1>0, <2>6, Zenon DEF Advance, Goto
      <3>2. sc[o] = "EffectsConfirmed" /\ RollbackId(o) \notin Published
        BY <1>0, <2>6, VerdictMeans, Zenon DEF AnyOwnEffect, RolledPastExpected
      <3>. QED  BY <2>2, <3>1, <3>2, Zenon DEF Phase, PreConfirm
    <2>7. ASSUME Verdict(o, job[k].mode) = "abandon", job[k].mode # "Full" PROVE FALSE
      <3>1. ~AnyOwnEffect(o) /\ sc[o] = "EffectsConfirmed"
        BY <1>0, <2>7, VerdictMeans, Zenon DEF TypeOK, SidecarsOK
      <3>2. PICK t \in plan[o].tabs : LandedOn(o, t)
        BY <1>0, <3>1, Zenon DEF Recorded, Landed
      <3>3. plan[o].pins[t] + 1 \in OwnVersions(o, t)
        BY <1>0, <3>2, LandedOwn, Zenon DEF TypeOK, SidecarsOK, Plan
      <3>. QED  BY <3>1, <3>2, <3>3, Zenon DEF AnyOwnEffect
    <2>8. CASE Advance(k, "reclaim")
      BY <1>0, <2>8, QuietPhase, Zenon DEF Advance, Goto, Quiet
    <2>. QED  BY <1>1, <2>3, <2>4, <2>5, <2>6, <2>7, <2>8, Zenon DEF Classify
  <1>2. CASE RollForward(k)
    <2>1. CASE Leave(k)
      BY <1>0, <2>1, QuietPhase, Zenon
    <2>2. CASE /\ PublishManifest(plan[o].tabs, Effects(o), CommitId(o))
               /\ Advance(k, "auditForward")
      <3>1. Published' = Published \cup {CommitId(o)}
        BY <1>0, <2>2, PublishedGrows, Zenon
      <3>2. o \in Committed'
        BY <1>0, <3>1, CommitPublished, Zenon
      <3>3. pc'[k] = "auditForward" /\ job' = job
        BY <1>0, <2>2, Zenon DEF Advance, Goto
      <3>. QED  BY <3>2, <3>3, Zenon DEF Phase, PreConfirm
    <2>3. CASE /\ CommitId(o) \in Published /\ Advance(k, "auditCommitted")
               /\ UNCHANGED manifest
      <3>1. o \in Committed'
        BY <1>0, <2>3, Zenon DEF manifest, Committed, Published
      <3>2. pc'[k] = "auditCommitted" /\ job' = job
        BY <1>0, <2>3, Zenon DEF Advance, Goto
      <3>. QED  BY <3>1, <3>2, Zenon DEF Phase, PreConfirm
    <2>. QED  BY <1>2, <2>1, <2>2, <2>3, Zenon DEF RollForward
  <1>3. CASE Audit(k)
    <2>1. CASE Leave(k)
      BY <1>0, <2>1, QuietPhase, Zenon
    <2>2. CASE Advance(k, "unlink")
      <3>1. pc'[k] = "unlink" /\ job' = job
        BY <1>0, <2>2, Zenon DEF Advance, Goto
      <3>2. o \in Committed \/ RollbackId(o) \in Published
        BY <1>0, <1>3, Zenon DEF Audit, Phase
      <3>3. Committed' = Committed /\ Published' = Published
        BY <1>3, Zenon DEF Audit, manifest, Committed, Published
      <3>. QED  BY <3>1, <3>2, <3>3, Zenon DEF Phase, PreConfirm
    <2>. QED  BY <1>3, <2>1, <2>2, Zenon DEF Audit
  <1>4. CASE Unlink(k)
    BY <1>0, <1>4, QuietPhase, Zenon DEF Unlink
  <1>5. CASE RollBack(k)
    <2>1. CASE Leave(k)
      BY <1>0, <2>1, QuietPhase, Zenon
    <2>2. CASE /\ PublishManifest(Compensable(o), LiveHeads, RollbackId(o))
               /\ Advance(k, "auditBack")
      <3>1. RollbackId(o) \in Published'
        <4>1. Published' = Published \cup {RollbackId(o)}
          BY <1>0, <2>2, PublishedGrows, Zenon
        <4>. QED  BY <4>1, Zenon
      <3>2. pc'[k] = "auditBack" /\ job' = job
        BY <1>0, <2>2, Zenon DEF Advance, Goto
      <3>. QED  BY <3>1, <3>2, Zenon DEF Phase, PreConfirm
    <2>. QED  BY <1>5, <2>1, <2>2, Zenon DEF RollBack
  <1>. QED  BY <1>1, <1>2, <1>3, <1>4, <1>5, Zenon

\* What the Full sweep knows from the fork cleanup to the rollback publish.
LEMMA SweepPhase ==
    ASSUME WriteInv, NEW k \in Tasks,
           Reclaim(k) \/ PersistRollbackPlan(k) \/ RestoreTable(k)
    PROVE  Phase(k)'
  <1>. SUFFICES ASSUME NEW o, o = job[k].op PROVE Phase(k)'
    BY Zenon
  <1>. DEFINE AtHead == {t \in plan[o].tabs : OwnAtHead(o, t)}
  <1>. USE DEF WriteInv
  <1>0. /\ o \in Ops /\ Phase(k) /\ Sweeping(k) /\ job[k] \in Job
        /\ pc \in [Tasks -> Points] /\ job \in [Tasks -> Job] /\ TasksOK
    BY InHandOp, Zenon DEF Reclaim, PersistRollbackPlan, RestoreTable, InHand, Gated,
       Exclusive, Phases, TypeOK, TasksOK
  <1>1. ASSUME pc'[k] \in {"auditPlan", "restore"}, job'[k].op = o,
               job'[k].left = {t \in plan[o].tabs : OwnAtHead(o, t)'}, plan' = plan
        PROVE  Phase(k)'
    BY <1>1, Zenon DEF Phase, PreConfirm
  <1>2. ASSUME log' = log, plan' = plan
        PROVE  AtHead = {t \in plan[o].tabs : OwnAtHead(o, t)'}
    BY <1>2, Zenon DEF OwnAtHead, OwnVersions
  <1>3. CASE Leave(k)
    BY <1>0, <1>3, QuietPhase, Zenon
  <1>4. CASE Reclaim(k) /\ ~Leave(k)
    <2>1. /\ job' = [job EXCEPT ![k].left = RestoreTargets(o)]
          /\ pc' = [pc EXCEPT ![k] = IF AnyOwnEffect(o) THEN "auditPlan" ELSE "unlink"]
          /\ log' = log /\ plan' = plan
      BY <1>4, Zenon DEF Reclaim, ReclaimForks, Goto, sidecars
    <2>2. RestoreTargets(o) = AtHead
      BY Zenon DEF RestoreTargets, Compensable
    <2>3. job'[k].left = AtHead /\ job'[k].op = o /\ job'[k].mode = job[k].mode
      BY <1>0, <2>1, <2>2, Zenon DEF Job
    <2>4. CASE AnyOwnEffect(o)
      BY <1>0, <1>1, <1>2, <2>1, <2>3, <2>4, Zenon
    <2>5. CASE ~AnyOwnEffect(o)
      <3>1. pc'[k] = "unlink" /\ Sweeping(k)'
        BY <1>0, <2>1, <2>3, <2>5, Zenon DEF Sweeping
      <3>. QED  BY <3>1, Zenon DEF Phase, PreConfirm
    <2>. QED  BY <2>4, <2>5, Zenon
  <1>5. CASE PersistRollbackPlan(k) /\ ~Leave(k)
    <2>1. pc'[k] = "restore" /\ job' = job /\ log' = log /\ plan' = plan
      BY <1>0, <1>5, Zenon DEF PersistRollbackPlan, Advance, Goto, table
    <2>2. job[k].left = AtHead
      BY <1>0, <1>5, Zenon DEF PersistRollbackPlan, Phase
    <2>. QED  BY <1>1, <1>2, <2>1, <2>2, Zenon
  <1>6. CASE RestoreTable(k) /\ ~Leave(k)
    <2>1. PICK t \in job[k].left :
            /\ log' = [log EXCEPT ![t] = Append(@,
                          [op |-> 0, restore |-> pin[t], rows |-> @[pin[t]].rows])]
            /\ Done(k, t) /\ pc[k] = "restore" /\ plan' = plan
      BY <1>6, Zenon DEF RestoreTable, sidecars
    <2>2. job'[k].left = job[k].left \ {t} /\ job'[k].op = o /\ pc'[k] = "restore"
      BY <1>0, <2>1, Zenon DEF Done, Job
    <2>3. job[k].left = AtHead /\ t \in Tables
      BY <1>0, <2>1, Zenon DEF Phase, Job
    <2>4. /\ Len(log'[t]) = Len(log[t]) + 1
          /\ log'[t][Len(log'[t])].op = 0
          /\ \A u \in Tables \ {t} : log'[u] = log[u]
      <3>1. log \in [Tables -> Seq(Version)]
        BY Zenon DEF TypeOK, StorageOK
      <3>2. /\ log'[t] = Append(log[t], [op |-> 0, restore |-> pin[t],
                                        rows |-> log[t][pin[t]].rows])
            /\ \A u \in Tables \ {t} : log'[u] = log[u]
        BY <2>1, <2>3, <3>1, Zenon
      <3>. QED  BY <2>3, <3>1, <3>2, SMTT(30)
    <2>5. ~OwnAtHead(o, t)'
      <3>1. o # 0
        BY <1>0 DEF Ops
      <3>. QED  BY <2>4, <3>1, Zenon DEF OwnAtHead, OwnVersions
    <2>6. \A u \in Tables \ {t} : OwnAtHead(o, u)' <=> OwnAtHead(o, u)
      BY <2>1, <2>4, Zenon DEF OwnAtHead, OwnVersions
    <2>7. plan[o].tabs \subseteq Tables
      BY <1>0, Zenon DEF TypeOK, SidecarsOK, Plan
    <2>8. AtHead \ {t} = {u \in plan[o].tabs : OwnAtHead(o, u)'}
      BY <2>5, <2>6, <2>7, Zenon
    <2>. QED  BY <1>1, <2>1, <2>2, <2>3, <2>8, Zenon
  <1>. QED  BY <1>3, <1>4, <1>5, <1>6, Zenon

\* What a writer knows from its armed sidecar to its last fork.
LEMMA ForkPhase ==
    ASSUME WriteInv, NEW k \in Tasks, Arm(k) \/ ForkTable(k) \/ ForksReady(k)
    PROVE  Phase(k)'
  <1>. USE DEF WriteInv
  <1>0. /\ pc \in [Tasks -> Points] /\ job \in [Tasks -> Job] /\ job[k] \in Job
        /\ req[k] \in Request /\ TasksOK /\ StorageOK /\ SidecarsOK
    BY Zenon DEF TypeOK, TasksOK
  <1>1. CASE Leave(k)
    BY <1>0, <1>1, QuietPhase, Zenon
  <1>2. CASE Arm(k) /\ ~Leave(k)
    <2>. DEFINE base == req[k].base
    <2>1. /\ nextOp \in Ops
          /\ plan' = [plan EXCEPT ![nextOp] = base]
          /\ job' = [job EXCEPT ![k].op = nextOp, ![k].left = base.forks]
          /\ UNCHANGED <<table, manifest>>
      BY <1>2, SMTT(30) DEF Arm, Minted, TypeOK, ControlOK, Ops
    <2>2. job'[k].op = nextOp /\ job'[k].left = base.forks /\ plan'[nextOp] = base
      BY <1>0, <2>1, Zenon DEF Job, SidecarsOK
    <2>3. nextOp \notin Committed /\ RollbackId(nextOp) \notin Published
      BY <2>1 DEF Minted, Ops
    <2>4. nextOp \notin Committed' /\ RollbackId(nextOp) \notin Published' /\ ref' = ref
      BY <2>1, <2>3, Zenon DEF Committed, Published, manifest, table
    <2>5. \A t \in base.tabs \ base.forks : ref[t]
      BY <1>0, Zenon DEF Captured, Pinned, Request, Plan
    <2>6. CASE base.tabs = {}
      <3>1. pc'[k] = "publish"
        BY <1>0, <1>2, <2>6, Zenon DEF Arm, Goto
      <3>. QED  BY <2>2, <2>4, <2>6, <3>1, Zenon DEF Phase, PreConfirm
    <2>7. CASE base.tabs # {}
      <3>1. pc'[k] = "fork" /\ sc' = [sc EXCEPT ![nextOp] = "Armed"]
        BY <1>0, <1>2, <2>7, Zenon DEF Arm, Goto
      <3>2. sc'[nextOp] = "Armed"
        BY <1>0, <2>1, <3>1, Zenon DEF SidecarsOK
      <3>. QED  BY <2>2, <2>4, <2>5, <3>1, <3>2, Zenon DEF Phase, PreConfirm
    <2>. QED  BY <2>6, <2>7, Zenon
  <1>3. CASE (ForkTable(k) \/ ForksReady(k)) /\ ~Leave(k)
    <2>. SUFFICES ASSUME NEW o, o = job[k].op PROVE Phase(k)'
      BY Zenon
    <2>1. /\ pc[k] = "fork" /\ Phase(k) /\ o \in Ops
          /\ UNCHANGED <<manifest, sidecars>>
      BY <1>3, InHandOp, Zenon DEF ForkTable, ForksReady, Phases, InHand, Gated
    <2>2. /\ sc' = sc /\ plan' = plan /\ Committed' = Committed /\ Published' = Published
      BY <2>1, Zenon DEF manifest, sidecars, Committed, Published
    <2>3. /\ sc[o] = "Armed" /\ o \notin Committed /\ RollbackId(o) \notin Published
          /\ \A t \in plan[o].tabs \ job[k].left : ref[t]
      BY <2>1, Zenon DEF Phase, PreConfirm
    <2>4. ASSUME NEW t \in job[k].left, Done(k, t), ref' = [ref EXCEPT ![t] = TRUE]
          PROVE  Phase(k)'
      <3>1. /\ job'[k].op = o /\ job'[k].left = job[k].left \ {t} /\ pc'[k] = "fork"
        BY <1>0, <2>1, <2>4, Zenon DEF Done, Job
      <3>2. plan[o].tabs \subseteq Tables
        BY <1>0, <2>1, Zenon DEF SidecarsOK, Plan
      <3>3. \A u \in plan[o].tabs \ job'[k].left : ref'[u]
        <4>1. \A u \in Tables : ref'[u] = IF u = t THEN TRUE ELSE ref[u]
          BY <1>0, <2>4, Zenon DEF StorageOK
        <4>. QED  BY <2>3, <3>1, <3>2, <4>1, Zenon
      <3>. QED  BY <2>2, <2>3, <3>1, <3>3, Zenon DEF Phase, PreConfirm
    <2>5. CASE Advance(k, "duplicate")
      <3>1. pc'[k] = "duplicate" /\ job' = job
        BY <1>0, <2>5, Zenon DEF Advance, Goto
      <3>. QED  BY <2>2, <2>3, <3>1, Zenon DEF Phase, PreConfirm
    <2>6. CASE ForksReady(k)
      <3>1. plan[o] = req[k].base
        BY <2>1, Zenon DEF Minted, Writer, PreConfirm
      <3>2. /\ job'[k].op = o /\ job'[k].left = plan[o].tabs /\ pc'[k] = "commit"
            /\ ref' = ref /\ job[k].left = {}
        BY <1>0, <2>6, <3>1, Zenon DEF ForksReady, Goto, Job, table
      <3>3. Landed(o, plan[o].tabs \ job[k].left)'
        BY <2>2, <3>2, Zenon DEF Landed
      <3>. QED  BY <2>2, <2>3, <3>2, <3>3, Zenon DEF Phase, PreConfirm
    <2>7. CASE ForkTable(k)
      BY <1>3, <2>4, <2>5, <2>7, Zenon DEF ForkTable, NeedsRecovery
    <2>. QED  BY <1>3, <2>6, <2>7, Zenon
  <1>. QED  BY <1>1, <1>2, <1>3, Zenon

\* What a writer knows from its first table commit to its acknowledgement.
LEMMA CommitPhase ==
    ASSUME WriteInv, NEW k \in Tasks,
           CommitTable(k) \/ Withdraw(k) \/ Confirm(k) \/ Publish(k)
    PROVE  Phase(k)'
  <1>. USE DEF WriteInv
  <1>. SUFFICES ASSUME NEW o, o = job[k].op PROVE Phase(k)'
    BY Zenon
  <1>0. /\ pc \in [Tasks -> Points] /\ job \in [Tasks -> Job] /\ job[k] \in Job
        /\ TasksOK /\ StorageOK /\ SidecarsOK /\ Phase(k) /\ o \in Ops
        /\ pc[k] \in Writer /\ plan[o] = req[k].base
    BY InHandOp, Zenon DEF CommitTable, Withdraw, Confirm, Publish, Phases, InHand, Gated,
       TypeOK, TasksOK, Writer, PreConfirm, Minted
  <1>1. CASE Leave(k) \/ Retry(k)
    BY <1>0, <1>1, QuietPhase, Zenon
  <1>2. ASSUME pc[k] \in PreConfirm, UNCHANGED <<manifest, sidecars>>
        PROVE  /\ sc'[o] = "Armed" /\ o \notin Committed' /\ RollbackId(o) \notin Published'
               /\ plan' = plan
    BY <1>0, <1>2, Zenon DEF Phase, manifest, sidecars, Committed, Published
  <1>3. CASE CommitTable(k) /\ Advance(k, "withdraw")
    <2>1. pc'[k] = "withdraw" /\ job' = job /\ pc[k] \in PreConfirm
      BY <1>0, <1>3, Zenon DEF CommitTable, Advance, Goto, PreConfirm
    <2>2. UNCHANGED <<manifest, sidecars>>
      BY <1>3, Zenon DEF CommitTable
    <2>. QED  BY <1>2, <2>1, <2>2, Zenon DEF Phase, PreConfirm
  <1>4. CASE CommitTable(k) /\ ~Leave(k) /\ ~Advance(k, "withdraw")
    <2>1. PICK t \in job[k].left :
            /\ Exact(k, t)
            /\ log' = [log EXCEPT ![t] = Append(@,
                         [op |-> job[k].op, restore |-> 0, rows |-> Top(t).rows \cup {job[k].op}])]
            /\ Done(k, t)
      BY <1>4, Zenon DEF CommitTable, NeedsRecovery
    <2>2. pc[k] = "commit" /\ ref' = ref /\ UNCHANGED <<manifest, sidecars>>
      BY <1>4, Zenon DEF CommitTable
    <2>3. job'[k].op = o /\ job'[k].left = job[k].left \ {t} /\ pc'[k] = "commit"
      BY <1>0, <2>1, <2>2, Zenon DEF Done, Job
    <2>4. /\ job[k].left \subseteq plan[o].tabs /\ plan[o].tabs \subseteq Tables
          /\ \A u \in plan[o].tabs : ref[u]
          /\ \A u \in plan[o].tabs \ job[k].left : LandedOn(o, u)
      BY <1>0, <2>2, Zenon DEF Phase, Landed, SidecarsOK, Plan
    <2>5. /\ sc'[o] = "Armed" /\ o \notin Committed' /\ RollbackId(o) \notin Published'
          /\ plan' = plan
      BY <1>2, <2>2, Zenon DEF PreConfirm
    <2>6. /\ t \in Tables /\ Len(log[t]) \in Nat /\ log[t] \in Seq(Version)
          /\ Len(log[t]) = plan[o].pins[t] /\ plan[o].pins[t] >= 1
      BY <1>0, <2>1, <2>4, SMTT(30) DEF StorageOK, Captured, Exact
    <2>7. /\ Len(log'[t]) = Len(log[t]) + 1
          /\ log'[t][Len(log[t]) + 1] = EffectOf(o, t)
          /\ log'[t][Len(log[t])] = log[t][Len(log[t])]
          /\ \A u \in Tables \ {t} : log'[u] = log[u]
      <3>1. Len(log[t]) \in 1..Len(log[t])
        BY <2>6, SMTT(30)
      <3>2. log[t][Len(log[t])] \in Version
        BY <2>6, <3>1, SMTT(30)
      <3>3. EffectOf(o, t) \in Version
        BY <1>0, <3>2, Shapes DEF EffectOf, Top, Version, Ops
      <3>4. Grown(t, EffectOf(o, t))
        BY <1>0, <2>1, <2>6, <3>3, AppendGrows, Zenon DEF EffectOf
      <3>. QED  BY <3>1, <3>4, Zenon DEF Grown, Kept
    <2>8. LandedOn(o, t)'
      <3>. DEFINE n == Len(log[t])
      <3>1. plan'[o].pins[t] = n /\ n \in Nat /\ Len(log'[t]) = n + 1
        BY <2>5, <2>6, <2>7, Zenon
      <3>2. /\ log'[t][n + 1].op = o
            /\ log'[t][n + 1].rows = log'[t][n].rows \cup {o}
        BY <2>7 DEF EffectOf, Top
      <3>. HIDE DEF n
      <3>. QED  BY <3>1, <3>2 DEF LandedOn
    <2>9. ASSUME NEW u \in Tables \ {t}, LandedOn(o, u) PROVE LandedOn(o, u)'
      <3>1. plan'[o] = plan[o] /\ log'[u] = log[u]
        BY <2>5, <2>7, Zenon
      <3>. QED  BY <2>9, <3>1, Zenon DEF LandedOn
    <2>10. Landed(o, plan[o].tabs \ job[k].left)'
      <3>1. \A u \in plan[o].tabs \ job'[k].left : LandedOn(o, u)'
        BY <2>3, <2>4, <2>8, <2>9, Zenon
      <3>. QED  BY <2>5, <3>1, Zenon DEF Landed
    <2>. QED  BY <2>2, <2>3, <2>4, <2>5, <2>10, Zenon DEF Phase, PreConfirm
  <1>5. CASE Withdraw(k) /\ ~Leave(k)
    <2>1. /\ pc'[k] = "retract" /\ job' = job /\ pc[k] \in PreConfirm
          /\ UNCHANGED <<manifest, sidecars>>
      BY <1>0, <1>5, Zenon DEF Withdraw, NeedsRecovery, Goto, PreConfirm
    <2>. QED  BY <1>2, <2>1, Zenon DEF Phase, PreConfirm
  <1>6. CASE Confirm(k) /\ ~Leave(k)
    <2>1. /\ sc' = [sc EXCEPT ![job[k].op] = "EffectsConfirmed"]
          /\ pc'[k] = "publish" /\ job' = job /\ UNCHANGED manifest
          /\ pc[k] = "commit"
      BY <1>0, <1>6, Zenon DEF Confirm, NeedsRecovery, Advance, Goto
    <2>2. sc'[o] = "EffectsConfirmed"
      BY <1>0, <2>1, Zenon DEF SidecarsOK
    <2>3. RollbackId(o) \notin Published'
      BY <1>0, <2>1, Zenon DEF Phase, PreConfirm, manifest, Published
    <2>. QED  BY <2>1, <2>2, <2>3, Zenon DEF Phase, PreConfirm
  <1>7. CASE Publish(k) /\ ~Leave(k) /\ ~Retry(k)
    <2>1. /\ PublishManifest(plan[job[k].op].tabs, Effects(job[k].op), CommitId(job[k].op))
          /\ Advance(k, "cleanup")
      BY <1>7, Zenon DEF Publish, NeedsRecovery
    <2>2. pc'[k] = "cleanup" /\ job' = job
      BY <1>0, <2>1, Zenon DEF Advance, Goto
    <2>3. Published' = Published \cup {CommitId(o)}
      BY <1>0, <2>1, PublishedGrows, Zenon
    <2>4. o \in Committed'
      BY <1>0, <2>3, CommitPublished, Zenon
    <2>. QED  BY <2>2, <2>4, Zenon DEF Phase, PreConfirm
  <1>. QED  BY <1>1, <1>3, <1>4, <1>5, <1>6, <1>7, Zenon

\* Phases are kept: by the task that moves, and by everyone else.
LEMMA PhasesStep ==
    ASSUME WriteInv, [Next]_vars PROVE Phases'
  <1>1. ASSUME NEW k \in Tasks, TaskStep(k) PROVE Phase(k)'
    <2>1. TasksOK
      BY Zenon DEF WriteInv, TypeOK
    <2>2. CASE \/ BeginWrite(k) \/ BeginOpen(k) \/ ListSidecars(k) \/ NextSidecar(k)
               \/ FinishPass(k) \/ Prepare(k) \/ AcquireGates(k) \/ Validate(k)
               \/ Retract(k) \/ CleanupSidecar(k)
      <3>1. \/ Leave(k) \/ Retry(k)
            \/ \E p \in Quiet : Goto(k, p)
        BY <2>2, Zenon DEF BeginWrite, BeginOpen, ListSidecars, NextSidecar, FinishPass,
           Prepare, AcquireGates, Validate, Retract, CleanupSidecar, NeedsRecovery,
           Advance, Quiet
      <3>2. ASSUME NEW p \in Quiet, Goto(k, p) PROVE pc'[k] \in Quiet
        BY <2>1, <3>2, Zenon DEF TasksOK, Goto
      <3>. QED  BY <2>1, <3>1, <3>2, QuietPhase, Zenon
    <2>. QED  BY <1>1, <2>2, RecoverPhase, SweepPhase, ForkPhase, CommitPhase, Zenon
              DEF TaskStep, Recover, Attempt
  <1>2. ASSUME NEW j \in Tasks, ~TaskStep(j) PROVE Phase(j)'
    <2>1. ASSUME NEW k \in Tasks, TaskStep(k) PROVE Phase(j)'
      <3>1. pc'[j] = pc[j] /\ job'[j] = job[j]
        BY <1>2, <2>1, TaskFrame, Zenon DEF WriteInv, TypeOK
      <3>. QED  BY <1>2, <3>1, PhaseFrame, Zenon
    <2>2. ASSUME NEW p \in Procs, Crash(p) PROVE Phase(j)'
      <3>1. CASE pc'[j] = "idle"
        BY <3>1, Zenon DEF Phase, PreConfirm
      <3>2. CASE pc'[j] = pc[j] /\ job'[j] = job[j]
        BY <1>2, <3>2, PhaseFrame, Zenon
      <3>. QED  BY <2>2, <3>1, <3>2, CrashFrame, Zenon
    <2>3. CASE UNCHANGED vars
      BY <1>2, <2>3, PhaseFrame, Zenon DEF vars
    <2>. QED  BY <2>1, <2>2, <2>3, Zenon DEF Next
  <1>. QED  BY <1>1, <1>2, Zenon DEF Phases

-----------------------------------------------------------------------------
\* The theorems.

\* The invariant holds initially.
LEMMA InitInv ==
    ASSUME Init PROVE WriteInv
  <1>. USE Shapes
  <1>1. TypeOK
    <2>1. StorageOK
      <3>1. FirstVersion \in Version
        BY DEF FirstVersion, Version
      <3>. QED  BY <3>1 DEF Init, StorageOK
    <2>2. SidecarsOK /\ ControlOK
      BY Zenon DEF Init, SidecarsOK, ControlOK
    <2>3. TasksOK
      BY Zenon DEF Init, TasksOK, Points
    <2>. QED  BY <2>1, <2>2, <2>3, Zenon DEF TypeOK
  <1>2. Published = {Genesis} /\ Committed = {} /\ \A o : RollbackId(o) \notin Published
    BY DEF Init, Published, Committed, Genesis, CommitId, RollbackId
  <1>3. Exclusive
    BY Zenon DEF Init, Exclusive, Sweeping, Gated, Attempting, Writer, PreConfirm
  <1>4. \A t \in Tables : log[t] = <<FirstVersion>> /\ Len(log[t]) = 1 /\ pin[t] = 1
    BY Zenon DEF Init
  <1>5. Pinned
    BY <1>4 DEF Init, Pinned
  <1>6. Captured
    BY DEF Init, Captured, NoReq, NoPlan
  <1>7. Restored
    BY <1>4, SMTT(30) DEF Restored, FirstVersion
  <1>8. Minted
    BY <1>2 DEF Init, Minted, NoJob, InHand, Gated, Writer, PreConfirm, Ops
  <1>9. Recorded
    BY <1>2, Zenon DEF Init, Recorded
  <1>10. Phases
    BY Zenon DEF Init, Phases, Phase, PreConfirm
  <1>11. VisibleAtomic
    BY <1>2, <1>4, SMTT(30) DEF VisibleAtomic, FirstVersion
  <1>. QED  BY <1>1, <1>3, <1>5, <1>6, <1>7, <1>8, <1>9, <1>10, <1>11, Zenon DEF WriteInv

\* Every step preserves the invariant.
LEMMA WriteInvStep ==
    ASSUME WriteInv, [Next]_vars PROVE WriteInv'
  <1>1. TypeOK' /\ Exclusive'
    BY TypeStep, ExclusiveStep, Zenon DEF WriteInv, TypeOK
  <1>. QED  BY <1>1, PinnedStep, CapturedStep, RestoredStep, MintedStep,
               RecordedStep, PhasesStep, VisibleStep, Zenon DEF WriteInv

\* The inductive invariant of the write path holds in every reachable state,
\* for any number of processes, tasks, tables, requests, crashes and faults.
THEOREM InvariantHolds == Spec => []WriteInv
  <1>1. Init => WriteInv
    BY InitInv, Zenon
  <1>2. WriteInv /\ [Next]_vars => WriteInv'
    BY WriteInvStep, Zenon
  <1>. QED  BY <1>1, <1>2, PTL DEF Spec

\* Every variable keeps its shape: in particular a fork never cuts a table
\* below its first version and every plan written to a sidecar is complete.
THEOREM TypeCorrect == Spec => []TypeOK
  <1>1. WriteInv => TypeOK
    BY Zenon DEF WriteInv
  <1>. QED  BY <1>1, InvariantHolds, PTL

\* A reader of the manifest sees every table of a write or none of them, through
\* any interleaving of writers, the healer and the open sweep, with crashes and
\* failing or lost storage calls at every step.
THEOREM Atomicity == Spec => []VisibleAtomic
  <1>1. WriteInv => VisibleAtomic
    BY Zenon DEF WriteInv
  <1>. QED  BY <1>1, InvariantHolds, PTL

-----------------------------------------------------------------------------
\* Where a step takes its task, and what it tells callers.

\* Task k goes on with its operation, to one of points.
Arrives(k, points) == pc'[k] \in points /\ job'[k].op = job[k].op

\* Which step of recovery brings a task to each of its control points.
LEMMA RecoverArrives ==
    ASSUME TasksOK, NEW k \in Tasks, Recover(k) \/ BeginWrite(k) \/ BeginOpen(k)
    PROVE  \/ pc'[k] \in {"idle", "list", "next", "classify", "prepare"}
           \/ Classify(k) /\ Arrives(k, {"auditCommitted", "auditRolledBack", "rollForward",
                                         "unlink", "reclaim"})
           \/ RollForward(k) /\ Arrives(k, {"auditForward", "auditCommitted"})
           \/ Audit(k) /\ Arrives(k, {"unlink"})
           \/ Reclaim(k) /\ Arrives(k, {"auditPlan", "unlink"})
           \/ PersistRollbackPlan(k) /\ Arrives(k, {"restore"})
           \/ RestoreTable(k) /\ Arrives(k, {"restore"})
           \/ RollBack(k) /\ Arrives(k, {"auditBack"})
  <1>0. pc \in [Tasks -> Points] /\ job \in [Tasks -> Job] /\ job[k] \in Job
    BY Zenon DEF TasksOK
  <1>1. CASE Leave(k) \/ \E u \in BOOLEAN : ToNext(k, u)
    BY <1>0, <1>1, Zenon DEF Leave, ToNext, Goto
  <1>2. ASSUME NEW p, Advance(k, p) PROVE pc'[k] = p /\ job'[k].op = job[k].op
    BY <1>0, <1>2, Zenon DEF Advance, Goto
  <1>3. CASE \/ BeginWrite(k) \/ BeginOpen(k) \/ ListSidecars(k) \/ NextSidecar(k)
             \/ FinishPass(k)
    <2>1. Leave(k) \/ \E p \in {"list", "next", "classify", "prepare"} : Goto(k, p)
      BY <1>3, Zenon DEF BeginWrite, BeginOpen, ListSidecars, NextSidecar, FinishPass,
         Advance
    <2>. QED  BY <1>0, <1>1, <2>1, Zenon DEF Goto
  <1>4. CASE Classify(k)
    BY <1>1, <1>2, <1>4, Zenon DEF Classify, Arrives
  <1>5. CASE RollForward(k) \/ Audit(k) \/ PersistRollbackPlan(k) \/ RollBack(k) \/ Unlink(k)
    BY <1>1, <1>2, <1>5, Zenon DEF RollForward, Audit, PersistRollbackPlan, RollBack, Unlink,
       Arrives
  <1>6. CASE Reclaim(k)
    <2>1. CASE ~Leave(k)
      <3>1. /\ job' = [job EXCEPT ![k].left = RestoreTargets(job[k].op)]
            /\ \E p \in {"auditPlan", "unlink"} : Goto(k, p)
        BY <1>6, <2>1, Zenon DEF Reclaim
      <3>. QED  BY <1>0, <1>6, <3>1, Zenon DEF Goto, Arrives, Job
    <2>. QED  BY <1>1, <2>1, Zenon
  <1>7. CASE RestoreTable(k)
    <2>1. CASE ~Leave(k)
      <3>1. PICK t \in job[k].left : Done(k, t) /\ pc[k] = "restore"
        BY <1>7, <2>1, Zenon DEF RestoreTable
      <3>. QED  BY <1>0, <1>7, <3>1, Zenon DEF Done, Arrives, Job
    <2>. QED  BY <1>1, <2>1, Zenon
  <1>. QED  BY <1>3, <1>4, <1>5, <1>6, <1>7, Zenon DEF Recover

\* Which step of a write brings its task to each of its control points.
LEMMA AttemptArrives ==
    ASSUME TasksOK, NEW k \in Tasks, Attempt(k)
    PROVE  \/ pc'[k] \in {"idle", "list"}
           \/ Prepare(k) /\ Arrives(k, {"gates"})
           \/ AcquireGates(k) /\ Arrives(k, {"validate"})
           \/ Validate(k) /\ Arrives(k, {"arm"})
           \/ Arm(k) /\ pc'[k] \in {"fork", "publish"} /\ job'[k].op = nextOp
           \/ ForkTable(k) /\ Arrives(k, {"fork", "duplicate"})
           \/ ForksReady(k) /\ Arrives(k, {"commit"})
           \/ CommitTable(k) /\ Arrives(k, {"commit", "withdraw"})
           \/ Withdraw(k) /\ Arrives(k, {"retract"})
           \/ Confirm(k) /\ Arrives(k, {"publish"})
           \/ Publish(k) /\ Arrives(k, {"cleanup"})
  <1>0. pc \in [Tasks -> Points] /\ job \in [Tasks -> Job] /\ job[k] \in Job
    BY Zenon DEF TasksOK
  <1>1. CASE Leave(k) \/ Retry(k)
    BY <1>0, <1>1, Zenon DEF Leave, Retry, Goto
  <1>2. ASSUME NEW p, Advance(k, p) \/ (Goto(k, p) /\ UNCHANGED job)
        PROVE  pc'[k] = p /\ job'[k].op = job[k].op
    BY <1>0, <1>2, Zenon DEF Advance, Goto
  <1>3. ASSUME NEW t, Done(k, t) PROVE pc'[k] = pc[k] /\ job'[k].op = job[k].op
    BY <1>0, <1>3, Zenon DEF Done, Job
  <1>4. CASE Prepare(k) \/ AcquireGates(k) \/ Validate(k)
    BY <1>1, <1>2, <1>4, Zenon DEF Prepare, AcquireGates, Validate, Arrives
  <1>5. CASE Arm(k)
    <2>1. CASE ~Leave(k)
      <3>1. /\ job' = [job EXCEPT ![k].op = nextOp, ![k].left = req[k].base.forks]
            /\ \E p \in {"fork", "publish"} : Goto(k, p)
        BY <1>5, <2>1, Zenon DEF Arm
      <3>. QED  BY <1>0, <1>5, <3>1, Zenon DEF Goto, Job
    <2>. QED  BY <1>1, <2>1, Zenon
  <1>6. CASE ForkTable(k)
    BY <1>1, <1>2, <1>3, <1>6, Zenon DEF ForkTable, NeedsRecovery, Arrives
  <1>7. CASE ForksReady(k)
    BY <1>0, <1>7, Zenon DEF ForksReady, Goto, Arrives, Job
  <1>8. CASE CommitTable(k)
    BY <1>1, <1>2, <1>3, <1>8, Zenon DEF CommitTable, NeedsRecovery, Arrives
  <1>9. CASE Withdraw(k) \/ Confirm(k) \/ Publish(k) \/ Retract(k) \/ CleanupSidecar(k)
    BY <1>1, <1>2, <1>9, Zenon DEF Withdraw, Confirm, Publish, Retract, CleanupSidecar,
       NeedsRecovery, Arrives
  <1>. QED  BY <1>4, <1>5, <1>6, <1>7, <1>8, <1>9, Zenon DEF Attempt

\* What is visible stays visible.
LEMMA PublishedStays ==
    ASSUME WriteInv, [Next]_vars PROVE Published \subseteq Published'
  <1>0. StorageOK
    BY Zenon DEF WriteInv, TypeOK
  <1>1. CASE UNCHANGED manifest
    BY <1>1, Zenon DEF manifest, Published
  <1>2. ASSUME NEW tabs, NEW at, NEW id, PublishManifest(tabs, at, id)
        PROVE  Published \subseteq Published'
    BY <1>0, <1>2, PublishedGrows, Zenon
  <1>. QED  BY <1>1, <1>2, PublishEffect, Zenon DEF WriteInv

\* A task that moves by itself does not touch another task.
LEMMA OthersStay ==
    ASSUME TypeOK, [Next]_vars, NEW j \in Tasks, ~TaskStep(j)
    PROVE  pc'[j] = "idle" \/ (pc'[j] = pc[j] /\ job'[j] = job[j] /\ req'[j] = req[j])
  <1>1. ASSUME NEW k \in Tasks, TaskStep(k)
        PROVE  pc'[j] = pc[j] /\ job'[j] = job[j] /\ req'[j] = req[j]
    BY <1>1, TaskFrame, Zenon DEF TypeOK
  <1>2. CASE UNCHANGED vars
    BY <1>2, Zenon DEF vars
  <1>. QED  BY <1>1, <1>2, CrashFrame, Zenon DEF Next

\* Who an answer comes from: the writer that ends with it, or an attempt whose
\* sidecar could not be written.
Answering == PreConfirm \cup {"publish"}

\* How a step changes the answers.
LEMMA ResultEffect ==
    ASSUME WriteInv, [Next]_vars
    PROVE  \/ result' = result
           \/ \E k \in Tasks : /\ Arm(k) /\ pc'[k] = "idle"
                               /\ result' = [result EXCEPT ![nextOp] = "rejected"]
           \/ \E k \in Tasks :
                /\ TaskStep(k) /\ pc[k] \in Answering /\ pc'[k] \notin Answering
                /\ job[k].op \in Ops
                /\ \/ result' = [result EXCEPT ![job[k].op] = "recovery"]
                   \/ /\ result' = [result EXCEPT ![job[k].op] = "ok"]
                      /\ Publish(k) /\ job[k].op \in Committed'
                   \/ /\ result' = [result EXCEPT ![job[k].op] = "rejected"]
                      /\ UNCHANGED manifest
                      /\ Retract(k) \/ (Publish(k) /\ plan[job[k].op].tabs = {})
  <1>. USE DEF WriteInv
  <1>0. TasksOK /\ StorageOK /\ pc \in [Tasks -> Points]
    BY Zenon DEF TypeOK, TasksOK
  <1>1. ASSUME NEW k \in Tasks, pc[k] \in Answering
        PROVE  job[k].op \in Ops
    BY <1>1, InHandOp, Zenon DEF Answering, PreConfirm, InHand, Gated
  <1>2. ASSUME NEW k \in Tasks, Leave(k) \/ Retry(k) PROVE pc'[k] \notin Answering
    BY <1>0, <1>2, Zenon DEF Leave, Retry, Goto, Answering, PreConfirm
  <1>3. ASSUME NEW k \in Tasks, TaskStep(k), pc[k] \in Answering, NeedsRecovery(k)
        PROVE  /\ TaskStep(k) /\ pc[k] \in Answering /\ pc'[k] \notin Answering
               /\ job[k].op \in Ops
               /\ result' = [result EXCEPT ![job[k].op] = "recovery"]
    BY <1>1, <1>2, <1>3, Zenon DEF NeedsRecovery, Reply
  <1>4. ASSUME NEW k \in Tasks, TaskStep(k),
               ForkTable(k) \/ CommitTable(k) \/ Withdraw(k) \/ Confirm(k)
        PROVE  result' = result \/ (NeedsRecovery(k) /\ pc[k] \in Answering)
    BY <1>4, Zenon DEF ForkTable, CommitTable, Withdraw, Confirm, Answering, PreConfirm
  <1>5. ASSUME NEW k \in Tasks, TaskStep(k), Retract(k)
        PROVE  \/ NeedsRecovery(k) /\ pc[k] \in Answering
               \/ /\ pc[k] \in Answering /\ pc'[k] \notin Answering
                  /\ result' = [result EXCEPT ![job[k].op] = "rejected"]
                  /\ UNCHANGED manifest
    BY <1>2, <1>5, Zenon DEF Retract, Reply, Answering, PreConfirm
  <1>6. ASSUME NEW k \in Tasks, TaskStep(k), Publish(k)
        PROVE  \/ NeedsRecovery(k) /\ pc[k] \in Answering
               \/ /\ pc[k] \in Answering /\ pc'[k] \notin Answering
                  /\ result' = [result EXCEPT ![job[k].op] = "rejected"]
                  /\ UNCHANGED manifest /\ plan[job[k].op].tabs = {}
               \/ /\ pc[k] \in Answering /\ pc'[k] \notin Answering
                  /\ result' = [result EXCEPT ![job[k].op] = "ok"]
                  /\ job[k].op \in Committed'
    <2>. DEFINE o == job[k].op
    <2>1. pc[k] \in Answering /\ o \in Ops
      BY <1>1, <1>6, Zenon DEF Publish, Answering
    <2>2. CASE /\ PublishManifest(plan[o].tabs, Effects(o), CommitId(o)) /\ Reply(o, "ok")
               /\ Leave(k) \/ Advance(k, "cleanup")
      <3>1. Published' = Published \cup {CommitId(o)}
        BY <1>0, <2>2, PublishedGrows, Zenon
      <3>2. o \in Committed'
        BY <2>1, <3>1, CommitPublished, Zenon
      <3>3. Advance(k, "cleanup") => pc'[k] \notin Answering
        BY <1>0, Zenon DEF Advance, Goto, Answering, PreConfirm
      <3>. QED  BY <1>2, <2>1, <2>2, <3>2, <3>3, Zenon DEF Reply
    <2>3. CASE /\ plan[o].tabs = {} /\ Reply(o, "rejected") /\ Retry(k) /\ UNCHANGED manifest
      BY <1>2, <2>1, <2>3, Zenon DEF Reply
    <2>. QED  BY <1>6, <2>1, <2>2, <2>3, Zenon DEF Publish
  <1>7. ASSUME NEW k \in Tasks, Arm(k)
        PROVE  \/ result' = result
               \/ pc'[k] = "idle" /\ result' = [result EXCEPT ![nextOp] = "rejected"]
    BY <1>0, <1>7, Zenon DEF Arm, Leave, Goto, Reply
  <1>8. ASSUME NEW k \in Tasks, TaskStep(k)
        PROVE  \/ result' = result
               \/ \/ Arm(k) \/ ForkTable(k) \/ CommitTable(k) \/ Withdraw(k) \/ Confirm(k)
                  \/ Retract(k) \/ Publish(k)
    BY <1>8, Zenon DEF TaskStep, BeginWrite, BeginOpen, Recover, Attempt, ListSidecars,
       NextSidecar, FinishPass, Classify, RollForward, Audit, Unlink, Reclaim,
       PersistRollbackPlan, RestoreTable, RollBack, Prepare, AcquireGates, Validate,
       ForksReady, CleanupSidecar
  <1>9. ASSUME NEW p \in Procs, Crash(p) PROVE result' = result
    BY <1>9, Zenon DEF Crash
  <1>10. CASE UNCHANGED vars
    BY <1>10, Zenon DEF vars
  <1>. HIDE DEF WriteInv
  <1>. QED  BY <1>1, <1>3, <1>4, <1>5, <1>6, <1>7, <1>8, <1>9, <1>10, Zenon DEF Next

=============================================================================
