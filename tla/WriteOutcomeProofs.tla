------------------------- MODULE WriteOutcomeProofs -------------------------
(***************************************************************************)
(* What becomes of an operation: at most one graph commit, on the head it  *)
(* was prepared against, and no answer that turns out false.  With that,   *)
(* the write path implements GraphStore.                                   *)
(***************************************************************************)
EXTENDS WriteProofs

\* Graph heads do not come back: an operation that is committed cannot be
\* published again, because its own head has been left behind.
LEMMA HeadsDoNotRecur ==
    ASSUME WriteInv, OutcomeInv, NEW o \in Ops, CanPublish(o) PROVE o \notin Committed
  <1>. SUFFICES ASSUME o \in Committed PROVE FALSE
    BY Zenon
  <1>. DEFINE n == Len(lineage)
  <1>1. lineage \in Seq(Ids) /\ n \in Nat /\ n >= 1 /\ DOMAIN lineage = 1..n
    BY DEF WriteInv, TypeOK, StorageOK
  <1>2. PICK i \in 1..n : lineage[i] = CommitId(o)
    BY <1>1, Zenon DEF Committed, Published
  <1>3. i # 1
    BY <1>2 DEF OutcomeInv, IdsKnown, Genesis, CommitId
  <1>4. lineage[i - 1] = plan[o].head
    <2>1. i \in 2..n
      BY <1>1, <1>3
    <2>2. lineage[i].op = o /\ lineage[i].kind = "commit"
      BY <1>2 DEF CommitId
    <2>. QED  BY <2>1, <2>2, Zenon DEF OutcomeInv, CommitOnAuthority
  <1>5. lineage[n].op = lineage[i - 1].op
    BY <1>4, Zenon DEF CanPublish, GraphHead
  <1>6. i - 1 \in 1..n /\ n \in 1..n /\ i - 1 # n
    BY <1>1, <1>3
  <1>. QED  BY <1>1, <1>5, <1>6, Zenon DEF OutcomeInv, OneOutcome

\* Nobody settles an operation twice.
LEMMA SettlesOpen ==
    ASSUME WriteInv, OutcomeInv, [Next]_vars
    PROVE  \/ UNCHANGED manifest
           \/ /\ UNCHANGED <<table, plan>>
              /\ \E k \in Tasks : \E o \in Ops :
                   /\ o = job[k].op /\ o < nextOp
                   /\ o \notin Committed /\ RollbackId(o) \notin Published
                   /\ \/ /\ RollForward(k) \/ Publish(k)
                         /\ result[o] # "rejected" /\ CanPublish(o)
                         /\ PublishManifest(plan[o].tabs, Effects(o), CommitId(o))
                      \/ /\ RollBack(k)
                         /\ PublishManifest(Compensable(o), LiveHeads, RollbackId(o))
  <1>1. ASSUME NEW k \in Tasks, NEW o \in Ops, o = job[k].op, RollForward(k) \/ Publish(k),
               CanPublish(o)
        PROVE  /\ o < nextOp /\ o \notin Committed /\ RollbackId(o) \notin Published
               /\ result[o] # "rejected"
    <2>1. o < nextOp
      BY <1>1, Zenon DEF WriteInv, Minted
    <2>2. o \notin Committed
      BY <1>1, HeadsDoNotRecur, Zenon
    <2>3. RollbackId(o) \notin Published
      BY <1>1, Zenon DEF WriteInv, Phases, Phase, RollForward, Publish
    <2>4. result[o] # "rejected"
      <3>1. CASE pc[k] = "publish"
        BY <1>1, <3>1, Zenon DEF OutcomeInv, OpenInHand
      <3>2. CASE pc[k] = "rollForward"
        BY <1>1, <2>2, <3>2, Zenon DEF WriteInv, Phases, Phase, OutcomeInv, OpenInHand
      <3>. QED  BY <1>1, <3>1, <3>2, Zenon DEF RollForward, Publish
    <2>. QED  BY <2>1, <2>2, <2>3, <2>4, Zenon
  <1>2. ASSUME NEW k \in Tasks, NEW o \in Ops, o = job[k].op, RollBack(k)
        PROVE  o < nextOp /\ o \notin Committed /\ RollbackId(o) \notin Published
    BY <1>2, Zenon DEF WriteInv, Minted, RollBack, OutcomeInv, OpenInHand
  <1>3. \/ UNCHANGED manifest
        \/ /\ UNCHANGED <<table, plan>>
           /\ \E k \in Tasks : \E o \in Ops :
                /\ o = job[k].op /\ CanPublish(o)
                /\ RollForward(k) \/ Publish(k)
                /\ PublishManifest(plan[o].tabs, Effects(o), CommitId(o))
        \/ /\ UNCHANGED <<table, plan>>
           /\ \E k \in Tasks : \E o \in Ops :
                /\ o = job[k].op /\ RollBack(k)
                /\ PublishManifest(Compensable(o), LiveHeads, RollbackId(o))
    BY PublishEffect, Zenon DEF WriteInv
  <1>. QED  BY <1>1, <1>2, <1>3, Zenon

\* One outcome per operation, on the head it was prepared against.
LEMMA LineageHolds ==
    ASSUME WriteInv, OutcomeInv, [Next]_vars
    PROVE  IdsKnown' /\ OneOutcome' /\ CommitOnAuthority'
  <1>. DEFINE n == Len(lineage)
  <1>0. lineage \in Seq(Ids) /\ n \in Nat /\ n >= 1 /\ DOMAIN lineage = 1..n
    BY DEF WriteInv, TypeOK, StorageOK
  <1>. HIDE DEF n
  <1>1. \A i \in 2..n : /\ lineage[i].op \in Ops /\ lineage[i].op < nextOp
                        /\ \/ lineage[i] = CommitId(lineage[i].op)
                           \/ lineage[i] = RollbackId(lineage[i].op)
    <2>. TAKE i \in 2..n
    <2>1. PICK o \in Ops : lineage[i] \in {CommitId(o), RollbackId(o)}
      BY Zenon DEF OutcomeInv, IdsKnown, n
    <2>2. lineage[i].op = o
      BY <2>1 DEF CommitId, RollbackId
    <2>3. lineage[i] \in Published
      BY <1>0 DEF Published
    <2>4. o < nextOp
      BY <2>1, <2>3 DEF WriteInv, Minted, Committed, TypeOK, ControlOK, Ops
    <2>. QED  BY <2>1, <2>2, <2>4, Zenon
  <1>2. \A i \in 2..n : plan'[lineage[i].op] = plan[lineage[i].op]
    BY <1>1, PlanKept, Zenon DEF WriteInv
  <1>3. CASE lineage' = lineage
    BY <1>0, <1>2, <1>3, Zenon DEF OutcomeInv, IdsKnown, OneOutcome, CommitOnAuthority, n
  <1>4. ASSUME NEW o \in Ops, NEW id \in {CommitId(o), RollbackId(o)},
               lineage' = Append(lineage, id),
               o \notin Committed, RollbackId(o) \notin Published,
               id = CommitId(o) => /\ GraphHead = plan'[o].head
                                   /\ plan'[o].want \in {NoHead, plan'[o].head}
        PROVE  IdsKnown' /\ OneOutcome' /\ CommitOnAuthority'
    <2>1. /\ Len(lineage') = n + 1 /\ DOMAIN lineage' = 1..(n + 1)
          /\ lineage'[n + 1] = id /\ \A i \in 1..n : lineage'[i] = lineage[i]
      <3>1. id \in Ids
        BY <1>4, Shapes DEF Ops, CommitId, RollbackId, Ids
      <3>. QED  BY <1>0, <1>4, <3>1 DEF n
    <2>2. id.op = o /\ (id.kind = "commit" => id = CommitId(o))
      BY <1>4 DEF CommitId, RollbackId
    <2>3. \A i \in 1..n : lineage[i].op # o
      <3>. SUFFICES ASSUME NEW i \in 1..n, lineage[i].op = o PROVE FALSE
        BY Zenon
      <3>1. i # 1
        BY DEF OutcomeInv, IdsKnown, Genesis, Ops
      <3>2. i \in 2..n
        BY <1>0, <3>1
      <3>3. lineage[i] \in {CommitId(o), RollbackId(o)}
        BY <1>1, <3>2, Zenon
      <3>. QED  BY <1>0, <1>4, <3>3, Zenon DEF Committed, Published
    <2>4. IdsKnown'
      <3>1. lineage'[1] = Genesis
        BY <1>0, <2>1 DEF OutcomeInv, IdsKnown
      <3>2. ASSUME NEW i \in 2..(n + 1)
            PROVE  \E x \in Ops : lineage'[i] \in {CommitId(x), RollbackId(x)}
        <4>1. CASE i = n + 1
          BY <1>4, <2>1, <4>1, Zenon
        <4>2. CASE i \in 2..n
          BY <1>0, <1>1, <2>1, <4>2
        <4>. QED  BY <1>0, <4>1, <4>2
      <3>. QED  BY <2>1, <3>1, <3>2, Zenon DEF IdsKnown
    <2>5. OneOutcome'
      <3>1. \A i, j \in 1..n : i # j => lineage[i].op # lineage[j].op
        BY <1>0, Zenon DEF OutcomeInv, OneOutcome
      <3>2. \A i \in 1..(n + 1) : i \in 1..n \/ i = n + 1
        BY <1>0
      <3>3. ASSUME NEW i \in 1..(n + 1), NEW j \in 1..(n + 1), i # j
            PROVE  lineage'[i].op # lineage'[j].op
        BY <2>1, <2>2, <2>3, <3>1, <3>2, <3>3, Zenon
      <3>. QED  BY <2>1, <3>3, Zenon DEF OneOutcome
    <2>6. CommitOnAuthority'
      <3>. SUFFICES ASSUME NEW i \in 2..(n + 1), lineage'[i].kind = "commit"
                    PROVE  LET x == lineage'[i].op IN
                           /\ lineage'[i - 1] = plan'[x].head
                           /\ plan'[x].want \in {NoHead, lineage'[i - 1]}
        BY <2>1, Zenon DEF CommitOnAuthority
      <3>1. CASE i = n + 1
        <4>1. i - 1 = n /\ lineage'[n] = GraphHead
          BY <1>0, <2>1, <3>1 DEF GraphHead, n
        <4>. QED  BY <1>4, <2>1, <2>2, <3>1, <4>1, Zenon
      <3>2. CASE i \in 2..n
        <4>1. i \in 1..n /\ i - 1 \in 1..n
          BY <1>0, <3>2
        <4>. QED  BY <1>2, <2>1, <3>2, <4>1, Zenon DEF OutcomeInv, CommitOnAuthority, n
      <3>. QED  BY <1>0, <3>1, <3>2
    <2>. QED  BY <2>4, <2>5, <2>6, Zenon
  <1>5. CASE UNCHANGED manifest
    BY <1>3, <1>5, Zenon DEF manifest
  <1>6. ASSUME NEW o \in Ops, o < nextOp, CanPublish(o), UNCHANGED plan
        PROVE  /\ GraphHead = plan'[o].head
               /\ plan'[o].want \in {NoHead, plan'[o].head}
    BY <1>6, Zenon DEF CanPublish, OutcomeInv, Authorized
  <1>7. ASSUME NEW o \in Ops, o < nextOp, o \notin Committed, RollbackId(o) \notin Published,
               CanPublish(o), UNCHANGED plan,
               PublishManifest(plan[o].tabs, Effects(o), CommitId(o))
        PROVE  IdsKnown' /\ OneOutcome' /\ CommitOnAuthority'
    <2>1. lineage' = Append(lineage, CommitId(o))
      BY <1>7, Zenon DEF PublishManifest
    <2>. QED  BY <1>4, <1>6, <1>7, <2>1, Zenon
  <1>8. ASSUME NEW o \in Ops, o \notin Committed, RollbackId(o) \notin Published,
               PublishManifest(Compensable(o), LiveHeads, RollbackId(o))
        PROVE  IdsKnown' /\ OneOutcome' /\ CommitOnAuthority'
    <2>1. lineage' = Append(lineage, RollbackId(o))
      BY <1>8, Zenon DEF PublishManifest
    <2>2. RollbackId(o) # CommitId(o)
      BY Zenon DEF CommitId, RollbackId
    <2>. QED  BY <1>4, <1>8, <2>1, <2>2, Zenon
  <1>. QED  BY <1>5, <1>7, <1>8, SettlesOpen, Zenon

-----------------------------------------------------------------------------
\* The parts of OutcomeInv, one lemma each.

\* Attempts and plans keep their authority.
LEMMA AuthorizedHolds ==
    ASSUME WriteInv, OutcomeInv, [Next]_vars PROVE Authorized'
  <1>. DEFINE Known(b) == b.head \in Published /\ b.want \in {NoHead, b.head}
              KnownNext(b) == b.head \in Published' /\ b.want \in {NoHead, b.head}
              Ready == {"gates", "validate", "arm"}
  <1>0. /\ TasksOK /\ StorageOK /\ SidecarsOK /\ nextOp \in Nat
        /\ req \in [Tasks -> Request] /\ pc \in [Tasks -> Points]
    BY Zenon DEF WriteInv, TypeOK, TasksOK, ControlOK
  <1>1. \A b : Known(b) => KnownNext(b)
    BY PublishedStays, Zenon
  <1>2. ASSUME NEW k \in Tasks, pc[k] \in Ready PROVE Known(req[k].base)
    BY <1>2, Zenon DEF OutcomeInv, Authorized
  <1>3. ASSUME NEW o \in Ops, o < nextOp PROVE Known(plan[o])
    BY <1>3, Zenon DEF OutcomeInv, Authorized
  <1>4. GraphHead \in Published
    BY <1>0 DEF GraphHead, Published, StorageOK
  <1>5. ASSUME NEW k \in Tasks, TaskStep(k), pc'[k] \in Ready PROVE KnownNext(req'[k].base)
    <2>1. \/ Prepare(k) /\ pc'[k] = "gates"
          \/ AcquireGates(k) \/ (Validate(k) /\ pc'[k] = "arm")
      BY <1>0, <1>5, RecoverArrives, AttemptArrives, Zenon DEF TaskStep, Arrives
    <2>2. CASE Prepare(k) /\ pc'[k] = "gates"
      <3>1. ~Leave(k)
        BY <1>0, <2>2, Zenon DEF Leave, Goto
      <3>2. PICK tabs \in SUBSET Tables :
              /\ ~CallerHeadMoved(k)
              /\ req' = [req EXCEPT ![k].base =
                           [head |-> GraphHead, pins |-> pin, tabs |-> tabs,
                            forks |-> {t \in tabs : ~owned[t]}, want |-> req[k].base.want]]
        BY <2>2, <3>1, Zenon DEF Prepare
      <3>3. req'[k].base.head = GraphHead /\ req'[k].base.want = req[k].base.want
        BY <1>0, <3>2, Zenon DEF Request
      <3>4. Known(req'[k].base)
        BY <1>4, <3>2, <3>3, Zenon DEF CallerHeadMoved
      <3>. QED  BY <1>1, <3>4, Zenon
    <2>3. CASE AcquireGates(k)
      BY <1>1, <1>2, <2>3, Zenon DEF AcquireGates
    <2>4. CASE Validate(k) /\ pc'[k] = "arm"
      <3>1. ~Leave(k) /\ ~Retry(k) /\ pc[k] = "validate"
        BY <1>0, <2>4, Zenon DEF Validate, Leave, Retry, Goto
      <3>2. req' = req
        BY <2>4, <3>1, Zenon DEF Validate, Advance
      <3>. QED  BY <1>1, <1>2, <3>1, <3>2, Zenon
    <2>. QED  BY <2>1, <2>2, <2>3, <2>4, Zenon
  <1>6. ASSUME NEW j \in Tasks, pc'[j] \in Ready PROVE KnownNext(req'[j].base)
    <2>1. CASE ~TaskStep(j)
      <3>1. pc'[j] = pc[j] /\ req'[j] = req[j]
        BY <1>6, <2>1, OthersStay, Zenon DEF WriteInv
      <3>. QED  BY <1>1, <1>2, <1>6, <3>1, Zenon
    <2>. QED  BY <1>5, <1>6, <2>1, Zenon
  <1>7. ASSUME NEW o \in Ops, o < nextOp' PROVE KnownNext(plan'[o])
    <2>1. CASE o < nextOp
      BY <1>1, <1>3, <2>1, PlanKept, Zenon DEF WriteInv
    <2>2. CASE ~(o < nextOp)
      <3>1. PICK k \in Tasks : Arm(k)
        BY <1>7, <2>2, NextOpStep, Zenon
      <3>2. o = nextOp
        BY <1>0, <1>7, <2>2, <3>1 DEF Arm, Ops
      <3>3. plan'[o] = req[k].base /\ pc[k] = "arm"
        BY <1>0, <3>1, <3>2, Zenon DEF Arm, SidecarsOK
      <3>. QED  BY <1>1, <1>2, <3>3, Zenon
    <2>. QED  BY <2>1, <2>2, Zenon
  <1>. QED  BY <1>6, <1>7, Zenon DEF Authorized

\* Who publishes an outcome of an operation, and what they know of it.
LEMMA NewOutcome ==
    ASSUME WriteInv, [Next]_vars, NEW o \in Ops
    PROVE  /\ o \in Committed' =>
                \/ o \in Committed
                \/ \E k \in Tasks :
                     /\ TaskStep(k) /\ o = job[k].op /\ pc[k] \in Gated
                     /\ \/ RollForward(k) /\ sc[o] = "EffectsConfirmed"
                        \/ Publish(k) /\ pc[k] = "publish"
           /\ RollbackId(o) \in Published' =>
                \/ RollbackId(o) \in Published
                \/ \E k \in Tasks :
                     TaskStep(k) /\ o = job[k].op /\ pc[k] \in Gated /\ RollBack(k)
  <1>1. /\ o \in Committed' =>
             \/ o \in Committed
             \/ \E k \in Tasks : o = job[k].op /\ (RollForward(k) \/ Publish(k))
        /\ RollbackId(o) \in Published' =>
             \/ RollbackId(o) \in Published
             \/ \E k \in Tasks : o = job[k].op /\ RollBack(k)
    BY OutcomeEffect, Zenon DEF WriteInv
  <1>2. ASSUME NEW k \in Tasks, RollBack(k) \/ RollForward(k) \/ Publish(k)
        PROVE  TaskStep(k) /\ pc[k] \in Gated /\ (Publish(k) => pc[k] = "publish")
    BY <1>2, Zenon DEF RollBack, RollForward, Publish, Gated, TaskStep, Recover, Attempt
  <1>3. ASSUME NEW k \in Tasks, RollForward(k), o = job[k].op, o \notin Committed
        PROVE  sc[o] = "EffectsConfirmed"
    BY <1>3, Zenon DEF WriteInv, Phases, Phase, RollForward
  <1>. QED  BY <1>1, <1>2, <1>3, Zenon

\* A sweep that undoes an operation has seen no outcome of it, and nobody makes
\* one meanwhile.
LEMMA UndoneIsOpen ==
    ASSUME WriteInv, OutcomeInv, [Next]_vars, NEW j \in Tasks,
           pc'[j] \in {"reclaim", "auditPlan", "restore"}
    PROVE  job'[j].op \notin Committed' /\ RollbackId(job'[j].op) \notin Published'
  <1>. DEFINE o == job[j].op
  <1>0. TasksOK /\ TypeOK
    BY Zenon DEF WriteInv, TypeOK
  <1>1. CASE TaskStep(j)
    <2>1. /\ job'[j].op = o
          /\ \/ Classify(j) /\ pc'[j] = "reclaim"
             \/ Reclaim(j) \/ PersistRollbackPlan(j) \/ RestoreTable(j)
      BY <1>0, <1>1, RecoverArrives, AttemptArrives, Zenon DEF TaskStep, Arrives
    <2>2. UNCHANGED manifest
      BY <2>1, Zenon DEF Classify, Reclaim, PersistRollbackPlan, RestoreTable
    <2>3. o \notin Committed /\ RollbackId(o) \notin Published
      <3>1. CASE Classify(j) /\ pc'[j] = "reclaim"
        <4>1. Verdict(o, job[j].mode) \in {"abandon", "rollBack"}
          <5>1. pc'[j] = "reclaim" => ~Leave(j) /\ \A u \in BOOLEAN : ~ToNext(j, u)
            BY <1>0, Zenon DEF TasksOK, Leave, ToNext, Goto
          <5>2. \A p : p # "reclaim" /\ pc'[j] = "reclaim" => ~Advance(j, p)
            BY <1>0, Zenon DEF TasksOK, Advance, Goto
          <5>. QED  BY <3>1, <5>1, <5>2, Zenon DEF Classify
        <4>2. job[j].mode \in {"Full", "RollForwardOnly"}
          BY <1>0, Zenon DEF TasksOK, Job
        <4>3. CommitId(o) \notin Published /\ RollbackId(o) \notin Published
          BY <4>1, <4>2, VerdictMeans, Zenon
        <4>. QED  BY <4>3, Zenon DEF Committed
      <3>2. CASE Reclaim(j) \/ PersistRollbackPlan(j) \/ RestoreTable(j)
        BY <3>2, Zenon DEF Reclaim, PersistRollbackPlan, RestoreTable, OutcomeInv, OpenInHand
      <3>. QED  BY <2>1, <3>1, <3>2, Zenon
    <2>. QED  BY <2>1, <2>2, <2>3, Zenon DEF manifest, Committed, Published
  <1>2. CASE ~TaskStep(j)
    <2>1. pc'[j] = pc[j] /\ job'[j] = job[j]
      BY <1>0, <1>2, OthersStay, Zenon
    <2>2. o \notin Committed /\ RollbackId(o) \notin Published /\ Sweeping(j)
      BY <2>1, Zenon DEF OutcomeInv, OpenInHand, WriteInv, Exclusive
    <2>3. o \in Ops
      BY <1>0, <2>1, InHandOp, Zenon DEF WriteInv, InHand, Gated
    <2>4. \A k \in Tasks : pc[k] \in Gated => k = j
      BY <2>2, SweepAlone, Zenon DEF WriteInv
    <2>. QED  BY <1>2, <2>1, <2>2, <2>3, <2>4, NewOutcome, Zenon
  <1>. QED  BY <1>1, <1>2, Zenon

\* A writer that has not ended has not answered.
LEMMA AnsweringIsOpen ==
    ASSUME WriteInv, OutcomeInv, [Next]_vars, NEW j \in Tasks, pc'[j] \in Answering
    PROVE  result'[job'[j].op] = "none"
  <1>. DEFINE o == job'[j].op
  <1>0. TasksOK /\ TypeOK /\ result \in [Ops -> {"none", "ok", "rejected", "recovery"}]
    BY Zenon DEF WriteInv, TypeOK, ControlOK
  <1>1. CASE TaskStep(j)
    <2>1. \/ job'[j].op = job[j].op /\ pc[j] \in Answering
          \/ Arm(j) /\ o = nextOp
      BY <1>0, <1>1, RecoverArrives, AttemptArrives, Zenon
         DEF TaskStep, Arrives, Answering, PreConfirm, ForkTable, ForksReady, CommitTable,
             Withdraw, Confirm
    <2>2. result[o] = "none"
      <3>1. CASE job'[j].op = job[j].op /\ pc[j] \in Answering
        BY <3>1, Zenon DEF OutcomeInv, OpenInHand, Answering
      <3>2. CASE Arm(j) /\ o = nextOp
        <4>1. nextOp \in Ops
          BY <3>2, SMTT(30) DEF Arm, WriteInv, Minted, TypeOK, ControlOK, Ops
        <4>. QED  BY <3>2, <4>1 DEF OutcomeInv, OpenInHand, Ops
      <3>. QED  BY <2>1, <3>1, <3>2, Zenon
    <2>3. result' = result
      <3>1. ASSUME NEW k \in Tasks, pc'[k] \notin Answering PROVE pc'[k] = pc[k]
        BY <1>0, <1>1, <3>1, TaskFrame, Zenon
      <3>2. ASSUME NEW k \in Tasks, Arm(k), pc'[k] = "idle" PROVE FALSE
        BY <3>1, <3>2, Zenon DEF Arm, Answering, PreConfirm
      <3>. QED  BY <3>1, <3>2, ResultEffect, Zenon
    <2>. QED  BY <2>2, <2>3, Zenon
  <1>2. CASE ~TaskStep(j)
    <2>1. pc'[j] = pc[j] /\ job'[j] = job[j] /\ pc[j] \in Writer
      BY <1>0, <1>2, OthersStay, Zenon DEF Answering, PreConfirm, Writer
    <2>2. result[o] = "none" /\ o < nextOp
      BY <2>1, Zenon DEF OutcomeInv, OpenInHand, Answering, WriteInv, Minted
    <2>3. ASSUME NEW k \in Tasks, TaskStep(k), pc[k] \in Answering PROVE job[k].op # o
      BY <1>2, <2>1, <2>3, Zenon DEF WriteInv, Minted, Answering, Writer
    <2>4. nextOp # o /\ o \in Ops
      BY <1>0, <2>1, <2>2, InHandOp DEF WriteInv, TypeOK, ControlOK, Writer, PreConfirm,
         InHand, Gated
    <2>5. ASSUME NEW x, x # o, NEW a, result' = [result EXCEPT ![x] = a]
          PROVE  result'[o] = result[o]
      BY <1>0, <2>4, <2>5, Zenon
    <2>. QED  BY <2>2, <2>3, <2>4, <2>5, ResultEffect, Zenon
  <1>. QED  BY <1>1, <1>2, Zenon

\* A write without tables has no sidecar: only its writer publishes it.
LEMMA TablelessIsOpen ==
    ASSUME WriteInv, OutcomeInv, [Next]_vars, NEW j \in Tasks, pc'[j] = "publish",
           plan'[job'[j].op].tabs = {}
    PROVE  job'[j].op \notin Committed'
  <1>. DEFINE o == job'[j].op
  <1>0. TasksOK /\ TypeOK
    BY Zenon DEF WriteInv, TypeOK
  <1>1. CASE TaskStep(j)
    <2>1. \/ Arm(j) /\ o = nextOp
          \/ Confirm(j) /\ o = job[j].op
      BY <1>0, <1>1, RecoverArrives, AttemptArrives, Zenon DEF TaskStep, Arrives
    <2>2. CASE Arm(j) /\ o = nextOp
      <3>1. nextOp \in Ops /\ UNCHANGED manifest
        BY <2>2, SMTT(30) DEF Arm, WriteInv, Minted, TypeOK, ControlOK, Ops
      <3>2. nextOp \notin Committed
        BY <3>1 DEF WriteInv, Minted, Ops
      <3>. QED  BY <2>2, <3>1, <3>2, Zenon DEF manifest, Committed, Published
    <2>3. CASE Confirm(j) /\ o = job[j].op
      <3>1. pc[j] = "commit" /\ plan' = plan
        BY <2>3, Zenon DEF Confirm
      <3>2. o \in Ops /\ sc[o] = "Armed"
        BY <1>0, <2>3, <3>1, InHandOp, Zenon DEF WriteInv, Phases, Phase, PreConfirm, InHand, Gated
      <3>. QED  BY <3>1, <3>2, Zenon DEF WriteInv, Recorded
    <2>. QED  BY <2>1, <2>2, <2>3, Zenon
  <1>2. CASE ~TaskStep(j)
    <2>1. pc[j] = "publish" /\ job'[j] = job[j]
      BY <1>0, <1>2, OthersStay, Zenon
    <2>2. o \in Ops /\ o < nextOp
      BY <1>0, <2>1, InHandOp, Zenon DEF WriteInv, InHand, Gated, Minted
    <2>3. plan[o].tabs = {}
      BY <1>0, <2>2, PlanKept, Zenon
    <2>4. o \notin Committed /\ RollbackId(o) \notin Published /\ sc[o] = "none"
      BY <2>1, <2>2, <2>3, Zenon DEF OutcomeInv, OpenInHand, WriteInv, Phases, Phase, Recorded
    <2>5. ASSUME NEW k \in Tasks, Publish(k) PROVE o # job[k].op
      BY <1>2, <2>1, <2>5, Zenon DEF TaskStep, Attempt, Publish, WriteInv, Minted, Writer
    <2>. QED  BY <2>2, <2>4, <2>5, NewOutcome, Zenon
  <1>. QED  BY <1>1, <1>2, Zenon

\* A rejected operation is never confirmed.
LEMMA RejectedIsUnconfirmed ==
    ASSUME WriteInv, OutcomeInv, [Next]_vars, NEW o \in Ops, result'[o] = "rejected"
    PROVE  sc'[o] # "EffectsConfirmed"
  <1>0. /\ TasksOK /\ TypeOK /\ result \in [Ops -> {"none", "ok", "rejected", "recovery"}]
        /\ nextOp \in Nat /\ sc \in [Ops -> {"none", "Armed", "EffectsConfirmed"}]
    BY Zenon DEF WriteInv, TypeOK, ControlOK, SidecarsOK
  <1>1. ASSUME NEW k \in Tasks, Arm(k), o = nextOp PROVE sc'[o] # "EffectsConfirmed"
    <2>1. sc[o] = "none"
      BY <1>0, <1>1 DEF WriteInv, Minted
    <2>2. sc' = sc \/ sc' = [sc EXCEPT ![nextOp] = "Armed"]
      BY <1>1, Zenon DEF Arm
    <2>. QED  BY <1>0, <1>1, <2>1, <2>2, Zenon
  <1>2. sc[o] # "EffectsConfirmed" \/ \E k \in Tasks : Arm(k) /\ o = nextOp
    <2>1. CASE result[o] = "rejected"
      BY <2>1, Zenon DEF OutcomeInv, OpenInHand
    <2>2. CASE result[o] # "rejected"
      <3>1. ASSUME NEW x, NEW a, result' = [result EXCEPT ![x] = a] PROVE x = o /\ a = "rejected"
        BY <1>0, <2>2, <3>1, Zenon
      <3>2. \/ \E k \in Tasks : Arm(k) /\ o = nextOp
            \/ \E k \in Tasks :
                 /\ o = job[k].op
                 /\ Retract(k) \/ (Publish(k) /\ plan[o].tabs = {})
        <4>. HIDE DEF OutcomeInv
        <4>1. "ok" # "rejected" /\ "recovery" # "rejected"
          BY Zenon
        <4>. QED  BY <2>2, <3>1, <4>1, ResultEffect, Zenon
      <3>3. ASSUME NEW k \in Tasks, o = job[k].op, Retract(k) PROVE sc[o] = "Armed"
        BY <3>3, Zenon DEF Retract, WriteInv, Phases, Phase, PreConfirm
      <3>4. ASSUME plan[o].tabs = {} PROVE sc[o] = "none"
        BY <3>4, Zenon DEF WriteInv, Recorded
      <3>. QED  BY <3>2, <3>3, <3>4, Zenon
    <2>. QED  BY <2>1, <2>2, Zenon
  <1>3. ASSUME NEW k \in Tasks, Confirm(k), o = job[k].op PROVE result'[o] # "rejected"
    <2>1. pc[k] = "commit" /\ result[o] = "none"
      BY <1>3, Zenon DEF Confirm, OutcomeInv, OpenInHand, PreConfirm
    <2>2. result' = result \/ result' = [result EXCEPT ![o] = "recovery"]
      BY <1>3, Zenon DEF Confirm, NeedsRecovery, Reply
    <2>. QED  BY <1>0, <2>1, <2>2, Zenon
  <1>4. ASSUME NEW k \in Tasks, Unlink(k) \/ Retract(k) \/ CleanupSidecar(k), o = job[k].op
        PROVE  sc' = sc \/ sc' = [sc EXCEPT ![o] = "none"]
    BY <1>4, Zenon DEF Unlink, Retract, CleanupSidecar
  <1>5. ASSUME NEW k \in Tasks, Unlink(k) \/ Retract(k) \/ CleanupSidecar(k), o = job[k].op
        PROVE  sc'[o] \in {sc[o], "none"}
    BY <1>0, <1>4, <1>5, Zenon
  <1>. QED  BY <1>1, <1>2, <1>3, <1>5, SidecarEffect, Zenon DEF WriteInv

\* Every answer stays true.
LEMMA AnswersStayTrue ==
    ASSUME WriteInv, OutcomeInv, [Next]_vars PROVE AnswersHold'
  <1>0. TasksOK /\ TypeOK /\ result \in [Ops -> {"none", "ok", "rejected", "recovery"}]
    BY Zenon DEF WriteInv, TypeOK, ControlOK
  <1>. SUFFICES ASSUME NEW o \in Ops
                PROVE  /\ result'[o] = "ok" => o \in Committed'
                       /\ result'[o] = "rejected" => o \notin Committed'
    BY Zenon DEF AnswersHold
  <1>1. o \in Committed => o \in Committed'
    BY OutcomeEffect, Zenon DEF WriteInv
  <1>2. /\ result[o] = "ok" => o \in Committed
        /\ result[o] = "rejected" => o \notin Committed /\ sc[o] # "EffectsConfirmed"
    BY Zenon DEF OutcomeInv, AnswersHold, OpenInHand
  <1>3. result[o] = "rejected" => o \notin Committed'
    <2>1. ASSUME NEW k \in Tasks, pc[k] = "publish" PROVE result[job[k].op] = "none"
      BY <2>1, Zenon DEF OutcomeInv, OpenInHand
    <2>. QED  BY <1>2, <2>1, NewOutcome, Zenon
  <1>4. ASSUME NEW x, NEW a, result' = [result EXCEPT ![x] = a], x # o
        PROVE  result'[o] = result[o]
    BY <1>0, <1>4, Zenon
  <1>5. ASSUME NEW a, result' = [result EXCEPT ![o] = a] PROVE result'[o] = a
    BY <1>0, <1>5, Zenon
  <1>6. CASE result'[o] = result[o]
    BY <1>1, <1>2, <1>3, <1>6, Zenon
  <1>7. ASSUME NEW k \in Tasks, Arm(k), o = nextOp PROVE o \notin Committed'
    BY <1>7 DEF Arm, WriteInv, Minted, TypeOK, ControlOK, Ops, manifest, Committed, Published
  <1>8. ASSUME NEW k \in Tasks, o = job[k].op, UNCHANGED manifest,
               Retract(k) \/ (Publish(k) /\ plan[o].tabs = {})
        PROVE  o \notin Committed'
    <2>1. o \notin Committed
      BY <1>8, Zenon DEF Retract, Publish, WriteInv, Phases, Phase, PreConfirm,
         OutcomeInv, OpenInHand
    <2>. QED  BY <1>8, <2>1, Zenon DEF manifest, Committed, Published
  <1>9. CASE \E k \in Tasks : Arm(k) /\ result' = [result EXCEPT ![nextOp] = "rejected"]
    BY <1>4, <1>5, <1>6, <1>7, <1>9, Zenon
  <1>10. ASSUME NEW k \in Tasks, NEW a \in {"ok", "rejected", "recovery"},
                result' = [result EXCEPT ![job[k].op] = a],
                a = "ok" => job[k].op \in Committed',
                a = "rejected" => /\ UNCHANGED manifest
                                  /\ Retract(k) \/ (Publish(k) /\ plan[job[k].op].tabs = {})
         PROVE  /\ result'[o] = "ok" => o \in Committed'
                /\ result'[o] = "rejected" => o \notin Committed'
    <2>1. CASE job[k].op # o
      BY <1>4, <1>6, <1>10, <2>1, Zenon
    <2>2. CASE job[k].op = o
      <3>1. result'[o] = a
        BY <1>5, <1>10, <2>2, Zenon
      <3>. QED  BY <1>8, <1>10, <2>2, <3>1, Zenon
    <2>. QED  BY <2>1, <2>2, Zenon
  <1>11. \/ result' = result
         \/ \E k \in Tasks : Arm(k) /\ result' = [result EXCEPT ![nextOp] = "rejected"]
         \/ \E k \in Tasks, a \in {"ok", "rejected", "recovery"} :
              /\ result' = [result EXCEPT ![job[k].op] = a]
              /\ a = "ok" => job[k].op \in Committed'
              /\ a = "rejected" => /\ UNCHANGED manifest
                                   /\ Retract(k) \/ (Publish(k) /\ plan[job[k].op].tabs = {})
    BY ResultEffect, Zenon
  <1>. QED  BY <1>6, <1>9, <1>10, <1>11, Zenon

\* Every step preserves OutcomeInv.
LEMMA OutcomeStep ==
    ASSUME WriteInv, OutcomeInv, [Next]_vars PROVE OutcomeInv'
  <1>0. TypeOK /\ nextOp \in Nat
    BY Zenon DEF WriteInv, TypeOK, ControlOK
  <1>1. ASSUME NEW o \in Ops, o >= nextOp' PROVE result'[o] = "none"
    <2>1. nextOp' = nextOp \/ \E k \in Tasks : Arm(k) /\ nextOp' = nextOp + 1
      BY NextOpStep, Zenon DEF Arm
    <2>2. o >= nextOp /\ ((\E k \in Tasks : Arm(k)) => o # nextOp)
      <3>1. ASSUME NEW k \in Tasks, Arm(k) PROVE nextOp' = nextOp + 1
        BY <3>1, Zenon DEF Arm
      <3>. QED  BY <1>0, <1>1, <2>1, <3>1 DEF Ops
    <2>3. result[o] = "none" /\ \A k \in Tasks : job[k].op # o
      <3>1. \A k \in Tasks : job[k].op < nextOp /\ job[k].op \in Nat
        BY <1>0 DEF WriteInv, Minted, TypeOK, TasksOK, Job
      <3>2. \A k \in Tasks : job[k].op # o
        BY <1>0, <2>2, <3>1 DEF Ops
      <3>. QED  BY <2>2, <3>2, Zenon DEF OutcomeInv, OpenInHand
    <2>4. ASSUME NEW x, NEW a, result' = [result EXCEPT ![x] = a], x # o
          PROVE  result'[o] = result[o]
      BY <1>0, <2>4, Zenon DEF TypeOK, ControlOK
    <2>. QED  BY <2>2, <2>3, <2>4, ResultEffect, Zenon
  <1>2. OpenInHand'
    BY <1>1, UndoneIsOpen, AnsweringIsOpen, TablelessIsOpen, RejectedIsUnconfirmed, Zenon
       DEF OpenInHand, Answering
  <1>. QED  BY <1>2, LineageHolds, AuthorizedHolds, AnswersStayTrue, Zenon DEF OutcomeInv

-----------------------------------------------------------------------------
\* The theorems.

\* OutcomeInv holds initially.
LEMMA OutcomeInit ==
    ASSUME Init PROVE OutcomeInv
  <1>1. lineage = <<Genesis>> /\ Len(lineage) = 1 /\ DOMAIN lineage = 1..1
    BY DEF Init
  <1>2. Published = {Genesis} /\ Committed = {}
    BY <1>1 DEF Published, Committed, Genesis, CommitId
  <1>3. IdsKnown /\ OneOutcome /\ CommitOnAuthority
    BY <1>1 DEF IdsKnown, OneOutcome, CommitOnAuthority
  <1>4. Authorized
    BY DEF Init, Authorized, Ops
  <1>5. OpenInHand /\ AnswersHold
    BY <1>2, Zenon DEF Init, OpenInHand, AnswersHold, PreConfirm
  <1>. QED  BY <1>3, <1>4, <1>5, Zenon DEF OutcomeInv

\* What the lineage, the answers and the plans say about operations holds in
\* every reachable state, beside the invariant of the write path.
THEOREM OutcomesHold == Spec => [](WriteInv /\ OutcomeInv)
  <1>1. Init => WriteInv /\ OutcomeInv
    BY InitInv, OutcomeInit, Zenon
  <1>2. WriteInv /\ OutcomeInv /\ [Next]_vars => (WriteInv /\ OutcomeInv)'
    BY WriteInvStep, OutcomeStep, Zenon
  <1>. QED  BY <1>1, <1>2, PTL DEF Spec

\* An operation leaves at most one graph commit, however often its writer, the
\* healer and the open sweep meet it (publish_recovery_commit re-entered).
THEOREM OneOutcomeEach == Spec => []OneOutcome
  <1>1. OutcomeInv => OneOutcome
    BY Zenon DEF OutcomeInv
  <1>. QED  BY <1>1, OutcomesHold, PTL

\* A graph commit's parent is the head its attempt was validated against, also
\* when recovery publishes it (the exact-head precondition of the publish).
THEOREM NoReparenting == Spec => []CommitOnAuthority
  <1>1. OutcomeInv => CommitOnAuthority
    BY Zenon DEF OutcomeInv
  <1>. QED  BY <1>1, OutcomesHold, PTL

\* An acknowledged write is committed, a rejected one never becomes visible: no
\* recovery pass, crash or late publish contradicts an answer that was given.
THEOREM AnswersNeverFalsified == Spec => []AnswersHold
  <1>1. OutcomeInv => AnswersHold
    BY Zenon DEF OutcomeInv
  <1>. QED  BY <1>1, OutcomesHold, PTL

-----------------------------------------------------------------------------
\* The refinement.

\* What the store sees of the write path: the rows at the manifest's pins, the
\* head each minted operation was prepared against, the tables it writes.
Shown == [t \in Tables |-> log[t][pin[t]].rows]
Authority == [o \in Ops |-> IF o < nextOp THEN plan[o].head ELSE NoHead]
Writes == [o \in Ops |-> plan[o].tabs]

\* The initial state is an initial state of the store.
LEMMA StoreStarts ==
    ASSUME Init PROVE Store!StoreInit
  <1>1. Shown = [t \in Tables |-> {}]
    <2>1. \A t \in Tables : log[t][pin[t]] = FirstVersion
      BY Zenon DEF Init
    <2>. QED  BY <2>1 DEF Shown, FirstVersion
  <1>2. Authority = [o \in Ops |-> NoHead]
    BY DEF Init, Authority, Ops
  <1>3. Writes = [o \in Ops |-> {}]
    BY Zenon DEF Init, Writes, NoPlan
  <1>. QED  BY <1>1, <1>2, <1>3, Zenon DEF Init, Store!StoreInit, Shown, Authority, Writes

\* Readers see new rows only through a commit, and then all of them.
LEMMA ShownStep ==
    ASSUME WriteInv, [Next]_vars
    PROVE  /\ Committed' = Committed => Shown' = Shown
           /\ \A o \in Ops : Committed' = Committed \cup {o} /\ UNCHANGED plan =>
                Shown' = [t \in Tables |-> IF t \in plan[o].tabs THEN Shown[t] \cup {o}
                                           ELSE Shown[t]]
  <1>1. \A t \in Tables : Shown[t] = {o \in Committed : t \in plan[o].tabs}
    BY Zenon DEF WriteInv, VisibleAtomic, Shown
  <1>2. \A t \in Tables : Shown'[t] = {o \in Committed' : t \in plan'[o].tabs}
    <2>1. VisibleAtomic'
      BY WriteInvStep, Zenon DEF WriteInv
    <2>. QED  BY <2>1, Zenon DEF VisibleAtomic, Shown
  <1>3. \A o \in Committed : plan'[o] = plan[o]
    <2>1. \A o \in Committed : o \in Ops /\ o < nextOp
      BY DEF WriteInv, Minted, TypeOK, ControlOK, Committed, Ops
    <2>. QED  BY <2>1, PlanKept, Zenon DEF WriteInv
  <1>4. ASSUME Committed' = Committed PROVE Shown' = Shown
    <2>1. \A t \in Tables : Shown'[t] = Shown[t]
      <3>. TAKE t \in Tables
      <3>1. {o \in Committed' : t \in plan'[o].tabs} = {o \in Committed : t \in plan[o].tabs}
        BY <1>3, <1>4, Zenon
      <3>. QED  BY <1>1, <1>2, <3>1, Zenon
    <2>. QED  BY <2>1, Zenon DEF Shown
  <1>5. ASSUME NEW o \in Ops, Committed' = Committed \cup {o}, UNCHANGED plan
        PROVE  Shown' = [t \in Tables |-> IF t \in plan[o].tabs THEN Shown[t] \cup {o}
                                          ELSE Shown[t]]
    <2>1. \A t \in Tables : Shown'[t] = IF t \in plan[o].tabs THEN Shown[t] \cup {o}
                                        ELSE Shown[t]
      BY <1>1, <1>2, <1>5, Zenon
    <2>. QED  BY <2>1, Zenon DEF Shown
  <1>. QED  BY <1>4, <1>5, Zenon

\* A preparation, said of the write path's own state.
LEMMA IsPrepared ==
    ASSUME NEW o \in Ops, Authority[o] = NoHead,
           \E head \in Published : Authority' = [Authority EXCEPT ![o] = head],
           \E tabs \in SUBSET Tables : Writes' = [Writes EXCEPT ![o] = tabs],
           result' = result \/ result' = [result EXCEPT ![o] = "rejected"],
           Shown' = Shown, lineage' = lineage
    PROVE  Store!StoreNext
  <1>. USE DEF Shown, Authority, Writes, Published, Store!Visible
  <1>1. Store!Answers(o, FALSE)
    BY Zenon DEF Store!Answers
  <1>2. Store!Prepared(o)
    BY <1>1, Zenon DEF Store!Prepared
  <1>. QED  BY <1>2, Zenon DEF Store!StoreNext

\* A commit, said of the write path's own state.
LEMMA IsCommit ==
    ASSUME NEW o \in Ops, Authority[o] # NoHead, result[o] # "rejected",
           CommitId(o) \notin Published, RollbackId(o) \notin Published,
           Authority[o] = lineage[Len(lineage)],
           lineage' = Append(lineage, CommitId(o)),
           Shown' = [t \in Tables |-> IF t \in Writes[o] THEN Shown[t] \cup {o}
                                      ELSE Shown[t]],
           \/ result' = result
           \/ \E a \in {"ok", "recovery"} : result' = [result EXCEPT ![o] = a],
           Authority' = Authority, Writes' = Writes
    PROVE  Store!StoreNext
  <1>. USE DEF Shown, Authority, Writes, Published, Store!Visible
  <1>1. Store!Answers(o, TRUE)
    BY Zenon DEF Store!Answers
  <1>2. Store!Open(o)
    BY Zenon DEF Store!Open
  <1>3. Store!Commits(o)
    BY <1>1, <1>2, Zenon DEF Store!Commits
  <1>. QED  BY <1>3, Zenon DEF Store!StoreNext

\* A rollback, said of the write path's own state.
LEMMA IsRollback ==
    ASSUME NEW o \in Ops, Authority[o] # NoHead, result[o] # "ok",
           CommitId(o) \notin Published, RollbackId(o) \notin Published,
           lineage' = Append(lineage, RollbackId(o)),
           Shown' = Shown, Authority' = Authority, Writes' = Writes, result' = result
    PROVE  Store!StoreNext
  <1>1. Store!RollsBack(o)
    BY Zenon DEF Store!RollsBack, Shown, Authority, Writes, Published, Store!Visible
  <1>. QED  BY <1>1, Zenon DEF Store!StoreNext

\* An answer, said of the write path's own state.
LEMMA IsAnswer ==
    ASSUME NEW o \in Ops, Authority[o] # NoHead, result[o] = "none",
           \/ result' = [result EXCEPT ![o] = "recovery"]
           \/ CommitId(o) \in Published /\ result' = [result EXCEPT ![o] = "ok"]
           \/ CommitId(o) \notin Published /\ result' = [result EXCEPT ![o] = "rejected"],
           Shown' = Shown, lineage' = lineage, Authority' = Authority, Writes' = Writes
    PROVE  Store!StoreNext
  <1>. USE DEF Shown, Authority, Writes, Published, Store!Visible
  <1>1. Store!Answers(o, CommitId(o) \in Published)
    BY Zenon DEF Store!Answers
  <1>2. Store!Answered(o)
    BY <1>1, Zenon DEF Store!Answered
  <1>. QED  BY <1>2, Zenon DEF Store!StoreNext

\* Arming an operation is its preparation in the store, at the head its attempt
\* captured.
LEMMA ArmPrepares ==
    ASSUME WriteInv, OutcomeInv, [Next]_vars, NEW k \in Tasks, Arm(k)
    PROVE  Store!StoreNext
  <1>1. /\ nextOp \in Ops /\ nextOp' = nextOp + 1 /\ plan' = [plan EXCEPT ![nextOp] = req[k].base]
        /\ lineage' = lineage /\ req[k].base \in Plan
        /\ plan \in [Ops -> Plan] /\ result \in [Ops -> {"none", "ok", "rejected", "recovery"}]
    <2>1. nextOp' = nextOp + 1 /\ plan' = [plan EXCEPT ![nextOp] = req[k].base] /\ lineage' = lineage
      BY Zenon DEF Arm, manifest
    <2>2. nextOp \in Ops
      BY Shapes DEF Arm, WriteInv, Minted, TypeOK, ControlOK, Ops
    <2>. QED  BY <2>1, <2>2, Zenon DEF WriteInv, TypeOK, ControlOK, TasksOK, SidecarsOK, Request
  <1>2. Authority[nextOp] = NoHead
    BY <1>1, Shapes DEF Authority, WriteInv, TypeOK, ControlOK
  <1>3. Authority' = [Authority EXCEPT ![nextOp] = req[k].base.head]
    <2>1. \A o \in Ops : o < nextOp + 1 <=> (o = nextOp \/ o < nextOp)
      BY <1>1, Shapes DEF Ops
    <2>2. \A o \in Ops : Authority'[o] = IF o = nextOp THEN req[k].base.head ELSE Authority[o]
      BY <1>1, <2>1, Zenon DEF Authority
    <2>. QED  BY <1>1, <2>2, Zenon DEF Authority
  <1>4. Writes' = [Writes EXCEPT ![nextOp] = req[k].base.tabs]
    BY <1>1, Zenon DEF Writes
  <1>5. req[k].base.head \in Published /\ req[k].base.tabs \in SUBSET Tables
    BY <1>1, Zenon DEF Arm, OutcomeInv, Authorized, Plan
  <1>6. result' = result \/ result' = [result EXCEPT ![nextOp] = "rejected"]
    BY Zenon DEF Arm, Reply
  <1>7. Shown' = Shown
    <2>1. Committed' = Committed
      BY <1>1, Zenon DEF Committed, Published
    <2>. QED  BY <2>1, ShownStep, Zenon
  <1>. QED  BY <1>1, <1>2, <1>3, <1>4, <1>5, <1>6, <1>7, IsPrepared, Zenon

\* The writer's publish and recovery's roll-forward are commits.
LEMMA PublishCommits ==
    ASSUME WriteInv, OutcomeInv, [Next]_vars, NEW k \in Tasks, NEW o \in Ops, o = job[k].op,
           o < nextOp, o \notin Committed, RollbackId(o) \notin Published,
           RollForward(k) \/ Publish(k), result[o] # "rejected", CanPublish(o),
           UNCHANGED plan, PublishManifest(plan[o].tabs, Effects(o), CommitId(o))
    PROVE  Store!StoreNext
  <1>1. Committed' = Committed \cup {o}
    <2>1. Published' = Published \cup {CommitId(o)}
      BY PublishedGrows, Zenon DEF WriteInv, TypeOK
    <2>. QED  BY <2>1, CommitPublished, Zenon
  <1>2. Shown' = [t \in Tables |-> IF t \in Writes[o] THEN Shown[t] \cup {o} ELSE Shown[t]]
    BY <1>1, ShownStep, Zenon DEF Writes
  <1>3. UNCHANGED nextOp
    BY Zenon DEF RollForward, Publish, control
  <1>4. Authority' = Authority /\ Writes' = Writes
    BY <1>3, Zenon DEF Authority, Writes
  <1>5. Authority[o] = plan[o].head /\ plan[o].head = GraphHead /\ plan[o].head \in Ids
    BY DEF Authority, CanPublish, WriteInv, TypeOK, SidecarsOK, Plan
  <1>6. Authority[o] # NoHead
    BY <1>5 DEF Ids, NoHead
  <1>7. CommitId(o) \notin Published
    BY Zenon DEF Committed
  <1>8. \/ result' = result
        \/ \E a \in {"ok", "recovery"} : result' = [result EXCEPT ![o] = a]
    BY Zenon DEF RollForward, Publish, Reply, NeedsRecovery
  <1>9. lineage' = Append(lineage, CommitId(o))
    BY Zenon DEF PublishManifest
  <1>. QED  BY <1>2, <1>4, <1>5, <1>6, <1>7, <1>8, <1>9, IsCommit, Zenon DEF GraphHead

\* Recovery's rollback publish is a rollback.
LEMMA RollbackRollsBack ==
    ASSUME WriteInv, OutcomeInv, [Next]_vars, NEW k \in Tasks, NEW o \in Ops, o = job[k].op,
           o < nextOp, o \notin Committed, RollbackId(o) \notin Published,
           RollBack(k), UNCHANGED plan,
           PublishManifest(Compensable(o), LiveHeads, RollbackId(o))
    PROVE  Store!StoreNext
  <1>1. Committed' = Committed
    <2>1. Published' = Published \cup {RollbackId(o)}
      BY PublishedGrows, Zenon DEF WriteInv, TypeOK
    <2>. QED  BY <2>1, RollbackPublished, Zenon
  <1>2. Shown' = Shown
    BY <1>1, ShownStep, Zenon
  <1>3. UNCHANGED <<nextOp, result>>
    BY Zenon DEF RollBack, control
  <1>4. Authority' = Authority /\ Writes' = Writes
    BY <1>3, Zenon DEF Authority, Writes
  <1>5. Authority[o] # NoHead
    <2>1. Authority[o] = plan[o].head /\ plan[o].head \in Ids
      BY Zenon DEF Authority, WriteInv, TypeOK, SidecarsOK, Plan
    <2>. QED  BY <2>1 DEF Ids, NoHead
  <1>6. result[o] # "ok" /\ CommitId(o) \notin Published
    BY Zenon DEF OutcomeInv, AnswersHold, Committed
  <1>7. lineage' = Append(lineage, RollbackId(o))
    BY Zenon DEF PublishManifest
  <1>. QED  BY <1>2, <1>3, <1>4, <1>5, <1>6, <1>7, IsRollback, Zenon

\* A step that arms nothing and publishes nothing is an answer, or invisible.
LEMMA OthersAnswer ==
    ASSUME WriteInv, OutcomeInv, [Next]_vars, UNCHANGED manifest, \A k \in Tasks : ~Arm(k)
    PROVE  Store!StoreNext \/ UNCHANGED Store!storeVars
  <1>1. lineage' = lineage /\ UNCHANGED <<plan, nextOp>>
    BY PlanStep, NextOpStep, Zenon DEF manifest
  <1>2. Published' = Published /\ Committed' = Committed
    BY <1>1, Zenon DEF Committed, Published
  <1>3. Shown' = Shown
    BY <1>2, ShownStep, Zenon
  <1>4. Authority' = Authority /\ Writes' = Writes
    BY <1>1, Zenon DEF Authority, Writes
  <1>5. CASE result' = result
    BY <1>1, <1>3, <1>4, <1>5, Zenon DEF Store!storeVars, Shown, Authority, Writes
  <1>6. ASSUME NEW k \in Tasks, pc[k] \in Answering, job[k].op \in Ops,
               \/ result' = [result EXCEPT ![job[k].op] = "recovery"]
               \/ result' = [result EXCEPT ![job[k].op] = "ok"] /\ job[k].op \in Committed'
               \/ /\ result' = [result EXCEPT ![job[k].op] = "rejected"]
                  /\ Retract(k) \/ (Publish(k) /\ plan[job[k].op].tabs = {})
        PROVE  Store!StoreNext
    <2>. DEFINE o == job[k].op
    <2>1. o < nextOp
      BY Zenon DEF WriteInv, Minted
    <2>2. Authority[o] # NoHead
      <3>1. Authority[o] = plan[o].head /\ plan[o].head \in Ids
        BY <1>6, <2>1, Zenon DEF Authority, WriteInv, TypeOK, SidecarsOK, Plan
      <3>. QED  BY <3>1 DEF Ids, NoHead
    <2>3. result[o] = "none"
      BY <1>6, Zenon DEF OutcomeInv, OpenInHand, Answering
    <2>4. Retract(k) => o \notin Committed
      BY Zenon DEF Retract, WriteInv, Phases, Phase, PreConfirm
    <2>5. Publish(k) /\ plan[o].tabs = {} => o \notin Committed
      BY Zenon DEF Publish, OutcomeInv, OpenInHand
    <2>6. o \in Committed <=> CommitId(o) \in Published
      BY <1>6, Zenon DEF Committed
    <2>. QED  BY <1>1, <1>2, <1>3, <1>4, <1>6, <2>2, <2>3, <2>4, <2>5, <2>6, IsAnswer, Zenon
  <1>. QED  BY <1>5, <1>6, ResultEffect, Zenon

\* Every step of the write path is a step of the store or invisible there.
LEMMA StoreStep ==
    ASSUME WriteInv, OutcomeInv, [Next]_vars
    PROVE  [Store!StoreNext]_(Store!storeVars)
  <1>1. CASE \E k \in Tasks : Arm(k)
    BY <1>1, ArmPrepares, Zenon
  <1>2. CASE UNCHANGED manifest /\ \A k \in Tasks : ~Arm(k)
    BY <1>2, OthersAnswer, Zenon
  <1>. QED  BY <1>1, <1>2, SettlesOpen, PublishCommits, RollbackRollsBack, Zenon

\* The write protocol, the healer and the open-time sweep, with any number of
\* processes, tables, requests, crashes and failed storage calls, implement the
\* optimistic serializable store of whole-graph commits.
THEOREM Refinement == Spec => ImplementsStore
  <1>1. Init => Store!StoreInit
    BY StoreStarts, Zenon
  <1>2. WriteInv /\ OutcomeInv /\ [Next]_vars => [Store!StoreNext]_(Store!storeVars)
    BY StoreStep, Zenon
  <1>. QED  BY <1>1, <1>2, OutcomesHold, PTL DEF Spec, ImplementsStore, Store!StoreSpec

=============================================================================
