-------------------------- MODULE WriteAtomicProofs --------------------------
(***************************************************************************)
(* Graph-visible atomicity of the write path for any number of processes,  *)
(* tasks, tables, requests, crashes and storage faults.  First which       *)
(* actions touch which part of the state, and the type of every variable   *)
(* after every step.  Then every step keeps the gates exclusive, the pins  *)
(* on existing versions, the captured bases and restores truthful, and the *)
(* visible rows those of whole operations.                                 *)
(***************************************************************************)
EXTENDS WriteInvariant, TLAPS

-----------------------------------------------------------------------------
\* Frames.

\* Lance histories and refs change only where the code writes a table: fork,
\* commit, restore and the removal of unused forks.
LEMMA TablesStep ==
    ASSUME [Next]_vars
    PROVE  \/ UNCHANGED table
           \/ \E k \in Tasks : \/ Reclaim(k) \/ RestoreTable(k) \/ ForkTable(k)
                               \/ CommitTable(k) \/ Withdraw(k)
  <1>1. ASSUME NEW k \in Tasks,
               \/ BeginWrite(k) \/ BeginOpen(k) \/ ListSidecars(k)
               \/ NextSidecar(k) \/ FinishPass(k) \/ Classify(k)
               \/ RollForward(k) \/ Audit(k) \/ Unlink(k)
               \/ PersistRollbackPlan(k) \/ RollBack(k)
        PROVE  UNCHANGED table
    BY <1>1, Zenon DEF BeginWrite, BeginOpen, ListSidecars, NextSidecar, FinishPass,
                Classify, RollForward, Audit, Unlink, PersistRollbackPlan,
                RollBack
  <1>2. ASSUME NEW k \in Tasks,
               \/ Prepare(k) \/ AcquireGates(k) \/ Validate(k) \/ Arm(k)
               \/ ForksReady(k) \/ Retract(k) \/ Confirm(k) \/ Publish(k)
               \/ CleanupSidecar(k)
        PROVE  UNCHANGED table
    BY <1>2, Zenon DEF Prepare, AcquireGates, Validate, Arm, ForksReady, Retract,
                Confirm, Publish, CleanupSidecar
  <1>3. ASSUME NEW p \in Procs, Crash(p) PROVE UNCHANGED table
    BY <1>3, Zenon DEF Crash
  <1>4. CASE UNCHANGED vars
    BY <1>4, Zenon DEF vars, table
  <1>. QED  BY <1>1, <1>2, <1>3, <1>4, Zenon DEF Next, TaskStep, Recover, Attempt

\* The manifest changes only by a publish, of a writer or of recovery.
LEMMA ManifestStep ==
    ASSUME [Next]_vars
    PROVE  \/ UNCHANGED manifest
           \/ \E k \in Tasks : RollForward(k) \/ RollBack(k) \/ Publish(k)
  <1>1. ASSUME NEW k \in Tasks,
               \/ BeginWrite(k) \/ BeginOpen(k) \/ ListSidecars(k)
               \/ NextSidecar(k) \/ FinishPass(k) \/ Classify(k) \/ Audit(k)
               \/ Unlink(k) \/ Reclaim(k) \/ PersistRollbackPlan(k)
               \/ RestoreTable(k)
        PROVE  UNCHANGED manifest
    BY <1>1, Zenon DEF BeginWrite, BeginOpen, ListSidecars, NextSidecar, FinishPass,
                Classify, Audit, Unlink, Reclaim, PersistRollbackPlan,
                RestoreTable
  <1>2. ASSUME NEW k \in Tasks,
               \/ Prepare(k) \/ AcquireGates(k) \/ Validate(k) \/ Arm(k)
               \/ ForkTable(k) \/ ForksReady(k) \/ CommitTable(k)
               \/ Withdraw(k) \/ Retract(k) \/ Confirm(k) \/ CleanupSidecar(k)
        PROVE  UNCHANGED manifest
    BY <1>2, Zenon DEF Prepare, AcquireGates, Validate, Arm, ForkTable, ForksReady,
                CommitTable, Withdraw, Retract, Confirm, CleanupSidecar
  <1>3. ASSUME NEW p \in Procs, Crash(p) PROVE UNCHANGED manifest
    BY <1>3, Zenon DEF Crash
  <1>4. CASE UNCHANGED vars
    BY <1>4, Zenon DEF vars, manifest
  <1>. QED  BY <1>1, <1>2, <1>3, <1>4, Zenon DEF Next, TaskStep, Recover, Attempt

\* A sidecar is written by its writer and removed by it or by recovery.
LEMMA SidecarStep ==
    ASSUME [Next]_vars
    PROVE  \/ UNCHANGED sc
           \/ \E k \in Tasks : \/ Unlink(k) \/ Arm(k) \/ Retract(k)
                               \/ Confirm(k) \/ CleanupSidecar(k)
  <1>1. ASSUME NEW k \in Tasks,
               \/ BeginWrite(k) \/ BeginOpen(k) \/ ListSidecars(k)
               \/ NextSidecar(k) \/ FinishPass(k) \/ Classify(k)
               \/ RollForward(k) \/ Audit(k) \/ Reclaim(k)
               \/ PersistRollbackPlan(k) \/ RestoreTable(k) \/ RollBack(k)
        PROVE  UNCHANGED sc
    BY <1>1, Zenon DEF BeginWrite, BeginOpen, ListSidecars, NextSidecar, FinishPass,
                Classify, RollForward, Audit, Reclaim, PersistRollbackPlan,
                RestoreTable, RollBack, sidecars
  <1>2. ASSUME NEW k \in Tasks,
               \/ Prepare(k) \/ AcquireGates(k) \/ Validate(k) \/ ForkTable(k)
               \/ ForksReady(k) \/ CommitTable(k) \/ Withdraw(k) \/ Publish(k)
        PROVE  UNCHANGED sc
    BY <1>2, Zenon DEF Prepare, AcquireGates, Validate, ForkTable, ForksReady,
                CommitTable, Withdraw, Publish, sidecars
  <1>3. ASSUME NEW p \in Procs, Crash(p) PROVE UNCHANGED sc
    BY <1>3, Zenon DEF Crash, sidecars
  <1>4. CASE UNCHANGED vars
    BY <1>4, Zenon DEF vars
  <1>. QED  BY <1>1, <1>2, <1>3, <1>4, Zenon DEF Next, TaskStep, Recover, Attempt

\* The body of a sidecar is fixed when it is armed.
LEMMA PlanStep ==
    ASSUME [Next]_vars PROVE UNCHANGED plan \/ \E k \in Tasks : Arm(k)
  <1>1. ASSUME NEW k \in Tasks,
               \/ BeginWrite(k) \/ BeginOpen(k) \/ ListSidecars(k)
               \/ NextSidecar(k) \/ FinishPass(k) \/ Classify(k)
               \/ RollForward(k) \/ Audit(k) \/ Unlink(k) \/ Reclaim(k)
               \/ PersistRollbackPlan(k) \/ RestoreTable(k) \/ RollBack(k)
        PROVE  UNCHANGED plan
    BY <1>1, Zenon DEF BeginWrite, BeginOpen, ListSidecars, NextSidecar, FinishPass,
                Classify, RollForward, Audit, Unlink, Reclaim,
                PersistRollbackPlan, RestoreTable, RollBack, sidecars
  <1>2. ASSUME NEW k \in Tasks,
               \/ Prepare(k) \/ AcquireGates(k) \/ Validate(k) \/ ForkTable(k)
               \/ ForksReady(k) \/ CommitTable(k) \/ Withdraw(k) \/ Retract(k)
               \/ Confirm(k) \/ Publish(k) \/ CleanupSidecar(k)
        PROVE  UNCHANGED plan
    BY <1>2, Zenon DEF Prepare, AcquireGates, Validate, ForkTable, ForksReady,
                CommitTable, Withdraw, Retract, Confirm, Publish,
                CleanupSidecar, sidecars
  <1>3. ASSUME NEW p \in Procs, Crash(p) PROVE UNCHANGED plan
    BY <1>3, Zenon DEF Crash, sidecars
  <1>4. CASE UNCHANGED vars
    BY <1>4, Zenon DEF vars
  <1>. QED  BY <1>1, <1>2, <1>3, <1>4, Zenon DEF Next, TaskStep, Recover, Attempt

\* A step of one task leaves the locals of the others alone, and it takes or
\* drops only the gate of its own process.
LEMMA TaskFrame ==
    ASSUME NEW k \in Tasks, TaskStep(k), TasksOK, NEW j \in Tasks, j # k
    PROVE  pc'[j] = pc[j] /\ req'[j] = req[j] /\ job'[j] = job[j]
  BY Zenon DEF TasksOK, TaskStep, Recover, Attempt, BeginWrite, BeginOpen,
         ListSidecars, NextSidecar, FinishPass, Classify, RollForward, Audit,
         Unlink, Reclaim, PersistRollbackPlan, RestoreTable, RollBack,
         Prepare, AcquireGates, Validate, Arm, ForkTable, ForksReady,
         CommitTable, Withdraw, Retract, Confirm, Publish, CleanupSidecar,
         Goto, Leave, Advance, Done, ToNext, NeedsRecovery, Retry

\* A crash ends the tasks of one process and touches nothing else of a task.
LEMMA CrashFrame ==
    ASSUME NEW p \in Procs, Crash(p), NEW j \in Tasks
    PROVE  \/ ProcOf[j] = p /\ pc'[j] = "idle" /\ req'[j] = NoReq /\ job'[j] = NoJob
           \/ /\ ProcOf[j] # p /\ pc'[j] = pc[j] /\ req'[j] = req[j]
              /\ job'[j] = job[j] /\ gate'[ProcOf[j]] = gate[ProcOf[j]]
  BY ConstantsAssumption DEF Crash

\* Recovery alone writes audit rows and rollback plans.
LEMMA AuditStep ==
    ASSUME [Next]_vars
    PROVE  UNCHANGED <<scPlan, audit>> \/ \E k \in Tasks : PersistRollbackPlan(k) \/ Audit(k)
  <1>1. ASSUME NEW k \in Tasks,
               \/ BeginWrite(k) \/ BeginOpen(k) \/ ListSidecars(k)
               \/ NextSidecar(k) \/ FinishPass(k) \/ Classify(k)
               \/ RollForward(k) \/ Unlink(k) \/ Reclaim(k) \/ RestoreTable(k)
               \/ RollBack(k)
        PROVE  UNCHANGED <<scPlan, audit>>
    BY <1>1, Zenon DEF BeginWrite, BeginOpen, ListSidecars, NextSidecar, FinishPass,
                Classify, RollForward, Unlink, Reclaim, RestoreTable, RollBack, sidecars
  <1>2. ASSUME NEW k \in Tasks,
               \/ Prepare(k) \/ AcquireGates(k) \/ Validate(k) \/ Arm(k)
               \/ ForkTable(k) \/ ForksReady(k) \/ CommitTable(k)
               \/ Withdraw(k) \/ Retract(k) \/ Confirm(k) \/ Publish(k)
               \/ CleanupSidecar(k)
        PROVE  UNCHANGED <<scPlan, audit>>
    BY <1>2, Zenon DEF Prepare, AcquireGates, Validate, Arm, ForkTable, ForksReady,
                CommitTable, Withdraw, Retract, Confirm, Publish,
                CleanupSidecar, sidecars
  <1>3. ASSUME NEW p \in Procs, Crash(p) PROVE UNCHANGED <<scPlan, audit>>
    BY <1>3, Zenon DEF Crash, sidecars
  <1>4. CASE UNCHANGED vars
    BY <1>4, Zenon DEF vars
  <1>. QED  BY <1>1, <1>2, <1>3, <1>4, Zenon DEF Next, TaskStep, Recover, Attempt

-----------------------------------------------------------------------------
\* Types of the parts a state is made of.

\* The constants of the model have their types; ids of an operation are ids.
LEMMA Shapes ==
    /\ Genesis \in Ids /\ NoPlan \in Plan /\ NoReq \in Request /\ NoJob \in Job
    /\ MaxOps \in Nat
    /\ \A o \in 0..MaxOps : CommitId(o) \in Ids /\ RollbackId(o) \in Ids
  <1>1. MaxOps \in Nat
    BY ConstantsAssumption DEF MaxOps
  <1>2. /\ Genesis \in Ids
        /\ \A o \in 0..MaxOps : CommitId(o) \in Ids /\ RollbackId(o) \in Ids
    BY <1>1 DEF Genesis, Ids, CommitId, RollbackId
  <1>3. NoPlan \in Plan
    BY <1>2, Zenon DEF NoPlan, Plan
  <1>4. NoReq \in Request /\ NoJob \in Job
    BY <1>1, <1>3, ConstantsAssumption DEF NoReq, Request, NoJob, Job
  <1>. QED  BY <1>1, <1>2, <1>3, <1>4, Zenon

\* Ending a task keeps the tasks well typed.
LEMMA LeaveType ==
    ASSUME TasksOK, NEW k \in Tasks, Leave(k) PROVE TasksOK'
  BY Shapes, ConstantsAssumption, Zenon DEF TasksOK, Leave, Goto, Release, Points

\* So does going on with everything the task holds.
LEMMA AdvanceType ==
    ASSUME TasksOK, NEW k \in Tasks, NEW p \in Points, Advance(k, p) PROVE TasksOK'
  BY Zenon DEF TasksOK, Advance, Goto

\* So does moving to the next sidecar of a recovery pass.
LEMMA ToNextType ==
    ASSUME TasksOK, NEW k \in Tasks, NEW u \in BOOLEAN, ToNext(k, u) PROVE TasksOK'
  <1>1. job' \in [Tasks -> Job]
    <2>. DEFINE b == job[k].blocked \/ u
    <2>1. b \in BOOLEAN /\ job' = [job EXCEPT ![k].blocked = b]
      BY Zenon DEF ToNext
    <2>. HIDE DEF b
    <2>. QED  BY <2>1, Zenon DEF TasksOK, Job
  <1>2. pc' \in [Tasks -> Points] /\ req' \in [Tasks -> Request]
    BY Zenon DEF TasksOK, ToNext, Goto, Points
  <1>3. gate' \in [Procs -> Tasks \cup {NoTask}]
    BY ConstantsAssumption, Zenon DEF TasksOK, ToNext, Release
  <1>. QED  BY <1>1, <1>2, <1>3, Zenon DEF TasksOK

\* So does finishing one table of a loop.
LEMMA DoneType ==
    ASSUME TasksOK, NEW k \in Tasks, NEW t \in Tables, Done(k, t) PROVE TasksOK'
  BY Zenon DEF TasksOK, Done, Job

\* So does preparing again: the budget bounds the number of tries.
LEMMA RetryType ==
    ASSUME TasksOK, NEW k \in Tasks, Retry(k) PROVE TasksOK'
  <1>1. CASE MayReprepare(k)
    <2>1. req' = [req EXCEPT ![k].tries = req[k].tries + 1]
      BY <1>1, Zenon DEF Retry
    <2>2. req[k].tries + 1 \in 0..MaxReprepares
      BY <1>1, ConstantsAssumption DEF MayReprepare, TasksOK, Request
    <2>3. req' \in [Tasks -> Request]
      BY <2>1, <2>2, Zenon DEF TasksOK, Request
    <2>4. pc' \in [Tasks -> Points] /\ job' \in [Tasks -> Job]
      BY <1>1, Zenon DEF TasksOK, Retry, Goto, Points
    <2>5. gate' \in [Procs -> Tasks \cup {NoTask}]
      BY <1>1, ConstantsAssumption, Zenon DEF TasksOK, Retry, Release
    <2>. QED  BY <2>3, <2>4, <2>5, Zenon DEF TasksOK
  <1>2. CASE ~MayReprepare(k)
    BY <1>2, LeaveType, Zenon DEF Retry
  <1>. QED  BY <1>1, <1>2, Zenon

\* The graph head is an id: the lineage is never empty.
LEMMA HeadType ==
    ASSUME StorageOK PROVE GraphHead \in Ids
  BY DEF StorageOK, GraphHead

\* The versions a commit or a rollback selects are version numbers.
LEMMA EffectsType ==
    ASSUME StorageOK, SidecarsOK
    PROVE  /\ \A o \in Ops : Effects(o) \in [Tables -> Nat]
           /\ LiveHeads \in [Tables -> Nat]
  BY DEF StorageOK, SidecarsOK, Plan, Effects, LiveHeads

\* A manifest publish keeps the manifest well typed.
LEMMA PublishType ==
    ASSUME StorageOK, NEW tabs, NEW at \in [Tables -> Nat], NEW id \in Ids,
           PublishManifest(tabs, at, id)
    PROVE  /\ pin' \in [Tables -> Nat]
           /\ owned' \in [Tables -> BOOLEAN]
           /\ lineage' \in Seq(Ids) /\ Len(lineage') > 0
  <1>1. owned' \in [Tables -> BOOLEAN]
    BY Zenon DEF PublishManifest
  <1>2. pin' \in [Tables -> Nat]
    BY Zenon DEF StorageOK, PublishManifest
  <1>3. lineage' \in Seq(Ids) /\ Len(lineage') > 0
    BY DEF StorageOK, PublishManifest
  <1>. QED  BY <1>1, <1>2, <1>3, Zenon

\* A task that has an operation in hand has a minted one.
LEMMA InHandOp ==
    ASSUME TypeOK, Minted, NEW k \in Tasks, pc[k] \in InHand PROVE job[k].op \in Ops
  <1>1. job[k].op \in 0..MaxOps /\ job[k].op >= 1
    BY Zenon DEF TypeOK, TasksOK, Job, Minted
  <1>. QED  BY <1>1, Shapes DEF Ops

-----------------------------------------------------------------------------
\* Types after a step.

\* Every step keeps the tables and the manifest well typed.
LEMMA StorageType ==
    ASSUME TypeOK, Pinned, Captured, Minted, [Next]_vars PROVE StorageOK'
  <1>. USE DEF TypeOK, StorageOK
  <1>1. ref' \in [Tables -> BOOLEAN] /\ log' \in [Tables -> Seq(Version)]
    <2>1. ASSUME NEW k \in Tasks, Reclaim(k) \/ Withdraw(k)
          PROVE  ref' \in [Tables -> BOOLEAN] /\ log' = log
      BY <2>1, Zenon DEF Reclaim, Withdraw, ReclaimForks, table
    <2>2. ASSUME NEW k \in Tasks, RestoreTable(k)
          PROVE  ref' = ref /\ log' \in [Tables -> Seq(Version)]
      <3>1. PICK t \in Tables, r \in IoResults :
              log' = IF r = "lost" THEN log
                     ELSE [log EXCEPT ![t] = Append(@,
                            [op |-> 0, restore |-> pin[t], rows |-> @[pin[t]].rows])]
        BY <2>2, Zenon DEF RestoreTable, TasksOK, Job
      <3>2. log[t][pin[t]] \in Version
        BY DEF Pinned
      <3>3. [op |-> 0, restore |-> pin[t], rows |-> log[t][pin[t]].rows] \in Version
        BY <3>2, Shapes DEF Version
      <3>4. Append(log[t], [op |-> 0, restore |-> pin[t], rows |-> log[t][pin[t]].rows])
              \in Seq(Version)
        BY <3>3
      <3>. QED  BY <2>2, <3>1, <3>4, Zenon DEF RestoreTable
    <2>3. ASSUME NEW k \in Tasks, ForkTable(k)
          PROVE  ref' \in [Tables -> BOOLEAN] /\ log' \in [Tables -> Seq(Version)]
      <3>1. PICK t \in Tables :
              \/ UNCHANGED table
              \/ /\ ~owned[t]
                 /\ ref' \in {ref, [ref EXCEPT ![t] = TRUE]}
                 /\ log' \in {log, [log EXCEPT ![t] = SubSeq(@, 1, req[k].base.pins[t])]}
        BY <2>3, Zenon DEF ForkTable, TasksOK, Job, table, Pinned
      <3>2. ~owned[t] => SubSeq(log[t], 1, req[k].base.pins[t]) \in Seq(Version)
        BY DEF Captured, Pinned
      <3>. QED  BY <3>1, <3>2, Zenon DEF table
    <2>4. ASSUME NEW k \in Tasks, CommitTable(k)
          PROVE  ref' = ref /\ log' \in [Tables -> Seq(Version)]
      <3>1. PICK t \in Tables :
              log' \in {log, [log EXCEPT ![t] = Append(@,
                        [op |-> job[k].op, restore |-> 0,
                         rows |-> Top(t).rows \cup {job[k].op}])]}
        BY <2>4, Zenon DEF CommitTable, TasksOK, Job
      <3>2. Top(t) \in Version
        BY DEF Pinned, Top
      <3>3. job[k].op \in Ops
        BY <2>4, InHandOp, Zenon DEF CommitTable, InHand, Gated
      <3>4. [op |-> job[k].op, restore |-> 0,
             rows |-> Top(t).rows \cup {job[k].op}] \in Version
        BY <3>2, <3>3 DEF Version, Ops
      <3>5. Append(log[t], [op |-> job[k].op, restore |-> 0,
                            rows |-> Top(t).rows \cup {job[k].op}]) \in Seq(Version)
        BY <3>4
      <3>. QED  BY <2>4, <3>1, <3>5, Zenon DEF CommitTable
    <2>. QED  BY <2>1, <2>2, <2>3, <2>4, TablesStep, Zenon DEF table
  <1>2. /\ pin' \in [Tables -> Nat] /\ owned' \in [Tables -> BOOLEAN]
        /\ lineage' \in Seq(Ids) /\ Len(lineage') > 0
    <2>1. ASSUME NEW k \in Tasks, RollForward(k) \/ RollBack(k) \/ Publish(k)
          PROVE  /\ job[k].op \in Ops
                 /\ CommitId(job[k].op) \in Ids /\ RollbackId(job[k].op) \in Ids
      <3>1. job[k].op \in Ops
        BY <2>1, InHandOp, Zenon DEF RollForward, RollBack, Publish, InHand, Gated
      <3>. QED  BY <3>1, Shapes DEF Ops
    <2>2. ASSUME NEW k \in Tasks, RollForward(k) \/ RollBack(k) \/ Publish(k)
          PROVE  \/ UNCHANGED manifest
                 \/ PublishManifest(plan[job[k].op].tabs, Effects(job[k].op), CommitId(job[k].op))
                 \/ PublishManifest(Compensable(job[k].op), LiveHeads, RollbackId(job[k].op))
      BY <2>2, Zenon DEF RollForward, RollBack, Publish, manifest
    <2>. QED  BY <2>1, <2>2, PublishType, EffectsType, ManifestStep, Zenon DEF manifest
  <1>. QED  BY <1>1, <1>2, Zenon

\* Every step keeps the sidecars and the audit rows well typed.
LEMMA SidecarsType ==
    ASSUME TypeOK, Minted, [Next]_vars PROVE SidecarsOK'
  <1>. USE DEF TypeOK, SidecarsOK
  <1>1. plan' \in [Ops -> Plan]
    BY PlanStep, Zenon DEF Arm, TasksOK, Request
  <1>2. sc' \in [Ops -> {"none", "Armed", "EffectsConfirmed"}]
    BY SidecarStep, Zenon DEF Unlink, Arm, Retract, Confirm, CleanupSidecar
  <1>3. ASSUME NEW k \in Tasks, PersistRollbackPlan(k)
        PROVE  scPlan' \in [Ops -> BOOLEAN] /\ audit' = audit
    BY <1>3, Zenon DEF PersistRollbackPlan
  <1>4. ASSUME NEW k \in Tasks, Audit(k)
        PROVE  /\ scPlan' = scPlan
               /\ audit' \in [Ops -> [{"RolledForward", "RolledBack"} -> Nat]]
    <2>. DEFINE more(a) == [audit EXCEPT ![job[k].op][a] = @ + 1]
    <2>1. \/ audit' = audit
          \/ audit' = more("RolledForward")
          \/ audit' = more("RolledBack")
      BY <1>4, Zenon DEF Audit
    <2>2. ASSUME NEW a \in {"RolledForward", "RolledBack"}
          PROVE  more(a) \in [Ops -> [{"RolledForward", "RolledBack"} -> Nat]]
      <3>. DEFINE rowsOf == [audit[job[k].op] EXCEPT ![a] = @ + 1]
      <3>1. job[k].op \in Ops
        BY <1>4, InHandOp, Zenon DEF Audit, InHand, Gated
      <3>2. rowsOf \in [{"RolledForward", "RolledBack"} -> Nat]
        BY <3>1
      <3>3. more(a) = [audit EXCEPT ![job[k].op] = rowsOf]
        BY <3>1, Zenon
      <3>. QED  BY <3>1, <3>2, <3>3, Zenon
    <2>3. scPlan' = scPlan
      BY <1>4, Zenon DEF Audit
    <2>. QED  BY <2>1, <2>2, <2>3, Zenon
  <1>. QED  BY <1>1, <1>2, <1>3, <1>4, AuditStep, Zenon

\* Every step keeps the handles, the answers and the counters well typed.
LEMMA ControlType ==
    ASSUME TypeOK, [Next]_vars PROVE ControlOK'
  <1>. USE DEF TypeOK, ControlOK, control
  <1>1. ASSUME NEW k \in Tasks, BeginWrite(k) PROVE ControlOK'
    BY <1>1 DEF BeginWrite
  <1>2. ASSUME NEW k \in Tasks, BeginOpen(k) PROVE ControlOK'
    BY <1>2, Zenon DEF BeginOpen
  <1>3. ASSUME NEW k \in Tasks, ListSidecars(k) PROVE ControlOK'
    BY <1>3, Zenon DEF ListSidecars
  <1>4. ASSUME NEW k \in Tasks, NextSidecar(k) PROVE ControlOK'
    BY <1>4, Zenon DEF NextSidecar
  <1>5. ASSUME NEW k \in Tasks, FinishPass(k) PROVE ControlOK'
    BY <1>5, Zenon DEF FinishPass
  <1>6. ASSUME NEW k \in Tasks, Classify(k) PROVE ControlOK'
    BY <1>6, Zenon DEF Classify
  <1>7. ASSUME NEW k \in Tasks, RollForward(k) PROVE ControlOK'
    BY <1>7, SMTT(30) DEF RollForward, Io
  <1>8. ASSUME NEW k \in Tasks, Audit(k) PROVE ControlOK'
    BY <1>8 DEF Audit, Io
  <1>9. ASSUME NEW k \in Tasks, Unlink(k) PROVE ControlOK'
    BY <1>9 DEF Unlink, Io
  <1>10. ASSUME NEW k \in Tasks, Reclaim(k) PROVE ControlOK'
    BY <1>10, Zenon DEF Reclaim
  <1>11. ASSUME NEW k \in Tasks, PersistRollbackPlan(k) PROVE ControlOK'
    BY <1>11 DEF PersistRollbackPlan, Io
  <1>12. ASSUME NEW k \in Tasks, RestoreTable(k) PROVE ControlOK'
    BY <1>12 DEF RestoreTable, Io
  <1>13. ASSUME NEW k \in Tasks, RollBack(k) PROVE ControlOK'
    BY <1>13 DEF RollBack, Io
  <1>14. ASSUME NEW k \in Tasks, Prepare(k) PROVE ControlOK'
    BY <1>14, Zenon DEF Prepare
  <1>15. ASSUME NEW k \in Tasks, AcquireGates(k) PROVE ControlOK'
    BY <1>15, Zenon DEF AcquireGates
  <1>16. ASSUME NEW k \in Tasks, Validate(k) PROVE ControlOK'
    BY <1>16, Zenon DEF Validate
  <1>17. ASSUME NEW k \in Tasks, Arm(k) PROVE ControlOK'
    BY <1>17 DEF Arm, Io, Reply
  <1>18. ASSUME NEW k \in Tasks, ForkTable(k) PROVE ControlOK'
    BY <1>18, SMTT(30) DEF ForkTable, Io, NeedsRecovery, Reply
  <1>19. ASSUME NEW k \in Tasks, ForksReady(k) PROVE ControlOK'
    BY <1>19, Zenon DEF ForksReady
  <1>20. ASSUME NEW k \in Tasks, CommitTable(k) PROVE ControlOK'
    BY <1>20, SMTT(30) DEF CommitTable, Io, NeedsRecovery, Reply
  <1>21. ASSUME NEW k \in Tasks, Withdraw(k) PROVE ControlOK'
    BY <1>21, Zenon DEF Withdraw, NeedsRecovery, Reply
  <1>22. ASSUME NEW k \in Tasks, Retract(k) PROVE ControlOK'
    BY <1>22, SMTT(30) DEF Retract, Io, NeedsRecovery, Reply
  <1>23. ASSUME NEW k \in Tasks, Confirm(k) PROVE ControlOK'
    BY <1>23, SMTT(30) DEF Confirm, Io, NeedsRecovery, Reply
  <1>24. ASSUME NEW k \in Tasks, Publish(k) PROVE ControlOK'
    BY <1>24, SMTT(30) DEF Publish, Io, NeedsRecovery, Reply
  <1>25. ASSUME NEW k \in Tasks, CleanupSidecar(k) PROVE ControlOK'
    BY <1>25, SMTT(30) DEF CleanupSidecar, Io
  <1>26. ASSUME NEW p \in Procs, Crash(p) PROVE ControlOK'
    BY <1>26 DEF Crash
  <1>27. CASE UNCHANGED vars
    BY <1>27, Zenon DEF vars
  <1>. QED
    BY <1>1, <1>2, <1>3, <1>4, <1>5, <1>6, <1>7, <1>8, <1>9, <1>10, <1>11,
       <1>12, <1>13, <1>14, <1>15, <1>16, <1>17, <1>18, <1>19, <1>20, <1>21,
       <1>22, <1>23, <1>24, <1>25, <1>26, <1>27, Zenon
       DEF Next, TaskStep, Recover, Attempt

\* Every step keeps the tasks and the gates well typed.
LEMMA TasksType ==
    ASSUME TypeOK, Minted, [Next]_vars PROVE TasksOK'
  <1>. USE DEF TypeOK
  <1>1. ASSUME NEW k \in Tasks, BeginWrite(k) PROVE TasksOK'
    <2>1. req' \in [Tasks -> Request]
      <3>1. PICK kind \in Kinds :
              req' = [req EXCEPT ![k] =
                        [kind |-> kind, tries |-> 0,
                         base |-> [NoPlan EXCEPT !.want =
                                     IF kind = "cas" THEN GraphHead ELSE NoHead]]]
        BY <1>1, Zenon DEF BeginWrite
      <3>2. \A h \in Ids \cup {NoHead} : [NoPlan EXCEPT !.want = h] \in Plan
        BY Shapes, Zenon DEF Plan
      <3>3. kind \in {"insert", "strict", "cas"} /\ 0 \in 0..MaxReprepares
        BY ConstantsAssumption
      <3>. QED  BY <3>1, <3>2, <3>3, HeadType, Zenon DEF TasksOK, Request
    <2>2. job' \in [Tasks -> Job]
      <3>1. job' = [job EXCEPT ![k].mode = "RollForwardOnly"] /\ job \in [Tasks -> Job]
        BY <1>1, Zenon DEF BeginWrite, TasksOK
      <3>2. [job[k] EXCEPT !.mode = "RollForwardOnly"] \in Job
        BY <3>1, Zenon DEF Job
      <3>. QED  BY <3>1, <3>2, Zenon
    <2>. QED  BY <1>1, <2>1, <2>2, Zenon DEF BeginWrite, TasksOK, Goto, Points
  <1>2. ASSUME NEW k \in Tasks, BeginOpen(k) PROVE TasksOK'
    <2>1. job' \in [Tasks -> Job]
      BY <1>2 DEF BeginOpen, TasksOK, Job
    <2>. QED  BY <1>2, <2>1, ConstantsAssumption, Zenon DEF BeginOpen, TasksOK, Goto, Points
  <1>3. ASSUME NEW k \in Tasks, ListSidecars(k) PROVE TasksOK'
    <2>1. job' \in [Tasks -> Job]
      BY <1>3, Zenon DEF ListSidecars, TasksOK, Job, Pending
    <2>. QED  BY <1>3, <2>1, Zenon DEF ListSidecars, TasksOK, Goto, Points
  <1>4. ASSUME NEW k \in Tasks, NextSidecar(k) PROVE TasksOK'
    <2>1. job' \in [Tasks -> Job]
      BY <1>4 DEF NextSidecar, TasksOK, Job, Ops
    <2>. QED  BY <1>4, <2>1, ConstantsAssumption, Zenon DEF NextSidecar, TasksOK, Goto, Points
  <1>5. ASSUME NEW k \in Tasks, FinishPass(k) PROVE TasksOK'
    BY <1>5, LeaveType, AdvanceType, Zenon DEF FinishPass, Points
  <1>6. ASSUME NEW k \in Tasks, Classify(k) PROVE TasksOK'
    BY <1>6, LeaveType, AdvanceType, ToNextType, Zenon DEF Classify, Points
  <1>7. ASSUME NEW k \in Tasks, RollForward(k) PROVE TasksOK'
    BY <1>7, LeaveType, AdvanceType, Zenon DEF RollForward, Points
  <1>8. ASSUME NEW k \in Tasks, Audit(k) PROVE TasksOK'
    BY <1>8, LeaveType, AdvanceType, Zenon DEF Audit, Points
  <1>9. ASSUME NEW k \in Tasks, Unlink(k) PROVE TasksOK'
    BY <1>9, LeaveType, ToNextType, Zenon DEF Unlink
  <1>10. ASSUME NEW k \in Tasks, Reclaim(k) PROVE TasksOK'
    <2>1. CASE CleanForks(job[k].op)
      <3>1. PICK ts \in SUBSET Tables : job' = [job EXCEPT ![k].left = ts]
        <4>1. RestoreTargets(job[k].op) \in SUBSET Tables
          BY <1>10, InHandOp, Zenon DEF Reclaim, InHand, Gated, RestoreTargets, Compensable,
             SidecarsOK, Plan
        <4>. QED  BY <1>10, <2>1, <4>1, Zenon DEF Reclaim
      <3>2. job' \in [Tasks -> Job]
        BY <3>1, SMTT(30) DEF TasksOK, Job
      <3>. QED  BY <1>10, <2>1, <3>2, Zenon DEF Reclaim, TasksOK, Goto, Points
    <2>. QED  BY <1>10, <2>1, LeaveType, Zenon DEF Reclaim
  <1>11. ASSUME NEW k \in Tasks, PersistRollbackPlan(k) PROVE TasksOK'
    BY <1>11, LeaveType, AdvanceType, Zenon DEF PersistRollbackPlan, Points
  <1>12. ASSUME NEW k \in Tasks, RestoreTable(k) PROVE TasksOK'
    BY <1>12, LeaveType, DoneType, Zenon DEF RestoreTable, TasksOK, Job
  <1>13. ASSUME NEW k \in Tasks, RollBack(k) PROVE TasksOK'
    BY <1>13, LeaveType, AdvanceType, Zenon DEF RollBack, Points
  <1>14. ASSUME NEW k \in Tasks, Prepare(k) PROVE TasksOK'
    <2>1. CASE Leave(k)
      BY <2>1, LeaveType, Zenon
    <2>2. CASE ~Leave(k)
      <3>1. PICK tabs \in SUBSET Tables :
              req' = [req EXCEPT ![k].base =
                        [head |-> GraphHead, pins |-> pin, tabs |-> tabs,
                         forks |-> {t \in tabs : ~owned[t]}, want |-> req[k].base.want]]
        BY <1>14, <2>2, Zenon DEF Prepare
      <3>2. [head |-> GraphHead, pins |-> pin, tabs |-> tabs,
             forks |-> {t \in tabs : ~owned[t]}, want |-> req[k].base.want] \in Plan
        BY HeadType, Zenon DEF TasksOK, Request, StorageOK, Plan
      <3>3. req' \in [Tasks -> Request]
        BY <3>1, <3>2, Zenon DEF TasksOK, Request
      <3>. QED  BY <1>14, <2>2, <3>3, Zenon DEF Prepare, TasksOK, Goto, Points
    <2>. QED  BY <2>1, <2>2, Zenon
  <1>15. ASSUME NEW k \in Tasks, AcquireGates(k) PROVE TasksOK'
    BY <1>15, Zenon DEF AcquireGates, TasksOK, Goto, Points
  <1>16. ASSUME NEW k \in Tasks, Validate(k) PROVE TasksOK'
    BY <1>16, LeaveType, AdvanceType, RetryType, Zenon DEF Validate, Points
  <1>17. ASSUME NEW k \in Tasks, Arm(k) PROVE TasksOK'
    <2>1. \/ Leave(k)
          \/ /\ job' = [job EXCEPT ![k].op = nextOp, ![k].left = req[k].base.forks]
             /\ Goto(k, "publish") \/ Goto(k, "fork")
             /\ UNCHANGED <<gate, req>>
      BY <1>17, Zenon DEF Arm
    <2>2. req[k].base.forks \in SUBSET Tables
      BY Zenon DEF TasksOK, Request, Plan
    <2>3. nextOp \in 0..MaxOps
      BY <1>17, Shapes DEF Arm, ControlOK
    <2>4. [job EXCEPT ![k].op = nextOp, ![k].left = req[k].base.forks] \in [Tasks -> Job]
      BY <2>2, <2>3, Zenon DEF TasksOK, Job
    <2>. QED  BY <2>1, <2>4, LeaveType, Zenon DEF TasksOK, Goto, Points
  <1>18. ASSUME NEW k \in Tasks, ForkTable(k) PROVE TasksOK'
    BY <1>18, LeaveType, AdvanceType, DoneType, Zenon DEF ForkTable, Points, NeedsRecovery, TasksOK, Job
  <1>19. ASSUME NEW k \in Tasks, ForksReady(k) PROVE TasksOK'
    <2>1. req[k].base.tabs \in SUBSET Tables
      BY Zenon DEF TasksOK, Request, Plan
    <2>2. job' \in [Tasks -> Job]
      BY <1>19, <2>1 DEF ForksReady, TasksOK, Job
    <2>. QED  BY <1>19, <2>2, Zenon DEF ForksReady, TasksOK, Goto, Points
  <1>20. ASSUME NEW k \in Tasks, CommitTable(k) PROVE TasksOK'
    BY <1>20, LeaveType, AdvanceType, DoneType, Zenon DEF CommitTable, Points, NeedsRecovery, TasksOK, Job
  <1>21. ASSUME NEW k \in Tasks, Withdraw(k) PROVE TasksOK'
    <2>1. \/ Leave(k)
          \/ /\ req' \in {req, [req EXCEPT ![k].tries = MaxReprepares]}
             /\ Goto(k, "retract") /\ UNCHANGED <<gate, job>>
      BY <1>21, Zenon DEF Withdraw, NeedsRecovery
    <2>2. [req EXCEPT ![k].tries = MaxReprepares] \in [Tasks -> Request]
      BY ConstantsAssumption DEF TasksOK, Request
    <2>. QED  BY <2>1, <2>2, LeaveType, Zenon DEF TasksOK, Goto, Points
  <1>22. ASSUME NEW k \in Tasks, Retract(k) PROVE TasksOK'
    BY <1>22, LeaveType, RetryType, Zenon DEF Retract, NeedsRecovery
  <1>23. ASSUME NEW k \in Tasks, Confirm(k) PROVE TasksOK'
    BY <1>23, LeaveType, AdvanceType, Zenon DEF Confirm, NeedsRecovery, Points
  <1>24. ASSUME NEW k \in Tasks, Publish(k) PROVE TasksOK'
    BY <1>24, LeaveType, AdvanceType, RetryType, Zenon DEF Publish, NeedsRecovery, Points
  <1>25. ASSUME NEW k \in Tasks, CleanupSidecar(k) PROVE TasksOK'
    BY <1>25, LeaveType, Zenon DEF CleanupSidecar
  <1>26. ASSUME NEW p \in Procs, Crash(p) PROVE TasksOK'
    BY <1>26, Shapes, ConstantsAssumption, Zenon DEF Crash, TasksOK, Points
  <1>27. CASE UNCHANGED vars
    BY <1>27, Zenon DEF vars, TasksOK
  <1>. QED
    BY <1>1, <1>2, <1>3, <1>4, <1>5, <1>6, <1>7, <1>8, <1>9, <1>10, <1>11,
       <1>12, <1>13, <1>14, <1>15, <1>16, <1>17, <1>18, <1>19, <1>20, <1>21,
       <1>22, <1>23, <1>24, <1>25, <1>26, <1>27, Zenon
       DEF Next, TaskStep, Recover, Attempt

\* The type of every variable survives every step.
LEMMA TypeStep ==
    ASSUME TypeOK, Pinned, Captured, Minted, [Next]_vars PROVE TypeOK'
  BY StorageType, SidecarsType, ControlType, TasksType, Zenon DEF TypeOK

-----------------------------------------------------------------------------
\* Verdicts, gates, pins and histories.

\* What process_sidecar knows when it has decided.
LEMMA VerdictMeans ==
    ASSUME NEW o, NEW mode \in {"Full", "RollForwardOnly"}
    PROVE  /\ Verdict(o, mode) = "committed" => CommitId(o) \in Published
           /\ Verdict(o, mode) = "rolledBack" => RollbackId(o) \in Published
           /\ Verdict(o, mode) \in {"rollForward", "abandon", "rollBack"} =>
                /\ sc[o] # "none"
                /\ CommitId(o) \notin Published /\ RollbackId(o) \notin Published
           /\ Verdict(o, mode) = "rollForward" =>
                /\ AnyOwnEffect(o)
                /\ \A t \in plan[o].tabs : RolledPastExpected(o, t)
           /\ Verdict(o, mode) = "abandon" =>
                ~AnyOwnEffect(o) /\ (mode = "RollForwardOnly" => sc[o] # "Armed")
           /\ Verdict(o, mode) = "rollBack" => mode = "Full"
  BY Zenon DEF Verdict

\* What the classifier requires of a roll-forward and leaves to a rollback.
LEMMA VerdictPremises ==
    ASSUME NEW o, NEW mode \in {"Full", "RollForwardOnly"}
    PROVE  /\ Verdict(o, mode) = "rollForward" =>
                /\ sc[o] # "none" /\ GraphHead = plan[o].head
                /\ \A t \in plan[o].tabs : RolledPastExpected(o, t)
           /\ Verdict(o, mode) = "rollBack" =>
                /\ ~Interleaved(o)
                /\ ~(/\ GraphHead = plan[o].head
                     /\ \A t \in plan[o].tabs : RolledPastExpected(o, t))
  BY Zenon DEF Verdict

-----------------------------------------------------------------------------
\* The gates.

\* A step takes only a free gate and drops only its own.
LEMMA GateFrame ==
    ASSUME TasksOK, NEW k \in Tasks, TaskStep(k), NEW j \in Tasks, j # k,
           gate[ProcOf[j]] = j
    PROVE  gate'[ProcOf[j]] = j
  BY ConstantsAssumption, Zenon
     DEF TasksOK, TaskStep, Recover, Attempt, BeginWrite, BeginOpen,
         ListSidecars, NextSidecar, FinishPass, Classify, RollForward, Audit,
         Unlink, Reclaim, PersistRollbackPlan, RestoreTable, RollBack, Prepare,
         AcquireGates, Validate, Arm, ForkTable, ForksReady, CommitTable,
         Withdraw, Retract, Confirm, Publish, CleanupSidecar, Goto, Leave,
         Advance, Done, ToNext, NeedsRecovery, Retry, Release

\* Where a step leaves the task that takes it.
Held(k) ==
    /\ pc[k] \in Gated => gate[ProcOf[k]] = k
    /\ Sweeping(k) => gate[ProcOf[k]] = k
    /\ pc[k] \in Attempting => job[k].mode = "RollForwardOnly"
    /\ pc[k] \in {"reclaim", "auditPlan", "restore", "auditBack"} => Sweeping(k)

\* A task's own step keeps its hold on the gates: every control point behind
\* them is entered by taking the gate, and leaving them drops it.
LEMMA OwnGate ==
    ASSUME TasksOK, NEW k \in Tasks, Held(k), TaskStep(k)
    PROVE  Held(k)' /\ (Sweeping(k)' => Sweeping(k) \/ BeginOpen(k))
  <1>. USE ConstantsAssumption DEF TasksOK, Held, Sweeping, Gated, Attempting, Writer, PreConfirm, Job
  <1>1. CASE BeginWrite(k)
    BY <1>1 DEF BeginWrite, Goto
  <1>2. CASE BeginOpen(k)
    BY <1>2, Zenon DEF BeginOpen, Goto
  <1>3. CASE ListSidecars(k)
    BY <1>3 DEF ListSidecars, Goto
  <1>4. CASE NextSidecar(k)
    BY <1>4 DEF NextSidecar, Goto
  <1>5. CASE FinishPass(k)
    BY <1>5 DEF FinishPass, Leave, Advance, Goto
  <1>6. CASE Classify(k)
    BY <1>6, VerdictMeans DEF Classify, Leave, Advance, ToNext, Goto, Release
  <1>7. CASE RollForward(k)
    BY <1>7 DEF RollForward, Leave, Advance, Goto
  <1>8. CASE Audit(k)
    BY <1>8 DEF Audit, Leave, Advance, Goto
  <1>9. CASE Unlink(k)
    BY <1>9 DEF Unlink, Leave, ToNext, Goto, Release
  <1>10. CASE Reclaim(k)
    BY <1>10 DEF Reclaim, Leave, Goto
  <1>11. CASE PersistRollbackPlan(k)
    BY <1>11 DEF PersistRollbackPlan, Leave, Advance, Goto
  <1>12. CASE RestoreTable(k)
    BY <1>12 DEF RestoreTable, Leave, Done, Goto
  <1>13. CASE RollBack(k)
    BY <1>13 DEF RollBack, Leave, Advance, Goto
  <1>14. CASE Prepare(k)
    BY <1>14, Zenon DEF Prepare, Leave, Goto
  <1>15. CASE AcquireGates(k)
    BY <1>15, Zenon DEF AcquireGates, Goto
  <1>16. CASE Validate(k)
    BY <1>16 DEF Validate, Leave, Advance, Retry, Goto, Release
  <1>17. CASE Arm(k)
    BY <1>17 DEF Arm, Leave, Goto
  <1>18. CASE ForkTable(k)
    BY <1>18 DEF ForkTable, Leave, Advance, Done, Goto, NeedsRecovery
  <1>19. CASE ForksReady(k)
    BY <1>19 DEF ForksReady, Goto
  <1>20. CASE CommitTable(k)
    BY <1>20 DEF CommitTable, Leave, Advance, Done, Goto, NeedsRecovery
  <1>21. CASE Withdraw(k)
    BY <1>21 DEF Withdraw, Leave, Goto, NeedsRecovery
  <1>22. CASE Retract(k)
    BY <1>22 DEF Retract, Leave, Retry, Goto, Release, NeedsRecovery
  <1>23. CASE Confirm(k)
    BY <1>23 DEF Confirm, Leave, Advance, Goto, NeedsRecovery
  <1>24. CASE Publish(k)
    BY <1>24 DEF Publish, Leave, Advance, Retry, Goto, Release, NeedsRecovery
  <1>25. CASE CleanupSidecar(k)
    BY <1>25, Zenon DEF CleanupSidecar, Leave, Goto
  <1>. QED
    BY <1>1, <1>2, <1>3, <1>4, <1>5, <1>6, <1>7, <1>8, <1>9, <1>10, <1>11,
       <1>12, <1>13, <1>14, <1>15, <1>16, <1>17, <1>18, <1>19, <1>20, <1>21,
       <1>22, <1>23, <1>24, <1>25, Zenon DEF TaskStep, Recover, Attempt

\* The gates and the quiescence of foreign processes survive every step.
LEMMA ExclusiveStep ==
    ASSUME TasksOK, Exclusive, [Next]_vars PROVE Exclusive'
  <1>1. ASSUME NEW k \in Tasks, TaskStep(k) PROVE Exclusive'
    <2>1. \A j \in Tasks : Held(j)
      BY Zenon DEF Exclusive, Held
    <2>2. ASSUME NEW j \in Tasks PROVE Held(j)'
      <3>1. CASE j = k
        BY <1>1, <2>1, <3>1, OwnGate, Zenon
      <3>2. CASE j # k
        BY <1>1, <2>1, <3>2, TaskFrame, GateFrame DEF Held, Sweeping
      <3>. QED  BY <3>1, <3>2, Zenon
    <2>3. ASSUME NEW j \in Tasks, Sweeping(j)', NEW i \in Tasks, ProcOf[i] # ProcOf[j]
          PROVE  pc'[i] = "idle"
      <3>1. CASE j = k
        <4>1. ForeignIdle(k)
          BY <1>1, <2>1, <2>3, <3>1, OwnGate, Zenon DEF Exclusive, BeginOpen
        <4>. QED  BY <1>1, <2>3, <3>1, <4>1, TaskFrame, Zenon DEF ForeignIdle
      <3>2. CASE j # k
        <4>1. Sweeping(j) /\ ForeignIdle(j)
          BY <1>1, <2>3, <3>2, TaskFrame DEF Sweeping, Exclusive
        <4>2. i # k
          <5>1. SUFFICES ASSUME i = k PROVE FALSE
            BY Zenon
          <5>2. pc[k] = "idle" /\ ~NoForeignSweep(k) /\ ~ForeignIdle(k)
            BY <2>3, <4>1, <5>1, Zenon DEF ForeignIdle, NoForeignSweep, Sweeping
          <5>. QED  BY <1>1, <5>2, Zenon DEF TaskStep, Recover, Attempt, BeginWrite,
                 BeginOpen, ListSidecars, NextSidecar, FinishPass, Classify,
                 RollForward, Audit, Unlink, Reclaim, PersistRollbackPlan,
                 RestoreTable, RollBack, Prepare, AcquireGates, Validate, Arm,
                 ForkTable, ForksReady, CommitTable, Withdraw, Retract, Confirm,
                 Publish, CleanupSidecar
        <4>. QED  BY <1>1, <2>3, <4>1, <4>2, TaskFrame, Zenon DEF ForeignIdle
      <3>. QED  BY <3>1, <3>2, Zenon
    <2>. QED  BY <2>2, <2>3, Zenon DEF Exclusive, Held, ForeignIdle
  <1>2. ASSUME NEW p \in Procs, Crash(p) PROVE Exclusive'
    <2>1. ASSUME NEW j \in Tasks PROVE Held(j)'
      BY <1>2, <2>1, CrashFrame DEF Exclusive, Held, Sweeping, Gated, Attempting,
         Writer, PreConfirm
    <2>2. ASSUME NEW j \in Tasks, Sweeping(j)', NEW i \in Tasks, ProcOf[i] # ProcOf[j]
          PROVE  pc'[i] = "idle"
      BY <1>2, <2>2, CrashFrame DEF Exclusive, Sweeping, ForeignIdle
    <2>. QED  BY <2>1, <2>2, Zenon DEF Exclusive, Held, ForeignIdle
  <1>3. CASE UNCHANGED vars
    BY <1>3, Zenon DEF vars, Exclusive, Sweeping, ForeignIdle
  <1>. QED  BY <1>1, <1>2, <1>3, Zenon DEF Next

\* Beside a Full sweep no other task is past the gates.
LEMMA SweepAlone ==
    ASSUME Exclusive, NEW k \in Tasks, Sweeping(k), NEW j \in Tasks, pc[j] \in Gated
    PROVE  j = k
  BY DEF Exclusive, ForeignIdle, Gated

-----------------------------------------------------------------------------
\* What a step does to the tables and to the manifest.

\* History t keeps its versions; history t alone gains version v; history t
\* alone is cut back to its fork point.
Kept(t) ==
    /\ Len(log[t]) <= Len(log'[t])
    /\ \A i \in 1..Len(log[t]) : log'[t][i] = log[t][i]
Grown(t, v) ==
    /\ Kept(t)
    /\ Len(log'[t]) = Len(log[t]) + 1
    /\ log'[t][Len(log[t]) + 1] = v
    /\ \A u \in Tables \ {t} : log'[u] = log[u]
Cut(t) ==
    /\ Len(log'[t]) = 1
    /\ log'[t][1] = log[t][1]
    /\ \A u \in Tables \ {t} : log'[u] = log[u]

RestoreOf(t) == [op |-> 0, restore |-> pin[t], rows |-> log[t][pin[t]].rows]
EffectOf(o, t) == [op |-> o, restore |-> 0, rows |-> Top(t).rows \cup {o}]

\* Appending a version keeps the older ones and the other tables.
LEMMA AppendGrows ==
    ASSUME StorageOK, NEW t \in Tables, NEW v \in Version,
           log' = [log EXCEPT ![t] = Append(@, v)]
    PROVE  Grown(t, v)
  <1>1. log[t] \in Seq(Version) /\ log'[t] = Append(log[t], v)
    BY Zenon DEF StorageOK
  <1>2. \A u \in Tables \ {t} : log'[u] = log[u]
    BY Zenon DEF StorageOK
  <1>. QED  BY <1>1, <1>2 DEF Grown, Kept

\* A table step in one of its five shapes.
LEMMA TableEffect ==
    ASSUME TypeOK, Pinned, Captured, Minted, [Next]_vars
    PROVE  \/ UNCHANGED <<log, ref>>
           \/ \E k \in Tasks : /\ Reclaim(k) \/ Withdraw(k)
                               /\ CleanForks(job[k].op) /\ ReclaimForks(job[k].op)
           \/ \E k \in Tasks, t \in Tables :
                /\ RestoreTable(k) /\ t \in job[k].left /\ ref' = ref
                /\ Grown(t, RestoreOf(t))
           \/ \E k \in Tasks, t \in Tables :
                /\ ForkTable(k) /\ t \in job[k].left /\ ref' = [ref EXCEPT ![t] = TRUE]
                /\ ~owned[t] /\ ~(ref[t] /\ Claimed(job[k].op, t)) /\ Cut(t)
           \/ \E k \in Tasks, t \in Tables :
                /\ CommitTable(k) /\ t \in job[k].left /\ ref' = ref
                /\ Grown(t, EffectOf(job[k].op, t))
  <1>1. ASSUME NEW k \in Tasks, Reclaim(k) \/ Withdraw(k)
        PROVE  \/ UNCHANGED <<log, ref>>
               \/ CleanForks(job[k].op) /\ ReclaimForks(job[k].op)
    BY <1>1, Zenon DEF Reclaim, Withdraw, table
  <1>2. ASSUME NEW k \in Tasks, RestoreTable(k)
        PROVE  \/ UNCHANGED <<log, ref>>
               \/ \E t \in Tables : t \in job[k].left /\ ref' = ref /\ Grown(t, RestoreOf(t))
    <2>1. PICK t \in Tables :
            /\ t \in job[k].left /\ ref' = ref
            /\ log' = log \/ log' = [log EXCEPT ![t] = Append(@, RestoreOf(t))]
      BY <1>2, Zenon DEF RestoreTable, TypeOK, TasksOK, Job, RestoreOf
    <2>2. RestoreOf(t) \in Version
      <3>1. log[t][pin[t]] \in Version /\ pin[t] \in Nat
        BY DEF Pinned, TypeOK, StorageOK
      <3>. QED  BY <3>1, Shapes DEF RestoreOf, Version
    <2>. QED  BY <2>1, <2>2, AppendGrows, Zenon DEF TypeOK
  <1>3. ASSUME NEW k \in Tasks, ForkTable(k)
        PROVE  \/ UNCHANGED <<log, ref>>
               \/ \E t \in Tables :
                    /\ t \in job[k].left /\ ref' = [ref EXCEPT ![t] = TRUE]
                    /\ ~owned[t] /\ ~(ref[t] /\ Claimed(job[k].op, t)) /\ Cut(t)
    <2>1. \/ UNCHANGED <<log, ref>>
          \/ \E t \in Tables :
               /\ t \in job[k].left /\ ref' = [ref EXCEPT ![t] = TRUE]
               /\ ~owned[t] /\ ~(ref[t] /\ Claimed(job[k].op, t))
               /\ log' = [log EXCEPT ![t] = SubSeq(@, 1, req[k].base.pins[t])]
      BY <1>3, Zenon DEF ForkTable, TypeOK, TasksOK, Job, table, Pinned
    <2>2. ASSUME NEW t \in Tables, ~owned[t],
                 log' = [log EXCEPT ![t] = SubSeq(@, 1, req[k].base.pins[t])]
          PROVE  Cut(t)
      <3>1. req[k].base.pins[t] = 1 /\ Len(log[t]) >= 1 /\ log[t] \in Seq(Version)
        BY <2>2 DEF Captured, Pinned, TypeOK, StorageOK
      <3>2. log'[t] = SubSeq(log[t], 1, 1) /\ \A u \in Tables \ {t} : log'[u] = log[u]
        BY <2>2, <3>1, Zenon DEF TypeOK, StorageOK
      <3>. QED  BY <3>1, <3>2 DEF Cut
    <2>. QED  BY <2>1, <2>2, Zenon
  <1>4. ASSUME NEW k \in Tasks, CommitTable(k)
        PROVE  \/ UNCHANGED <<log, ref>>
               \/ \E t \in Tables : /\ t \in job[k].left /\ ref' = ref
                                    /\ Grown(t, EffectOf(job[k].op, t))
    <2>1. PICK t \in Tables :
            /\ t \in job[k].left /\ ref' = ref
            /\ log' = log \/ log' = [log EXCEPT ![t] = Append(@, EffectOf(job[k].op, t))]
      BY <1>4, Zenon DEF CommitTable, TypeOK, TasksOK, Job, EffectOf
    <2>2. EffectOf(job[k].op, t) \in Version
      <3>1. Top(t) \in Version
        BY DEF Pinned, TypeOK, StorageOK, Top
      <3>2. job[k].op \in Ops
        BY <1>4, InHandOp, Zenon DEF CommitTable, InHand, Gated
      <3>. QED  BY <3>1, <3>2 DEF EffectOf, Version, Ops
    <2>. QED  BY <2>1, <2>2, AppendGrows, Zenon DEF TypeOK
  <1>. QED  BY <1>1, <1>2, <1>3, <1>4, TablesStep, Zenon DEF table
\* A history loses versions only when a new fork replaces a ref that neither
\* the manifest nor another sidecar knows.
LEMMA KeptUnlessForked ==
    ASSUME TypeOK, Pinned, Captured, Minted, [Next]_vars, NEW t \in Tables
    PROVE  \/ Kept(t)
           \/ \E k \in Tasks : /\ ForkTable(k) /\ Cut(t)
                               /\ ~owned[t] /\ ref[t] /\ ~Claimed(job[k].op, t)
  <1>1. ASSUME log'[t] = log[t] PROVE Kept(t)
    BY <1>1 DEF Kept, TypeOK, StorageOK
  <1>2. ASSUME NEW u \in Tables, NEW v, Grown(u, v) PROVE Kept(t)
    BY <1>1, <1>2, Zenon DEF Grown
  <1>3. ASSUME NEW u \in Tables, Cut(u), ~ref[u] \/ u # t PROVE Kept(t)
    <2>1. CASE u # t
      BY <1>1, <1>3, <2>1, Zenon DEF Cut
    <2>2. CASE u = t
      BY <1>3, <2>2 DEF Cut, Kept, Pinned
    <2>. QED  BY <2>1, <2>2, Zenon
  <1>. QED  BY <1>1, <1>2, <1>3, TableEffect, Zenon DEF ReclaimForks

\* Published ids accumulate.
LEMMA PublishedGrows ==
    ASSUME StorageOK, NEW tabs, NEW at, NEW id, PublishManifest(tabs, at, id)
    PROVE  Published' = Published \cup {id}
  <1>1. lineage' = Append(lineage, id) /\ lineage \in Seq(Ids)
    BY Zenon DEF PublishManifest, StorageOK
  <1>2. /\ DOMAIN lineage = 1..Len(lineage) /\ Len(lineage) \in Nat
        /\ DOMAIN lineage' = 1..(Len(lineage) + 1)
        /\ \A i \in 1..Len(lineage) : lineage'[i] = lineage[i]
        /\ lineage'[Len(lineage) + 1] = id
    BY <1>1
  <1>. QED  BY <1>2 DEF Published

\* Publishing a commit id commits that operation and rolls none back.
LEMMA CommitPublished ==
    ASSUME NEW o \in Ops, Published' = Published \cup {CommitId(o)}
    PROVE  /\ Committed' = Committed \cup {o}
           /\ \A x \in Ops : RollbackId(x) \in Published' <=> RollbackId(x) \in Published
  BY Zenon DEF Committed, CommitId, RollbackId

\* Publishing a rollback id commits nothing.
LEMMA RollbackPublished ==
    ASSUME NEW o \in Ops, Published' = Published \cup {RollbackId(o)}
    PROVE  /\ Committed' = Committed
           /\ \A x \in Ops : RollbackId(x) \in Published' <=>
                               (x = o \/ RollbackId(x) \in Published)
  BY Zenon DEF Committed, CommitId, RollbackId

\* A publish selects the exact effects of an operation on its authority, or
\* it is a rollback.
LEMMA PublishEffect ==
    ASSUME TypeOK, Minted, Recorded, Phases, [Next]_vars
    PROVE  \/ UNCHANGED manifest
           \/ /\ UNCHANGED <<table, plan>>
              /\ \E k \in Tasks :
                   LET o == job[k].op IN
                   /\ RollForward(k) \/ Publish(k)
                   /\ o \in Ops /\ CanPublish(o) /\ Landed(o, plan[o].tabs)
                   /\ PublishManifest(plan[o].tabs, Effects(o), CommitId(o))
           \/ /\ UNCHANGED <<table, plan>>
              /\ \E k \in Tasks :
                   LET o == job[k].op IN
                   /\ RollBack(k) /\ o \in Ops
                   /\ PublishManifest(Compensable(o), LiveHeads, RollbackId(o))
  <1>1. ASSUME NEW k \in Tasks, RollForward(k) \/ RollBack(k) \/ Publish(k)
        PROVE  job[k].op \in Ops /\ UNCHANGED <<table, plan>>
    <2>1. job[k].op \in Ops
      BY <1>1, InHandOp, Zenon DEF RollForward, RollBack, Publish, InHand, Gated
    <2>. QED  BY <1>1, <2>1, Zenon DEF RollForward, RollBack, Publish, sidecars
  <1>2. ASSUME NEW k \in Tasks, RollForward(k) \/ Publish(k)
        PROVE  \/ UNCHANGED manifest
               \/ /\ CanPublish(job[k].op)
                  /\ PublishManifest(plan[job[k].op].tabs, Effects(job[k].op),
                                     CommitId(job[k].op))
    BY <1>2, Zenon DEF RollForward, Publish
  <1>3. ASSUME NEW k \in Tasks, RollForward(k) \/ Publish(k), CanPublish(job[k].op)
        PROVE  Landed(job[k].op, plan[job[k].op].tabs)
    <2>. DEFINE o == job[k].op
    <2>1. plan[o].tabs = {} \/ sc[o] = "EffectsConfirmed" \/ o \in Committed
      BY <1>3, Zenon DEF RollForward, Publish, Phases, Phase
    <2>2. CASE plan[o].tabs = {}
      BY <2>2, Zenon DEF Landed
    <2>3. CASE sc[o] = "EffectsConfirmed"
      BY <1>1, <1>3, <2>3, Zenon DEF Recorded
    <2>4. ASSUME o \in Committed, plan[o].tabs # {} PROVE FALSE
      <3>1. PICK t \in plan[o].tabs : TRUE
        BY <2>4, Zenon
      <3>2. t \in Tables /\ plan[o].pins[t] \in Nat
        BY <1>1, <1>3 DEF TypeOK, SidecarsOK, Plan
      <3>3. pin[t] > plan[o].pins[t] /\ pin[t] = plan[o].pins[t]
        BY <1>1, <1>3, <2>4, Zenon DEF Recorded, CanPublish
      <3>. QED  BY <3>2, <3>3
    <2>. QED  BY <2>1, <2>2, <2>3, <2>4, Zenon
  <1>4. ASSUME NEW k \in Tasks, RollBack(k)
        PROVE  \/ UNCHANGED manifest
               \/ PublishManifest(Compensable(job[k].op), LiveHeads, RollbackId(job[k].op))
    BY <1>4, Zenon DEF RollBack
  <1>. QED  BY <1>1, <1>2, <1>3, <1>4, ManifestStep, Zenon

-----------------------------------------------------------------------------
\* The table invariants.

\* A step that moves tables leaves the manifest and the sidecars alone.
LEMMA TableAlone ==
    ASSUME NEW k \in Tasks,
           \/ Reclaim(k) \/ Withdraw(k) \/ RestoreTable(k) \/ ForkTable(k)
           \/ CommitTable(k)
    PROVE  UNCHANGED <<pin, owned, lineage, plan, sc>>
  BY Zenon DEF Reclaim, Withdraw, RestoreTable, ForkTable, CommitTable, manifest, sidecars

\* An owned effect lies past the pinned version, so its table has a ref.
LEMMA OwnNeedsRef ==
    ASSUME TypeOK, Pinned, Captured, NEW o \in Ops, NEW t \in Tables,
           OwnVersions(o, t) # {}
    PROVE  ref[t] /\ Len(log[t]) >= plan[o].pins[t] + 1
  <1>1. plan[o].pins[t] \in Nat /\ plan[o].pins[t] >= 1 /\ Len(log[t]) \in Nat
    BY DEF TypeOK, SidecarsOK, Plan, StorageOK, Captured
  <1>2. Len(log[t]) >= plan[o].pins[t] + 1
    BY <1>1 DEF OwnVersions
  <1>3. Len(log[t]) # 1
    <2>1. \A n, p \in Nat : p >= 1 /\ n >= p + 1 => n # 1
      OBVIOUS
    <2>. QED  BY <1>1, <1>2, <2>1, Zenon
  <1>. QED  BY <1>2, <1>3, Zenon DEF Pinned

\* Pins keep selecting existing versions of existing refs: a fork is dropped
\* or cut only while the manifest does not select it.
LEMMA PinnedStep ==
    ASSUME WriteInv, [Next]_vars PROVE Pinned'
  <1>. USE DEF WriteInv
  <1>1. CASE UNCHANGED <<log, ref, pin, owned>>
    BY <1>1, Zenon DEF Pinned
  <1>2. ASSUME NEW k \in Tasks, Reclaim(k) \/ Withdraw(k), CleanForks(job[k].op),
               ReclaimForks(job[k].op)
        PROVE  Pinned'
    <2>1. job[k].op \in Ops
      BY <1>2, InHandOp, Zenon DEF Reclaim, Withdraw, InHand, Gated
    <2>2. UNCHANGED <<pin, owned, log>>
      BY <1>2, TableAlone, Zenon DEF ReclaimForks
    <2>3. ASSUME NEW t \in Tables PROVE (owned[t] => ref'[t]) /\ (~ref'[t] => Len(log[t]) = 1)
      <3>1. CASE t \in Reclaimable(job[k].op)
        BY <1>2, <2>1, <3>1, Zenon DEF ReclaimForks, CleanForks, Reclaimable, UnpublishedForks, Captured
      <3>2. CASE t \notin Reclaimable(job[k].op)
        BY <1>2, <3>2, Zenon DEF ReclaimForks, Pinned
      <3>. QED  BY <3>1, <3>2, Zenon
    <2>. QED  BY <2>2, <2>3, Zenon DEF Pinned
  <1>3. ASSUME NEW k \in Tasks, NEW t \in Tables, NEW v, RestoreTable(k) \/ CommitTable(k),
               t \in job[k].left, ref' = ref, Grown(t, v)
        PROVE  Pinned'
    <2>1. job[k].op \in Ops
      BY <1>3, InHandOp, Zenon DEF RestoreTable, CommitTable, InHand, Gated
    <2>2. ref[t]
      <3>1. CASE CommitTable(k)
        BY <1>3, <3>1, Zenon DEF CommitTable, Phases, Phase
      <3>2. CASE RestoreTable(k)
        <4>1. OwnAtHead(job[k].op, t)
          BY <1>3, <3>2, Zenon DEF RestoreTable, Phases, Phase
        <4>. QED  BY <2>1, <4>1, OwnNeedsRef, Zenon DEF OwnAtHead
      <3>. QED  BY <1>3, <3>1, <3>2, Zenon
    <2>3. UNCHANGED <<pin, owned, ref>>
      BY <1>3, TableAlone, Zenon
    <2>4. \A u \in Tables : Len(log'[u]) = IF u = t THEN Len(log[u]) + 1 ELSE Len(log[u])
      BY <1>3, Zenon DEF Grown
    <2>5. \A u \in Tables : Len(log[u]) \in Nat /\ pin[u] \in Nat
      BY DEF TypeOK, StorageOK
    <2>. QED  BY <2>2, <2>3, <2>4, <2>5 DEF Pinned
  <1>4. ASSUME NEW k \in Tasks, NEW t \in Tables, ForkTable(k), ~owned[t],
               ref' = [ref EXCEPT ![t] = TRUE], Cut(t)
        PROVE  Pinned'
    <2>1. UNCHANGED <<pin, owned>>
      BY <1>4, TableAlone, Zenon
    <2>2. \A u \in Tables : ref'[u] = (u = t \/ ref[u])
      BY <1>4, Zenon DEF TypeOK, StorageOK
    <2>. QED  BY <1>4, <2>1, <2>2 DEF Pinned, Cut
  <1>5. ASSUME NEW k \in Tasks, NEW o \in Ops, UNCHANGED table,
               Landed(o, plan[o].tabs), PublishManifest(plan[o].tabs, Effects(o), CommitId(o))
        PROVE  Pinned'
    <2>1. ASSUME NEW t \in Tables
          PROVE  /\ pin'[t] \in 1..Len(log[t]) /\ (owned'[t] => ref[t])
                 /\ (~owned'[t] => pin'[t] = 1)
      <3>1. pin'[t] = (IF t \in plan[o].tabs THEN plan[o].pins[t] + 1 ELSE pin[t])
        BY <1>5, Zenon DEF PublishManifest, Effects
      <3>2. owned'[t] = (owned[t] \/ t \in plan[o].tabs)
        BY <1>5, Zenon DEF PublishManifest
      <3>3. /\ plan[o].pins[t] \in Nat /\ plan[o].pins[t] >= 1
            /\ pin[t] \in Nat /\ Len(log[t]) \in Nat
        BY SMTT(30) DEF TypeOK, SidecarsOK, Plan, StorageOK, Captured
      <3>4. CASE t \in plan[o].tabs
        <4>1. plan[o].pins[t] + 1 <= Len(log[t]) /\ Len(log[t]) # 1
          BY <1>5, <3>3, <3>4, SMTT(30) DEF Landed, LandedOn
        <4>2. ref[t] /\ owned'[t]
          BY <3>2, <3>4, <4>1, Zenon DEF Pinned
        <4>. QED  BY <3>1, <3>3, <3>4, <4>1, <4>2
      <3>5. CASE t \notin plan[o].tabs
        BY <3>1, <3>2, <3>5, Zenon DEF Pinned
      <3>. QED  BY <3>4, <3>5, Zenon
    <2>. QED  BY <1>5, <2>1, Zenon DEF Pinned, table
  <1>6. ASSUME NEW k \in Tasks, NEW o \in Ops, UNCHANGED table,
               PublishManifest(Compensable(o), LiveHeads, RollbackId(o))
        PROVE  Pinned'
    <2>1. ASSUME NEW t \in Tables
          PROVE  /\ pin'[t] \in 1..Len(log[t]) /\ (owned'[t] => ref[t])
                 /\ (~owned'[t] => pin'[t] = 1)
      <3>1. pin'[t] = (IF t \in Compensable(o) THEN Len(log[t]) ELSE pin[t])
        BY <1>6, Zenon DEF PublishManifest, LiveHeads
      <3>2. owned'[t] = (owned[t] \/ t \in Compensable(o))
        BY <1>6, Zenon DEF PublishManifest
      <3>3. t \in Compensable(o) => ref[t]
        BY OwnNeedsRef, Zenon DEF Compensable, OwnAtHead, OwnCompensatedAtHead
      <3>4. pin[t] \in 1..Len(log[t]) /\ Len(log[t]) \in Nat
        BY DEF Pinned, TypeOK, StorageOK
      <3>5. (owned'[t] => ref[t]) /\ (~owned'[t] => pin[t] = 1 /\ t \notin Compensable(o))
        BY <3>2, <3>3, Zenon DEF Pinned
      <3>. QED  BY <3>1, <3>4, <3>5, SMTT(30)
    <2>. QED  BY <1>6, <2>1, Zenon DEF Pinned, table
  <1>7. CASE UNCHANGED manifest
    BY <1>1, <1>2, <1>3, <1>4, <1>7, TableEffect, Zenon DEF manifest
  <1>. QED  BY <1>5, <1>6, <1>7, PublishEffect, Zenon

\* The manifest only moves forward.
LEMMA ManifestGrows ==
    ASSUME WriteInv, [Next]_vars, NEW t \in Tables
    PROVE  pin[t] <= pin'[t] /\ (owned[t] => owned'[t])
  <1>. USE DEF WriteInv
  <1>1. pin[t] \in Nat /\ Len(log[t]) \in Nat /\ pin[t] <= Len(log[t])
    BY DEF TypeOK, StorageOK, Pinned
  <1>2. ASSUME NEW o \in Ops, CanPublish(o),
               PublishManifest(plan[o].tabs, Effects(o), CommitId(o))
        PROVE  pin[t] <= pin'[t] /\ (owned[t] => owned'[t])
    <2>1. plan[o].pins[t] \in Nat
      BY DEF TypeOK, SidecarsOK, Plan
    <2>2. pin'[t] = (IF t \in plan[o].tabs THEN plan[o].pins[t] + 1 ELSE pin[t])
      BY <1>2, Zenon DEF PublishManifest, Effects
    <2>3. owned[t] => owned'[t]
      BY <1>2, Zenon DEF PublishManifest
    <2>4. t \in plan[o].tabs => pin[t] = plan[o].pins[t]
      BY <1>2, Zenon DEF CanPublish
    <2>. QED  BY <1>1, <2>1, <2>2, <2>3, <2>4
  <1>3. ASSUME NEW o \in Ops, PublishManifest(Compensable(o), LiveHeads, RollbackId(o))
        PROVE  pin[t] <= pin'[t] /\ (owned[t] => owned'[t])
    <2>1. pin'[t] = (IF t \in Compensable(o) THEN Len(log[t]) ELSE pin[t])
      BY <1>3, Zenon DEF PublishManifest, LiveHeads
    <2>2. owned[t] => owned'[t]
      BY <1>3, Zenon DEF PublishManifest
    <2>. QED  BY <1>1, <2>1, <2>2
  <1>. QED  BY <1>1, <1>2, <1>3, PublishEffect, SMTT(30) DEF manifest

\* The captured base of a request is kept, dropped or captured anew.
LEMMA BaseStep ==
    ASSUME TypeOK, NEW k \in Tasks, TaskStep(k)
    PROVE  \/ req'[k].base = req[k].base
           \/ /\ req'[k].base.pins = [t \in Tables |-> 1]
              /\ req'[k].base.tabs = {} /\ req'[k].base.forks = {}
           \/ /\ Prepare(k)
              /\ \E tabs \in SUBSET Tables :
                   req'[k].base = [head |-> GraphHead, pins |-> pin, tabs |-> tabs,
                                   forks |-> {t \in tabs : ~owned[t]},
                                   want |-> req[k].base.want]
  <1>. USE DEF TypeOK, TasksOK
  <1>1. CASE Leave(k)
    BY <1>1, Zenon DEF Leave, NoReq, NoPlan
  <1>2. CASE Retry(k)
    BY <1>1, <1>2, Zenon DEF Retry, Request
  <1>3. CASE BeginWrite(k)
    BY <1>3 DEF BeginWrite, NoPlan
  <1>4. CASE Prepare(k)
    BY <1>1, <1>4, Zenon DEF Prepare, Request
  <1>5. CASE Withdraw(k)
    BY <1>1, <1>5, Zenon DEF Withdraw, NeedsRecovery, Request
  <1>6. CASE \/ BeginOpen(k) \/ ListSidecars(k) \/ NextSidecar(k) \/ FinishPass(k)
             \/ Classify(k) \/ RollForward(k) \/ Audit(k) \/ Unlink(k) \/ Reclaim(k)
             \/ PersistRollbackPlan(k) \/ RestoreTable(k) \/ RollBack(k)
    <2>1. Leave(k) \/ req' = req
      BY <1>6, Zenon DEF BeginOpen, ListSidecars, NextSidecar, FinishPass, Classify,
         RollForward, Audit, Unlink, Reclaim, PersistRollbackPlan, RestoreTable,
         RollBack, Advance, ToNext, Done
    <2>. QED  BY <1>1, <2>1, Zenon
  <1>7. CASE \/ AcquireGates(k) \/ Validate(k) \/ Arm(k) \/ ForkTable(k)
             \/ ForksReady(k) \/ CommitTable(k) \/ Retract(k) \/ Confirm(k)
             \/ Publish(k) \/ CleanupSidecar(k)
    <2>1. Leave(k) \/ Retry(k) \/ req' = req
      BY <1>7, Zenon DEF AcquireGates, Validate, Arm, ForkTable, ForksReady, CommitTable,
         Retract, Confirm, Publish, CleanupSidecar, Advance, Done, NeedsRecovery
    <2>. QED  BY <1>1, <1>2, <2>1, Zenon
  <1>. QED  BY <1>3, <1>4, <1>5, <1>6, <1>7, Zenon DEF TaskStep, Recover, Attempt

\* Captured pins stay at the fork point of every table not yet selected.
LEMMA CapturedStep ==
    ASSUME WriteInv, [Next]_vars PROVE Captured'
  <1>. DEFINE PinsOK(pins, t, own) == pins[t] >= 1 /\ (~own => pins[t] = 1)
              BaseOK(base, t, own) ==
                PinsOK(base.pins, t, own) /\ (t \in base.tabs \ base.forks => own)
  <1>. USE DEF WriteInv
  <1>1. ASSUME NEW k \in Tasks, NEW t \in Tables PROVE BaseOK(req'[k].base, t, owned'[t])
    <2>1. BaseOK(req[k].base, t, owned[t])
      BY Zenon DEF Captured
    <2>2. owned[t] => owned'[t]
      BY ManifestGrows, Zenon
    <2>3. CASE req'[k].base = req[k].base
      BY <2>1, <2>2, <2>3, Zenon
    <2>4. CASE req'[k].base.pins = [u \in Tables |-> 1] /\ req'[k].base.tabs = {}
      BY <2>4
    <2>5. ASSUME Prepare(k), NEW tabs \in SUBSET Tables,
                 req'[k].base = [head |-> GraphHead, pins |-> pin, tabs |-> tabs,
                                 forks |-> {u \in tabs : ~owned[u]},
                                 want |-> req[k].base.want]
          PROVE  BaseOK(req'[k].base, t, owned'[t])
      <3>1. pin[t] >= 1 /\ (~owned[t] => pin[t] = 1)
        BY DEF Pinned, TypeOK, StorageOK
      <3>. QED  BY <2>2, <2>5, <3>1, SMTT(30)
    <2>6. ASSUME NEW j \in Tasks, TaskStep(j) PROVE BaseOK(req'[k].base, t, owned'[t])
      <3>1. CASE j = k
        BY <2>3, <2>4, <2>5, <2>6, <3>1, BaseStep, Zenon
      <3>2. CASE j # k
        BY <2>3, <2>6, <3>2, TaskFrame, Zenon DEF TypeOK
      <3>. QED  BY <3>1, <3>2, Zenon
    <2>7. ASSUME NEW p \in Procs, Crash(p) PROVE BaseOK(req'[k].base, t, owned'[t])
      BY <2>3, <2>4, <2>7, CrashFrame, SMTT(30) DEF NoReq, NoPlan
    <2>8. CASE UNCHANGED vars
      BY <2>3, <2>8, Zenon DEF vars
    <2>. QED  BY <2>6, <2>7, <2>8, Zenon DEF Next
  <1>2. ASSUME NEW o \in Ops, NEW t \in Tables PROVE PinsOK(plan'[o].pins, t, owned'[t])
    <2>1. PinsOK(plan[o].pins, t, owned[t])
      BY Zenon DEF Captured
    <2>2. owned[t] => owned'[t]
      BY ManifestGrows, Zenon
    <2>3. ASSUME NEW k \in Tasks, Arm(k)
          PROVE  plan'[o] = plan[o] \/ plan'[o] = req[k].base
      BY <2>3, Zenon DEF Arm, TypeOK, SidecarsOK
    <2>4. \A k \in Tasks : PinsOK(req[k].base.pins, t, owned[t])
      BY Zenon DEF Captured
    <2>. QED  BY <2>1, <2>2, <2>3, <2>4, PlanStep, Zenon
  <1>. QED  BY <1>1, <1>2, Zenon DEF Captured

\* A restored version keeps the contents of the version it copied.
LEMMA RestoredStep ==
    ASSUME WriteInv, [Next]_vars PROVE Restored'
  <1>. USE DEF WriteInv
  <1>. SUFFICES ASSUME NEW t \in Tables, NEW v \in 1..Len(log'[t]), log'[t][v].restore # 0
                PROVE  /\ log'[t][v].restore < v
                       /\ log'[t][v].rows = log'[t][log'[t][v].restore].rows
    BY Zenon DEF Restored
  <1>1. /\ Len(log[t]) \in Nat /\ pin[t] \in 1..Len(log[t])
        /\ \A i \in 1..Len(log[t]) : log[t][i].restore \in Nat
    <2>1. \A i \in 1..Len(log[t]) : log[t][i] \in Version
      BY DEF TypeOK, StorageOK
    <2>. QED  BY <2>1 DEF Pinned, TypeOK, StorageOK, Version
  <1>. DEFINE Goal == /\ log'[t][v].restore < v
                      /\ log'[t][v].rows = log'[t][log'[t][v].restore].rows
  <1>2. CASE log'[t] = log[t]
    BY <1>2, Zenon DEF Restored
  <1>3. ASSUME NEW w, Grown(t, w), w.restore = 0 \/ w = RestoreOf(t) PROVE Goal
    <2>1. CASE v <= Len(log[t])
      <3>1. log'[t][v] = log[t][v]
        BY <1>1, <1>3, <2>1 DEF Grown, Kept
      <3>2. log[t][v].restore < v /\ log[t][v].rows = log[t][log[t][v].restore].rows
        BY <1>1, <2>1, <3>1, SMTT(30) DEF Restored
      <3>3. log[t][v].restore \in 1..Len(log[t])
        BY <1>1, <2>1, <3>1, <3>2
      <3>4. log'[t][log[t][v].restore] = log[t][log[t][v].restore]
        BY <1>3, <3>3, Zenon DEF Grown, Kept
      <3>. QED  BY <3>1, <3>2, <3>4, Zenon
    <2>2. CASE v > Len(log[t])
      <3>1. v = Len(log[t]) + 1 /\ log'[t][v] = w
        BY <1>1, <1>3, <2>2 DEF Grown
      <3>2. w = RestoreOf(t) /\ w.restore = pin[t] /\ w.rows = log[t][pin[t]].rows
        BY <1>3, <3>1, SMTT(30) DEF RestoreOf
      <3>3. log'[t][pin[t]] = log[t][pin[t]]
        BY <1>1, <1>3, Zenon DEF Grown, Kept
      <3>. QED  BY <1>1, <3>1, <3>2, <3>3, SMTT(30)
    <2>. QED  BY <1>1, <2>1, <2>2, SMTT(30)
  <1>4. CASE Cut(t)
    <2>1. v = 1 /\ log'[t][1] = log[t][1]
      BY <1>4 DEF Cut
    <2>. QED  BY <1>1, <2>1, SMTT(30) DEF Restored
  <1>5. \A o : EffectOf(o, t).restore = 0
    BY Zenon DEF EffectOf
  <1>6. \A u \in Tables : \A w : Grown(u, w) /\ u # t => log'[t] = log[t]
    BY Zenon DEF Grown
  <1>7. \A u \in Tables : Cut(u) /\ u # t => log'[t] = log[t]
    BY Zenon DEF Cut
  <1>. QED  BY <1>2, <1>3, <1>4, <1>5, <1>6, <1>7, TableEffect, Zenon DEF ReclaimForks

-----------------------------------------------------------------------------
\* Visibility: the versions the manifest selects hold the committed rows.

\* A step that publishes nothing leaves the selected versions as they are.
LEMMA SelectedKept ==
    ASSUME WriteInv, [Next]_vars, NEW t \in Tables
    PROVE  pin[t] \in 1..Len(log'[t]) /\ log'[t][pin[t]] = log[t][pin[t]]
  <1>. USE DEF WriteInv
  <1>1. Len(log[t]) \in Nat /\ pin[t] \in 1..Len(log[t]) /\ (~owned[t] => pin[t] = 1)
    BY DEF Pinned, TypeOK, StorageOK
  <1>2. Len(log'[t]) \in Nat
    BY TypeStep DEF TypeOK, StorageOK
  <1>3. CASE Kept(t)
    BY <1>1, <1>2, <1>3 DEF Kept
  <1>4. CASE Cut(t) /\ ~owned[t]
    BY <1>1, <1>4 DEF Cut
  <1>. QED  BY <1>3, <1>4, KeptUnlessForked, Zenon

\* Graph-visible atomicity is preserved: a commit selects exactly the
\* operation's effects, a rollback only restored copies, and nothing else moves
\* a pin or a selected version.
LEMMA VisibleStep ==
    ASSUME WriteInv, [Next]_vars PROVE VisibleAtomic'
  <1>. USE DEF WriteInv
  <1>1. \A t \in Tables : pin'[t] \in DOMAIN log'[t]
    BY PinnedStep, TypeStep, SMTT(30) DEF Pinned, TypeOK, StorageOK
  <1>2. ASSUME NEW t \in Tables
        PROVE  log'[t][pin'[t]].rows = {o \in Committed' : t \in plan'[o].tabs}
    <2>1. log[t][pin[t]].rows = {o \in Committed : t \in plan[o].tabs}
      BY Zenon DEF VisibleAtomic
    <2>2. CASE UNCHANGED manifest
      <3>1. Committed' = Committed /\ pin'[t] = pin[t]
        BY <2>2, Zenon DEF Committed, Published, manifest
      <3>2. \A o \in Committed : plan'[o] = plan[o]
        <4>1. \A o \in Committed : o \in Ops /\ o # nextOp
          BY SMTT(30) DEF Minted, Committed, TypeOK, ControlOK, Ops
        <4>. QED  BY <4>1, PlanStep, Zenon DEF Arm, TypeOK, SidecarsOK
      <3>. QED  BY <2>1, <3>1, <3>2, SelectedKept, Zenon
    <2>3. ASSUME UNCHANGED <<table, plan>>, NEW o \in Ops, CanPublish(o),
                 Landed(o, plan[o].tabs),
                 PublishManifest(plan[o].tabs, Effects(o), CommitId(o))
          PROVE  log'[t][pin'[t]].rows = {x \in Committed' : t \in plan'[x].tabs}
      <3>1. Committed' = Committed \cup {o} /\ plan' = plan /\ log' = log
        BY <2>3, PublishedGrows, CommitPublished, Zenon DEF TypeOK, table
      <3>2. pin'[t] = (IF t \in plan[o].tabs THEN plan[o].pins[t] + 1 ELSE pin[t])
        BY <2>3, Zenon DEF PublishManifest, Effects
      <3>3. CASE t \in plan[o].tabs
        <4>1. pin'[t] = plan[o].pins[t] + 1 /\ pin[t] = plan[o].pins[t]
          BY <2>3, <3>2, <3>3, Zenon DEF CanPublish
        <4>2. log[t][plan[o].pins[t] + 1].rows = log[t][plan[o].pins[t]].rows \cup {o}
          BY <2>3, <3>3, Zenon DEF Landed, LandedOn
        <4>. QED  BY <2>1, <3>1, <3>3, <4>1, <4>2, Zenon
      <3>4. CASE t \notin plan[o].tabs
        BY <2>1, <3>1, <3>2, <3>4, Zenon
      <3>. QED  BY <3>3, <3>4, Zenon
    <2>4. ASSUME UNCHANGED <<table, plan>>, NEW k \in Tasks, RollBack(k), job[k].op \in Ops,
                 PublishManifest(Compensable(job[k].op), LiveHeads, RollbackId(job[k].op))
          PROVE  log'[t][pin'[t]].rows = {x \in Committed' : t \in plan'[x].tabs}
      <3>. DEFINE o == job[k].op
      <3>1. Committed' = Committed /\ plan' = plan /\ log' = log
        BY <2>4, PublishedGrows, RollbackPublished, Zenon DEF TypeOK, table
      <3>2. pin'[t] = (IF t \in Compensable(o) THEN Len(log[t]) ELSE pin[t])
        BY <2>4, Zenon DEF PublishManifest, LiveHeads
      <3>3. CASE t \in Compensable(o)
        <4>1. ~OwnAtHead(o, t)
          BY <2>4, <3>3, Zenon DEF RollBack, Phases, Phase, Compensable
        <4>2. log[t][Len(log[t])].restore = pin[t]
          BY <3>3, <4>1, Zenon DEF Compensable, OwnCompensatedAtHead, Top
        <4>3. Len(log[t]) \in Nat /\ pin[t] \in 1..Len(log[t])
          BY DEF Pinned, TypeOK, StorageOK
        <4>4. log[t][Len(log[t])].rows = log[t][pin[t]].rows
          BY <4>2, <4>3 DEF Restored
        <4>. QED  BY <2>1, <3>1, <3>2, <3>3, <4>4, Zenon
      <3>4. CASE t \notin Compensable(o)
        BY <2>1, <3>1, <3>2, <3>4, Zenon
      <3>. QED  BY <3>3, <3>4, Zenon
    <2>. QED  BY <2>2, <2>3, <2>4, PublishEffect, Zenon
  <1>. QED  BY <1>1, <1>2, Zenon DEF VisibleAtomic

=============================================================================
