--------------------------- MODULE WriteInvariant ---------------------------
(***************************************************************************)
(* The inductive invariant behind graph-visible atomicity, as named parts. *)
(* VisibleAtomic alone is not inductive: a publish keeps it only because   *)
(* the versions it selects are exactly the operation's own effects, a      *)
(* rollback because every version it selects is a restored copy, and both  *)
(* facts need the gates, the sidecar phases and the fork protocol.  Then   *)
(* the abstract store that the write path implements, its fairness, and    *)
(* what its instances for TLC have in common.                              *)
(***************************************************************************)
EXTENDS WritePath

\* Control points at which a task holds its process's write gates.
Gated == {"classify", "rollForward", "auditForward", "auditBack",
          "auditCommitted", "auditRolledBack", "unlink", "reclaim", "auditPlan",
          "restore", "validate", "arm", "fork", "commit", "withdraw",
          "duplicate", "retract", "publish", "cleanup"}

\* Control points of a write attempt, and those after its sidecar.
PreConfirm == {"fork", "commit", "withdraw", "duplicate", "retract"}
Writer == PreConfirm \cup {"publish", "cleanup"}
Attempting == Writer \cup {"prepare", "gates", "validate", "arm"}

\* Control points at which a task has an operation in hand.
InHand == Gated \ {"validate", "arm"}

\* The gates exclude: a task past them holds its process's gate, a Full sweep
\* holds it throughout and no foreign task is active beside it.
Exclusive == \A k \in Tasks :
    /\ pc[k] \in Gated => gate[ProcOf[k]] = k
    /\ Sweeping(k) => gate[ProcOf[k]] = k /\ ForeignIdle(k)
    /\ pc[k] \in Attempting => job[k].mode = "RollForwardOnly"
    /\ pc[k] \in {"reclaim", "auditPlan", "restore", "auditBack"} => Sweeping(k)

\* Pins select existing versions; a ref the manifest selects exists; a table
\* without its own ref, or not yet selected, is still at its fork point.
Pinned == \A t \in Tables :
    /\ pin[t] \in 1..Len(log[t])
    /\ owned[t] => ref[t]
    /\ ~ref[t] => Len(log[t]) = 1
    /\ ~owned[t] => pin[t] = 1

\* Captured pins are positive and are the fork point of an unselected table;
\* an attempt forks every table it found unselected.
Captured ==
    /\ \A o \in Ops, t \in Tables :
         plan[o].pins[t] >= 1 /\ (~owned[t] => plan[o].pins[t] = 1)
    /\ \A k \in Tasks, t \in Tables :
         /\ req[k].base.pins[t] >= 1 /\ (~owned[t] => req[k].base.pins[t] = 1)
         /\ t \in req[k].base.tabs \ req[k].base.forks => owned[t]

\* A restored version holds the contents of the version it restored.
Restored == \A t \in Tables : \A v \in 1..Len(log[t]) :
    log[t][v].restore # 0 =>
        /\ log[t][v].restore < v
        /\ log[t][v].rows = log[t][log[t][v].restore].rows

\* Operation ids are minted once; a writer keeps its own and its plan.
Minted ==
    /\ nextOp >= 1
    /\ \A o \in Ops : o >= nextOp =>
         sc[o] = "none" /\ o \notin Committed /\ RollbackId(o) \notin Published
    /\ \A k \in Tasks :
         /\ job[k].op < nextOp
         /\ \A o \in job[k].todo : o < nextOp
         /\ pc[k] \in InHand => job[k].op >= 1
         /\ pc[k] \in Writer => plan[job[k].op] = req[k].base
    /\ \A j, k \in Tasks :
         j # k /\ pc[j] \in Writer /\ pc[k] \in Writer => job[j].op # job[k].op

\* The exact effect of operation o is the version after its pinned one.
LandedOn(o, t) ==
    /\ plan[o].pins[t] + 1 <= Len(log[t])
    /\ log[t][plan[o].pins[t] + 1].op = o
    /\ log[t][plan[o].pins[t] + 1].rows = log[t][plan[o].pins[t]].rows \cup {o}
Landed(o, tabs) == \A t \in tabs : LandedOn(o, t)

\* What a sidecar and a graph commit say about the tables.
Recorded ==
    /\ \A o \in Ops : sc[o] # "none" => plan[o].tabs # {}
    /\ \A o \in Ops : sc[o] = "EffectsConfirmed" => Landed(o, plan[o].tabs)
    /\ \A o \in Ops : o \in Committed =>
         \A t \in plan[o].tabs : pin[t] > plan[o].pins[t]

\* What a task knows at each control point.
Phase(k) ==
    LET o == job[k].op IN
    /\ pc[k] \in PreConfirm => sc[o] = "Armed" /\ o \notin Committed
    /\ pc[k] \in PreConfirm \cup {"publish", "rollForward"} =>
         RollbackId(o) \notin Published
    /\ pc[k] = "fork" => \A t \in plan[o].tabs \ job[k].left : ref[t]
    /\ pc[k] = "commit" =>
         /\ job[k].left \subseteq plan[o].tabs
         /\ \A t \in plan[o].tabs : ref[t]
         /\ Landed(o, plan[o].tabs \ job[k].left)
    /\ pc[k] = "publish" =>
         plan[o].tabs = {} \/ sc[o] = "EffectsConfirmed" \/ o \in Committed
    /\ pc[k] = "rollForward" => sc[o] = "EffectsConfirmed" \/ o \in Committed
    /\ pc[k] \in {"cleanup", "auditForward", "auditCommitted"} => o \in Committed
    /\ pc[k] \in {"auditBack", "auditRolledBack"} => RollbackId(o) \in Published
    /\ pc[k] = "unlink" => Sweeping(k) \/ o \in Committed \/ RollbackId(o) \in Published
    /\ pc[k] \in {"auditPlan", "restore"} =>
         job[k].left = {t \in plan[o].tabs : OwnAtHead(o, t)}

Phases == \A k \in Tasks : Phase(k)

\* The conjunction that every step preserves: it says why a publish selects
\* exactly the operation's effects and a rollback only restored copies.
WriteInv ==
    /\ TypeOK /\ Exclusive /\ Pinned /\ Captured /\ Restored
    /\ Minted /\ Recorded /\ Phases /\ VisibleAtomic

-----------------------------------------------------------------------------
(* Outcomes: what the lineage, the answers and the plans say together.      *)

\* The first graph commit is nobody's; any other has one of the two ids of an
\* operation.
IdsKnown ==
    /\ lineage[1] = Genesis
    /\ \A i \in 2..Len(lineage) : \E o \in Ops : lineage[i] \in {CommitId(o), RollbackId(o)}

\* A prepared attempt and a minted operation were captured at a visible head,
\* the one their caller asked for.
Authorized ==
    /\ \A k \in Tasks : pc[k] \in {"gates", "validate", "arm"} =>
         req[k].base.head \in Published /\ req[k].base.want \in {NoHead, req[k].base.head}
    /\ \A o \in Ops : o < nextOp =>
         plan[o].head \in Published /\ plan[o].want \in {NoHead, plan[o].head}

\* Who settles an operation knows that it is open: a sweep that undoes it has
\* seen no outcome, a writer has not answered, and a write without tables, which
\* has no sidecar, is published by its own writer alone.
OpenInHand ==
    /\ \A k \in Tasks : pc[k] \in {"reclaim", "auditPlan", "restore"} =>
         job[k].op \notin Committed /\ RollbackId(job[k].op) \notin Published
    /\ \A k \in Tasks : pc[k] \in PreConfirm \cup {"publish"} => result[job[k].op] = "none"
    /\ \A k \in Tasks : pc[k] = "publish" /\ plan[job[k].op].tabs = {} =>
         job[k].op \notin Committed
    /\ \A o \in Ops : o >= nextOp => result[o] = "none"
    /\ \A o \in Ops : result[o] = "rejected" => sc[o] # "EffectsConfirmed"

\* The conjunction behind OneOutcome, CommitOnAuthority and AnswersHold; each
\* needs the others, because a head that never comes back is what stops a
\* second publish of one operation.
OutcomeInv ==
    IdsKnown /\ Authorized /\ OpenInHand /\ OneOutcome /\ CommitOnAuthority /\ AnswersHold

-----------------------------------------------------------------------------
(* Drift: whose the versions past the manifest's pins are.                  *)

\* Pins only move forward past what an attempt captured.
PinsForward ==
    /\ \A o \in Ops, t \in Tables : plan[o].pins[t] <= pin[t]
    /\ \A k \in Tasks, t \in Tables : req[k].base.pins[t] <= pin[t]

\* An operation makes at most one version of a table, one it planned, past its
\* pin; a restored version is nobody's.
OwnOnce == \A t \in Tables : \A v \in 1..Len(log[t]) :
    LET o == log[t][v].op IN
    IF o = 0 THEN v > pin[t] => log[t][v].restore # 0
    ELSE /\ o < nextOp /\ t \in plan[o].tabs /\ plan[o].pins[t] < v
         /\ o \in log[t][v].rows /\ log[t][v].restore = 0
         /\ \A u \in 1..Len(log[t]) : log[t][u].op = o => u = v

NoEffect(o) == \A t \in Tables : \A v \in 1..Len(log[t]) : log[t][v].op # o

\* No pass will publish o any more: nobody has it in hand and its confirmed
\* effects are no longer what a roll-forward asks for.
Doomed(o) ==
    /\ \A k \in Tasks : pc[k] \in PreConfirm \cup {"publish", "rollForward"} => job[k].op # o
    /\ \/ sc[o] # "EffectsConfirmed"
       \/ GraphHead # plan[o].head
       \/ \E t \in plan[o].tabs : pin[t] # plan[o].pins[t] \/ Len(log[t]) > plan[o].pins[t] + 1

\* A version past the pin is the effect of a pending operation, or the restored
\* copy on top of one that will not be published.
DriftOwned == \A t \in Tables : \A v \in 1..Len(log[t]) : v > pin[t] =>
    IF log[t][v].op # 0 THEN sc[log[t][v].op] # "none"
    ELSE v - 1 > pin[t] /\ log[t][v - 1].op # 0 /\ Doomed(log[t][v - 1].op)

\* The effects of a settled operation lie below the pins.
SettledBelow == \A o \in Ops : o \in Committed \/ RollbackId(o) \in Published =>
    \A t \in Tables : \A v \in 1..Len(log[t]) : log[t][v].op = o => v <= pin[t]

\* What a task knows of the effects of its operation.
EffectsInHand == \A k \in Tasks :
    LET o == job[k].op IN
    /\ pc[k] \in {"fork", "retract"} => NoEffect(o)
    /\ pc[k] = "commit" => \A t \in job[k].left : \A v \in 1..Len(log[t]) : log[t][v].op # o
    /\ pc[k] = "unlink" => o \in Committed \/ RollbackId(o) \in Published \/ NoEffect(o)
    /\ pc[k] \in {"reclaim", "auditPlan", "restore"} =>
         sc[o] # "none" /\ Doomed(o) /\ \A t \in plan[o].tabs : ~OwnBeforeHead(o, t)

DriftInv == PinsForward /\ OwnOnce /\ DriftOwned /\ SettledBelow /\ EffectsInHand

\* The inductive invariant of the write path, whatever the processes share: what
\* sidecars and tasks know of the tables, what may be published and was answered,
\* and whose the versions past the pins are.
InductiveInv == WriteInv /\ OutcomeInv /\ DriftInv

-----------------------------------------------------------------------------
(* One process: what its gates add to the protocol.                         *)

OneProcess == \A j, k \in Tasks : ProcOf[j] = ProcOf[k]

\* At most one intent is pending: an attempt that arms one, and one that
\* publishes without any, found none under the gates.
OneIntent ==
    /\ \A o, other \in Pending : o = other
    /\ \A k \in Tasks :
         pc[k] = "arm" \/ (pc[k] = "publish" /\ plan[job[k].op].tabs = {}) => Pending = {}

\* While an intent is open the manifest stays where it was captured.
AuthorityHeld ==
    /\ \A k \in Tasks :
         /\ pc[k] \in {"gates", "validate", "arm"} /\ req[k].base.head = GraphHead =>
              req[k].base.pins = pin
         /\ pc[k] = "arm" => req[k].base.head = GraphHead
    /\ \A o \in Pending : o \notin Committed /\ RollbackId(o) \notin Published =>
         plan[o].pins = pin

\* A restored version past the pin holds the pinned contents, and a rollback
\* that is published has its audit outcomes in the sidecar.
RollbackPlanned ==
    /\ \A t \in Tables : \A v \in 1..Len(log[t]) :
         v > pin[t] /\ log[t][v].op = 0 => log[t][v].restore = pin[t]
    /\ \A o \in Ops : RollbackId(o) \in Published => scPlan[o]
    /\ \A k \in Tasks : pc[k] = "restore" => scPlan[job[k].op]

\* Where the audit row of an outcome is still to be written, and where it is.
Audited ==
    /\ AuditExact
    /\ \A k \in Tasks :
         LET o == job[k].op IN
         /\ pc[k] = "auditForward" => audit[o]["RolledForward"] = 0
         /\ pc[k] = "auditBack" => audit[o]["RolledBack"] = 0
         /\ pc[k] = "unlink" /\ RollbackId(o) \in Published => audit[o]["RolledBack"] = 1

\* Who removes a sidecar has removed the unselected refs of its operation.
NoForks(o) == \A t \in plan[o].tabs : ref[t] = owned[t]
ForksAccounted ==
    /\ ForksCovered
    /\ \A o \in Pending : RollbackId(o) \in Published => NoForks(o)
    /\ \A k \in Tasks :
         LET o == job[k].op IN
         /\ req[k].base.forks \subseteq req[k].base.tabs
         /\ pc[k] = "fork" => job[k].left \subseteq plan[o].tabs
         /\ pc[k] \in {"retract", "unlink", "auditBack", "auditRolledBack"} => NoForks(o)
         /\ pc[k] \in {"auditPlan", "restore"} =>
              \A t \in plan[o].tabs : ref[t] = owned[t] \/ OwnVersions(o, t) # {}

SoloInv == OneIntent /\ AuthorityHeld /\ RollbackPlanned /\ Audited /\ ForksAccounted

-----------------------------------------------------------------------------
(* The write path as an implementation of GraphStore, and under the fairness *)
(* that tokio and the operator provide.                                     *)

Store == INSTANCE GraphStore WITH
    rows <- [t \in Tables |-> log[t][pin[t]].rows],
    history <- lineage,
    base <- [o \in Ops |-> IF o < nextOp THEN plan[o].head ELSE NoHead],
    touched <- [o \in Ops |-> plan[o].tabs],
    told <- result

\* The write protocol, its healer and the open-time sweep implement the store:
\* every durable step of theirs is one atomic graph commit, one rollback that
\* no reader can see, or invisible.
ImplementsStore == Store!StoreSpec

-----------------------------------------------------------------------------
\* Fairness.  A task that can step does; the gates are tokio mutexes, which
\* serve their waiters in order, so a task that waits is not passed over for
\* ever; and the graph is opened read-write again and again.
Step(k) == Recover(k) \/ Attempt(k)
Fairness ==
    /\ \A k \in Tasks : /\ WF_vars(Step(k))
                        /\ SF_vars(NextSidecar(k))
                        /\ SF_vars(AcquireGates(k))
    /\ SF_vars(\E k \in Tasks : BeginOpen(k))

FairSpec == Spec /\ Fairness

\* No intent is left behind: whatever a crash or a failed call leaves in
\* __recovery is retired in the end.
IntentsRetired == \A o \in Ops : sc[o] # "none" ~> sc[o] = "none"

\* Every request and every open ends, however often it is prepared again and
\* whoever else holds the gates.
RequestsEnd == \A k \in Tasks : pc[k] # "idle" ~> pc[k] = "idle"
-----------------------------------------------------------------------------
\* Instances for TLC: the tasks share one process, or each has its own.
SharedProcess == [k \in Tasks |-> CHOOSE p \in Procs : TRUE]
OwnProcess == CHOOSE f \in [Tasks -> Procs] : \A k, j \in Tasks : f[k] = f[j] => k = j

\* Tasks and processes are interchangeable as long as every task stays with its
\* process.
Faithful ==
    {f \in [Tasks \cup Procs -> Tasks \cup Procs] :
        /\ \A x, y \in Tasks \cup Procs : f[x] = f[y] => x = y
        /\ \A k \in Tasks : f[k] \in Tasks /\ f[ProcOf[k]] = ProcOf[f[k]]}
Renamings == {f : f \in Faithful}
=============================================================================
