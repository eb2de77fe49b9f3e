--------------------------- MODULE MaintenanceSuite ---------------------------
(*****************************************************************************)
(* Maintenance for TLC: building declared indexes (EnsureIndices),           *)
(* optimize and repair (Maintenance), cleanup of old versions beside pins    *)
(* and branches (Cleanup), and the body of a recovery intent as it is        *)
(* written, validated and routed (SidecarShape). A behaviour is about one    *)
(* of them: area names it and its bounds, and the components share the       *)
(* variables.                                                                *)
(*****************************************************************************)
EXTENDS Integers, Sequences, FiniteSets, TLC

CONSTANTS t1, b1, b2

\* The component a behaviour is about, and its variables.
VARIABLES area, x1, x2, x3, x4, x5, x6, x7, x8, x9, x10, x11, x12, x13, x14,
          x15, x16, x17

vars == <<area, x1, x2, x3, x4, x5, x6, x7, x8, x9, x10, x11, x12, x13, x14,
        x15, x16, x17>>

\* Declared indexes: two that are built, one that needs trained vectors, and
\* two kinds of column that take none.
Indexed ==
    {<<"title", "text">>, <<"state", "enum">>, <<"emb", "vector">>,
     <<"tags", "list">>, <<"raw", "blob">>}

\* Policies of a cleanup: by count, by age and by both.
Policy(keep, aged) == [keep |-> keep, aged |-> aged]

Damages ==
    {"payload", "extra", "kind", "old", "older", "generation", "unconfirm", "newer",
     "legacy", "branch", "actor", "rollback", "authority", "phase", "root", "identity",
     "table_branch", "expected", "confirmed", "drop_pin", "twice", "drop_effect",
     "drop_slot", "read", "uuid", "slot_branch", "unregister", "same_alias", "outcome",
     "longer"}

\* A table the branch owns, one it would fork and one that stays on main,
\* through crashes and failed calls; and writers of other processes.
IndexCases ==
    {[of |-> "index", main |-> {"tag"}, contents |-> {<<0, FALSE>>, <<1, FALSE>>, <<1, TRUE>>}, scan |-> 4,
          ops |-> 3, faults |-> 2, foreign |-> 0, steps |-> {}],
     [of |-> "index", main |-> {}, contents |-> {<<1, FALSE>>}, scan |-> 3, ops |-> 2, faults |-> 1, foreign |-> 3,
          steps |-> {"rows", "settle", "commit", "fork", "owner", "recreate"}]}
Index(c) == INSTANCE EnsureIndices WITH
    OwnTables <- {"doc"}, LazyTables <- {"link"}, MainTables <- c.main,
    EdgeTables <- {"link"},
    Declared <- [t \in {"doc"} \cup c.main |-> Indexed],
    Contents <- c.contents, MaxScan <- c.scan, MaxOps <- c.ops,
    MaxFaults <- c.faults, MaxForeign <- c.foreign,
    ForeignSteps <- c.steps,
    ref <- x1, owner <- x2, manifest <- x3, lineage <- x4, branch <- x5,
    sidecar <- x6, audit <- x7, proc <- x8, built <- x9, rows <- x10,
    next_ref <- x11, ops <- x12, faults <- x13, foreign <- x14

\* Three calls with a crash and failed calls; foreign commits between calls;
\* foreign commits at any moment.
OptimizeCases ==
    {[of |-> "optimize", work |-> {{}, {"compact"}, {"config", "reindex"}}, calls |-> 3, foreign |-> 0,
          anytime |-> FALSE, faults |-> 2, crashes |-> 1],
     [of |-> "optimize", work |-> {{"compact"}, {"config", "reindex"}}, calls |-> 2, foreign |-> 2,
          anytime |-> FALSE, faults |-> 1, crashes |-> 0],
     [of |-> "optimize", work |-> {{}, {"compact"}}, calls |-> 2, foreign |-> 2,
          anytime |-> TRUE, faults |-> 0, crashes |-> 0]}
Optimize(c) == INSTANCE Maintenance WITH
    Tables <- {"person", "knows"}, InitialWork <- c.work, RetryBudget <- 2,
    MaxCalls <- c.calls, MaxForeign <- c.foreign,
    ForeignAnytime <- c.anytime, MaxFaults <- c.faults,
    MaxCrashes <- c.crashes,
    log <- x1, gone <- x2, pin <- x3, head <- x4, frags <- x5,
    sidecars <- x6, meant <- x7, opt <- x8, eff <- x9, mut <- x10,
    gate <- x11, up <- x12, next <- x13, calls <- x14, foreign <- x15,
    faults <- x16, crashes <- x17

\* One table of four versions and a Restore, two branches and two cleanups.
Clean == INSTANCE Cleanup WITH
    Tables <- {t1}, Branches <- {b1, b2},
    Policies <- {Policy(0, FALSE), Policy(1, FALSE), Policy(3, FALSE), Policy(-1, TRUE), Policy(2, TRUE)},
    MaxVersion <- 4, MaxCleanups <- 2, MaxDrift <- 1,
    versions <- x1, young <- x2, pin <- x3, branch <- x4, sidecars <- x5,
    head <- x6, writer <- x7, gc <- x8, gate <- x9, cleanups <- x10,
    drifts <- x11

\* Every kind of intent with up to two damages to its body.
Body == INSTANCE SidecarShape WITH
    Kinds <- {"Mutation", "BranchMerge", "SchemaApply", "EnsureIndices", "Optimize"},
    Damages <- Damages, MaxDamage <- 2, MaxTransactions <- 2, OldBodies <- {},
    body <- x1, damage <- x2, reader <- x3, steps <- x4

-----------------------------------------------------------------------------
IndexInit ==
    /\ \E c \in IndexCases : area = c /\ Index(c)!Init
    /\ x15 = 0 /\ x16 = 0 /\ x17 = 0

OptimizeInit ==
    /\ \E c \in OptimizeCases : area = c /\ Optimize(c)!Init

CleanInit ==
    /\ area = [of |-> "cleanup"] /\ Clean!Init
    /\ x12 = 0 /\ x13 = 0 /\ x14 = 0 /\ x15 = 0 /\ x16 = 0 /\ x17 = 0

BodyInit ==
    /\ area = [of |-> "body"] /\ Body!Init
    /\ x5 = 0 /\ x6 = 0 /\ x7 = 0 /\ x8 = 0 /\ x9 = 0 /\ x10 = 0 /\ x11 = 0
       /\ x12 = 0 /\ x13 = 0 /\ x14 = 0 /\ x15 = 0 /\ x16 = 0 /\ x17 = 0

Init == IndexInit \/ OptimizeInit \/ CleanInit \/ BodyInit

IndexNext ==
    /\ \E c \in IndexCases : area = c /\ Index(c)!Next
    /\ UNCHANGED <<area, x15, x16, x17>>

OptimizeNext ==
    /\ \E c \in OptimizeCases : area = c /\ Optimize(c)!Next
    /\ UNCHANGED <<area>>

CleanNext ==
    /\ area.of = "cleanup" /\ Clean!Next
    /\ UNCHANGED <<area, x12, x13, x14, x15, x16, x17>>

BodyNext ==
    /\ area.of = "body" /\ Body!Next
    /\ UNCHANGED <<area, x5, x6, x7, x8, x9, x10, x11, x12, x13, x14, x15,
       x16, x17>>

Next == IndexNext \/ OptimizeNext \/ CleanNext \/ BodyNext

Spec == Init /\ [][Next]_vars

-----------------------------------------------------------------------------
\* Building declared indexes: the branch sees all of a build or none of it,
\* rows never change, an index the manifest shows can be used, recovery
\* accepts what any crash leaves and records it truthfully, and what is
\* reported as pending is exactly what could not be built.
IndexBuildExact ==
    \A c \in IndexCases : area = c =>
        /\ Index(c)!AllOrNothing
        /\ Index(c)!RowsExact
        /\ Index(c)!NoResidue
        /\ c.foreign = 0 => Index(c)!IndexesUsable
        /\ c.foreign = 0 => Index(c)!AuditTruthful
        /\ c.foreign = 0 => Index(c)!SweepAccepts
        /\ c.foreign = 0 => Index(c)!PendingExact

\* Optimize, repair and cleanup: compaction and repair never change what a
\* reader sees and no version a pin, a branch, a commit or a recovery still
\* needs is collected; work of optimize that is not published has one intent
\* that covers it; and while cleanup or a writer holds the gate the other finds
\* its tables as the invariant of Cleanup says.
HistoryKept ==
    /\ \A c \in OptimizeCases : area = c =>
           /\ ~c.anytime => Optimize(c)!ContentExact
           /\ ~c.anytime => Optimize(c)!OwnDriftCovered
           /\ c.foreign = 0 => Optimize(c)!NothingCollected
           /\ c.foreign = 0 => Optimize(c)!OneIntentPerTable
    /\ area.of = "cleanup" =>
           /\ Clean!PinsOpenable
           /\ Clean!RecoveryHasHistory
           /\ Clean!HistoryInv

\* The body of an intent: the engine accepts every body it writes and acts on
\* no damaged one, a route finds its payload, a confirmation names every
\* output, and recovery holds the gates of every table it acts on.
IntentBodyExact ==
    area.of = "body" =>
        /\ Body!OwnBodyAccepted
        /\ Body!RouteHasPayload
        /\ Body!ConfirmationComplete
        /\ Body!DamageRefused
        /\ Body!GatesCoverBody

\* What maintenance may never do: rewrite or delete another process's version,
\* move a pin backwards, or delete a version the policy of the cleanup
\* retains.
NothingUndone ==
  [][
    /\ \A c \in IndexCases : area = c => Index(c)!ForeignKept
    /\ \A c \in OptimizeCases : area = c => Optimize(c)!PinsMonotone
    /\ area.of = "cleanup" => Clean!PolicyKept
  ]_vars
=============================================================================
