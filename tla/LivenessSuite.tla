---------------------------- MODULE LivenessSuite -----------------------------
(*****************************************************************************)
(* What must happen in the end, for TLC: requests get through the gates of   *)
(* their process (Admission, WriteGates), downloads end (BlobDelivery),      *)
(* exports let go of their cut (ExportStream), publishes return              *)
(* (ManifestPublisher), and what a crash or a failed call left of a merge,   *)
(* a schema apply, an index build, an optimize or a branch is cleared away   *)
(* (MergeCommit, SchemaApply, EnsureIndices, Maintenance, BranchControl).    *)
(* A behaviour is about one of them: area names it, and the components       *)
(* share the variables. The fairness is the one each component states.       *)
(*****************************************************************************)
EXTENDS Integers, Sequences, FiniteSets, TLC

CONSTANTS reqOne, reqTwo, handleOne, exportOne, exportTwo, tableOne, tableTwo, tableNew, feature, main, noTask, person, pubOne, pubTwo, keyOne, genesis, noCommit, alice, entryOne, entryTwo

\* The component a behaviour is about, and its variables.
VARIABLES area, x1, x2, x3, x4, x5, x6, x7, x8, x9, x10, x11, x12, x13, x14,
          x15, x16, x17

vars == <<area, x1, x2, x3, x4, x5, x6, x7, x8, x9, x10, x11, x12, x13, x14,
        x15, x16, x17>>

Calls == {reqOne, reqTwo}
Exports == {exportOne, exportTwo}
Publishers == {pubOne, pubTwo}
ExportRequests ==
    {[served |-> TRUE, types |-> {}, keys |-> {}], [served |-> FALSE, types |-> {"B"}, keys |-> {2}]}
Indexed == {<<"title", "text">>, <<"state", "enum">>, <<"emb", "vector">>}

\* Two requests of one actor.
Admit == INSTANCE Admission WITH
    Requests <- Calls, Actors <- {alice}, StateIds <- {entryOne, entryTwo},
    InflightCap <- 2, ByteCap <- 2, MaxEstimate <- 2, Width <- 4,
    per_actor <- x1, fresh <- x2, permits <- x3, bytes <- x4, req <- x5

\* A download that is cut twice while the value changes.
Delivery == INSTANCE BlobDelivery WITH
    Lengths <- <<4, 0, 5>>, Top <- 9, ChunkMax <- 1, RetainedMax <- 2,
    Probes <- {}, MaxCuts <- 2,
    value <- x1, probe <- x2, client <- x3, body <- x4, cuts <- x5

\* Two requests at a time, of any kind, on one handle.
Gates == INSTANCE WriteGates WITH
    Requests <- Calls,
    Kinds <- {"mutation", "merge", "optimize", "cleanup", "create", "export", "refresh", "open"},
    Handles <- {handleOne}, MaxManagers <- 1,
    registry <- x1, handles <- x2, built <- x3, gates <- x4, req <- x5

\* Two exports, a writer, a control and one failing call.
Export == INSTANCE ExportStream WITH
    Exports <- Exports, Requests <- ExportRequests, Leases <- 2,
    QueueChunks <- 2, MaxWrites <- 0, MaxFailures <- 1,
    pins <- x1, floor <- x2, free <- x3, control <- x4, exp <- x5,
    writes <- x6, failures <- x7

\* Two publishers.
Publish == INSTANCE ManifestPublisher WITH
    Publishers <- Publishers, Identities <- {tableOne}, Keys <- {keyOne},
    Owners <- {main}, Seed <- tableOne, SeedKey <- keyOne,
    SeedOwner <- main, Genesis <- genesis, None <- noCommit,
    RetryBudget <- 1, MaxRecreate <- 0,
    manifest <- x1, written <- x2, incarnation <- x3, pub <- x4

\* A table of each kind, one merge, two failed calls or crashes.
Merge == INSTANCE MergeCommit WITH
    ChainTables <- {"a"}, LazyTables <- {"b"}, ForkTables <- {"c"},
    PointerTables <- {"d"}, Leftover <- {}, ChainLen <- 2, MaxScan <- 4,
    MaxOps <- 1, MaxFaults <- 2, MaxForeign <- 0, ForeignSteps <- {},
    ref <- x1, manifest <- x2, lineage <- x3, branch <- x4, sidecar <- x5,
    audit <- x6, proc <- x7, next_ref <- x8, ops <- x9, faults <- x10,
    foreign <- x11

\* A rewrite and a new table, one apply, two failed calls or crashes.
Apply == INSTANCE SchemaApply WITH
    Rewritten <- {tableOne}, Renamed <- {}, Dropped <- {},
    Added <- {tableNew}, MaxOps <- 2, MaxFaults <- 2, MaxForeign <- 0,
    AtomicRename <- FALSE, LegacyStart <- FALSE,
    live <- x1, staged <- x2, store <- x3, litter <- x4, manifest <- x5,
    lineage <- x6, sidecar <- x7, lock <- x8, audit <- x9, proc <- x10,
    cleared <- x11, wrote <- x12, ops <- x13, faults <- x14, foreign <- x15

\* Index builds on an owned and a lazy table, with one failed call or crash.
Index == INSTANCE EnsureIndices WITH
    OwnTables <- {"doc"}, LazyTables <- {"link"}, MainTables <- {},
    EdgeTables <- {"link"}, Declared <- [t \in {"doc"} |-> Indexed],
    Contents <- {<<1, FALSE>>, <<1, TRUE>>}, MaxScan <- 4, MaxOps <- 3,
    MaxFaults <- 2, MaxForeign <- 0, ForeignSteps <- {},
    ref <- x1, owner <- x2, manifest <- x3, lineage <- x4, branch <- x5,
    sidecar <- x6, audit <- x7, proc <- x8, built <- x9, rows <- x10,
    next_ref <- x11, ops <- x12, faults <- x13, foreign <- x14

\* Two optimize calls with a crash and a failed call.
Optimize == INSTANCE Maintenance WITH
    Tables <- {"person", "knows"}, InitialWork <- {{"compact"}},
    RetryBudget <- 2, MaxCalls <- 2, MaxForeign <- 0,
    ForeignAnytime <- FALSE, MaxFaults <- 1, MaxCrashes <- 1,
    log <- x1, gone <- x2, pin <- x3, head <- x4, frags <- x5,
    sidecars <- x6, meant <- x7, opt <- x8, eff <- x9, mut <- x10,
    gate <- x11, up <- x12, next <- x13, calls <- x14, foreign <- x15,
    faults <- x16, crashes <- x17

\* Four requests about one branch, two failed calls and a crash.
Control == INSTANCE BranchControl WITH
    Names <- {feature}, Main <- main, Children <- {}, Tables <- {person},
    Tasks <- {reqOne}, NoTask <- noTask, MaxCalls <- 4, MaxFaults <- 1,
    MaxCrashes <- 1,
    branches <- x1, trees <- x2, refs <- x3, sidecars <- x4, commits <- x5,
    audit <- x6, task <- x7, gate <- x8, up <- x9, uid <- x10,
    calls <- x11, faults <- x12, crashes <- x13

-----------------------------------------------------------------------------
AdmitInit ==
    /\ area = [of |-> "admission"] /\ Admit!Init
    /\ x6 = 0 /\ x7 = 0 /\ x8 = 0 /\ x9 = 0 /\ x10 = 0 /\ x11 = 0 /\ x12 =
       0 /\ x13 = 0 /\ x14 = 0 /\ x15 = 0 /\ x16 = 0 /\ x17 = 0

DeliveryInit ==
    /\ area = [of |-> "delivery"] /\ Delivery!Init
    /\ x6 = 0 /\ x7 = 0 /\ x8 = 0 /\ x9 = 0 /\ x10 = 0 /\ x11 = 0 /\ x12 =
       0 /\ x13 = 0 /\ x14 = 0 /\ x15 = 0 /\ x16 = 0 /\ x17 = 0

GatesInit ==
    /\ area = [of |-> "gates"] /\ Gates!Init
    /\ x6 = 0 /\ x7 = 0 /\ x8 = 0 /\ x9 = 0 /\ x10 = 0 /\ x11 = 0 /\ x12 =
       0 /\ x13 = 0 /\ x14 = 0 /\ x15 = 0 /\ x16 = 0 /\ x17 = 0

ExportInit ==
    /\ area = [of |-> "export"] /\ Export!Init
    /\ x8 = 0 /\ x9 = 0 /\ x10 = 0 /\ x11 = 0 /\ x12 = 0 /\ x13 = 0 /\ x14
       = 0 /\ x15 = 0 /\ x16 = 0 /\ x17 = 0

PublishInit ==
    /\ area = [of |-> "publish"] /\ Publish!Init
    /\ x5 = 0 /\ x6 = 0 /\ x7 = 0 /\ x8 = 0 /\ x9 = 0 /\ x10 = 0 /\ x11 = 0
       /\ x12 = 0 /\ x13 = 0 /\ x14 = 0 /\ x15 = 0 /\ x16 = 0 /\ x17 = 0

MergeInit ==
    /\ area = [of |-> "merge"] /\ Merge!Init
    /\ x12 = 0 /\ x13 = 0 /\ x14 = 0 /\ x15 = 0 /\ x16 = 0 /\ x17 = 0

ApplyInit ==
    /\ area = [of |-> "apply"] /\ Apply!Init
    /\ x16 = 0 /\ x17 = 0

IndexInit ==
    /\ area = [of |-> "index"] /\ Index!Init
    /\ x15 = 0 /\ x16 = 0 /\ x17 = 0

OptimizeInit ==
    /\ area = [of |-> "optimize"] /\ Optimize!Init

ControlInit ==
    /\ area = [of |-> "branches"] /\ Control!Init
    /\ x14 = 0 /\ x15 = 0 /\ x16 = 0 /\ x17 = 0

Init == AdmitInit \/ DeliveryInit \/ GatesInit \/ ExportInit \/ PublishInit \/ MergeInit \/ ApplyInit \/ IndexInit \/ OptimizeInit \/ ControlInit

AdmitNext ==
    /\ area.of = "admission" /\ Admit!Next
    /\ UNCHANGED <<area, x6, x7, x8, x9, x10, x11, x12, x13, x14, x15, x16,
       x17>>

DeliveryNext ==
    /\ area.of = "delivery" /\ Delivery!Next
    /\ UNCHANGED <<area, x6, x7, x8, x9, x10, x11, x12, x13, x14, x15, x16,
       x17>>

GatesNext ==
    /\ area.of = "gates" /\ Gates!Next
    /\ UNCHANGED <<area, x6, x7, x8, x9, x10, x11, x12, x13, x14, x15, x16,
       x17>>

ExportNext ==
    /\ area.of = "export" /\ Export!Next
    /\ UNCHANGED <<area, x8, x9, x10, x11, x12, x13, x14, x15, x16, x17>>

PublishNext ==
    /\ area.of = "publish" /\ Publish!Next
    /\ UNCHANGED <<area, x5, x6, x7, x8, x9, x10, x11, x12, x13, x14, x15,
       x16, x17>>

MergeNext ==
    /\ area.of = "merge" /\ Merge!Next
    /\ UNCHANGED <<area, x12, x13, x14, x15, x16, x17>>

ApplyNext ==
    /\ area.of = "apply" /\ Apply!Next
    /\ UNCHANGED <<area, x16, x17>>

IndexNext ==
    /\ area.of = "index" /\ Index!Next
    /\ UNCHANGED <<area, x15, x16, x17>>

OptimizeNext ==
    /\ area.of = "optimize" /\ Optimize!Next
    /\ UNCHANGED <<area>>

ControlNext ==
    /\ area.of = "branches" /\ Control!Next
    /\ UNCHANGED <<area, x14, x15, x16, x17>>

Next == AdmitNext \/ DeliveryNext \/ GatesNext \/ ExportNext \/ PublishNext \/ MergeNext \/ ApplyNext \/ IndexNext \/ OptimizeNext \/ ControlNext

Spec == Init /\ [][Next]_vars

AdmitOnly == area.of = "admission" /\ UNCHANGED <<area, x6, x7, x8, x9, x10,
    x11, x12, x13, x14, x15, x16, x17>>
DeliveryOnly == area.of = "delivery" /\ UNCHANGED <<area, x6, x7, x8, x9, x10,
    x11, x12, x13, x14, x15, x16, x17>>
GatesOnly == area.of = "gates" /\ UNCHANGED <<area, x6, x7, x8, x9, x10, x11,
    x12, x13, x14, x15, x16, x17>>
ExportOnly == area.of = "export" /\ UNCHANGED <<area, x8, x9, x10, x11, x12,
    x13, x14, x15, x16, x17>>
PublishOnly == area.of = "publish" /\ UNCHANGED <<area, x5, x6, x7, x8, x9,
    x10, x11, x12, x13, x14, x15, x16, x17>>
MergeOnly == area.of = "merge" /\ UNCHANGED <<area, x12, x13, x14, x15, x16,
    x17>>
ApplyOnly == area.of = "apply" /\ UNCHANGED <<area, x16, x17>>
IndexOnly == area.of = "index" /\ UNCHANGED <<area, x15, x16, x17>>
OptimizeOnly == area.of = "optimize" /\ UNCHANGED <<area>>
ControlOnly == area.of = "branches" /\ UNCHANGED <<area, x14, x15, x16, x17>>

FairSpec ==
    /\ Spec
    /\ \A r \in Calls : WF_vars(AdmitOnly /\ Admit!Advance(r))
    /\ WF_vars(DeliveryOnly /\ Delivery!Request)
    /\ WF_vars(DeliveryOnly /\ Delivery!Serve)
    /\ \A r \in Calls : WF_vars(GatesOnly /\ Gates!Step(r))
    /\ WF_vars(ExportOnly /\ Export!ControlEffect)
    /\ \A e \in Exports :
             /\ WF_vars(ExportOnly /\ Export!Handler(e))
             /\ WF_vars(ExportOnly /\ Export!Produce(e))
             /\ WF_vars(ExportOnly /\ Export!Consume(e))
    /\ \A p \in Publishers : WF_vars(PublishOnly /\ Publish!Running(p))
    /\ WF_vars(MergeOnly /\ Merge!Open)
    /\ WF_vars(MergeOnly /\ Merge!Recovery)
    /\ WF_vars(MergeOnly /\ Merge!Writing)
    /\ WF_vars(MergeOnly /\ Merge!Effects)
    /\ WF_vars(ApplyOnly /\ Apply!Process)
    /\ SF_vars(ApplyOnly /\ Apply!Reopen)
    /\ WF_vars(IndexOnly /\ Index!Writer)
    /\ WF_vars(IndexOnly /\ Index!Recovery)
    /\ SF_vars(IndexOnly /\ Index!Restart)
    /\ WF_vars(OptimizeOnly /\ Optimize!OptStep)
    /\ WF_vars(OptimizeOnly /\ Optimize!MutStep)
    /\ WF_vars(OptimizeOnly /\ Optimize!Reopen)
    /\ WF_vars(OptimizeOnly /\ Optimize!Sweep)
    /\ WF_vars(OptimizeOnly /\ Optimize!Opened)
    /\ WF_vars(OptimizeOnly /\ Optimize!Repair(FALSE))
    /\ WF_vars(ControlOnly /\ Control!TaskStep(reqOne))
    /\ SF_vars(ControlOnly /\ Control!Cleanup(reqOne))
    /\ WF_vars(ControlOnly /\ Control!Reopen)
    /\ WF_vars(ControlOnly /\ Control!SweepOne)
    /\ WF_vars(ControlOnly /\ Control!Opened)

-----------------------------------------------------------------------------
\* Nothing waits for ever: an admission call returns and a download that
\* resumes ends; a request gets through the gates, an export lets go of its
\* cut and a publish returns; a pending intent of a merge or of a schema apply
\* is retired; indexes are built, HEADs are pinned again (but for drift that
\* an operator must judge) and no leftover fork or intent of a branch stays,
\* once no new request comes.
EverythingEnds ==
    /\ \A r \in Calls :
          (area.of = "admission" /\ Admit!At(r, "count"))
             ~> (area.of = "admission" => Admit!At(r, "idle"))
    /\ <>(area.of = "delivery" => Delivery!Downloaded)
    /\ \A r \in Calls :
          (area.of = "gates" /\ Gates!Running(r)) ~> (area.of = "gates" => ~ Gates!Running(r))
    /\ \A e \in Exports :
          (area.of = "export" /\ Export!CutOf(e) # "none")
             ~> (area.of = "export" => Export!CutOf(e) = "none")
    /\ \A p \in Publishers :
          (area.of = "publish" /\ Publish!Started(p)) ~> (area.of = "publish" => Publish!Returned(p))
    /\ (area.of = "merge" /\ Merge!DownWithIntent) ~> (area.of = "merge" => Merge!NoIntent)
    /\ (area.of = "apply" /\ ~ Apply!NoIntent) ~> (area.of = "apply" => Apply!NoIntent)
    /\ <>[](area.of = "index" => ~ Index!Buildable)
    /\ <>[](area.of = "optimize" => Optimize!Aligned)
    /\ <>[](area.of = "branches" => Control!NoLeftovers)
=============================================================================
