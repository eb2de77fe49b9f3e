----------------------------- MODULE HandleView -----------------------------
(***************************************************************************)
(* What one database handle believes about the graph: the coordinator it   *)
(* keeps warm, the reads and write tokens taken from it, and the           *)
(* operations that replace it.                                             *)
(*                                                                         *)
(* A coordinator holds two things read from one manifest branch: the       *)
(* state (snapshot and exact head row) and the lineage projection.  A full *)
(* refresh replaces both; a live read replaces the state alone when the    *)
(* branch has a head row of its own.  Another handle publishes, deletes    *)
(* and recreates branches and applies schemas meanwhile.                   *)
(*                                                                         *)
(* Commits are numbered in publication order and a manifest branch is the  *)
(* set of commits its rows contain, so the head of a snapshot is its       *)
(* largest commit.                                                         *)
(***************************************************************************)
EXTENDS Integers, FiniteSets, FiniteSetsExt

CONSTANTS
    Ops,            \* operations of the handle that take part
    MaxCommits,     \* bound: commits after genesis
    MaxRecreate,    \* bound: deletions of the branch by others
    MaxReads,       \* bound: reads by the handle
    MaxFaults,      \* bound: failed lineage reads
    CaptureTries    \* MAX_CAPTURE_RETRIES, made small

Main == "main"
Feature == "feature"
Branches == {Main, Feature}

VARIABLES
    disk,       \* per branch: [live, inc, own, log]
    next,       \* the next commit
    schema,     \* [ir, state, lock, applied]: contract files, lock branch, applying commit
    coord,      \* the handle's coordinator
    selected,   \* the branch that open or sync_branch chose
    gate,       \* holder of the schema gate
    read, write, merge, create, apply, view,   \* the operations under way
    reads, recreated, faults

vars == <<disk, next, schema, coord, selected, gate, read, write, merge, create, apply, view,
          reads, recreated, faults>>

Absent == [live |-> FALSE, inc |-> 0, own |-> FALSE, log |-> {}]
Coord(b) ==
    [branch |-> b, inc |-> disk[b].inc, own |-> disk[b].own, snap |-> disk[b].log,
     lin |-> disk[b].log]

\* The schema a snapshot was written under.
SchemaOf(log) == IF schema.applied \in log THEN 1 ELSE 0
NoneApplied == -1

Nothing == [snap |-> {0}, head |-> 0, inc |-> 0]
NoRead == [pc |-> "idle", b |-> Main, from |-> {}, inc |-> 0, got |-> Nothing]
NoWrite == [pc |-> "idle", tries |-> 0, ir |-> 0, got |-> Nothing, own |-> FALSE]
NoMerge == [pc |-> "idle", got |-> Nothing, prev |-> coord, restore |-> FALSE]

Init ==
    /\ disk = [b \in Branches |->
                 IF b = Main THEN [live |-> TRUE, inc |-> 1, own |-> TRUE, log |-> {0}] ELSE Absent]
    /\ next = 1
    /\ schema = [ir |-> 0, state |-> 0, lock |-> FALSE, applied |-> NoneApplied]
    /\ coord = [branch |-> Main, inc |-> 1, own |-> TRUE, snap |-> {0}, lin |-> {0}]
    /\ selected = Main /\ gate = "free"
    /\ read = NoRead /\ write = NoWrite
    /\ merge = NoMerge
    /\ create = [pc |-> "idle", source |-> Main, chosen |-> Main] /\ apply = "idle"
    /\ view = [pc |-> "idle", ir |-> 0, got |-> Nothing]
    /\ reads = 0 /\ recreated = 0 /\ faults = 0

-----------------------------------------------------------------------------
(* Other handles: of this process, behind its gates, or of another one *)

OthersMay == gate = "free" \/ "foreign" \in Ops
OtherPublish(b) ==
    /\ disk[b].live /\ next <= MaxCommits /\ ~schema.lock /\ OthersMay
    /\ disk' = [disk EXCEPT ![b].log = @ \cup {next}, ![b].own = TRUE]
    /\ next' = next + 1
    /\ UNCHANGED <<schema, coord, selected, gate, read, write, merge, create, apply, view,
                   reads, recreated, faults>>
OtherCreate ==
    /\ ~disk[Feature].live /\ ~schema.lock /\ OthersMay
    /\ disk' = [disk EXCEPT ![Feature] = [live |-> TRUE, inc |-> recreated + 1, own |-> FALSE,
                                          log |-> disk[Main].log]]
    /\ UNCHANGED <<next, schema, coord, selected, gate, read, write, merge, create, apply, view,
                   reads, recreated, faults>>
OtherDelete ==
    /\ disk[Feature].live /\ recreated < MaxRecreate /\ OthersMay
    /\ disk' = [disk EXCEPT ![Feature] = Absent] /\ recreated' = recreated + 1
    /\ UNCHANGED <<next, schema, coord, selected, gate, read, write, merge, create, apply, view,
                   reads, faults>>

\* Schema apply: gate, lock branch, one manifest publish, then the three contract files
\* with the state marker last, then the lock branch goes.
ApplySteps == [idle |-> "locked", locked |-> "published", published |-> "files",
               files |-> "marker", marker |-> "done"]
Apply ==
    /\ "apply" \in Ops /\ apply \in DOMAIN ApplySteps
    /\ apply' = ApplySteps[apply]
    /\ apply = "idle" => gate = "free" /\ ~disk[Feature].live /\ next <= MaxCommits
    /\ gate' = IF apply = "marker" THEN "free" ELSE "apply"
    /\ schema' = CASE apply = "idle" -> [schema EXCEPT !.lock = TRUE]
                   [] apply = "locked" -> [schema EXCEPT !.applied = next]
                   [] apply = "published" -> [schema EXCEPT !.ir = 1]
                   [] apply = "files" -> [schema EXCEPT !.state = 1]
                   [] apply = "marker" -> [schema EXCEPT !.lock = FALSE]
    /\ IF apply = "locked"
       THEN disk' = [disk EXCEPT ![Main].log = @ \cup {next}] /\ next' = next + 1
       ELSE UNCHANGED <<disk, next>>
    /\ UNCHANGED <<coord, selected, read, write, merge, create, view, reads, recreated, faults>>

-----------------------------------------------------------------------------
(* The coordinator *)

\* probe_latest_incarnation and matches: on main the version decides, on a branch the
\* version and the identity of the manifest file.
SameVersion(c) == disk[c.branch].live /\ Cardinality(disk[c.branch].log) = Cardinality(c.snap)
Current(c) == SameVersion(c) /\ (c.branch # Main => disk[c.branch].inc = c.inc)

\* The exact head row when the branch has one, else the head of the lineage projection.
Effective(c) == IF c.own THEN Max(c.snap) ELSE Max(c.lin)
Resolved(c) == [snap |-> c.snap, head |-> Effective(c), inc |-> c.inc]

\* refresh_for_live_read: every read completes before anything is installed.
RefreshStateOnly(c) == [Coord(c.branch) EXCEPT !.lin = c.lin]
RefreshForLiveRead(c) == IF disk[c.branch].own THEN [Coord(c.branch) EXCEPT !.lin = c.lin]
                         ELSE Coord(c.branch)

-----------------------------------------------------------------------------
(* Reads: resolve_target_inner *)

ReadBegin(b) ==
    /\ "read" \in Ops /\ read.pc = "idle" /\ reads < MaxReads /\ reads' = reads + 1
    /\ read' = [NoRead EXCEPT !.pc = "probe", !.b = b, !.from = disk[b].log, !.inc = disk[b].inc]
    /\ UNCHANGED <<disk, next, schema, coord, selected, gate, write, merge, create, apply, view,
                   recreated, faults>>

Return(r) == read' = [read EXCEPT !.pc = "done", !.got = r]
Cold(b) == IF disk[b].live THEN Return(Resolved(Coord(b))) ELSE read' = NoRead

ReadProbe ==
    /\ read.pc = "probe"
    /\ IF read.b # coord.branch THEN Cold(read.b)
       ELSE IF ~disk[read.b].live THEN read' = NoRead
       ELSE IF Current(coord) THEN Return(Resolved(coord))
       ELSE read' = [read EXCEPT !.pc = "stale"]
    /\ UNCHANGED <<disk, next, schema, coord, selected, gate, write, merge, create, apply, view,
                   reads, recreated, faults>>

\* Under the write lock: checked again, refreshed, and cold if the branch was switched.
ReadRefresh ==
    /\ read.pc = "stale"
    /\ IF read.b # coord.branch THEN Cold(read.b) /\ UNCHANGED <<coord, faults>>
       ELSE IF ~disk[read.b].live THEN read' = NoRead /\ UNCHANGED <<coord, faults>>
       ELSE IF Current(coord) THEN Return(Resolved(coord)) /\ UNCHANGED <<coord, faults>>
       ELSE \/ /\ coord' = RefreshForLiveRead(coord)
               /\ Return(Resolved(RefreshForLiveRead(coord))) /\ UNCHANGED faults
            \/ /\ faults < MaxFaults /\ faults' = faults + 1    \* nothing is installed
               /\ read' = NoRead /\ UNCHANGED coord
    /\ UNCHANGED <<disk, next, schema, selected, gate, write, merge, create, apply, view,
                   reads, recreated>>
ReadEnd ==
    /\ read.pc = "done" /\ read' = NoRead
    /\ UNCHANGED <<disk, next, schema, coord, selected, gate, write, merge, create, apply, view,
                   reads, recreated, faults>>

\* capture_read_view: the accepted catalog and a snapshot under the schema gate.
AnyGate == TRUE
TakesGate == gate = "free"
ViewCatalog ==
    /\ "view" \in Ops /\ view.pc = "idle" /\ reads < MaxReads /\ reads' = reads + 1
    /\ TakesGate /\ gate' = "view"
    /\ schema.ir = schema.state
    /\ view' = [view EXCEPT !.pc = "catalog", !.ir = schema.ir]
    /\ UNCHANGED <<disk, next, schema, coord, selected, read, write, merge, create, apply,
                   recreated, faults>>
ViewSnapshot ==
    /\ view.pc = "catalog"
    /\ view' = [view EXCEPT !.pc = "done", !.got = Resolved(Coord(Main))]
    /\ gate' = IF gate = "view" THEN "free" ELSE gate
    /\ UNCHANGED <<disk, next, schema, coord, selected, read, write, merge, create, apply,
                   reads, recreated, faults>>
ViewEnd ==
    /\ view.pc = "done" /\ view' = [pc |-> "idle", ir |-> 0, got |-> Nothing]
    /\ UNCHANGED <<disk, next, schema, coord, selected, gate, read, write, merge, create, apply,
                   reads, recreated, faults>>

-----------------------------------------------------------------------------
(* open_write_txn on main, and the publish that uses the token *)

WriteRest == <<disk, next, schema, coord, selected, gate, read, merge, create, apply, view,
               reads, recreated, faults>>
Goes(pc) == write' = [write EXCEPT !.pc = pc] /\ UNCHANGED WriteRest
Refused == write' = NoWrite /\ UNCHANGED WriteRest

WriteBegin ==
    /\ "write" \in Ops /\ write.pc = "idle" /\ next <= MaxCommits
    /\ IF schema.lock THEN Refused ELSE Goes("contract")
WriteContract ==
    /\ write.pc = "contract"
    /\ IF schema.ir = schema.state
       THEN write' = [write EXCEPT !.pc = "authority", !.ir = schema.ir] /\ UNCHANGED WriteRest
       ELSE Refused

\* write_authority_for_known_branch: the warm coordinator once its probe says it is
\* current, else a fresh one.
Authority == IF coord.branch = Main /\ Current(coord) THEN coord ELSE Coord(Main)
WriteAuthority ==
    /\ write.pc = "authority"
    /\ write' = [write EXCEPT !.pc = "unlocked", !.got = Resolved(Authority)]
    /\ UNCHANGED WriteRest
WriteUnlocked ==
    /\ write.pc = "unlocked"
    /\ IF schema.lock THEN Refused ELSE Goes("trailing")

\* The marker is read again; on a difference the capture starts over.
Unchecked == TRUE
SameMarker == schema.state = write.ir
WriteTrailing ==
    /\ write.pc = "trailing"
    /\ IF SameMarker THEN Goes("token")
       ELSE IF write.tries + 1 < CaptureTries
       THEN write' = [NoWrite EXCEPT !.pc = "lock", !.tries = write.tries + 1]
            /\ UNCHANGED WriteRest
       ELSE Refused
WriteAgain ==
    /\ write.pc = "lock"
    /\ IF schema.lock THEN Refused ELSE Goes("contract")

\* Under the schema gate the token is compared with authority read again, then published.
WritePublish ==
    /\ write.pc = "token" /\ gate = "free" /\ write' = NoWrite
    /\ IF /\ ~schema.lock /\ schema.ir = write.ir /\ next <= MaxCommits
          /\ Effective(Authority) = write.got.head
       THEN /\ disk' = [disk EXCEPT ![Main].log = @ \cup {next}] /\ next' = next + 1
            /\ coord' = IF coord.branch = Main
                        THEN [coord EXCEPT !.snap = disk[Main].log \cup {next},
                                           !.lin = @ \cup {next}]
                        ELSE coord
       ELSE UNCHANGED <<disk, next, coord>>
    /\ UNCHANGED <<schema, selected, gate, read, merge, create, apply, view, reads, recreated,
                   faults>>

-----------------------------------------------------------------------------
(* Operations that replace the coordinator *)

SyncAnyTime(b) ==
    /\ "sync" \in Ops /\ disk[b].live /\ schema.ir = schema.state
    /\ coord' = Coord(b) /\ selected' = b /\ <<coord', selected'>> # <<coord, selected>>
    /\ UNCHANGED <<disk, next, schema, gate, read, write, merge, create, apply, view, reads,
                   recreated, faults>>
SyncBranch(b) ==
    /\ "sync" \in Ops /\ gate = "free" /\ disk[b].live /\ schema.ir = schema.state
    /\ coord' = Coord(b) /\ selected' = b /\ <<coord', selected'>> # <<coord, selected>>
    /\ UNCHANGED <<disk, next, schema, gate, read, write, merge, create, apply, view, reads,
                   recreated, faults>>

\* branch_merge(feature, main): the idle check refreshes everything, with no gate held.
MergeEnter ==
    /\ "merge" \in Ops /\ merge.pc = "idle" /\ disk[coord.branch].live /\ ~schema.lock
    /\ coord' = Coord(coord.branch)
    /\ merge' = [merge EXCEPT !.pc = "entered"]
    /\ UNCHANGED <<disk, next, schema, selected, gate, read, write, create, apply, view, reads,
                   recreated, faults>>

\* merge_authority_for_known_branch: the head and the commits come from the lineage
\* projection, the snapshot from the state.
FromLineage(c) == [snap |-> c.snap, head |-> Max(c.lin), inc |-> c.inc]
MergeCapture ==
    /\ merge.pc = "entered" /\ gate = "free" /\ gate' = "merge"
    /\ IF disk[Feature].live /\ ~schema.lock
       THEN merge' = [merge EXCEPT !.pc = "captured", !.got = FromLineage(Authority)]
       ELSE merge' = [merge EXCEPT !.pc = "end"]
    /\ UNCHANGED <<disk, next, schema, coord, selected, read, write, create, apply, view, reads,
                   recreated, faults>>

\* active_coordinator_matches decides whether the coordinator is replaced.
MergeSwap ==
    /\ merge.pc = "captured"
    /\ LET reuse == coord.branch = Main /\ coord.snap = merge.got.snap
       IN  /\ coord' = IF reuse THEN coord ELSE Coord(Main)
           /\ merge' = [merge EXCEPT !.pc = "swapped", !.prev = coord,
                                     !.restore = coord.branch # Main]
    /\ UNCHANGED <<disk, next, schema, selected, gate, read, write, create, apply, view, reads,
                   recreated, faults>>
MergePublish ==
    /\ merge.pc = "swapped" /\ merge' = [merge EXCEPT !.pc = "published"]
    /\ IF disk[Main].log = merge.got.snap /\ next <= MaxCommits
       THEN /\ disk' = [disk EXCEPT ![Main].log = @ \cup disk[Feature].log \cup {next}]
            /\ next' = next + 1
            /\ coord' = [coord EXCEPT !.snap = disk'[Main].log, !.lin = @ \cup {next}]
       ELSE UNCHANGED <<disk, next, coord>>
    /\ UNCHANGED <<schema, selected, gate, read, write, create, apply, view, reads, recreated,
                   faults>>
MergeRestore ==
    /\ merge.pc \in {"published", "end"} /\ gate' = "free"
    /\ coord' = IF merge.pc = "published" /\ merge.restore THEN merge.prev ELSE coord
    /\ merge' = [merge EXCEPT !.pc = "idle", !.got = Nothing, !.restore = FALSE, !.prev = coord']
    /\ UNCHANGED <<disk, next, schema, selected, read, write, create, apply, view, reads,
                   recreated, faults>>

\* branch_create: the source is the coordinator's branch, read before any gate.
CreateSource ==
    /\ "create" \in Ops /\ create.pc = "idle"
    /\ create' = [pc |-> "source", source |-> coord.branch, chosen |-> selected]
    /\ UNCHANGED <<disk, next, schema, coord, selected, gate, read, write, merge, apply, view,
                   reads, recreated, faults>>
CreateEnd ==
    /\ create.pc = "source" /\ gate = "free"
    /\ create' = [pc |-> "idle", source |-> Main, chosen |-> Main]
    /\ UNCHANGED <<disk, next, schema, coord, selected, gate, read, write, merge, apply, view,
                   reads, recreated, faults>>

Next ==
    \/ \E b \in Branches : OtherPublish(b) \/ ReadBegin(b) \/ SyncBranch(b)
    \/ OtherCreate \/ OtherDelete \/ Apply
    \/ ReadProbe \/ ReadRefresh \/ ReadEnd
    \/ ViewCatalog \/ ViewSnapshot \/ ViewEnd
    \/ WriteBegin \/ WriteContract \/ WriteAuthority \/ WriteUnlocked \/ WriteTrailing
    \/ WriteAgain \/ WritePublish
    \/ MergeEnter \/ MergeCapture \/ MergeSwap \/ MergePublish \/ MergeRestore
    \/ CreateSource \/ CreateEnd

Spec == Init /\ [][Next]_vars

-----------------------------------------------------------------------------
(* Properties *)

\* A read returns everything published on its branch before it began, and never an
\* incarnation of the branch that was already gone.
ReadFresh ==
    read.pc = "done" =>
        /\ read.got.inc >= read.inc
        /\ read.got.inc = read.inc => read.from \subseteq read.got.snap

\* The head that a read or a write token reports is the head of the snapshot it comes
\* with, also after a live read refreshed the state without the lineage.
HeadPaired ==
    /\ read.pc = "done" => read.got.head = Max(read.got.snap)
    /\ write.pc = "token" => write.got.head = Max(write.got.snap)

\* A write token pairs the old head with the old schema or the new head with the new
\* schema, whatever step of a schema apply the capture met.
TokenCoherent == write.pc = "token" => write.ir = SchemaOf(write.got.snap)

\* A read view's catalog is the one its snapshot was written under.
ViewCoherent == view.pc = "done" => view.ir = SchemaOf(view.got.snap)

\* A merge computes its base from the lineage of the snapshot it captured.
LineageCoupled == merge.pc = "captured" => merge.got.head = Max(merge.got.snap)

\* Outside the window in which a merge borrows the coordinator, the handle is on the
\* branch that was chosen for it: neither the swap nor the restore undoes a sync_branch.
HandleHome == merge.pc \notin {"swapped", "published"} => coord.branch = selected

\* branch_create starts from the branch the handle is on.
CreatesFromOwn == create.pc = "source" => create.source = create.chosen
=============================================================================
