------------------------------ MODULE MergeSuite ------------------------------
(*****************************************************************************)
(* Branch merge for TLC: the choice of the base from the commit history      *)
(* (MergeHistory), the ordered three-way walk of one table's rows and its    *)
(* chunked writes (RowMerge), the route that adopts a proven insert          *)
(* history without searching the target (PureInsert), and the multi-table    *)
(* commit with its intent and recovery (MergeCommit). A behaviour is about   *)
(* one of them: area names it and its bounds, and the components share the   *)
(* variables.                                                                *)
(*****************************************************************************)
EXTENDS Integers, Sequences, FiniteSets, TLC

CONSTANTS idOne, idTwo

\* The component a behaviour is about, and its variables.
VARIABLES area, x1, x2, x3, x4, x5, x6, x7, x8, x9, x10, x11, x12, x13, x14

vars == <<area, x1, x2, x3, x4, x5, x6, x7, x8, x9, x10, x11, x12, x13, x14>>

Branches == {"main", "f", "g"}
Pairs == {p \in Branches \X Branches : p[1] # p[2]}

\* Every base, source and target of three rows, in chunks of two rows or 30
\* bytes.
Walk == INSTANCE RowMerge WITH
    Rows <- 3, Values <- {"null", "a"}, IdBytes <- 10, MaxRows <- 2,
    MaxBytes <- 30, MaxRetained <- 1000, MaxChain <- 2,
    base <- x1, source <- x2, target <- x3, mode <- x4, blob <- x5,
    pc <- x6, next <- x7, selected <- x8, inserts <- x9, upserts <- x10,
    deletes <- x11, conflicts <- x12, queue <- x13, out <- x14

\* Features that merge with main in both directions, and any branch that forks
\* from and merges into any other.
HistoryCases ==
    {[of |-> "history", commits |-> 5, values |-> {0, 1}, forkFrom |-> {"main"},
          pairs |-> {p \in Pairs : "main" \in {p[1], p[2]}}],
     [of |-> "history", commits |-> 4, values |-> {0, 1}, forkFrom |-> Branches, pairs |-> Pairs]}
History(c) == INSTANCE MergeHistory WITH
    Branches <- Branches, Values <- c.values, ForkFrom <- c.forkFrom,
    MergePairs <- c.pairs, MaxCommits <- c.commits,
    commits <- x1, lineage <- x2, outcome <- x3

\* Slow searches and writers race one adopting merge, and branches are deleted
\* and created again under a name. In the last case both are, and reach the
\* versions a merge was planned at with other rows.
AllKinds == {"strict", "upsert", "known", "delete", "overwrite", "rewrite"}
InsertCases ==
    {[of |-> "insert", kinds |-> AllKinds, incarnations |-> 2, writes |-> 2, slow |-> 1],
     [of |-> "insert", kinds |-> AllKinds, incarnations |-> 3, writes |-> 3, slow |-> 0],
     [of |-> "insert", kinds |-> {"strict"}, incarnations |-> 4, writes |-> 5, slow |-> 0]}
Insert(c) == INSTANCE PureInsert WITH
    Ids <- {idOne, idTwo}, Kinds <- c.kinds, MaxVersion <- 3,
    MaxIncarnation <- c.incarnations, MaxWrites <- c.writes,
    MaxSlow <- c.slow, HistoryMax <- 2, ChunkRows <- 1, ChunksMax <- 2,
    ref <- x1, pin <- x2, made <- x3, slow <- x4, merge <- x5

\* A table of each kind and two merges: crashes and failed calls anywhere;
\* another process that commits on the branch; processes that write to the
\* very refs of the merge.
CommitCases ==
    {[of |-> "commit", forks |-> {"c"}, faults |-> 3, foreign |-> 0, steps |-> {}],
     [of |-> "commit", forks |-> {}, faults |-> 3, foreign |-> 1, steps |-> {"commit"}],
     [of |-> "commit", forks |-> {"c"}, faults |-> 1, foreign |-> 2,
          steps |-> {"commit", "table", "drift", "index", "recreate"}]}
Commit(c) == INSTANCE MergeCommit WITH
    ChainTables <- {"a"}, LazyTables <- {"b"}, ForkTables <- c.forks,
    PointerTables <- {"d"}, Leftover <- {}, ChainLen <- 2, MaxScan <- 4,
    MaxOps <- 2, MaxFaults <- c.faults, MaxForeign <- c.foreign,
    ForeignSteps <- c.steps,
    ref <- x1, manifest <- x2, lineage <- x3, branch <- x4, sidecar <- x5,
    audit <- x6, proc <- x7, next_ref <- x8, ops <- x9, faults <- x10,
    foreign <- x11

-----------------------------------------------------------------------------
WalkInit ==
    /\ area = [of |-> "rows"] /\ Walk!Init

HistoryInit ==
    /\ \E c \in HistoryCases : area = c /\ History(c)!Init
    /\ x4 = 0 /\ x5 = 0 /\ x6 = 0 /\ x7 = 0 /\ x8 = 0 /\ x9 = 0 /\ x10 = 0
       /\ x11 = 0 /\ x12 = 0 /\ x13 = 0 /\ x14 = 0

InsertInit ==
    /\ \E c \in InsertCases : area = c /\ Insert(c)!Init
    /\ x6 = 0 /\ x7 = 0 /\ x8 = 0 /\ x9 = 0 /\ x10 = 0 /\ x11 = 0 /\ x12 =
       0 /\ x13 = 0 /\ x14 = 0

CommitInit ==
    /\ \E c \in CommitCases : area = c /\ Commit(c)!Init
    /\ x12 = 0 /\ x13 = 0 /\ x14 = 0

Init == WalkInit \/ HistoryInit \/ InsertInit \/ CommitInit

WalkNext ==
    /\ area.of = "rows" /\ Walk!Next
    /\ UNCHANGED <<area>>

HistoryNext ==
    /\ \E c \in HistoryCases : area = c /\ History(c)!Next
    /\ UNCHANGED <<area, x4, x5, x6, x7, x8, x9, x10, x11, x12, x13, x14>>

InsertNext ==
    /\ \E c \in InsertCases : area = c /\ Insert(c)!Next
    /\ UNCHANGED <<area, x6, x7, x8, x9, x10, x11, x12, x13, x14>>

CommitNext ==
    /\ \E c \in CommitCases : area = c /\ Commit(c)!Next
    /\ UNCHANGED <<area, x12, x13, x14>>

Next == WalkNext \/ HistoryNext \/ InsertNext \/ CommitNext

Spec == Init /\ [][Next]_vars

-----------------------------------------------------------------------------
\* The ordered walk of one table (stage_streaming_table_merge and its chunked
\* writes): the table it leaves is the three-way merge, row by row, of base,
\* source and target; the conflicts it reports are exactly the real ones; no
\* chunk of an armed chain is refused or larger than its caps; and the row
\* selection that adopts whole tables picks what the writes would have. The
\* certified insert route, which replaces the walk when it can: a certificate
\* is true when it is used, the adopted table holds exactly the rows of the
\* target and of the source, and no id is in a table twice, however writers,
\* slow searches and recreated branches interleave.
RowsMergeExactly ==
    /\ area.of = "rows" =>
           /\ Walk!ResultIsMerge
           /\ Walk!ConflictsExact
           /\ Walk!ArmedChainApplies
           /\ Walk!ChunksBounded
           /\ Walk!SelectionMatchesWrites
    /\ \A c \in InsertCases : area = c =>
           /\ Insert(c)!CertificatesTrue
           /\ Insert(c)!AdoptedExactly
           /\ Insert(c)!IdsUnique

\* The base chosen from the commit graph (merge_base and the merge of one
\* row): a repeated merge is up to date, a change made on one side since the
\* nearest common ancestors survives, a conflict is reported only when both
\* sides changed the row, and two equal manifest entries always hold the same
\* rows. The change properties are about branches that merge with main only.
HistoryKeepsChanges ==
    \A c \in HistoryCases : area = c =>
        /\ History(c)!HeadReachesLineage
        /\ History(c)!RepeatIsUpToDate
        /\ c.pairs # Pairs => History(c)!SourceChangeKept
        /\ c.pairs # Pairs => History(c)!TargetChangeKept
        /\ c.pairs # Pairs => History(c)!ConflictIsReal
        /\ History(c)!EntryDeterminesRows
        /\ History(c)!TargetOwnsMerge

\* The multi-table merge commit: every table of the merge is visible or none,
\* recovery records the outcome that is visible, and a finished sweep leaves
\* no intent, ref or version behind unless a foreign writer stands on it.
MergeAllOrNothing ==
    \A c \in CommitCases : area = c =>
        /\ Commit(c)!AllOrNothing
        /\ Commit(c)!AuditTellsOutcome
        /\ c.foreign < 2 => Commit(c)!NoResidue
        /\ c.foreign < 2 => Commit(c)!SweepFinishes

\* Recovery never rewrites or deletes what another process put on a ref of the
\* merge.
ForeignPreserved ==
  [][
    \A c \in CommitCases : area = c => Commit(c)!ForeignPreserved
  ]_vars
=============================================================================
