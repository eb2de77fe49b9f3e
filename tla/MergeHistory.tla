---------------------------- MODULE MergeHistory ----------------------------
(***************************************************************************)
(* Graph branches, their lineage projections (db/commit_graph.rs) and the  *)
(* decisions branch_merge takes from them (exec/merge.rs): the merge base, *)
(* already-up-to-date and fast-forward, and for a table the route by which *)
(* the target adopts, forks or rewrites it.                                *)
(*                                                                         *)
(* The graph has one table with one row, so a commit is its value and the  *)
(* table entry (owner ref and physical version) the manifest holds for it. *)
(* A branch sees the lineage rows of its own `__manifest`: those it was    *)
(* forked with and those published on it, never the rows of a branch that  *)
(* was merged into it.                                                     *)
(***************************************************************************)
EXTENDS Integers, Sequences, FiniteSets, FiniteSetsExt

CONSTANTS
    Branches,     \* branch names, "main" among them
    Values,       \* values of the row
    ForkFrom,     \* branches others are created from
    MergePairs,   \* <<source, target>> pairs the run merges
    MaxCommits    \* bound on published commits

VARIABLES
    commits,      \* every commit ever published, by id
    lineage,      \* branch -> ids of the lineage rows in its manifest
    outcome       \* of the last merge

vars == <<commits, lineage, outcome>>

None == 0
Live(b) == lineage[b] # {}
NoOutcome == [kind |-> "none", source |-> None, target |-> None]

\* Mutant: the head is the row with the least key.
HeadOfOldest(b) == CHOOSE i \in lineage[b] :
                \A j \in lineage[b] : commits[i].version <= commits[j].version

\* build_commit_cache: the head is the row with the greatest lineage key.
HeadOf(b) == CHOOSE i \in lineage[b] :
                \A j \in lineage[b] : commits[i].version >= commits[j].version

Init ==
    /\ commits = <<[branch |-> "main", version |-> 1, parent |-> None,
                    merged |-> None, value |-> CHOOSE v \in Values : TRUE,
                    entry |-> <<"main", 1>>]>>
    /\ lineage = [b \in Branches |-> IF b = "main" THEN {1} ELSE {}]
    /\ outcome = NoOutcome

-----------------------------------------------------------------------------
(* The merge base. *)

Everything == 1..Len(commits)
Far == MaxCommits
Parents(i) == {commits[i].parent, commits[i].merged} \ {None}

\* ancestor_distances: the length of the shortest path to every commit; one
\* whose row neither projection holds is reached but not walked past.
Distances(start, known) ==
    LET D[i \in Everything] ==
            IF i = start THEN 0
            ELSE Min({Far} \cup {D[j] + 1 :
                                  j \in {k \in known : k > i /\ i \in Parents(k)}})
    IN D

Reached(start, known) ==
    LET D == Distances(start, known) IN {i \in Everything : D[i] < Far}

Known(s, t) == lineage[s] \cup lineage[t]

\* Mutant: the common ancestor farthest from the heads.
MergeBasesFarthest(s, t) ==
    LET known == Known(s, t)
        common == Reached(HeadOf(s), known) \cap Reached(HeadOf(t), known)
                     \cap known
    IN {i \in common : \A j \in common : commits[i].version <= commits[j].version}

\* merge_base_from_commits: the known common ancestor with the least sum of
\* distances, then the highest manifest version; what remains tied is decided
\* by hash order.
MergeBases(s, t) ==
    LET known == Known(s, t)
        common == Reached(HeadOf(s), known) \cap Reached(HeadOf(t), known)
                     \cap known
        fromS == Distances(HeadOf(s), known)
        fromT == Distances(HeadOf(t), known)
        score == [i \in common |-> fromS[i] + fromT[i]]
        nearest == {i \in common : \A j \in common : score[i] <= score[j]}
    IN {i \in nearest :
            \A j \in nearest : commits[i].version >= commits[j].version}

-----------------------------------------------------------------------------
(* Publishing on a branch. *)

\* Mutant: the commit names itself as its parent.
PublishSelf(b, merged, value, entry) ==
    LET id == Len(commits) + 1 IN
    /\ Len(commits) < MaxCommits
    /\ commits' = Append(commits,
            [branch |-> b, version |-> commits[HeadOf(b)].version + 1,
             parent |-> id, merged |-> merged, value |-> value,
             entry |-> entry])
    /\ lineage' = [lineage EXCEPT ![b] = @ \cup {id}]

Publish(b, merged, value, entry) ==
    LET id == Len(commits) + 1 IN
    /\ Len(commits) < MaxCommits
    /\ commits' = Append(commits,
            [branch |-> b, version |-> commits[HeadOf(b)].version + 1,
             parent |-> HeadOf(b), merged |-> merged, value |-> value,
             entry |-> entry])
    /\ lineage' = [lineage EXCEPT ![b] = @ \cup {id}]

Fresh(b) == <<b, Len(commits) + 1>>

\* branch_create_from: the new branch starts with the source's manifest.
CreateBranch(b, from) ==
    /\ ~Live(b) /\ Live(from) /\ from \in ForkFrom
    /\ lineage' = [lineage EXCEPT ![b] = lineage[from]]
    /\ outcome' = NoOutcome
    /\ UNCHANGED commits

\* A mutation: the table is forked to the branch on first touch.
Write(b, v) ==
    /\ Live(b) /\ v # commits[HeadOf(b)].value
    /\ Publish(b, None, v, Fresh(b))
    /\ outcome' = NoOutcome

\* optimize compacts main: a new physical version with the same rows.
Optimize ==
    /\ Publish("main", None, commits[HeadOf("main")].value, Fresh("main"))
    /\ outcome' = NoOutcome

-----------------------------------------------------------------------------
(* branch_merge *)

Owner(e) == e[1]

\* adopt_advances_head: the source state lives on a branch and the target is
\* main or owns the table.
AdvancesHead(t, source, target) ==
    Owner(source) # "main" /\ (t = "main" \/ Owner(target) = t)

\* Mutant: the target keeps the pointer to the source's ref.
AdoptedEntryPointer(t, source, target, same_rows) ==
    IF AdvancesHead(t, source, target)
    THEN IF same_rows THEN target ELSE Fresh(t)
    ELSE source

\* publish_adopted_source_state and the delta routes: the entry the target gets
\* when it still has the base's table.
AdoptedEntry(t, source, target, same_rows) ==
    IF AdvancesHead(t, source, target)
    THEN IF same_rows THEN target ELSE Fresh(t)
    ELSE IF Owner(source) = "main" THEN source ELSE Fresh(t)

\* The route of the table: skip, adopt or row merge.  Commits hold the value
\* and the entry.
Skipped(base, source, target) ==
    source.entry = target.entry \/ base.entry = source.entry
Adopts(base, target) == base.entry = target.entry

\* Mutant: any two different rows conflict once the source changed.
ConflictsEager(base, source, target) ==
    /\ ~Skipped(base, source, target) /\ ~Adopts(base, target)
    /\ source.value # base.value /\ source.value # target.value

Conflicts(base, source, target) ==
    /\ ~Skipped(base, source, target) /\ ~Adopts(base, target)
    /\ source.value # base.value /\ target.value # base.value
    /\ source.value # target.value

\* Mutants: one side always wins.
MergedValueTarget(base, source, target) == target.value
MergedValueSource(base, source, target) ==
    IF Skipped(base, source, target) THEN target.value ELSE source.value

MergedValue(base, source, target) ==
    IF Skipped(base, source, target) \/ source.value = base.value
    THEN target.value ELSE source.value

\* Mutant: a row merge that changes the row keeps the target's version.
MergedEntryStale(t, base, source, target) ==
    IF Skipped(base, source, target) THEN target.entry
    ELSE IF Adopts(base, target)
    THEN AdoptedEntry(t, source.entry, target.entry, source.value = base.value)
    ELSE target.entry

MergedEntry(t, base, source, target) ==
    IF Skipped(base, source, target) THEN target.entry
    ELSE IF Adopts(base, target)
    THEN AdoptedEntry(t, source.entry, target.entry, source.value = base.value)
    ELSE IF MergedValue(base, source, target) = target.value THEN target.entry
    ELSE Fresh(t)

Outcome(kind, s, t) ==
    outcome' = [kind |-> kind, source |-> HeadOf(s), target |-> HeadOf(t)]

\* Mutant: a source whose manifest version is not above the target's is taken
\* for merged already.
MergeUpToDateByVersion(s, t) ==
    /\ Live(s) /\ Live(t)
    /\ commits[HeadOf(s)].version <= commits[HeadOf(t)].version
    /\ Outcome("up_to_date", s, t)
    /\ UNCHANGED <<commits, lineage>>

MergeUpToDate(s, t) ==
    /\ Live(s) /\ Live(t) /\ HeadOf(s) \in MergeBases(s, t)
    /\ Outcome("up_to_date", s, t)
    /\ UNCHANGED <<commits, lineage>>

MergeConflict(s, t) ==
    /\ Live(s) /\ Live(t)
    /\ \E base \in MergeBases(s, t) :
          /\ base # HeadOf(s)
          /\ Conflicts(commits[base], commits[HeadOf(s)], commits[HeadOf(t)])
    /\ Outcome("conflict", s, t)
    /\ UNCHANGED <<commits, lineage>>

\* A fast-forward is a merge whose base is the target's head.
Merge(s, t) ==
    /\ Live(s) /\ Live(t)
    /\ \E base \in MergeBases(s, t) :
          LET b == commits[base]
              source == commits[HeadOf(s)]
              target == commits[HeadOf(t)] IN
          /\ base # HeadOf(s)
          /\ ~Conflicts(b, source, target)
          /\ Publish(t, HeadOf(s), MergedValue(b, source, target),
                     MergedEntry(t, b, source, target))
          /\ Outcome(IF base = HeadOf(t) THEN "fast_forward" ELSE "merged", s, t)

Next ==
    \/ \E b, from \in Branches : CreateBranch(b, from)
    \/ \E b \in Branches, v \in Values : Write(b, v)
    \/ Optimize
    \/ \E p \in MergePairs : MergeUpToDate(p[1], p[2])
    \/ \E p \in MergePairs : MergeConflict(p[1], p[2])
    \/ \E p \in MergePairs : Merge(p[1], p[2])

Spec == Init /\ [][Next]_vars

-----------------------------------------------------------------------------
(* Properties. *)

Ancestors(i) == Reached(i, Everything)

\* The common ancestors of two commits that no other one descends from.
NearestCommon(i, j) ==
    LET common == Ancestors(i) \cap Ancestors(j)
    IN {a \in common : \A c \in common \ {a} : a \notin Ancestors(c)}

TypeOK ==
    /\ \A i \in Everything :
          /\ commits[i].branch \in Branches /\ commits[i].value \in Values
          /\ commits[i].parent < i /\ commits[i].merged < i
    /\ \A b \in Branches : lineage[b] \subseteq Everything

\* A branch's head is the commit published on it last: every other row of its
\* lineage is one of its ancestors by first parents (the head is chosen by
\* manifest version, db/commit_graph.rs should_replace_head).
HeadReachesLineage ==
    \A b \in Branches : Live(b) => lineage[b] \subseteq Ancestors(HeadOf(b))

\* Right after s was merged into t, and until s moves, merging s into t again
\* is already up to date.
RepeatIsUpToDate ==
    \A p \in MergePairs :
        Live(p[1]) /\ Live(p[2]) /\ commits[HeadOf(p[2])].merged = HeadOf(p[1])
        => MergeBases(p[1], p[2]) = {HeadOf(p[1])}

\* A merge brings the source's change: when the source changed the row since
\* the nearest common ancestors and the target did not, the merge commit holds
\* the source's value.
SourceChangeKept ==
    outcome.kind \in {"fast_forward", "merged", "up_to_date"} =>
        LET near == NearestCommon(outcome.source, outcome.target)
            source == commits[outcome.source].value
            result == IF outcome.kind = "up_to_date"
                      THEN commits[outcome.target].value
                      ELSE commits[Len(commits)].value
        IN (\A a \in near : commits[a].value # source
                            /\ commits[a].value = commits[outcome.target].value)
           => result = source

\* A merge never undoes the target's change: when only the target changed the
\* row since the nearest common ancestors, it keeps its value.
TargetChangeKept ==
    outcome.kind \in {"fast_forward", "merged"} =>
        LET near == NearestCommon(outcome.source, outcome.target)
        IN (\A a \in near : commits[a].value = commits[outcome.source].value
                            /\ commits[a].value # commits[outcome.target].value)
           => commits[Len(commits)].value = commits[outcome.target].value

\* A conflict is reported only when both sides changed the row since their
\* nearest common ancestors.
ConflictIsReal ==
    outcome.kind = "conflict" =>
        \E a \in NearestCommon(outcome.source, outcome.target) :
            /\ commits[a].value # commits[outcome.source].value
            /\ commits[a].value # commits[outcome.target].value

\* Equal entries are equal tables: the routes that compare or reuse entries
\* (same_manifest_state, pointer switch, fork) never stand for other rows.
EntryDeterminesRows ==
    \A i, j \in Everything :
        commits[i].entry = commits[j].entry => commits[i].value = commits[j].value

\* A merge leaves no pointer into the storage of the branch it merged: the
\* target's entry is main's, its own, or the one it had before.
TargetOwnsMerge ==
    \A i \in Everything :
        commits[i].merged # None =>
            \/ Owner(commits[i].entry) \in {"main", commits[i].branch}
            \/ commits[i].entry = commits[commits[i].parent].entry
=============================================================================
