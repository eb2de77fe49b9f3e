-------------------------- MODULE ManifestPublisher --------------------------
(***************************************************************************)
(* The one publish door of a graph branch: GraphNamespacePublisher's       *)
(* compare-and-swap loop over the rows of `__manifest`.  Publishers run    *)
(* concurrently; each attempt scans the manifest, checks the caller's      *)
(* authority, builds its rows, folds the state it will report, and then    *)
(* merges the rows through Lance's row-level CAS.                          *)
(***************************************************************************)
EXTENDS Integers, FiniteSetsExt

CONSTANTS Publishers,    \* one publish each; also its graph commit id
          Identities,    \* immutable table identities
          Keys,          \* table aliases
          Owners,        \* branches that may own a table's version
          Seed,          \* the identity registered when the branch is forked
          SeedKey, SeedOwner,
          Genesis, None,
          RetryBudget,   \* PUBLISHER_RETRY_BUDGET
          MaxRecreate    \* bound: delete/recreate of the branch

\* Commit ids are fresh: no publish reuses the id of the inherited commit.
ASSUME CommitIdsFresh == Genesis \notin Publishers

VARIABLES manifest,      \* rows of the branch's __manifest, by object type
          written,       \* object ids each manifest version wrote
          incarnation,   \* Lance branch identifier
          pub            \* the publishers

vars == <<manifest, written, incarnation, pub>>

Entry(i, v, owner, n) == [id |-> i, version |-> v, owner |-> owner, rows |-> n]

\* A fresh fork inherits its parent's tables and lineage but has no graph_head.
ForkedManifest ==
    [version |-> 1, regs |-> [i \in {Seed} |-> SeedKey],
     vers |-> {Entry(Seed, 1, SeedOwner, 1)}, tombs |-> {},
     commits |-> {[id |-> Genesis, mv |-> 1, parent |-> None]}, head |-> None]

-----------------------------------------------------------------------------
(* Reading the manifest *)

VersionsOf(m, i) == {e.version : e \in {x \in m.vers : x.id = i}}
TombsOf(m, i) == {t[2] : t \in {x \in m.tombs : x[1] = i}}
MaxOr0(S) == IF S = {} THEN 0 ELSE Max(S)

is_live_identity(m, i) == VersionsOf(m, i) # {} /\ MaxOr0(TombsOf(m, i)) < Max(VersionsOf(m, i))

latest_visible_no_tombs(m, i) == MaxOr0(VersionsOf(m, i))

\* Latest version above every tombstone; else the highest tombstone; else 0.
latest_visible_per_identity(m, i) ==
    LET visible == {v \in VersionsOf(m, i) : v > MaxOr0(TombsOf(m, i))}
    IN  IF visible # {} THEN Max(visible) ELSE MaxOr0(TombsOf(m, i))

\* The visible state: the newest row of each identity no tombstone seals, under
\* its current alias.  Two live identities under one alias are an error.
LiveIds(m) == {e.id : e \in {x \in m.vers : x.version > MaxOr0(TombsOf(m, x.id))}}

Readable(m) ==
    /\ LiveIds(m) \subseteq DOMAIN m.regs
    /\ \A i, j \in LiveIds(m) : m.regs[i] = m.regs[j] => i = j
    /\ \A t \in m.tombs : t[1] \in DOMAIN m.regs /\ m.regs[t[1]] = t[3]

assemble_manifest_state(m) ==
    [version |-> m.version, head |-> m.head,
     entries |-> {[row |-> e, key |-> m.regs[e.id]] :
                    e \in {x \in m.vers : x.id \in LiveIds(m)
                                          /\ x.version = Max(VersionsOf(m, x.id))}}]

head_lineage_row_oldest(m) == (CHOOSE c \in m.commits : \A d \in m.commits : d.mv >= c.mv).id
head_lineage_row(m) == (CHOOSE c \in m.commits : \A d \in m.commits : d.mv <= c.mv).id

-----------------------------------------------------------------------------
(* One attempt: authority, rows, fold *)

check_head_first_attempt_only(p, m) ==
    pub[p].exact /\ pub[p].attempt = 0 => m.head = pub[p].expHead /\ incarnation = pub[p].expInc

check_publish_precondition(p, m) ==
    pub[p].exact => m.head = pub[p].expHead /\ incarnation = pub[p].expInc

check_expected_table_versions(p, m) ==
    \A x \in pub[p].expected :
        /\ x.id \in DOMAIN m.regs => m.regs[x.id] = x.key
        /\ latest_visible_per_identity(m, x.id) = x.version

\* A version row may be rewritten only to hand it to another owner branch.
VersionFree(m, c) ==
    \A e \in m.vers : e.id = c.id /\ e.version = c.version => e.rows = c.rows /\ e.owner # c.owner

BoundTo(m, c) == c.id \in DOMAIN m.regs /\ m.regs[c.id] = c.key

\* "register" is a registration and its first version in one batch.
ValidChange(m, c) ==
    CASE c.kind = "register" -> (c.id \in DOMAIN m.regs => BoundTo(m, c)) /\ VersionFree(m, c)
      [] c.kind = "update" -> BoundTo(m, c) /\ VersionFree(m, c)
      [] c.kind = "rename" ->
            c.id \in DOMAIN m.regs /\ is_live_identity(m, c.id) /\ m.regs[c.id] = c.was
      [] c.kind = "tombstone" ->
            BoundTo(m, c) /\ \A t \in m.tombs : <<t[1], t[2]>> # <<c.id, c.version>>
      [] OTHER -> TRUE

\* Rows the batch upserts, by object id.
build_pending_rows(m, c) ==
    [regs  |-> IF (c.kind = "register" /\ c.id \notin DOMAIN m.regs)
                  \/ (c.kind = "rename" /\ c.key # c.was)
               THEN {<<c.id, c.key>>} ELSE {},
     vers  |-> IF c.kind \in {"update", "register"}
               THEN {Entry(c.id, c.version, c.owner, c.rows)} ELSE {},
     tombs |-> IF c.kind = "tombstone" THEN {<<c.id, c.version, c.key>>} ELSE {}]

\* The commit row and the branch's mutable head row, pinned to the next version.
resolve_lineage_rows(p, m) == [id |-> p, mv |-> m.version + 1, parent |-> head_lineage_row(m)]

ObjectIdsNoHead(p, rows) ==
    {<<"version", e.id, e.version>> : e \in rows.vers} \cup {<<"commit", p>>}

ObjectIds(p, rows) ==
    {<<"table", r[1]>> : r \in rows.regs}
      \cup {<<"version", e.id, e.version>> : e \in rows.vers}
      \cup {<<"tombstone", t[1], t[2]>> : t \in rows.tombs}
      \cup {<<"commit", p>>, <<"graph_head">>}

\* Merge-insert on object_id: a matching row is replaced, another is added.
Upsert(m, rows, commit) ==
    [version |-> m.version + 1,
     regs |-> [i \in DOMAIN m.regs \cup {r[1] : r \in rows.regs} |->
                 IF \E r \in rows.regs : r[1] = i
                 THEN (CHOOSE r \in rows.regs : r[1] = i)[2] ELSE m.regs[i]],
     vers |-> {e \in m.vers : \A r \in rows.vers : <<e.id, e.version>> # <<r.id, r.version>>}
                \cup rows.vers,
     tombs |-> m.tombs \cup rows.tombs,
     commits |-> m.commits \cup {commit},
     head |-> commit.id]

NoFoldCheck(folded) == TRUE

\* The complete post-batch fold is validated before the physical merge.
FoldValid(folded) == Readable(folded)

fold_inputs_keeps_first(m, rows, commit) ==
    [Upsert(m, rows, commit) EXCEPT !.vers = m.vers \cup {e \in rows.vers :
        \A x \in m.vers : <<e.id, e.version>> # <<x.id, x.version>>}]

fold_inputs(m, rows, commit) == Upsert(m, rows, commit)

-----------------------------------------------------------------------------
(* The publishers *)

Idle == [phase |-> "idle", attempt |-> 0, change |-> [kind |-> "none"], expected |-> {},
         exact |-> FALSE, expHead |-> None, expInc |-> 0, loaded |-> ForkedManifest,
         rows |-> [regs |-> {}, vers |-> {}, tombs |-> {}], known |-> None]

Init ==
    /\ manifest = ForkedManifest
    /\ written = [v \in {1} |-> {}]
    /\ incarnation = 0
    /\ pub = [p \in Publishers |-> Idle]

\* What a caller holding a fresh snapshot asks for: a version bump, a handoff of
\* the same version to another owner branch, a new table, a rename, a drop, or
\* a commit that changes no table.
Changes(m) ==
    LET live == LiveIds(m)
        v(i) == Max(VersionsOf(m, i))
        now(i) == CHOOSE e \in m.vers : e.id = i /\ e.version = v(i)
    IN  {[kind |-> "update", id |-> i, key |-> m.regs[i], version |-> v(i) + 1,
          owner |-> now(i).owner, rows |-> 1] : i \in live}
        \cup {[kind |-> "update", id |-> i, key |-> m.regs[i], version |-> v(i),
               owner |-> o, rows |-> now(i).rows] : i \in live, o \in Owners}
        \cup {[kind |-> "register", id |-> i, key |-> k, version |-> 1, owner |-> SeedOwner,
               rows |-> 1] : i \in Identities \ DOMAIN m.regs, k \in Keys}
        \cup {[kind |-> "rename", id |-> i, was |-> m.regs[i], key |-> k] : i \in live, k \in Keys}
        \cup {[kind |-> "tombstone", id |-> i, key |-> m.regs[i], version |-> v(i) + 1] : i \in live}
        \cup {[kind |-> "none"]}

\* The caller pins the table versions it read, and, unless it is a legacy or
\* recovery path, the exact branch identity and graph head.
Prepare(p) ==
    /\ pub[p].phase = "idle"
    /\ \E c \in Changes(manifest), exact \in BOOLEAN :
         pub' = [pub EXCEPT ![p] =
           [@ EXCEPT !.phase = "load", !.change = c, !.exact = exact,
                     !.expHead = manifest.head, !.expInc = incarnation,
                     !.expected = IF c.kind \in {"none", "register"} THEN {}
                                  ELSE {[id |-> c.id, key |-> manifest.regs[c.id],
                                         version |-> latest_visible_per_identity(manifest, c.id)]}]]
    /\ UNCHANGED <<manifest, written, incarnation>>

\* An error the publisher decides itself: a failed check, exhausted contention.
Fail(p) == pub' = [pub EXCEPT ![p] = [Idle EXCEPT !.phase = "error"]]

\* Every other error is opaque storage (map_lance_publish_error): it is returned
\* as it is and never retried.
StorageError(p) == pub' = [pub EXCEPT ![p] = [Idle EXCEPT !.phase = "storage"]]

\* The scan or the merge fails and wrote nothing.
StorageFails(p) ==
    /\ pub[p].phase \in {"load", "merge"}
    /\ StorageError(p)
    /\ UNCHANGED <<manifest, written, incarnation>>

\* load_publish_state may itself report retryable contention.
LoadContended(p) ==
    /\ pub[p].phase = "load"
    /\ IF pub[p].attempt < RetryBudget THEN pub' = [pub EXCEPT ![p].attempt = @ + 1]
                                       ELSE Fail(p)
    /\ UNCHANGED <<manifest, written, incarnation>>

\* Scan, check and fold; nothing is written yet.
LoadAndBuild(p) ==
    /\ pub[p].phase = "load"
    /\ LET rows == build_pending_rows(manifest, pub[p].change)
           folded == fold_inputs(manifest, rows, resolve_lineage_rows(p, manifest))
           ok == /\ check_publish_precondition(p, manifest)
                 /\ check_expected_table_versions(p, manifest)
                 /\ ValidChange(manifest, pub[p].change)
                 /\ FoldValid(folded)
       IN  IF ok THEN pub' = [pub EXCEPT ![p] = [@ EXCEPT !.phase = "merge", !.loaded = manifest,
                                                   !.rows = rows,
                                                   !.known = assemble_manifest_state(folded)]]
                 ELSE Fail(p)
    /\ UNCHANGED <<manifest, written, incarnation>>

\* Lance rebases a merge over commits that wrote none of its object ids.
Conflicts(p) ==
    \E v \in DOMAIN written : v > pub[p].loaded.version
        /\ written[v] \cap ObjectIds(p, pub[p].rows) # {}

Record(n, ids) == [v \in DOMAIN written \cup {n} |-> IF v = n THEN ids ELSE written[v]]

\* merge_rows: one Lance commit adds the batch and the lineage rows.
merge_rows(p) ==
    /\ pub[p].phase = "merge" /\ ~Conflicts(p)
    /\ manifest' = Upsert(manifest, pub[p].rows, resolve_lineage_rows(p, pub[p].loaded))
    /\ written' = Record(manifest.version + 1, ObjectIds(p, pub[p].rows))
    /\ UNCHANGED incarnation

MergeLands(p) ==
    /\ merge_rows(p)
    /\ pub' = [pub EXCEPT ![p] = [Idle EXCEPT !.phase = "done",
                  !.known = [pub[p].known EXCEPT !.version = manifest.version + 1]]]

\* The commit is durable and the call that made it reports a storage error.
MergeLandsUnacknowledged(p) == merge_rows(p) /\ StorageError(p)

MergeContended(p) ==
    /\ pub[p].phase = "merge" /\ Conflicts(p)
    /\ IF pub[p].attempt < RetryBudget
       THEN pub' = [pub EXCEPT ![p].phase = "load", ![p].attempt = @ + 1]
       ELSE Fail(p)
    /\ UNCHANGED <<manifest, written, incarnation>>

\* The branch is deleted and forked again under the same name.  Branch control
\* is excluded from a merge in flight (single-writer-process bound).
Recreate ==
    /\ incarnation < MaxRecreate
    /\ \A p \in Publishers : pub[p].phase # "merge"
    /\ incarnation' = incarnation + 1
    /\ manifest' = ForkedManifest
    /\ written' = [v \in {1} |-> {}]
    /\ UNCHANGED pub

Publish(p) ==
    \/ Prepare(p) \/ LoadContended(p) \/ LoadAndBuild(p) \/ StorageFails(p)
    \/ MergeLands(p) \/ MergeLandsUnacknowledged(p) \/ MergeContended(p)

Next == (\E p \in Publishers : Publish(p)) \/ Recreate

\* A publish is one async call: it runs on until it returns.
Running(p) == LoadAndBuild(p) \/ MergeLands(p) \/ MergeContended(p)

Spec == Init /\ [][Next]_vars

-----------------------------------------------------------------------------
(* Properties *)

Landed == {p \in Publishers : \E c \in manifest.commits : c.id = p}

\* However attempts of different publishers interleave, the graph commits are
\* one chain: each is pinned to the manifest version that made it visible, its
\* parent is the commit before it, and graph_head names the last one
\* (resolve_lineage_rows inside the CAS loop).
LinearLineage ==
    /\ manifest.head \in {None, head_lineage_row(manifest)}
    /\ \A c \in manifest.commits :
         /\ c.id # Genesis => <<"commit", c.id>> \in written[c.mv]
         /\ c.id # Genesis => \E d \in manifest.commits : d.id = c.parent /\ d.mv = c.mv - 1

\* No interleaving of registrations, renames, drops and updates leaves a
\* manifest that assemble_manifest_state or the scan would refuse: the fold is
\* validated before the merge and the merge conflicts with everyone else's.
AlwaysReadable == Readable(manifest)

\* The state a publish returns, folded in memory, is what a re-scan of the
\* manifest it produced would read, owner-branch handoffs included.
KnownStateIsRescan ==
    \A p \in Landed : pub[p].phase = "done" /\ pub[p].known.version = manifest.version
        => pub[p].known = assemble_manifest_state(manifest)

\* A publish refused by the publisher's own verdict (a stale precondition, an
\* invalid change, contention past the budget) left no row of its own behind.
\* Only a storage error, whose caller cannot know, may hide a landed commit.
RefusalLeavesNothing == \A p \in Landed : pub[p].phase \in {"done", "storage"}

LandsNow(p) == p \in Landed' /\ p \notin Landed

\* Whatever attempt lands, acknowledged or not, it lands on the table versions
\* its caller read, and with an exact precondition on the very head and branch
\* identity too.
LandsOnItsReadSet ==
    \A p \in Publishers : LandsNow(p) =>
      /\ \A x \in pub[p].expected :
           latest_visible_per_identity(manifest, x.id) = x.version
      /\ pub[p].exact => manifest.head = pub[p].expHead /\ incarnation = pub[p].expInc

\* A table update that lands is visible: it never lands under the tombstone
\* of a concurrent drop.  A caller without the exact precondition is promised
\* this only while the branch it read has not been recreated: a handoff of
\* version v read from the old branch can meet a drop numbered v on the new one.
UpdateIsVisible ==
    \A p \in Publishers : LandsNow(p) /\ pub[p].change.kind = "update"
                           /\ pub[p].expInc = incarnation =>
      \E e \in assemble_manifest_state(manifest').entries :
         e.row.id = pub[p].change.id /\ e.row.version = pub[p].change.version

\* What a publish answers is the truth: the manifest can always be read, the
\* state a publish returned is what a scan of its own version reads, and a
\* publish that was refused left nothing behind.
PublishAnswersTrue == AlwaysReadable /\ KnownStateIsRescan /\ RefusalLeavesNothing

\* A publish that lands does so on the tables, the head and the branch its
\* caller read, and its table update is then visible.
LandsAsRead == [][LandsOnItsReadSet /\ UpdateIsVisible]_vars

Started(p) == pub[p].phase = "load"
Returned(p) == pub[p].phase \in {"done", "error", "storage"}
=============================================================================
