---------------------------- MODULE ManifestProofs ----------------------------
(***************************************************************************)
(* Proofs about ManifestPublisher for any number of publishers, tables,    *)
(* aliases and branch recreations: the lineage is one chain, what a        *)
(* publish answers is true, and what lands does so on what its caller read.*)
(***************************************************************************)
EXTENDS ManifestPublisher, TLAPS

-----------------------------------------------------------------------------
(* The inductive invariant *)

PubFields == {"phase", "attempt", "change", "expected", "exact", "expHead", "expInc",
              "loaded", "rows", "known"}

PubsTyped ==
    /\ DOMAIN pub = Publishers
    /\ \A p \in Publishers : DOMAIN pub[p] = PubFields
    /\ incarnation \in Nat

\* Every version after the fork rewrote the graph head row: two merges always
\* have an object id in common.
HeadRowAlwaysWritten ==
    /\ manifest.version \in Nat \ {0}
    /\ DOMAIN written = 1..manifest.version
    /\ \A v \in 2..manifest.version : <<"graph_head">> \in written[v]

HasMax(S) == \E x \in S : \A y \in S : x >= y

RowsTyped ==
    /\ \A e \in manifest.vers : e.version \in Nat \ {0} /\ HasMax(VersionsOf(manifest, e.id))
    /\ \A t \in manifest.tombs : t[2] \in Nat \ {0} /\ HasMax(TombsOf(manifest, t[1]))

\* One commit for each manifest version, each the child of the one before.
Chain ==
    /\ \A v \in 1..manifest.version : \E c \in manifest.commits : c.mv = v
    /\ \A c, d \in manifest.commits : c.mv = d.mv => c = d
    /\ \A c \in manifest.commits :
         /\ c.mv \in 1..manifest.version
         /\ c.id \in Publishers \cup {Genesis}
         /\ c.mv = manifest.version => manifest.head \in {None, c.id}
         /\ c.id # Genesis => /\ <<"commit", c.id>> \in written[c.mv]
                              /\ \E d \in manifest.commits : d.id = c.parent /\ d.mv = c.mv - 1

\* What a publish under way pinned, and how the version it writes relates to it.
\* On the branch it was read from, the pinned version is a row and no tombstone.
Pinned(p) ==
    LET c == pub[p].change
    IN  /\ pub[p].expInc \in Nat /\ pub[p].expInc <= incarnation
        /\ c.kind \in {"update", "register", "rename", "tombstone", "none"}
        /\ c.kind = "register" => c.version = 1
        /\ c.kind = "tombstone" => \E x \in pub[p].expected :
             x.id = c.id /\ x.version \in Nat \ {0} /\ c.version = x.version + 1
        /\ c.kind = "update" => \E x \in pub[p].expected :
             /\ x.id = c.id /\ x.version \in Nat \ {0}
             /\ c.version \in {x.version, x.version + 1}
             /\ pub[p].expInc = incarnation => /\ x.version \in VersionsOf(manifest, c.id)
                                               /\ x.version \notin TombsOf(manifest, c.id)

\* An attempt that passed every check holds rows and a fold of what it loaded;
\* if nobody published since, what it loaded is still the manifest.
Built(p) ==
    LET m == pub[p].loaded
        folded == fold_inputs(m, pub[p].rows, resolve_lineage_rows(p, m))
    IN  /\ m.version \in 1..manifest.version
        /\ m.version = manifest.version => m = manifest
        /\ pub[p].rows = build_pending_rows(m, pub[p].change)
        /\ pub[p].known = assemble_manifest_state(folded)
        /\ check_publish_precondition(p, m)
        /\ check_expected_table_versions(p, m)
        /\ FoldValid(folded)

\* A publisher whose commit is in the manifest was told of a storage error, or
\* returned success with a state that is the manifest's if nobody published
\* after it.
Answered(p) ==
    \/ pub[p].phase = "storage"
    \/ /\ pub[p].phase = "done"
       /\ pub[p].known.version \in 1..manifest.version
       /\ pub[p].known.version = manifest.version => pub[p].known = assemble_manifest_state(manifest)

PublishInv ==
    /\ PubsTyped /\ HeadRowAlwaysWritten /\ RowsTyped /\ Chain /\ Readable(manifest)
    /\ \A p \in Publishers : pub[p].phase \in {"load", "merge"} => Pinned(p)
    /\ \A p \in Publishers : pub[p].phase = "merge" => Built(p)
    /\ \A p \in Landed : Answered(p)

-----------------------------------------------------------------------------
(* Lemmas about the operators that read a manifest *)

\* The greatest element that Max chooses is one.
LEMMA MaxIsGreatest ==
    ASSUME NEW S, HasMax(S)
    PROVE  Max(S) \in S /\ \A y \in S : Max(S) >= y
BY Zenon DEF Max, HasMax

\* Adding one number to a set of numbers keeps a greatest element.
LEMMA MaxOfOneMore ==
    ASSUME NEW S \in SUBSET Nat, NEW n \in Nat, S = {} \/ HasMax(S)
    PROVE  HasMax(S \cup {n})
<1>1. CASE S = {}
  BY <1>1 DEF HasMax
<1>2. CASE HasMax(S)
  <2>1. PICK x \in S : \A y \in S : x >= y
    BY <1>2, Zenon DEF HasMax
  <2>2. CASE n >= x
    BY <2>1, <2>2 DEF HasMax
  <2>3. CASE x >= n
    BY <2>1, <2>3, Zenon DEF HasMax
  <2> QED BY <2>2, <2>3
<1> QED BY <1>1, <1>2, Zenon

\* The rows of one identity are positive numbers with a greatest one.
LEMMA NumbersOf ==
    ASSUME RowsTyped, NEW i
    PROVE  /\ VersionsOf(manifest, i) \subseteq Nat \ {0}
           /\ TombsOf(manifest, i) \subseteq Nat \ {0}
           /\ VersionsOf(manifest, i) = {} \/ HasMax(VersionsOf(manifest, i))
           /\ TombsOf(manifest, i) = {} \/ HasMax(TombsOf(manifest, i))
<1>1. VersionsOf(manifest, i) \subseteq Nat \ {0} /\ TombsOf(manifest, i) \subseteq Nat \ {0}
  BY Zenon DEF RowsTyped, VersionsOf, TombsOf
<1>2. ASSUME VersionsOf(manifest, i) # {} PROVE HasMax(VersionsOf(manifest, i))
  <2>1. PICK e \in manifest.vers : e.id = i
    BY <1>2, Zenon DEF VersionsOf
  <2> QED BY <2>1, Zenon DEF RowsTyped
<1>3. ASSUME TombsOf(manifest, i) # {} PROVE HasMax(TombsOf(manifest, i))
  <2>1. PICK t \in manifest.tombs : t[1] = i
    BY <1>3, Zenon DEF TombsOf
  <2> QED BY <2>1, Zenon DEF RowsTyped
<1> QED BY <1>1, <1>2, <1>3, Zenon

\* MaxOr0 of the tombstones bounds them and is one of them unless it is zero.
LEMMA HighestTombstone ==
    ASSUME RowsTyped, NEW i
    PROVE  LET h == MaxOr0(TombsOf(manifest, i))
           IN  h \in Nat /\ (h = 0 \/ h \in TombsOf(manifest, i))
               /\ \A t \in TombsOf(manifest, i) : t <= h
<1>1. CASE TombsOf(manifest, i) = {}
  BY <1>1, Zenon DEF MaxOr0
<1>2. CASE TombsOf(manifest, i) # {}
  <2>1. HasMax(TombsOf(manifest, i)) /\ TombsOf(manifest, i) \subseteq Nat \ {0}
    BY <1>2, NumbersOf, Zenon
  <2> QED BY <1>2, <2>1, MaxIsGreatest, Zenon DEF MaxOr0
<1> QED BY <1>1, <1>2, Zenon

\* latest_visible_per_identity bounds every row and tombstone of the identity,
\* and unless it is a tombstone it is the newest row, above all tombstones.
LEMMA LatestBounds ==
    ASSUME RowsTyped, NEW i
    PROVE  LET v == latest_visible_per_identity(manifest, i)
           IN  /\ v \in Nat
               /\ \A w \in VersionsOf(manifest, i) \cup TombsOf(manifest, i) : w <= v
               /\ v # 0 /\ v \notin TombsOf(manifest, i) =>
                    v \in VersionsOf(manifest, i) /\ \A t \in TombsOf(manifest, i) : t < v
<1> DEFINE V == VersionsOf(manifest, i)
           T == TombsOf(manifest, i)
           h == MaxOr0(T)
           visible == {w \in V : w > h}
           latest == latest_visible_per_identity(manifest, i)
<1>1. h \in Nat /\ (h = 0 \/ h \in T) /\ \A t \in T : t <= h
  BY HighestTombstone, Zenon
<1>2. V \subseteq Nat \ {0} /\ T \subseteq Nat \ {0} /\ (V = {} \/ HasMax(V))
  BY NumbersOf, Zenon
<1>3. latest = IF visible # {} THEN Max(visible) ELSE h
  BY Zenon DEF latest_visible_per_identity
<1> HIDE DEF V, T, h, latest
<1>4. CASE visible = {}
  <2>1. latest = h
    BY <1>3, <1>4, Zenon
  <2>2. \A w \in V : w <= h
    BY <1>1, <1>2, <1>4
  <2> QED BY <1>1, <1>2, <2>1, <2>2, Zenon DEF V, T, latest
<1>5. CASE visible # {}
  <2>1. PICK x \in V : \A y \in V : x >= y
    BY <1>2, <1>5, Zenon DEF HasMax
  <2>2. x \in visible /\ x \in Nat
    <3>1. PICK w \in V : w > h
      BY <1>5, Zenon
    <3>2. x >= w /\ x \in Nat /\ w \in Nat /\ h \in Nat
      BY <1>1, <1>2, <2>1, Zenon
    <3>3. x > h
      BY <3>1, <3>2
    <3> QED BY <3>2, <3>3, Zenon
  <2>3. HasMax(visible)
    BY <2>1, <2>2, Zenon DEF HasMax
  <2>4. Max(visible) \in visible /\ \A y \in visible : Max(visible) >= y
    BY <2>3, MaxIsGreatest, Zenon
  <2>5. latest = x
    <3>1. latest = Max(visible) /\ Max(visible) \in V /\ Max(visible) >= x
      BY <1>3, <1>5, <2>2, <2>4, Zenon
    <3>2. Max(visible) \in Nat /\ x >= Max(visible)
      BY <1>2, <2>1, <3>1, Zenon
    <3> QED BY <2>2, <3>1, <3>2
  <2> QED BY <1>1, <1>2, <2>1, <2>2, <2>5 DEF V, T, latest
<1> QED BY <1>4, <1>5, Zenon

\* For a live identity it is the newest row.
LEMMA LatestOfLive ==
    ASSUME RowsTyped, NEW i \in LiveIds(manifest)
    PROVE  LET v == Max(VersionsOf(manifest, i))
           IN  /\ v \in VersionsOf(manifest, i) /\ v \in Nat \ {0}
               /\ v \notin TombsOf(manifest, i)
               /\ latest_visible_per_identity(manifest, i) = v
<1> DEFINE V == VersionsOf(manifest, i)
           T == TombsOf(manifest, i)
           h == MaxOr0(T)
           v == Max(V)
           latest == latest_visible_per_identity(manifest, i)
<1>1. PICK e \in manifest.vers : e.id = i /\ e.version > h
  BY Zenon DEF LiveIds
<1>2. e.version \in V
  BY <1>1, Zenon DEF VersionsOf
<1>3. V \subseteq Nat \ {0} /\ HasMax(V)
  BY <1>2, NumbersOf, Zenon
<1>4. v \in V /\ \A y \in V : v >= y
  BY <1>3, MaxIsGreatest, Zenon
<1>5. h \in Nat /\ \A t \in T : t <= h
  BY HighestTombstone, Zenon
<1>6. v > h
  <2> HIDE DEF V, h, v
  <2>1. v >= e.version /\ v \in Nat /\ e.version \in Nat /\ h \in Nat /\ e.version > h
    BY <1>1, <1>2, <1>3, <1>4, <1>5, Zenon
  <2> QED BY <2>1
<1>7. v \notin T
  <2> HIDE DEF V, T, h, v
  <2> QED BY <1>3, <1>4, <1>5, <1>6
<1>8. latest = v
  <2> DEFINE visible == {w \in V : w > h}
  <2>1. latest = IF visible # {} THEN Max(visible) ELSE h
    BY Zenon DEF latest_visible_per_identity
  <2> HIDE DEF V, T, h, v, latest
  <2>2. v \in visible
    BY <1>4, <1>6, Zenon
  <2>3. HasMax(visible)
    BY <1>4, <2>2, Zenon DEF HasMax
  <2>4. Max(visible) \in visible /\ \A y \in visible : Max(visible) >= y
    BY <2>3, MaxIsGreatest, Zenon
  <2>5. Max(visible) \in Nat /\ v \in Nat /\ v >= Max(visible) /\ Max(visible) >= v
    BY <1>3, <1>4, <2>2, <2>4, Zenon
  <2> QED BY <2>1, <2>2, <2>5
<1> QED BY <1>3, <1>4, <1>7, <1>8, Zenon

-----------------------------------------------------------------------------
(* The steps *)

SoundFork == HeadRowAlwaysWritten /\ RowsTyped /\ Chain /\ Readable(manifest) /\ Landed = {}

\* The fork's manifest satisfies what the invariant says of one.
LEMMA ForkIsSound ==
    manifest = ForkedManifest /\ written = [v \in {1} |-> {}] => SoundFork
<1> SUFFICES ASSUME manifest = ForkedManifest, written = [v \in {1} |-> {}] PROVE SoundFork
  BY Zenon
<1>1. manifest.version = 1 /\ manifest.tombs = {} /\ manifest.head = None
      /\ manifest.vers = {Entry(Seed, 1, SeedOwner, 1)}
      /\ manifest.commits = {[id |-> Genesis, mv |-> 1, parent |-> None]}
      /\ DOMAIN manifest.regs = {Seed}
  BY Zenon DEF ForkedManifest
<1>2. HeadRowAlwaysWritten
  BY <1>1 DEF HeadRowAlwaysWritten
<1>3. RowsTyped
  <2> DEFINE e0 == Entry(Seed, 1, SeedOwner, 1)
  <2>1. e0.id = Seed /\ e0.version = 1
    BY Zenon DEF Entry
  <2> HIDE DEF e0
  <2>2. VersionsOf(manifest, Seed) = {1}
    <3>1. {x \in manifest.vers : x.id = Seed} = {e0}
      BY <1>1, <2>1, Zenon DEF e0
    <3> QED BY <2>1, <3>1, Zenon DEF VersionsOf
  <2>3. HasMax({1})
    BY DEF HasMax
  <2>4. manifest.vers = {e0}
    BY <1>1, Zenon DEF e0
  <2> QED BY <1>1, <2>1, <2>2, <2>3, <2>4 DEF RowsTyped
<1>4. Chain
  BY <1>1 DEF Chain
<1>5. Readable(manifest)
  <2>1. LiveIds(manifest) \subseteq {Seed}
    BY <1>1 DEF LiveIds, Entry
  <2> QED BY <1>1, <2>1, Zenon DEF Readable
<1>6. Landed = {}
  BY <1>1, CommitIdsFresh DEF Landed
<1> QED BY <1>2, <1>3, <1>4, <1>5, <1>6, Zenon DEF SoundFork

\* A freshly created graph satisfies the invariant.
LEMMA InitHolds == Init => PublishInv
<1> SUFFICES ASSUME Init PROVE PublishInv
  BY Zenon
<1>1. HeadRowAlwaysWritten /\ RowsTyped /\ Chain /\ Readable(manifest) /\ Landed = {}
  BY ForkIsSound, Zenon DEF Init, SoundFork
<1>2. PubsTyped
  BY Zenon DEF Init, Idle, PubsTyped, PubFields
<1>3. \A p \in Publishers : pub[p].phase = "idle"
  BY Zenon DEF Init, Idle
<1> QED BY <1>1, <1>2, <1>3, Zenon DEF PublishInv

\* A step of one publisher that writes nothing touches only its own record:
\* it is enough that the record is sound afterwards and that the publisher had
\* not landed.
LEMMA QuietStep ==
    ASSUME PublishInv, NEW p \in Publishers, pub[p].phase \notin {"done", "storage"},
           UNCHANGED <<manifest, written, incarnation>>,
           NEW r, pub' = [pub EXCEPT ![p] = r],
           DOMAIN r = PubFields,
           r.phase \in {"load", "merge"} => Pinned(p)',
           r.phase = "merge" => Built(p)'
    PROVE  PublishInv'
<1>1. PubsTyped'
  BY Zenon DEF PublishInv, PubsTyped
<1>2. pub'[p] = r /\ \A q \in Publishers : q # p => pub'[q] = pub[q]
  BY Zenon DEF PublishInv, PubsTyped
<1>3. (HeadRowAlwaysWritten /\ RowsTyped /\ Chain /\ Readable(manifest))'
  BY Zenon DEF PublishInv, HeadRowAlwaysWritten, RowsTyped, Chain, Readable, LiveIds, VersionsOf, TombsOf
<1>4. ASSUME NEW q \in Publishers, pub'[q].phase \in {"load", "merge"} PROVE Pinned(q)'
  <2>1. CASE q = p
    BY <1>2, <1>4, <2>1, Zenon
  <2>2. CASE q # p
    <3>1. Pinned(q)
      BY <1>2, <1>4, <2>2, Zenon DEF PublishInv
    <3> QED BY <1>2, <2>2, <3>1 DEF Pinned, VersionsOf, TombsOf
  <2> QED BY <2>1, <2>2, Zenon
<1>5. ASSUME NEW q \in Publishers, pub'[q].phase = "merge" PROVE Built(q)'
  <2>1. CASE q = p
    BY <1>2, <1>5, <2>1, Zenon
  <2>2. CASE q # p
    <3>1. Built(q)
      BY <1>2, <1>5, <2>2, Zenon DEF PublishInv
    <3> QED BY <1>2, <2>2, <3>1 DEF Built, check_publish_precondition, check_expected_table_versions
  <2> QED BY <2>1, <2>2, Zenon
<1>6. ASSUME NEW q \in Landed' PROVE Answered(q)'
  <2>1. q \in Landed
    BY Zenon DEF Landed
  <2>2. Answered(q) /\ q # p
    BY <2>1, Zenon DEF PublishInv, Answered
  <2>3. q \in Publishers
    BY <2>1, Zenon DEF Landed
  <2> QED BY <1>2, <2>2, <2>3, Zenon DEF Answered
<1> QED BY <1>1, <1>3, <1>4, <1>5, <1>6, Zenon DEF PublishInv

\* Giving up leaves nothing pending.
LEMMA FailHolds ==
    ASSUME PublishInv, NEW p \in Publishers, pub[p].phase \notin {"done", "storage"}, Fail(p),
           UNCHANGED <<manifest, written, incarnation>>
    PROVE  PublishInv'
<1> DEFINE r == [Idle EXCEPT !.phase = "error"]
<1>1. pub' = [pub EXCEPT ![p] = r]
  BY Zenon DEF Fail
<1>2. DOMAIN r = PubFields /\ r.phase = "error"
  BY Zenon DEF Idle, PubFields
<1> HIDE DEF r
<1> QED BY <1>1, <1>2, QuietStep, Zenon

\* So does a call that fails in storage before its merge wrote anything.
LEMMA StorageFailsHolds ==
    ASSUME PublishInv, NEW p \in Publishers, StorageFails(p) PROVE PublishInv'
<1> DEFINE r == [Idle EXCEPT !.phase = "storage"]
<1>1. pub' = [pub EXCEPT ![p] = r] /\ pub[p].phase \notin {"done", "storage"}
      /\ UNCHANGED <<manifest, written, incarnation>>
  BY Zenon DEF StorageFails, StorageError
<1>2. DOMAIN r = PubFields /\ r.phase = "storage"
  BY Zenon DEF Idle, PubFields
<1> HIDE DEF r
<1> QED BY <1>1, <1>2, QuietStep, Zenon

\* A caller that prepares a publish pins what it read of the current manifest.
LEMMA PrepareHolds == ASSUME PublishInv, NEW p \in Publishers, Prepare(p) PROVE PublishInv'
<1>1. PICK c \in Changes(manifest), exact \in BOOLEAN :
         pub' = [pub EXCEPT ![p] =
           [@ EXCEPT !.phase = "load", !.change = c, !.exact = exact,
                     !.expHead = manifest.head, !.expInc = incarnation,
                     !.expected = IF c.kind \in {"none", "register"} THEN {}
                                  ELSE {[id |-> c.id, key |-> manifest.regs[c.id],
                                         version |-> latest_visible_per_identity(manifest, c.id)]}]]
  BY Zenon DEF Prepare
<1> DEFINE pin == [id |-> c.id, key |-> manifest.regs[c.id],
                   version |-> latest_visible_per_identity(manifest, c.id)]
           r == [pub[p] EXCEPT !.phase = "load", !.change = c, !.exact = exact,
                     !.expHead = manifest.head, !.expInc = incarnation,
                     !.expected = IF c.kind \in {"none", "register"} THEN {} ELSE {pin}]
<1>2. UNCHANGED <<manifest, written, incarnation>> /\ pub[p].phase = "idle"
  BY Zenon DEF Prepare
<1>3. pub' = [pub EXCEPT ![p] = r]
  BY <1>1, Zenon
<1>4. DOMAIN r = PubFields /\ r.phase = "load" /\ r.change = c /\ r.expInc = incarnation
      /\ (c.kind \notin {"none", "register"} => pin \in r.expected)
  BY Zenon DEF PublishInv, PubsTyped, PubFields
<1>5. pub'[p] = r
  BY <1>3, Zenon DEF PublishInv, PubsTyped
<1> HIDE DEF r
<1>6. c.kind \in {"update", "register", "rename", "tombstone", "none"}
      /\ (c.kind = "register" => c.version = 1)
  BY DEF Changes
<1>7. ASSUME c.kind \in {"update", "tombstone"}
      PROVE  /\ c.id \in LiveIds(manifest)
             /\ c.kind = "update" => c.version \in {Max(VersionsOf(manifest, c.id)),
                                                   Max(VersionsOf(manifest, c.id)) + 1}
             /\ c.kind = "tombstone" => c.version = Max(VersionsOf(manifest, c.id)) + 1
  BY <1>7 DEF Changes
<1>8. RowsTyped /\ incarnation \in Nat
  BY Zenon DEF PublishInv, PubsTyped
<1>9. Pinned(p)'
  <2>1. CASE c.kind \in {"update", "tombstone"}
    <3> DEFINE v == Max(VersionsOf(manifest, c.id))
    <3>1. /\ v \in VersionsOf(manifest, c.id) /\ v \in Nat \ {0}
          /\ v \notin TombsOf(manifest, c.id)
          /\ latest_visible_per_identity(manifest, c.id) = v
      BY <1>7, <1>8, <2>1, LatestOfLive, Zenon
    <3>2. pin.id = c.id /\ pin.version = v
      BY <3>1, Zenon
    <3>3. pin \in r.expected
      BY <1>4, <2>1, Zenon
    <3>4. c.version \in {v, v + 1} /\ (c.kind = "tombstone" => c.version = v + 1)
      BY <1>7, <2>1, Zenon
    <3> HIDE DEF pin, v
    <3> QED BY <1>2, <1>4, <1>5, <1>6, <1>8, <2>1, <3>1, <3>2, <3>3, <3>4 DEF Pinned
  <2>2. CASE c.kind \notin {"update", "tombstone"}
    BY <1>2, <1>4, <1>5, <1>6, <1>8, <2>2 DEF Pinned
  <2> QED BY <2>1, <2>2, Zenon
<1> QED BY <1>2, <1>3, <1>4, <1>9, QuietStep, Zenon

\* A load that meets contention changes nothing but its attempt count.
LEMMA LoadContendedHolds ==
    ASSUME PublishInv, NEW p \in Publishers, LoadContended(p) PROVE PublishInv'
<1>1. pub[p].phase = "load" /\ UNCHANGED <<manifest, written, incarnation>>
  BY Zenon DEF LoadContended
<1>2. CASE pub[p].attempt < RetryBudget
  <2> DEFINE r == [pub[p] EXCEPT !.attempt = @ + 1]
  <2>1. pub' = [pub EXCEPT ![p] = r]
    BY <1>2, Zenon DEF LoadContended
  <2>2. DOMAIN r = PubFields /\ r.phase = "load" /\ r.change = pub[p].change
        /\ r.expected = pub[p].expected /\ r.expInc = pub[p].expInc
    BY <1>1, Zenon DEF PublishInv, PubsTyped, PubFields
  <2>3. pub'[p] = r
    BY <2>1, Zenon DEF PublishInv, PubsTyped
  <2> HIDE DEF r
  <2>4. Pinned(p)'
    BY <1>1, <2>2, <2>3 DEF PublishInv, Pinned
  <2> QED BY <1>1, <2>1, <2>2, <2>4, QuietStep, Zenon
<1>3. CASE ~(pub[p].attempt < RetryBudget)
  BY <1>1, <1>3, FailHolds, Zenon DEF LoadContended
<1> QED BY <1>2, <1>3, Zenon

\* A load pins the manifest it read; what it builds was valid in that manifest.
LEMMA LoadAndBuildHolds ==
    ASSUME PublishInv, NEW p \in Publishers, LoadAndBuild(p) PROVE PublishInv'
<1> DEFINE rows == build_pending_rows(manifest, pub[p].change)
           folded == fold_inputs(manifest, rows, resolve_lineage_rows(p, manifest))
           r == [pub[p] EXCEPT !.phase = "merge", !.loaded = manifest, !.rows = rows,
                               !.known = assemble_manifest_state(folded)]
           ok == /\ check_publish_precondition(p, manifest)
                 /\ check_expected_table_versions(p, manifest)
                 /\ ValidChange(manifest, pub[p].change)
                 /\ FoldValid(folded)
<1>1. pub[p].phase = "load" /\ UNCHANGED <<manifest, written, incarnation>>
  BY Zenon DEF LoadAndBuild
<1>2. CASE ok
  <2>1. pub' = [pub EXCEPT ![p] = r]
    BY <1>2, Zenon DEF LoadAndBuild
  <2>2. DOMAIN r = PubFields /\ r.phase = "merge" /\ r.change = pub[p].change
        /\ r.expected = pub[p].expected /\ r.expInc = pub[p].expInc /\ r.exact = pub[p].exact
        /\ r.expHead = pub[p].expHead /\ r.loaded = manifest /\ r.rows = rows
        /\ r.known = assemble_manifest_state(folded)
    BY <1>1, Zenon DEF PublishInv, PubsTyped, PubFields
  <2>3. pub'[p] = r
    BY <2>1, Zenon DEF PublishInv, PubsTyped
  <2> HIDE DEF r
  <2>4. Pinned(p)'
    BY <1>1, <2>2, <2>3 DEF PublishInv, Pinned
  <2>5. Built(p)'
    <3>1. check_publish_precondition(p, manifest)' /\ check_expected_table_versions(p, manifest)'
      BY <1>1, <1>2, <2>2, <2>3, Zenon DEF check_publish_precondition, check_expected_table_versions
    <3>2. manifest'.version \in 1..manifest'.version
      BY <1>1 DEF PublishInv, HeadRowAlwaysWritten
    <3> QED BY <1>1, <1>2, <2>2, <2>3, <3>1, <3>2, Zenon
            DEF Built, check_publish_precondition, check_expected_table_versions
  <2> QED BY <1>1, <2>1, <2>2, <2>4, <2>5, QuietStep, Zenon
<1>3. CASE ~ok
  <2>1. Fail(p)
    BY <1>3, Zenon DEF LoadAndBuild
  <2> QED BY <1>1, <2>1, FailHolds, Zenon
<1> QED BY <1>2, <1>3, Zenon

\* A merge that loses the race, for whatever reason, wrote nothing.
LEMMA MergeContendedHolds ==
    ASSUME PublishInv, NEW p \in Publishers, MergeContended(p) PROVE PublishInv'
<1>1. pub[p].phase = "merge" /\ UNCHANGED <<manifest, written, incarnation>>
  BY Zenon DEF MergeContended
<1>2. CASE pub[p].attempt < RetryBudget
  <2> DEFINE r == [pub[p] EXCEPT !.phase = "load", !.attempt = @ + 1]
  <2>1. pub' = [pub EXCEPT ![p] = r]
    BY <1>2, Zenon DEF MergeContended, PublishInv, PubsTyped, PubFields
  <2>2. DOMAIN r = PubFields /\ r.phase = "load" /\ r.change = pub[p].change
        /\ r.expected = pub[p].expected /\ r.expInc = pub[p].expInc
    BY <1>1, Zenon DEF PublishInv, PubsTyped, PubFields
  <2>3. pub'[p] = r
    BY <2>1, Zenon DEF PublishInv, PubsTyped
  <2> HIDE DEF r
  <2>4. Pinned(p)'
    BY <1>1, <2>2, <2>3 DEF PublishInv, Pinned
  <2> QED BY <1>1, <2>1, <2>2, <2>4, QuietStep, Zenon
<1>3. CASE ~(pub[p].attempt < RetryBudget)
  BY <1>1, <1>3, FailHolds, Zenon DEF MergeContended
<1> QED BY <1>2, <1>3, Zenon

\* A branch that is dropped and made again starts from a readable fork.
LEMMA RecreateHolds == ASSUME PublishInv, Recreate PROVE PublishInv'
<1>1. manifest' = ForkedManifest /\ written' = [v \in {1} |-> {}] /\ pub' = pub
      /\ incarnation' = incarnation + 1 /\ \A p \in Publishers : pub[p].phase # "merge"
  BY Zenon DEF Recreate
<1>2. (HeadRowAlwaysWritten /\ RowsTyped /\ Chain /\ Readable(manifest))' /\ Landed' = {}
  <2>1. (manifest = ForkedManifest /\ written = [v \in {1} |-> {}] => SoundFork)'
    BY ForkIsSound, PTL
  <2> QED BY <1>1, <2>1, Zenon DEF SoundFork
<1>3. PubsTyped'
  BY <1>1 DEF PublishInv, PubsTyped
<1>4. ASSUME NEW p \in Publishers, pub[p].phase \in {"load", "merge"} PROVE Pinned(p)'
  <2>1. Pinned(p) /\ incarnation \in Nat
    BY <1>4, Zenon DEF PublishInv, PubsTyped
  <2>2. pub[p].expInc <= incarnation' /\ pub[p].expInc # incarnation'
    BY <1>1, <2>1 DEF Pinned
  <2> QED BY <1>1, <2>1, <2>2, Zenon DEF Pinned
<1> QED BY <1>1, <1>2, <1>3, <1>4, Zenon DEF PublishInv

\* A merge that meets no conflict lands on the manifest it loaded: anything
\* published in between rewrote the graph head row, which every merge writes.
LEMMA NothingBetween ==
    ASSUME PublishInv, NEW p \in Publishers, pub[p].phase = "merge", ~Conflicts(p)
    PROVE  pub[p].loaded = manifest
<1>1. Built(p) /\ HeadRowAlwaysWritten
  BY Zenon DEF PublishInv
<1>2. <<"graph_head">> \in ObjectIds(p, pub[p].rows)
  BY Zenon DEF ObjectIds
<1>3. ASSUME pub[p].loaded.version # manifest.version PROVE FALSE
  <2>1. /\ manifest.version \in DOMAIN written /\ manifest.version > pub[p].loaded.version
        /\ manifest.version \in 2..manifest.version
    BY <1>1, <1>3 DEF Built, HeadRowAlwaysWritten
  <2>2. <<"graph_head">> \in written[manifest.version]
    BY <1>1, <2>1, Zenon DEF HeadRowAlwaysWritten
  <2> QED BY <1>2, <2>1, <2>2, Zenon DEF Conflicts
<1> QED BY <1>1, <1>3, Zenon DEF Built

\* The newest lineage row is the commit of the manifest's own version.
LEMMA NewestCommit ==
    ASSUME Chain, manifest.version \in Nat \ {0}
    PROVE  \E c \in manifest.commits : c.mv = manifest.version /\ head_lineage_row(manifest) = c.id
<1>1. PICK c \in manifest.commits : c.mv = manifest.version
  BY DEF Chain
<1>2. \A d \in manifest.commits : d.mv \in Nat /\ d.mv <= c.mv
  <2>1. \A d \in manifest.commits : d.mv \in 1..manifest.version
    BY Zenon DEF Chain
  <2> QED BY <1>1, <2>1
<1>3. ASSUME NEW x \in manifest.commits, \A d \in manifest.commits : d.mv <= x.mv PROVE x = c
  <2>1. x.mv = c.mv
    BY <1>2, <1>3
  <2> QED BY <2>1, Zenon DEF Chain
<1>4. (CHOOSE x \in manifest.commits : \A d \in manifest.commits : d.mv <= x.mv) = c
  BY <1>2, <1>3, Zenon
<1> QED BY <1>1, <1>4, Zenon DEF head_lineage_row

\* What an upsert adds to the rows and tombstones of an identity.
LEMMA UpsertAdds ==
    ASSUME NEW m, NEW rows, NEW k, NEW i
    PROVE  /\ VersionsOf(Upsert(m, rows, k), i)
                = VersionsOf(m, i) \cup {r.version : r \in {x \in rows.vers : x.id = i}}
           /\ TombsOf(Upsert(m, rows, k), i)
                = TombsOf(m, i) \cup {t[2] : t \in {x \in rows.tombs : x[1] = i}}
<1> DEFINE new == Upsert(m, rows, k)
           kept == {e \in m.vers : \A r \in rows.vers : <<e.id, e.version>> # <<r.id, r.version>>}
<1>1. new.vers = kept \cup rows.vers /\ new.tombs = m.tombs \cup rows.tombs
  BY Zenon DEF Upsert
<1> HIDE DEF new
<1>2. ASSUME NEW w \in VersionsOf(m, i)
      PROVE  w \in VersionsOf(new, i)
  <2>1. PICK e \in m.vers : e.id = i /\ e.version = w
    BY <1>2, Zenon DEF VersionsOf
  <2>2. CASE e \in kept
    BY <1>1, <2>1, <2>2, Zenon DEF VersionsOf
  <2>3. CASE e \notin kept
    <3>1. PICK r \in rows.vers : r.id = e.id /\ r.version = e.version
      BY <2>3, Zenon
    <3> QED BY <1>1, <2>1, <3>1, Zenon DEF VersionsOf
  <2> QED BY <2>2, <2>3, Zenon
<1>3. VersionsOf(new, i) = VersionsOf(m, i) \cup {r.version : r \in {x \in rows.vers : x.id = i}}
  <2>1. VersionsOf(new, i) \subseteq VersionsOf(m, i) \cup {r.version : r \in {x \in rows.vers : x.id = i}}
    BY <1>1, Zenon DEF VersionsOf
  <2>2. {r.version : r \in {x \in rows.vers : x.id = i}} \subseteq VersionsOf(new, i)
    BY <1>1, Zenon DEF VersionsOf
  <2> QED BY <1>2, <2>1, <2>2, Zenon
<1>4. TombsOf(new, i) = TombsOf(m, i) \cup {t[2] : t \in {x \in rows.tombs : x[1] = i}}
  BY <1>1, Zenon DEF TombsOf
<1> QED BY <1>3, <1>4, Zenon DEF new

\* The rows a change upserts: at most one version row and one tombstone, of the
\* identity and version it names.
LEMMA PendingRows ==
    ASSUME NEW m, NEW c
    PROVE  LET rows == build_pending_rows(m, c)
           IN  /\ \A r \in rows.vers : r.id = c.id /\ r.version = c.version
                                        /\ c.kind \in {"update", "register"}
               /\ \A t \in rows.tombs : t[1] = c.id /\ t[2] = c.version /\ c.kind = "tombstone"
               /\ c.kind = "update" => Entry(c.id, c.version, c.owner, c.rows) \in rows.vers
BY DEF build_pending_rows, Entry

\* A merge that lands writes its rows and its commit over the manifest it read,
\* and the fold it had validated is the state it produced.
Lands(p, rows, commit) ==
    /\ rows = build_pending_rows(manifest, pub[p].change)
    /\ commit = [id |-> p, mv |-> manifest.version + 1, parent |-> head_lineage_row(manifest)]
    /\ manifest' = Upsert(manifest, rows, commit)
    /\ written' = Record(manifest.version + 1, ObjectIds(p, rows))
    /\ pub[p].known = assemble_manifest_state(Upsert(manifest, rows, commit))
    /\ incarnation' = incarnation
    /\ Readable(Upsert(manifest, rows, commit))
    /\ check_publish_precondition(p, manifest)
    /\ check_expected_table_versions(p, manifest)
    /\ pub[p].phase = "merge" /\ Pinned(p)

\* A merge that lands, without a conflict with what came in between, finds the
\* rows of its load where it left them.
LEMMA MergeLandsOnLoaded ==
    ASSUME PublishInv, NEW p \in Publishers, merge_rows(p)
    PROVE  \E rows, commit : Lands(p, rows, commit)
<1>1. pub[p].phase = "merge" /\ ~Conflicts(p) /\ incarnation' = incarnation
  BY Zenon DEF merge_rows
<1>2. pub[p].loaded = manifest /\ Built(p) /\ Pinned(p)
  BY <1>1, NothingBetween, Zenon DEF PublishInv
<1> DEFINE rows == pub[p].rows
           commit == resolve_lineage_rows(p, manifest)
           new == Upsert(manifest, rows, commit)
<1>3. manifest' = new /\ written' = Record(manifest.version + 1, ObjectIds(p, rows))
  BY <1>2, Zenon DEF merge_rows
<1>4. /\ rows = build_pending_rows(manifest, pub[p].change)
      /\ pub[p].known = assemble_manifest_state(new)
      /\ Readable(new)
      /\ check_publish_precondition(p, manifest) /\ check_expected_table_versions(p, manifest)
  BY <1>2, Zenon DEF Built, fold_inputs, FoldValid
<1>5. commit = [id |-> p, mv |-> manifest.version + 1, parent |-> head_lineage_row(manifest)]
  BY Zenon DEF resolve_lineage_rows
<1> HIDE DEF rows, commit
<1>6. Lands(p, rows, commit)
  BY <1>1, <1>2, <1>3, <1>4, <1>5, Zenon DEF Lands
<1> QED BY <1>6, Zenon

\* A merge that lands extends the chain of graph commits by one link.
LEMMA LandsKeepsChain ==
    ASSUME PublishInv, NEW p \in Publishers, NEW rows, NEW commit, Lands(p, rows, commit)
    PROVE  (HeadRowAlwaysWritten /\ Chain)'
<1>1. HeadRowAlwaysWritten /\ Chain
  BY Zenon DEF PublishInv
<1> DEFINE n == manifest.version + 1
<1>2. /\ manifest'.version = n /\ manifest'.commits = manifest.commits \cup {commit}
      /\ manifest'.head = commit.id
  BY Zenon DEF Lands, Upsert
<1>3. commit.id = p /\ commit.mv = n /\ commit.parent = head_lineage_row(manifest)
  BY Zenon DEF Lands
<1>4. manifest.version \in Nat \ {0} /\ n \in Nat \ {0} /\ DOMAIN written = 1..manifest.version
  BY <1>1 DEF HeadRowAlwaysWritten
<1>5. /\ DOMAIN written' = 1..n /\ written'[n] = ObjectIds(p, rows)
      /\ \A v \in 1..manifest.version : written'[v] = written[v]
  <2>1. written' = [v \in (1..manifest.version) \cup {n} |->
                      IF v = n THEN ObjectIds(p, rows) ELSE written[v]]
    BY <1>4, Zenon DEF Lands, Record
  <2>2. (1..manifest.version) \cup {n} = 1..n /\ n \notin 1..manifest.version
    BY <1>4
  <2> HIDE DEF n
  <2> QED BY <2>1, <2>2, Zenon
<1>6. <<"graph_head">> \in ObjectIds(p, rows) /\ <<"commit", p>> \in ObjectIds(p, rows)
  BY Zenon DEF ObjectIds
<1>7. HeadRowAlwaysWritten'
  <2>1. \A v \in 2..n : v = n \/ v \in 2..manifest.version
    BY <1>4
  <2>2. \A v \in 2..manifest.version : v \in 1..manifest.version
    BY <1>4
  <2> HIDE DEF n
  <2> QED BY <1>1, <1>2, <1>4, <1>5, <1>6, <2>1, <2>2, Zenon DEF HeadRowAlwaysWritten
<1>8. \A c \in manifest.commits : c.mv \in 1..manifest.version /\ c.mv # n /\ c.mv \in 1..n
  <2>1. \A c \in manifest.commits : c.mv \in 1..manifest.version
    BY <1>1, Zenon DEF Chain
  <2> QED BY <1>4, <2>1
<1>9. PICK top \in manifest.commits : top.mv = n - 1 /\ top.id = commit.parent
  BY <1>1, <1>3, <1>4, NewestCommit
<1>10. Chain'
  <2>1. \A v \in 1..n : \E c \in manifest'.commits : c.mv = v
    <3>1. \A v \in 1..n : v = n \/ v \in 1..manifest.version
      BY <1>4
    <3> QED BY <1>1, <1>2, <1>3, <3>1, Zenon DEF Chain
  <2>2. \A c, d \in manifest'.commits : c.mv = d.mv => c = d
    BY <1>1, <1>2, <1>3, <1>8, Zenon DEF Chain
  <2>3. ASSUME NEW c \in manifest'.commits
        PROVE  /\ c.mv \in 1..n
               /\ c.id \in Publishers \cup {Genesis}
               /\ c.mv = n => manifest'.head \in {None, c.id}
               /\ c.id # Genesis => /\ <<"commit", c.id>> \in written'[c.mv]
                                    /\ \E d \in manifest'.commits : d.id = c.parent /\ d.mv = c.mv - 1
    <3>1. CASE c = commit
      <4>1. n \in 1..n
        BY <1>4
      <4> HIDE DEF n
      <4> QED BY <1>2, <1>3, <1>5, <1>6, <1>9, <3>1, <4>1, Zenon
    <3>2. CASE c \in manifest.commits
      <4>1. c.mv # n /\ c.mv \in 1..n /\ written'[c.mv] = written[c.mv]
        BY <1>5, <1>8, <3>2, Zenon
      <4>2. c.id \in Publishers \cup {Genesis}
            /\ (c.id # Genesis => /\ <<"commit", c.id>> \in written[c.mv]
                                  /\ \E d \in manifest.commits : d.id = c.parent /\ d.mv = c.mv - 1)
        BY <1>1, <3>2, Zenon DEF Chain
      <4> HIDE DEF n
      <4> QED BY <1>2, <4>1, <4>2, Zenon
    <3> QED BY <1>2, <3>1, <3>2, Zenon
  <2> HIDE DEF n
  <2> QED BY <1>2, <2>1, <2>2, <2>3, Zenon DEF Chain
<1> QED BY <1>7, <1>10, Zenon

\* The rows a landing merge adds: the version and the tombstone it names are
\* positive, and a tombstone lies above every version row of its table.
LEMMA LandedRows ==
    ASSUME PublishInv, NEW p \in Publishers, NEW rows, NEW commit, Lands(p, rows, commit)
    PROVE  /\ \A r \in rows.vers : r.version \in Nat \ {0}
           /\ \A t \in rows.tombs : /\ t[2] \in Nat \ {0}
                                    /\ \A w \in VersionsOf(manifest, t[1]) : w < t[2]
<1> DEFINE c == pub[p].change
<1>1. rows = build_pending_rows(manifest, c) /\ Pinned(p) /\ RowsTyped
      /\ check_expected_table_versions(p, manifest)
  BY Zenon DEF Lands, PublishInv
<1>2. /\ \A r \in rows.vers : r.id = c.id /\ r.version = c.version /\ c.kind \in {"update", "register"}
      /\ \A t \in rows.tombs : t[1] = c.id /\ t[2] = c.version /\ c.kind = "tombstone"
  BY <1>1, PendingRows, Zenon
<1>3. c.kind \in {"update", "register"} => c.version \in Nat \ {0}
  <2>1. CASE c.kind = "update"
    <3>1. PICK x \in pub[p].expected : x.version \in Nat \ {0} /\ c.version \in {x.version, x.version + 1}
      BY <1>1, <2>1, Zenon DEF Pinned
    <3> QED BY <3>1
  <2>2. CASE c.kind = "register"
    BY <1>1, <2>2 DEF Pinned
  <2> QED BY <2>1, <2>2, Zenon
<1>4. ASSUME c.kind = "tombstone"
      PROVE  c.version \in Nat \ {0} /\ \A w \in VersionsOf(manifest, c.id) : w < c.version
  <2>1. PICK x \in pub[p].expected :
           x.id = c.id /\ x.version \in Nat \ {0} /\ c.version = x.version + 1
    BY <1>1, <1>4, Zenon DEF Pinned
  <2>2. latest_visible_per_identity(manifest, c.id) = x.version
    BY <1>1, <2>1, Zenon DEF check_expected_table_versions
  <2>3. \A w \in VersionsOf(manifest, c.id) : w <= x.version /\ w \in Nat
    BY <1>1, <2>2, LatestBounds, NumbersOf, Zenon
  <2> QED BY <2>1, <2>3
<1> QED BY <1>2, <1>3, <1>4, Zenon

\* A merge that lands keeps every registration, version and tombstone row sound.
LEMMA LandsKeepsRows ==
    ASSUME PublishInv, NEW p \in Publishers, NEW rows, NEW commit, Lands(p, rows, commit)
    PROVE  RowsTyped'
<1>1. RowsTyped /\ rows = build_pending_rows(manifest, pub[p].change)
  BY Zenon DEF PublishInv, Lands
<1>2. /\ \A r \in rows.vers : r.version \in Nat \ {0}
      /\ \A t \in rows.tombs : t[2] \in Nat \ {0}
  BY LandedRows, Zenon
<1>3. /\ \A r \in rows.vers : r.version = pub[p].change.version
      /\ \A t \in rows.tombs : t[2] = pub[p].change.version
  BY <1>1, PendingRows
<1>4. /\ manifest'.vers \subseteq manifest.vers \cup rows.vers
      /\ manifest'.tombs = manifest.tombs \cup rows.tombs
  BY Zenon DEF Lands, Upsert
<1>5. ASSUME NEW i PROVE VersionsOf(manifest', i) = {} \/ HasMax(VersionsOf(manifest', i))
  <2> DEFINE V == VersionsOf(manifest, i)
             R == {r.version : r \in {x \in rows.vers : x.id = i}}
  <2>1. VersionsOf(manifest', i) = V \cup R
    BY UpsertAdds DEF Lands
  <2>2. V \subseteq Nat /\ (V = {} \/ HasMax(V))
    BY <1>1, NumbersOf, Zenon
  <2>3. R = {} \/ \E n \in Nat : R = {n}
    BY <1>2, <1>3, Zenon
  <2> HIDE DEF V, R
  <2>4. CASE R = {}
    BY <2>1, <2>2, <2>4, Zenon
  <2>5. ASSUME NEW n \in Nat, R = {n} PROVE HasMax(V \cup R)
    BY <2>2, <2>5, MaxOfOneMore, Zenon
  <2> QED BY <2>1, <2>3, <2>4, <2>5, Zenon
<1>6. ASSUME NEW i PROVE TombsOf(manifest', i) = {} \/ HasMax(TombsOf(manifest', i))
  <2> DEFINE V == TombsOf(manifest, i)
             R == {t[2] : t \in {x \in rows.tombs : x[1] = i}}
  <2>1. TombsOf(manifest', i) = V \cup R
    BY UpsertAdds DEF Lands
  <2>2. V \subseteq Nat /\ (V = {} \/ HasMax(V))
    BY <1>1, NumbersOf, Zenon
  <2>3. R = {} \/ \E n \in Nat : R = {n}
    BY <1>2, <1>3, Zenon
  <2> HIDE DEF V, R
  <2>4. CASE R = {}
    BY <2>1, <2>2, <2>4, Zenon
  <2>5. ASSUME NEW n \in Nat, R = {n} PROVE HasMax(V \cup R)
    BY <2>2, <2>5, MaxOfOneMore, Zenon
  <2> QED BY <2>1, <2>3, <2>4, <2>5, Zenon
<1>7. ASSUME NEW e \in manifest'.vers
      PROVE  e.version \in Nat \ {0} /\ HasMax(VersionsOf(manifest', e.id))
  <2>1. e.version \in Nat \ {0}
    BY <1>1, <1>2, <1>4, Zenon DEF RowsTyped
  <2>2. e.version \in VersionsOf(manifest', e.id)
    BY Zenon DEF VersionsOf
  <2> QED BY <1>5, <2>1, <2>2, Zenon
<1>8. ASSUME NEW t \in manifest'.tombs
      PROVE  t[2] \in Nat \ {0} /\ HasMax(TombsOf(manifest', t[1]))
  <2>1. t[2] \in Nat \ {0}
    BY <1>1, <1>2, <1>4, Zenon DEF RowsTyped
  <2>2. t[2] \in TombsOf(manifest', t[1])
    BY Zenon DEF TombsOf
  <2> QED BY <1>6, <2>1, <2>2, Zenon
<1> QED BY <1>7, <1>8, Zenon DEF RowsTyped

\* A merge that lands keeps the whole invariant.
LEMMA MergeLandsHolds ==
    ASSUME PublishInv, NEW p \in Publishers, merge_rows(p),
           NEW r, pub' = [pub EXCEPT ![p] = r], DOMAIN r = PubFields,
           \/ r.phase = "storage"
           \/ r.phase = "done" /\ r.known = [pub[p].known EXCEPT !.version = manifest.version + 1]
    PROVE  PublishInv'
<1>1. PICK rows, commit : Lands(p, rows, commit)
  BY MergeLandsOnLoaded, Zenon
<1>2. (HeadRowAlwaysWritten /\ Chain /\ RowsTyped /\ Readable(manifest))'
  BY <1>1, LandsKeepsChain, LandsKeepsRows, Zenon DEF Lands
<1>3. incarnation' = incarnation
  BY <1>1, Zenon DEF Lands
<1>4. r.phase = "storage" \/ (r.phase = "done" /\ r.known = assemble_manifest_state(manifest'))
  <2>1. pub[p].known = assemble_manifest_state(manifest')
    BY <1>1, Zenon DEF Lands
  <2>2. manifest'.version = manifest.version + 1
    BY <1>1, Zenon DEF Lands, Upsert
  <2>3. [pub[p].known EXCEPT !.version = manifest.version + 1] = pub[p].known
    BY <2>1, <2>2 DEF assemble_manifest_state
  <2> QED BY <2>1, <2>3, Zenon
<1>5. pub'[p] = r /\ \A q \in Publishers : q # p => pub'[q] = pub[q]
  BY <1>3, Zenon DEF PublishInv, PubsTyped
<1>6. PubsTyped'
  BY <1>3, <1>4, <1>5, Zenon DEF PublishInv, PubsTyped
<1>7. manifest.version \in Nat \ {0} /\ manifest'.version = manifest.version + 1
  BY <1>1 DEF Lands, Upsert, PublishInv, HeadRowAlwaysWritten
<1>8. ASSUME NEW q \in Publishers, pub'[q].phase \in {"load", "merge"} PROVE Pinned(q)'
  <2>1. q # p /\ pub'[q] = pub[q] /\ Pinned(q)
    BY <1>4, <1>5, <1>8, Zenon DEF PublishInv
  <2>2. \A i : VersionsOf(manifest, i) \subseteq VersionsOf(manifest', i)
    BY <1>1, UpsertAdds DEF Lands
  <2>3. ASSUME NEW i, NEW w \in VersionsOf(manifest, i), w \notin TombsOf(manifest, i)
        PROVE  w \notin TombsOf(manifest', i)
    <3>1. TombsOf(manifest', i) = TombsOf(manifest, i) \cup {t[2] : t \in {x \in rows.tombs : x[1] = i}}
      BY <1>1, UpsertAdds DEF Lands
    <3>2. \A t \in rows.tombs : t[1] = i => t[2] # w
      <4>1. RowsTyped
        BY Zenon DEF PublishInv
      <4>2. w \in Nat
        BY <2>3, <4>1, NumbersOf, Zenon
      <4>3. \A t \in rows.tombs : t[2] \in Nat /\ (t[1] = i => w < t[2])
        BY <1>1, <2>3, LandedRows, Zenon
      <4> QED BY <4>2, <4>3
    <3> QED BY <2>3, <3>1, <3>2, Zenon
  <2> QED BY <1>3, <2>1, <2>2, <2>3, Zenon DEF Pinned
<1>9. ASSUME NEW q \in Publishers, pub'[q].phase = "merge" PROVE Built(q)'
  <2>1. q # p /\ pub'[q] = pub[q] /\ Built(q)
    BY <1>4, <1>5, <1>9, Zenon DEF PublishInv
  <2>2. pub[q].loaded.version \in 1..manifest'.version /\ pub[q].loaded.version # manifest'.version
    BY <1>7, <2>1 DEF Built
  <2>3. check_publish_precondition(q, pub[q].loaded)' /\ check_expected_table_versions(q, pub[q].loaded)'
    BY <1>3, <2>1, Zenon DEF Built, check_publish_precondition, check_expected_table_versions
  <2> QED BY <2>1, <2>2, <2>3, Zenon DEF Built
<1>10. ASSUME NEW q \in Landed' PROVE Answered(q)'
  <2>1. q \in Publishers
    BY <1>10, Zenon DEF Landed
  <2>2. CASE q = p
    <3>1. r.phase = "done" => r.known.version = manifest'.version
      BY <1>4 DEF assemble_manifest_state
    <3>2. manifest'.version \in 1..manifest'.version
      BY <1>7
    <3> QED BY <1>4, <1>5, <2>2, <3>1, <3>2, Zenon DEF Answered
  <2>3. CASE q # p
    <3>1. manifest'.commits = manifest.commits \cup {commit} /\ commit.id = p
      BY <1>1, Zenon DEF Lands, Upsert
    <3>2. q \in Landed
      BY <1>10, <2>1, <2>3, <3>1, Zenon DEF Landed
    <3>3. Answered(q) /\ pub'[q] = pub[q]
      BY <1>5, <2>1, <2>3, <3>2, Zenon DEF PublishInv
    <3>4. pub[q].phase = "storage"
          \/ (pub[q].known.version \in 1..manifest'.version /\ pub[q].known.version # manifest'.version)
      BY <1>7, <3>3 DEF Answered
    <3> QED BY <3>3, <3>4, Zenon DEF Answered
  <2> QED BY <2>2, <2>3, Zenon
<1> QED BY <1>2, <1>6, <1>8, <1>9, <1>10, Zenon DEF PublishInv

\* An acknowledged merge reports the state it produced.
LEMMA AcknowledgedHolds ==
    ASSUME PublishInv, NEW p \in Publishers, MergeLands(p) PROVE PublishInv'
<1> DEFINE r == [Idle EXCEPT !.phase = "done",
                   !.known = [pub[p].known EXCEPT !.version = manifest.version + 1]]
<1>1. merge_rows(p) /\ pub' = [pub EXCEPT ![p] = r]
  BY Zenon DEF MergeLands
<1>2. DOMAIN r = PubFields /\ r.phase = "done"
      /\ r.known = [pub[p].known EXCEPT !.version = manifest.version + 1]
  BY Zenon DEF Idle, PubFields
<1> HIDE DEF r
<1> QED BY <1>1, <1>2, MergeLandsHolds, Zenon

\* A storage error after the commit leaves the same rows behind and tells the
\* caller nothing.
LEMMA UnacknowledgedHolds ==
    ASSUME PublishInv, NEW p \in Publishers, MergeLandsUnacknowledged(p) PROVE PublishInv'
<1> DEFINE r == [Idle EXCEPT !.phase = "storage"]
<1>1. merge_rows(p) /\ pub' = [pub EXCEPT ![p] = r]
  BY Zenon DEF MergeLandsUnacknowledged, StorageError
<1>2. DOMAIN r = PubFields /\ r.phase = "storage"
  BY Zenon DEF Idle, PubFields
<1> HIDE DEF r
<1> QED BY <1>1, <1>2, MergeLandsHolds, Zenon

\* Every step of the publish loop and every recreation of the branch preserves
\* the invariant.
LEMMA StepHolds == PublishInv /\ [Next]_vars => PublishInv'
<1> SUFFICES ASSUME PublishInv, [Next]_vars PROVE PublishInv'
  BY Zenon
<1>1. ASSUME NEW p \in Publishers, Prepare(p) PROVE PublishInv'
  BY <1>1, PrepareHolds, Zenon
<1>2. ASSUME NEW p \in Publishers, LoadContended(p) PROVE PublishInv'
  BY <1>2, LoadContendedHolds, Zenon
<1>3. ASSUME NEW p \in Publishers, LoadAndBuild(p) PROVE PublishInv'
  BY <1>3, LoadAndBuildHolds, Zenon
<1>4. ASSUME NEW p \in Publishers, MergeLands(p) PROVE PublishInv'
  BY <1>4, AcknowledgedHolds, Zenon
<1>5. ASSUME NEW p \in Publishers, MergeContended(p) PROVE PublishInv'
  BY <1>5, MergeContendedHolds, Zenon
<1>6. CASE Recreate
  BY <1>6, RecreateHolds, Zenon
<1>7. CASE UNCHANGED vars
  <2>1. (PubsTyped /\ HeadRowAlwaysWritten /\ RowsTyped /\ Readable(manifest))'
    BY <1>7, Zenon DEF vars, PublishInv, PubsTyped, HeadRowAlwaysWritten, RowsTyped
  <2>2. Chain'
    BY <1>7, Zenon DEF vars, PublishInv, Chain
  <2>3. \A p \in Publishers : (pub[p].phase \in {"load", "merge"} => Pinned(p))'
    BY <1>7, Zenon DEF vars, PublishInv, Pinned
  <2>4. \A p \in Publishers : (pub[p].phase = "merge" => Built(p))'
    BY <1>7, Zenon DEF vars, PublishInv, Built, check_publish_precondition, check_expected_table_versions
  <2>5. (\A p \in Landed : Answered(p))'
    BY <1>7, Zenon DEF vars, PublishInv, Landed, Answered
  <2> QED BY <2>1, <2>2, <2>3, <2>4, <2>5, Zenon DEF PublishInv
<1>8. ASSUME NEW p \in Publishers, StorageFails(p) \/ MergeLandsUnacknowledged(p) PROVE PublishInv'
  BY <1>8, StorageFailsHolds, UnacknowledgedHolds, Zenon
<1> QED BY <1>1, <1>2, <1>3, <1>4, <1>5, <1>6, <1>7, <1>8, Zenon DEF Next, Publish

-----------------------------------------------------------------------------
(* The results *)

\* Whatever the number of publishers, tables, retries and recreations, the
\* publish loop keeps its invariant: no merge lands on anything but what it
\* loaded (publisher.rs, publish_with_precondition).
THEOREM PublishInvariantHolds == Spec => []PublishInv
<1>1. Init => PublishInv
  BY InitHolds, Zenon
<1>2. PublishInv /\ [Next]_vars => PublishInv'
  BY StepHolds, Zenon
<1> QED BY <1>1, <1>2, PTL DEF Spec

\* The graph commits are always one chain that ends in graph_head
\* (resolve_lineage_rows, head_lineage_row).
THEOREM LineageIsLinear == Spec => []LinearLineage
<1>1. PublishInv => LinearLineage
  <2> SUFFICES ASSUME PublishInv PROVE LinearLineage
    BY Zenon
  <2>1. Chain /\ manifest.version \in Nat \ {0}
    BY Zenon DEF PublishInv, HeadRowAlwaysWritten
  <2>2. PICK c \in manifest.commits : c.mv = manifest.version /\ head_lineage_row(manifest) = c.id
    BY <2>1, NewestCommit, Zenon
  <2>3. manifest.head \in {None, head_lineage_row(manifest)}
    BY <2>1, <2>2, Zenon DEF Chain
  <2> QED BY <2>1, <2>3, Zenon DEF LinearLineage, Chain
<1> QED BY <1>1, PublishInvariantHolds, PTL

\* The manifest can always be read, the state a publish returned is what a scan
\* of its version reads, and a refused publish left nothing behind
\* (assemble_manifest_state over the fold, checked before merge_rows).
THEOREM AnswersAreTrue == Spec => []PublishAnswersTrue
<1>1. PublishInv => PublishAnswersTrue
  BY Zenon DEF PublishInv, PublishAnswersTrue, AlwaysReadable, KnownStateIsRescan, RefusalLeavesNothing, Answered
<1> QED BY <1>1, PublishInvariantHolds, PTL

\* An update that lands on the branch its caller read is the newest row of its
\* table and above every tombstone (latest_visible_per_identity).
LEMMA LandedUpdateVisible ==
    ASSUME PublishInv, NEW p \in Publishers, NEW rows, NEW commit, Lands(p, rows, commit),
           pub[p].change.kind = "update", pub[p].expInc = incarnation
    PROVE  \E e \in assemble_manifest_state(manifest').entries :
              e.row.id = pub[p].change.id /\ e.row.version = pub[p].change.version
<1> DEFINE c == pub[p].change
           V == VersionsOf(manifest', c.id)
           T == TombsOf(manifest', c.id)
           row == Entry(c.id, c.version, c.owner, c.rows)
<1>1. RowsTyped /\ RowsTyped' /\ rows = build_pending_rows(manifest, c)
  BY LandsKeepsRows, Zenon DEF PublishInv, Lands
<1>2. PICK x \in pub[p].expected :
         /\ x.id = c.id /\ x.version \in Nat \ {0} /\ c.version \in {x.version, x.version + 1}
         /\ x.version \in VersionsOf(manifest, c.id) /\ x.version \notin TombsOf(manifest, c.id)
  BY Zenon DEF Lands, Pinned
<1>3. latest_visible_per_identity(manifest, c.id) = x.version
  BY <1>2, Zenon DEF Lands, check_expected_table_versions
<1>4. /\ \A w \in VersionsOf(manifest, c.id) : w <= x.version /\ w \in Nat
      /\ \A t \in TombsOf(manifest, c.id) : t < x.version /\ t \in Nat
  BY <1>1, <1>2, <1>3, LatestBounds, NumbersOf, Zenon
<1>5. /\ \A r \in rows.vers : r.id = c.id /\ r.version = c.version
      /\ rows.tombs = {} /\ row \in rows.vers
  BY <1>1, PendingRows
<1>6. row.id = c.id /\ row.version = c.version
  BY Zenon DEF Entry
<1> HIDE DEF row
<1>7. V = VersionsOf(manifest, c.id) \cup {c.version} /\ T = TombsOf(manifest, c.id)
  <2>1. /\ V = VersionsOf(manifest, c.id) \cup {r.version : r \in {y \in rows.vers : y.id = c.id}}
        /\ T = TombsOf(manifest, c.id) \cup {t[2] : t \in {y \in rows.tombs : y[1] = c.id}}
    BY UpsertAdds DEF Lands
  <2>2. {r.version : r \in {y \in rows.vers : y.id = c.id}} = {c.version}
    BY <1>5, Zenon
  <2>3. {t[2] : t \in {y \in rows.tombs : y[1] = c.id}} = {}
    BY <1>5, Zenon
  <2> QED BY <2>1, <2>2, <2>3, Zenon
<1> HIDE DEF V, T
<1>8. c.version \in Nat /\ c.version \in V /\ \A w \in V : w \in Nat /\ w <= c.version
  BY <1>2, <1>4, <1>7
<1>9. Max(V) = c.version
  <2>1. HasMax(V)
    BY <1>8, Zenon DEF HasMax
  <2>2. Max(V) \in V /\ Max(V) >= c.version
    BY <1>8, <2>1, MaxIsGreatest, Zenon
  <2> QED BY <1>8, <2>2
<1>10. MaxOr0(T) < c.version
  <2>1. MaxOr0(TombsOf(manifest, c.id)) \in Nat
        /\ (MaxOr0(TombsOf(manifest, c.id)) = 0
            \/ MaxOr0(TombsOf(manifest, c.id)) \in TombsOf(manifest, c.id))
    BY <1>1, HighestTombstone, Zenon
  <2> QED BY <1>2, <1>4, <1>7, <2>1
<1>11. row \in manifest'.vers
  BY <1>5, Zenon DEF Lands, Upsert
<1>12. row.id \in LiveIds(manifest')
  BY <1>6, <1>10, <1>11, Zenon DEF LiveIds, T
<1>13. [row |-> row, key |-> manifest'.regs[row.id]] \in assemble_manifest_state(manifest').entries
  BY <1>6, <1>9, <1>11, <1>12 DEF assemble_manifest_state, V
<1> QED BY <1>6, <1>13, Zenon

\* Whatever attempt lands, it lands on the table versions, the head and the
\* branch identity its caller read, and its update is visible
\* (check_publish_precondition, check_expected_table_versions).
THEOREM LandsWhereRead == Spec => LandsAsRead
<1> DEFINE A == LandsOnItsReadSet /\ UpdateIsVisible
<1>1. ASSUME PublishInv, [Next]_vars, NEW p \in Publishers, LandsNow(p)
      PROVE  \E rows, commit : Lands(p, rows, commit)
  <2>1. manifest' # manifest
    BY <1>1, Zenon DEF LandsNow, Landed
  <2>2. ~Recreate
    <3>1. (manifest = ForkedManifest /\ written = [v \in {1} |-> {}] => SoundFork)'
      BY ForkIsSound, PTL
    <3>2. Recreate => Landed' = {}
      BY <3>1, Zenon DEF Recreate, SoundFork
    <3> QED BY <1>1, <3>2, Zenon DEF LandsNow
  <2>3. PICK q \in Publishers : merge_rows(q)
    BY <1>1, <2>1, <2>2, Zenon DEF Next, vars, Publish, Prepare, LoadContended, LoadAndBuild, StorageFails,
       MergeLands, MergeLandsUnacknowledged, MergeContended
  <2>4. PICK rows, commit : Lands(q, rows, commit)
    BY <1>1, <2>3, MergeLandsOnLoaded, Zenon
  <2>5. manifest'.commits = manifest.commits \cup {commit} /\ commit.id = q
    BY <2>4, Zenon DEF Lands, Upsert
  <2>6. q = p
    BY <1>1, <2>5, Zenon DEF LandsNow, Landed
  <2> QED BY <2>4, <2>6, Zenon
<1>2. PublishInv /\ [Next]_vars => A
  <2> SUFFICES ASSUME PublishInv, [Next]_vars PROVE A
    BY Zenon
  <2>1. ASSUME NEW p \in Publishers, LandsNow(p)
        PROVE  /\ \A x \in pub[p].expected : latest_visible_per_identity(manifest, x.id) = x.version
               /\ pub[p].exact => manifest.head = pub[p].expHead /\ incarnation = pub[p].expInc
    BY <1>1, <2>1, Zenon DEF Lands, check_publish_precondition, check_expected_table_versions
  <2>2. ASSUME NEW p \in Publishers, LandsNow(p),
               pub[p].change.kind = "update", pub[p].expInc = incarnation
        PROVE  \E e \in assemble_manifest_state(manifest').entries :
                  e.row.id = pub[p].change.id /\ e.row.version = pub[p].change.version
    BY <1>1, <2>2, LandedUpdateVisible, Zenon
  <2> QED BY <2>1, <2>2, Zenon DEF LandsOnItsReadSet, UpdateIsVisible
<1> QED BY <1>2, PublishInvariantHolds, PTL DEF Spec, LandsAsRead
=============================================================================
