------------------------------ MODULE BlobRead ------------------------------
(***************************************************************************)
(* One Blob cell read through Omnigraph::read_blob_at while branches are   *)
(* written, deleted and recreated and the schema gives the cell's property *)
(* or type a new lifetime.                                                 *)
(*                                                                         *)
(* A deleted branch may be created again under its name: its graph         *)
(* manifest and its native table then reach the same numeric versions with *)
(* other contents.  Numbers are all that a graph entry records of a table  *)
(* on a store without e-tags (the case modelled: an e-tag only adds a      *)
(* check), so the read proves the branch again after it has opened the     *)
(* table.                                                                  *)
(*                                                                         *)
(* A commit is a number that is never used twice; the cell's bytes are     *)
(* named by the commit that wrote them.                                    *)
(***************************************************************************)
EXTENDS Naturals, Sequences, FiniteSets

CONSTANTS
    MaxCommits,     \* bound: commits after the first
    MaxRecreate,    \* bound: forks of the feature branch
    MaxReads,       \* bound: reads
    Kinds,          \* kinds of cell a write leaves
    Lifetimes       \* bound: lifetimes of the type and of the property, 1..2

Main == "main"
Feature == "feature"
Branches == {Main, Feature}
None == 0

VARIABLES
    graph,      \* per branch: its manifest versions, <<>> when the branch is absent
    native,     \* per type lifetime and branch: the versions of the table
    commits,    \* per commit: where it was published and the cell it left
    catalog,    \* accepted type and property lifetimes
    legacy,     \* whether the first property lifetime was persisted without its id
    reader,     \* the read under way
    served,     \* managed answers given: [etag, bytes]
    forks, reads

vars == <<graph, native, commits, catalog, legacy, reader, served, forks, reads>>

\* What physical_table_schema leaves in the field's metadata.
Meta(life) == IF life = 1 /\ legacy THEN None ELSE life

Version(c, life, kind) == [tx |-> c, bytes |-> c, life |-> life, meta |-> Meta(life), kind |-> kind]

\* The entry of a graph snapshot for the cell's table, and the latest snapshot of a branch.
Entry(t, owner, ver) == [table |-> t, owner |-> owner, ver |-> ver]
Tip(b) == graph[b][Len(graph[b])]
Live(b) == graph[b] # <<>>
CellOf(e) == native[<<e.table, e.owner>>][e.ver]

Unopened == [tx |-> 0, bytes |-> 0, life |-> 0, meta |-> None, kind |-> "null"]
Idle == [pc |-> "idle", snap |-> FALSE, b |-> Main, commit |-> 1, entry |-> Entry(1, Main, 1),
         cat |-> [table |-> 1, prop |-> 1], ds |-> Unopened]

Init ==
    /\ legacy \in BOOLEAN
    /\ native = [x \in (1..Lifetimes) \X Branches |->
                   IF x = <<1, Main>> THEN <<Version(1, 1, "managed")>> ELSE <<>>]
    /\ graph = [b \in Branches |->
                  IF b = Main THEN <<[heads |-> [x \in Branches |-> IF x = Main THEN 1 ELSE None],
                                      entry |-> Entry(1, Main, 1)]>>
                  ELSE <<>>]
    /\ commits = <<[branch |-> Main, ver |-> 1, bytes |-> 1, life |-> 1, table |-> 1]>>
    /\ catalog = [table |-> 1, prop |-> 1]
    /\ reader = Idle /\ served = {} /\ forks = 0 /\ reads = 0

-----------------------------------------------------------------------------
(* Writers, branch control and schema apply *)

NextCommit == Len(commits) + 1

\* A commit on b that leaves the cell's table at entry e with the cell at v.
Publish(b, e, v) ==
    /\ NextCommit <= MaxCommits + 1
    /\ graph' = [graph EXCEPT ![b] = Append(@, [heads |-> [Tip(b).heads EXCEPT ![b] = NextCommit],
                                                entry |-> e])]
    /\ commits' = Append(commits, [branch |-> b, ver |-> Len(graph[b]) + 1, bytes |-> v.bytes,
                                   life |-> v.life, table |-> e.table])

\* The first write on a branch forks the table it inherits; later ones append.
WriteCell(b) ==
    LET e == Tip(b).entry
        old == SubSeq(native[<<e.table, e.owner>>], 1, e.ver)
    IN \E kind \in Kinds, keep \in BOOLEAN :
        LET v == IF keep THEN [CellOf(e) EXCEPT !.tx = NextCommit]
                 ELSE Version(NextCommit, CellOf(e).life, kind)
        IN /\ Live(b) /\ (keep => kind = "managed")
           /\ native' = [native EXCEPT ![<<e.table, b>>] = Append(old, v)]
           /\ Publish(b, Entry(e.table, b, e.ver + 1), v)
           /\ UNCHANGED <<catalog, legacy, reader, served, forks, reads>>

\* A commit of another table.
WriteElsewhere(b) ==
    /\ Live(b) /\ Publish(b, Tip(b).entry, CellOf(Tip(b).entry))
    /\ UNCHANGED <<native, catalog, legacy, reader, served, forks, reads>>

Fork ==
    /\ ~Live(Feature) /\ forks < MaxRecreate
    /\ graph' = [graph EXCEPT ![Feature] = graph[Main]]
    /\ forks' = forks + 1
    /\ UNCHANGED <<native, commits, catalog, legacy, reader, served, reads>>

Delete ==
    /\ Live(Feature)
    /\ graph' = [graph EXCEPT ![Feature] = <<>>]
    /\ native' = [x \in DOMAIN native |-> IF x[2] = Feature THEN <<>> ELSE native[x]]
    /\ UNCHANGED <<commits, catalog, legacy, reader, served, forks, reads>>

\* A schema that drops the property, or the type, and declares it again.
\* The schema apply needs main to be the only branch.
NewProperty ==
    LET e == Tip(Main).entry
        v == Version(NextCommit, catalog.prop + 1, "null")
    IN /\ ~Live(Feature) /\ catalog.prop < Lifetimes
       /\ catalog' = [catalog EXCEPT !.prop = @ + 1]
       /\ native' = [native EXCEPT ![<<e.table, Main>>] = Append(@, v)]
       /\ Publish(Main, Entry(e.table, Main, e.ver + 1), v)
       /\ UNCHANGED <<legacy, reader, served, forks, reads>>

NewType ==
    LET v == Version(NextCommit, catalog.prop, "null")
    IN /\ ~Live(Feature) /\ catalog.table < Lifetimes
       /\ catalog' = [catalog EXCEPT !.table = @ + 1]
       /\ native' = [native EXCEPT ![<<catalog.table + 1, Main>>] = <<v>>]
       /\ Publish(Main, Entry(catalog.table + 1, Main, 1), v)
       /\ UNCHANGED <<legacy, reader, served, forks, reads>>

-----------------------------------------------------------------------------
(* read_blob_at *)

\* effective_graph_head: the branch's own head row, or the inherited head.
EffectiveHead(s, b) == IF s.heads[b] # None THEN s.heads[b] ELSE s.heads[Main]

\* A reopened (branch, version) must still be the snapshot of the commit asked for.
SnapshotHead(s, b, c) == s.heads[b] = c

\* The entry under the current alias: bind_catalog_aliases by table lifetime,
\* and the catalog checked against the snapshot of a live target.
Bound(s) == s.entry.table = catalog.table

\* resolve_blob_cell: the lifetimes the request's names denote now.
ResolvedCell == catalog

CaptureBranch(b) ==
    /\ reader.pc = "idle" /\ reads < MaxReads /\ Live(b)
    /\ Bound(Tip(b))
    /\ reader' = [Idle EXCEPT !.pc = "captured", !.b = b, !.commit = EffectiveHead(Tip(b), b),
                              !.entry = Tip(b).entry, !.cat = ResolvedCell]
    /\ reads' = reads + 1
    /\ UNCHANGED <<graph, native, commits, catalog, legacy, served, forks>>

\* resolve_commit may know a commit from the handle's own lineage after the
\* branch is gone; the snapshot is then whatever the branch holds at its version.
CaptureSnapshot(c) ==
    LET b == commits[c].branch IN
    /\ reader.pc = "idle" /\ reads < MaxReads
    /\ commits[c].ver <= Len(graph[b])
    /\ LET s == graph[b][commits[c].ver] IN
       /\ SnapshotHead(s, b, c) /\ Bound(s)
       /\ reader' = [Idle EXCEPT !.pc = "captured", !.snap = TRUE, !.b = b, !.commit = c,
                                 !.entry = s.entry, !.cat = ResolvedCell]
    /\ reads' = reads + 1
    /\ UNCHANGED <<graph, native, commits, catalog, legacy, served, forks>>

Step(to) ==
    /\ reader' = to
    /\ UNCHANGED <<graph, native, commits, catalog, legacy, served, forks, reads>>

\* A refusal: every failed proof ends the read without an answer.
Refuse == Step(Idle)

OpenTable ==
    LET e == reader.entry
        versions == native[<<e.table, e.owner>>]
    IN /\ reader.pc = "captured"
       /\ IF e.ver > Len(versions) THEN Refuse
          ELSE Step([reader EXCEPT !.pc = "opened", !.ds = versions[e.ver]])

NoLiveProof(b, c) == TRUE
\* The selected graph ref, opened past every cache, still has the captured head.
LiveProof(b, c) == Live(b) /\ EffectiveHead(Tip(b), b) = c

ProveBranch ==
    /\ reader.pc = "opened"
    /\ IF reader.entry.owner # Main /\ ~LiveProof(reader.b, reader.commit) THEN Refuse
       ELSE Step([reader EXCEPT !.pc = "proved"])

TrustLegacy(r) == TRUE
\* A field without a persisted id: a snapshot read stands only while the table
\* it selected is the one the branch has now.
LegacyStands(r) == Live(r.b) /\ Tip(r.b).entry = r.entry /\ catalog = r.cat

ProveProperty ==
    /\ reader.pc = "proved"
    /\ LET m == reader.ds.meta IN
       IF m # None
       THEN IF m = reader.cat.prop THEN Step([reader EXCEPT !.pc = "answer"]) ELSE Refuse
       ELSE IF reader.snap /\ ~LegacyStands(reader) THEN Refuse
            ELSE Step([reader EXCEPT !.pc = "answer"])

EtagWithoutWitness(r) == <<r.entry.table, r.cat.prop, r.entry.ver, 0>>
\* blob_etag: table and property lifetimes, table version, transaction file.
BlobEtag(r) == <<r.entry.table, r.cat.prop, r.entry.ver, r.ds.tx>>

\* A null cell is not found, an external one is its descriptor, a managed one a reader.
Answer ==
    /\ reader.pc = "answer"
    /\ served' = IF reader.ds.kind = "managed"
                 THEN served \cup {[etag |-> BlobEtag(reader), bytes |-> reader.ds.bytes]} ELSE served
    /\ reader' = [reader EXCEPT !.pc = "answered"]
    /\ UNCHANGED <<graph, native, commits, catalog, legacy, forks, reads>>

Finish == reader.pc = "answered" /\ Step(Idle)

Next ==
    \/ \E b \in Branches : WriteCell(b) \/ WriteElsewhere(b) \/ CaptureBranch(b)
    \/ Fork \/ Delete \/ NewProperty \/ NewType
    \/ \E c \in DOMAIN commits : CaptureSnapshot(c)
    \/ OpenTable \/ ProveBranch \/ ProveProperty \/ Answer \/ Finish

Spec == Init /\ [][Next]_vars

-----------------------------------------------------------------------------
\* The answer holds the cell as the captured commit left it, never the cell
\* of a branch recreated under the same name and at the same versions.
ReadsCapturedCell ==
    reader.pc = "answered" => reader.ds.bytes = commits[reader.commit].bytes

\* The cell belongs to the property lifetime the request's name denoted when
\* the read captured its catalog; a dropped property is not read under the
\* name of its successor.
ReadsCapturedProperty ==
    reader.pc = "answered" => /\ reader.ds.life = reader.cat.prop
                              /\ reader.entry.table = reader.cat.table

\* Two managed answers with one entity tag have the same bytes: a download
\* resumed on a tag never mixes two values.
EtagNamesOneValue ==
    \A a, b \in served : a.etag = b.etag => a.bytes = b.bytes
=============================================================================
