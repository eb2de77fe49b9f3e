----------------------------- MODULE ChangeFeed -----------------------------
(***************************************************************************)
(* What changed between two graph commits: diff_snapshots (a net diff that *)
(* uses row-version stamps where both ends lie on one table branch and     *)
(* compares rows by id elsewhere) and commit_changes_page (the exact       *)
(* changes of one commit against its first parent, in bounded pages with a *)
(* caller-owned cursor).                                                   *)
(*                                                                         *)
(* A commit is a snapshot: a function from immutable table identities to   *)
(* manifest entries, with the rows the entry's version holds.  Lance       *)
(* stamps each row with the version of its last write; compaction moves    *)
(* Blob payloads without touching the stamps.  A Blob descriptor says where*)
(* in its data file the payload lies and not which file that is: payloads  *)
(* have one size here, and any write may put one at any of the places.     *)
(* Aliases, identities and row ids are numbers, in the order of the        *)
(* strings they stand for.                                                 *)
(***************************************************************************)
EXTENDS Integers, Sequences, FiniteSets, SequencesExt, FiniteSetsExt, TLC

CONSTANTS Ids, Vals, Null, Empty, Payloads, Places,
          MaxCommits,
          Identities, Aliases,
          Declared,           \* identities the graph was initialised with
          Limits, Budgets     \* what a caller may ask of one page

VARIABLES
    commits,     \* graph commits in publication order
    head,        \* branch -> its head commit
    reclaimed,   \* table versions cleanup has removed
    reading,     \* the commit a feed reader wants, 0 for none
    cursor,      \* its cursor, <<>> before the first page
    got,         \* the changes it has received
    status       \* "open", "complete" or the error that ended it

vars == <<commits, head, reclaimed, reading, cursor, got, status>>

NewTable(k) == [key |-> k, version |-> 1, branch |-> "main", rows |-> <<>>]

Init ==
    /\ commits = <<[parent |-> 0, tables |-> [i \in Declared |-> NewTable(i)]]>>
    /\ head = [b \in {"main"} |-> 1]
    /\ reclaimed = {}
    /\ reading = 0
    /\ cursor = <<>>
    /\ got = <<>>
    /\ status = "open"

-----------------------------------------------------------------------------
(* Histories: what the writers of the graph may publish. *)

Tables(c) == commits[c].tables

Publish(b, tables) ==
    /\ Len(commits) < MaxCommits
    /\ commits' = Append(commits, [parent |-> head[b], tables |-> tables])
    /\ head' = [head EXCEPT ![b] = Len(commits) + 1]
    /\ UNCHANGED <<reclaimed, reading, cursor, got, status>>

\* A write lands on the table ref of its graph branch; the first write of a
\* branch forks the ref at the version it inherited.
Advance(e, b, rows) == [e EXCEPT !.version = @ + 1, !.branch = b, !.rows = rows]

Cell(v, p, at, e) == [val |-> v, pay |-> p, place |-> at, stamp |-> e.version + 1]

\* One commit writes the same rows into every table of `ts`.
Upsert(b, ts, ids, v, p, at) ==
    Publish(b, [i \in DOMAIN Tables(head[b]) |->
        LET e == Tables(head[b])[i] IN
        IF i \in ts THEN Advance(e, b, [x \in ids |-> Cell(v, p, at, e)] @@ e.rows) ELSE e])

DeleteRow(b, i, id) ==
    LET e == Tables(head[b])[i] IN
    /\ id \in DOMAIN e.rows
    /\ Publish(b, (i :> Advance(e, b, [x \in DOMAIN e.rows \ {id} |-> e.rows[x]]))
                  @@ Tables(head[b]))

\* A load that overwrites a table stamps every row; a compaction, which optimize
\* runs on main, only moves the payloads.
Rewrite(b, i, at) ==
    LET e == Tables(head[b])[i]
    IN Publish(b, (i :> Advance(e, b, [x \in DOMAIN e.rows |->
                       Cell(e.rows[x].val, e.rows[x].pay, at, e)])) @@ Tables(head[b]))

Compact(i, at) ==
    LET e == Tables(head["main"])[i]
    IN Publish("main", (i :> Advance(e, "main", [x \in DOMAIN e.rows |->
                           [e.rows[x] EXCEPT !.place = at]])) @@ Tables(head["main"]))

\* A schema apply publishes on main, and only while there is no other branch.
Schema == Tables(head["main"])
PublishSchema(tables) == DOMAIN head = {"main"} /\ Publish("main", tables)

Live == {Schema[i].key : i \in DOMAIN Schema}
Unused == {i \in Identities : \A c \in DOMAIN commits : i \notin DOMAIN Tables(c)}

AddTable(k) ==
    /\ k \notin Live /\ Unused # {}
    /\ PublishSchema((Min(Unused) :> NewTable(k)) @@ Schema)

DropTable(i) == PublishSchema([j \in DOMAIN Schema \ {i} |-> Schema[j]])

Rename(i, k) == k \notin Live /\ PublishSchema([Schema EXCEPT ![i].key = k])

\* One apply drops a table, gives its alias to another and rewrites that.
DropAndTake(i, j, at) ==
    /\ i # j
    /\ PublishSchema([x \in DOMAIN Schema \ {i} |->
           IF x # j THEN Schema[x]
           ELSE [Advance(Schema[j], "main", [r \in DOMAIN Schema[j].rows |->
                    Cell(Schema[j].rows[r].val, Schema[j].rows[r].pay, at, Schema[j])])
                 EXCEPT !.key = Schema[i].key]])

Fork ==
    /\ "b" \notin DOMAIN head
    /\ head' = ("b" :> head["main"]) @@ head
    /\ UNCHANGED <<commits, reclaimed, reading, cursor, got, status>>

-----------------------------------------------------------------------------
(* changed_table_intervals: pairs of entries by identity, in alias order. *)

SameState(from, to, i) ==
    /\ i \in DOMAIN from /\ i \in DOMAIN to
    /\ from[i].version = to[i].version
    /\ from[i].branch = to[i].branch

KeyOf(from, to, i) == IF i \in DOMAIN to THEN to[i].key ELSE from[i].key

BeforeByKey(from, to, i, j) ==
    \/ KeyOf(from, to, i) < KeyOf(from, to, j)
    \/ KeyOf(from, to, i) = KeyOf(from, to, j) /\ i < j

ChangedIntervals(from, to) ==
    SetToSortSeq({i \in DOMAIN from \cup DOMAIN to : ~SameState(from, to, i)},
                 LAMBDA i, j : BeforeByKey(from, to, i, j))

RowsAt(t, i) == IF i \in DOMAIN t THEN t[i].rows ELSE <<>>

-----------------------------------------------------------------------------
(* diff_snapshots. *)

Change(i, id, op) == [ident |-> i, id |-> id, op |-> op]

Added(f, t, i) == {Change(i, id, "insert") : id \in DOMAIN t \ DOMAIN f}
Removed(f, t, i) == {Change(i, id, "delete") : id \in DOMAIN f \ DOMAIN t}

TouchedExclusive(t, vf, vt) == {id \in DOMAIN t : t[id].stamp > vf /\ t[id].stamp < vt}
TouchedBetween(t, vf, vt) == {id \in DOMAIN t : t[id].stamp > vf /\ t[id].stamp <= vt}

DiffSameLineage(from, to, i) ==
    LET f == from[i].rows
        t == to[i].rows
    IN {Change(i, id, IF id \in DOMAIN f THEN "update" ELSE "insert") :
            id \in TouchedBetween(t, from[i].version, to[i].version)}
       \cup Removed(f, t, i)

\* Values are compared as the text Arrow prints, where null and "" are alike.
Shown(v) == IF v = Null THEN Empty ELSE v

\* A default scan yields the descriptor of a Blob, and that is what is printed.
Signature(r) == <<Shown(r.val), r.place>>

DiffCrossBranch(f, t, i) ==
    Added(f, t, i) \cup Removed(f, t, i)
    \cup {Change(i, id, "update") :
            id \in {x \in DOMAIN f \cap DOMAIN t : Signature(f[x]) # Signature(t[x])}}

SameLineage(from, to, i) == from[i].branch = to[i].branch

DiffTable(from, to, i) ==
    IF i \in DOMAIN from \cap DOMAIN to /\ SameLineage(from, to, i)
    THEN DiffSameLineage(from, to, i)
    ELSE DiffCrossBranch(RowsAt(from, i), RowsAt(to, i), i)

DiffSnapshots(from, to) ==
    UNION {DiffTable(from, to, i) : i \in ToSet(ChangedIntervals(from, to))}

-----------------------------------------------------------------------------
(* commit_changes_page. *)

\* Mutant: the payloads of differing descriptors are not compared.
RowsEqualByDescriptor(l, r) == Signature(l) = Signature(r)

\* Descriptors first; only differing ones pay for a comparison of the bytes.
RowsEqual(l, r) ==
    /\ Shown(l.val) = Shown(r.val)
    /\ l.place = r.place \/ l.pay = r.pay

\* The ordered merge of one table's rows, from the cursor's id on.
TableChanges(from, to, i, afterId) ==
    LET f == RowsAt(from, i)
        t == RowsAt(to, i)
        entry(id) == [ident |-> i, key |-> KeyOf(from, to, i), id |-> id,
                      op |-> IF id \notin DOMAIN t THEN "delete"
                             ELSE IF id \notin DOMAIN f THEN "insert" ELSE "update",
                      image |-> IF id \in DOMAIN t THEN <<t[id].val, t[id].pay>>
                                ELSE <<f[id].val, f[id].pay>>]
        differs(id) == ~(id \in DOMAIN f /\ id \in DOMAIN t /\ RowsEqual(f[id], t[id]))
        ids == {id \in DOMAIN f \cup DOMAIN t : id > afterId /\ differs(id)}
        order == SetToSortSeq(ids, <)
    IN [n \in DOMAIN order |-> entry(order[n])]

\* Intervals the cursor has passed are skipped, its own is resumed after its id.
Passed(cur, from, to, i) ==
    /\ cur # <<>>
    /\ \/ KeyOf(from, to, i) < cur.key
       \/ KeyOf(from, to, i) = cur.key /\ i < cur.ident

AfterId(cur, from, to, i) ==
    IF cur # <<>> /\ cur.key = KeyOf(from, to, i) /\ cur.ident = i THEN cur.id ELSE -1

Stream(from, to, cur) ==
    LET left == SelectSeq(ChangedIntervals(from, to), LAMBDA i : ~Passed(cur, from, to, i))
        all == FlattenSeq([n \in DOMAIN left |->
                   TableChanges(from, to, left[n], AfterId(cur, from, to, left[n]))])
        base == IF cur = <<>> THEN 0 ELSE cur.index + 1
    IN [n \in DOMAIN all |-> all[n] @@ [index |-> base + n - 1]]

\* A change costs more the more its image holds.
Bytes(c) == IF c.image[1] \in {Null, Empty} THEN 1 ELSE 2
BytesOf(s) == FoldLeft(LAMBDA acc, c : acc + Bytes(c), 0, s)

\* How many changes of the stream fit one page.
Fitting(s, limit, budget) ==
    Max({n \in 0..Min({limit, Len(s)}) : BytesOf(SubSeq(s, 1, n)) <= budget})

\* The intervals a page opens: up to the one of the change that did not fit.
Opened(from, to, cur, s, n) ==
    LET left == SelectSeq(ChangedIntervals(from, to), LAMBDA i : ~Passed(cur, from, to, i))
    IN IF n = Len(s) THEN ToSet(left)
       ELSE {i \in ToSet(left) : BeforeByKey(from, to, i, s[n + 1].ident)
                                 \/ i = s[n + 1].ident}

Gone(t, i) == i \in DOMAIN t /\ <<i, t[i].branch, t[i].version>> \in reclaimed

CursorRestarts(c, s, n) == [commit |-> c, key |-> s[n].key, ident |-> s[n].ident,
                            id |-> s[n].id, index |-> 0]
CursorOfParent(c, s, n) == [commit |-> commits[c].parent, key |-> s[n].key,
                            ident |-> s[n].ident, id |-> s[n].id, index |-> s[n].index]

\* The cursor names the commit and the last change it delivered.
CursorAfter(c, s, n) == [commit |-> c, key |-> s[n].key, ident |-> s[n].ident,
                         id |-> s[n].id, index |-> s[n].index]

AnyCursor(cur, c) == TRUE

ValidCursor(cur, c) == cur = <<>> \/ cur.commit = c

FromOf(c) == IF commits[c].parent = 0 THEN Tables(c) ELSE Tables(commits[c].parent)

\* What one call answers: an error, or changes and where to go on.
Page(c, cur, limit, budget) ==
    LET from == FromOf(c)
        to == Tables(c)
        s == Stream(from, to, cur)
        n == Fitting(s, limit, budget)
        gap == \E i \in Opened(from, to, cur, s, n) : Gone(from, i) \/ Gone(to, i)
    IN IF ~ValidCursor(cur, c) THEN [answer |-> "rejected"]
       ELSE IF gap THEN [answer |-> "gap"]
       ELSE IF n = Len(s) THEN [answer |-> "complete", changes |-> s]
       ELSE IF n = 0 THEN [answer |-> "too large"]
       ELSE [answer |-> "more", changes |-> SubSeq(s, 1, n), next |-> CursorAfter(c, s, n)]

StartReading ==
    /\ reading = 0
    /\ \E c \in DOMAIN commits : reading' = c
    /\ UNCHANGED <<commits, head, reclaimed, cursor, got, status>>

\* One request.  The caller may name another commit than the cursor's, and may
\* change its limits from page to page; it keeps what a page delivered.
ReadPage ==
    /\ reading # 0 /\ status = "open"
    /\ \E c \in DOMAIN commits, limit \in Limits, budget \in Budgets :
        /\ c = reading \/ cursor # <<>>
        /\ LET p == Page(c, cursor, limit, budget) IN
           CASE p.answer = "complete" ->
                   got' = got \o p.changes /\ status' = "complete" /\ UNCHANGED cursor
             [] p.answer = "more" ->
                   got' = got \o p.changes /\ cursor' = p.next /\ UNCHANGED status
             [] p.answer = "gap" ->
                   status' = "gap" /\ UNCHANGED <<got, cursor>>
             [] OTHER -> UNCHANGED <<got, cursor, status>>
    /\ UNCHANGED <<commits, head, reclaimed, reading>>

\* Cleanup removes a table version no branch head still uses.
Reclaim ==
    /\ \E c \in DOMAIN commits : \E i \in DOMAIN Tables(c) :
        LET e == Tables(c)[i] IN
        /\ \A b \in DOMAIN head : ~(i \in DOMAIN Tables(head[b])
               /\ SameState(Tables(c), Tables(head[b]), i))
        /\ reclaimed' = reclaimed \cup {<<i, e.branch, e.version>>}
    /\ UNCHANGED <<commits, head, reading, cursor, got, status>>

Writes ==
    \/ \E b \in DOMAIN head :
        \/ \E ts \in SUBSET DOMAIN Tables(head[b]) \ {{}}, ids \in SUBSET Ids \ {{}},
              v \in Vals, p \in Payloads, at \in Places : Upsert(b, ts, ids, v, p, at)
        \/ \E i \in DOMAIN Tables(head[b]) :
            \/ \E id \in Ids : DeleteRow(b, i, id)
            \/ \E at \in Places : Rewrite(b, i, at)
    \/ \E i \in DOMAIN Schema :
        \/ \E at \in Places : Compact(i, at)
        \/ \E j \in DOMAIN Schema, at \in Places : DropAndTake(i, j, at)
        \/ DropTable(i)
        \/ \E k \in Aliases : Rename(i, k)
    \/ \E k \in Aliases : AddTable(k)

\* the writers alone
WriterNext == Writes \/ Fork

Next == Writes \/ Fork \/ StartReading \/ ReadPage \/ Reclaim

Spec == Init /\ [][Next]_vars

-----------------------------------------------------------------------------
(* References: the logical difference of two table lifetimes. *)

Net(f, t, i) ==
    {[ident |-> i, id |-> id,
      op |-> IF id \notin DOMAIN f THEN "insert"
             ELSE IF id \notin DOMAIN t THEN "delete" ELSE "update"] :
        id \in {x \in DOMAIN f \cup DOMAIN t :
                  ~(x \in DOMAIN f /\ x \in DOMAIN t
                    /\ f[x].val = t[x].val /\ f[x].pay = t[x].pay)}}

NetDiff(from, to) ==
    UNION {Net(RowsAt(from, i), RowsAt(to, i), i) : i \in DOMAIN from \cup DOMAIN to}

Forward(from, to) ==
    \A i \in DOMAIN from \cap DOMAIN to :
        from[i].branch = to[i].branch => from[i].version <= to[i].version

\* Rows that no comparison can tell apart: null prints as the empty string, and a
\* descriptor does not name the file its payload lies in.
Alike(from, to, x) ==
    x.op = "update" /\ Signature(from[x.ident].rows[x.id]) = Signature(to[x.ident].rows[x.id])

\* A diff towards later versions reports inserts and deletes exactly and misses no
\* update, unless it compares two table branches and the rows are alike.  It calls
\* an unchanged row updated only if the row was rewritten on a table branch both
\* ends share or, between two table branches, its Blob lies at another place: no
\* history of writes, rewrites, compactions, forks, renames and re-created tables
\* hides a change or invents one otherwise (changes/mod.rs, diff_snapshots).
ForwardDiffIsNet ==
    \A a, b \in DOMAIN commits : Forward(Tables(a), Tables(b)) =>
        LET from == Tables(a)
            to == Tables(b)
            d == DiffSnapshots(from, to)
            net == NetDiff(from, to)
            shared(x) == SameLineage(from, to, x.ident)
        IN /\ \A x \in net \ d : Alike(from, to, x) /\ ~shared(x)
           /\ \A x \in d \ net :
                /\ x.op = "update"
                /\ IF shared(x) THEN to[x.ident].rows[x.id].stamp > from[x.ident].version
                   ELSE from[x.ident].rows[x.id].place # to[x.ident].rows[x.id].place

\* "cross-branch safe": a diff between the heads of two branches, also from a
\* main that moved on to a branch that still has its older table version, misses
\* no change.
DiffBetweenHeads ==
    \A x, y \in DOMAIN head :
        LET from == Tables(head[x])
            to == Tables(head[y])
        IN NetDiff(from, to) \subseteq DiffSnapshots(from, to)

RECURSIVE Exact(_, _, _)
\* The changes in the feed's order: by alias, identity, row id.
Exact(from, to, left) ==
    IF left = {} THEN <<>>
    ELSE LET first == CHOOSE x \in left : \A y \in left \ {x} :
                 \/ BeforeByKey(from, to, x.ident, y.ident)
                 \/ x.ident = y.ident /\ x.id < y.id
         IN <<first>> \o Exact(from, to, left \ {first})

Plain(s) == [n \in DOMAIN s |-> [ident |-> s[n].ident, id |-> s[n].id, op |-> s[n].op]]

\* An update of nothing but null to the empty string or back.
OnlyBlanks(from, to, x) ==
    LET f == from[x.ident].rows[x.id]
        t == to[x.ident].rows[x.id]
    IN  x.op = "update" /\ f.pay = t.pay /\ Shown(f.val) = Shown(t.val)

\* The feed's contract: every logical change that can be told, once.
ExactOf(c) ==
    LET from == FromOf(c)
        to == Tables(c)
    IN  Exact(from, to, {x \in NetDiff(from, to) :
                            ~Alike(from, to, x) /\ ~OnlyBlanks(from, to, x)})

\* Whatever limits each request used, and whatever other commits its cursor was
\* tried on, the pages of one commit add up to its exact changes in order: no
\* change twice, none skipped but of blanks or to a row that is alike, none for
\* a payload that was only moved, and none once a version was reclaimed under way
\* (changes/page.rs, rows_equal, commit_changes_page).
PagesAddUp ==
    reading # 0 =>
        /\ IsPrefix(Plain(got), ExactOf(reading))
        /\ status = "complete" => Plain(got) = ExactOf(reading)

\* change_index counts from zero across every page of one commit.
IndexIsGlobal == \A n \in DOMAIN got : got[n].index = n - 1

\* No page stalls: as long as the largest budget admits every change, a reader
\* whose versions are retained always gets further.
NoStall ==
    reading # 0 /\ status = "open" =>
        Page(reading, cursor, Max(Limits), Max(Budgets)).answer \in {"complete", "more", "gap"}
=============================================================================
