--------------------------- MODULE BranchControl ---------------------------
(***************************************************************************)
(* Graph branches of one process: create, delete, the first write of a     *)
(* table on a branch, the healer and the open-time sweep on branches that  *)
(* were deleted or created again, and the reclaim of leftover table forks. *)
(*                                                                         *)
(* A branch is authoritative when __manifest has a ref (BranchContents)    *)
(* for it; Lance makes the clone first and the ref second, and deletes in  *)
(* the other order.  Names can be reused, so a branch also has a native    *)
(* identifier that no other incarnation of the name gets.                  *)
(*                                                                         *)
(* Every operation takes the schema gate before its branch and table       *)
(* gates, so the gates of the process are one mutex here.                  *)
(***************************************************************************)
EXTENDS Integers, Sequences, FiniteSets, FiniteSetsExt, Functions, TLC

CONSTANTS
    Names,        \* branch names other than main
    Main,         \* the name of main
    Children,     \* pairs <<c, p>> of names where c lies under p's path
    Tables,       \* tables of the accepted catalog
    Tasks,        \* concurrent requests of the process
    NoTask,       \* "the gate is free"
    MaxCalls,     \* bound: requests of a behaviour
    MaxFaults,    \* bound: storage calls that return an error
    MaxCrashes    \* bound: process crashes

VARIABLES
    branches,     \* __manifest refs with the state of their branch
    trees,        \* names with a physical clone in __manifest
    refs,         \* per table: Lance refs of branches that forked it
    sidecars,     \* pending recovery intents
    commits,      \* how many recovery commits main's lineage has
    audit,        \* OrphanedBranchDiscarded rows: <<operation, commit>>
    task,         \* per task: its request
    gate,         \* the task that holds the gates
    up,           \* a read-write handle is open
    uid,          \* last uuid that Lance minted
    calls, faults, crashes

store == <<branches, trees, refs, sidecars, commits, audit>>
vars == <<branches, trees, refs, sidecars, commits, audit, task, gate, up,
          uid, calls, faults, crashes>>

Live == DOMAIN branches
Pending == DOMAIN sidecars

\* A version of a table: the operation that made it and the rows it holds.
Empty == [op |-> 0, rows |-> {}]
\* Where a branch finds a table: the ref and its version (main's only
\* version is 1 here; nothing in this module writes to main's tables).
OnMain == [at |-> Main, uid |-> 0, v |-> 1]

LogOf(t, e) == IF e.at = Main THEN <<Empty>> ELSE refs[t][e.at].log
Rows(n, t) == LET e == branches[n].entry[t] IN LogOf(t, e)[e.v].rows

Idle == [pc |-> "done", kind |-> "none", src |-> Main, b |-> Main, t |-> Main,
         todo |-> {}, blocked |-> FALSE, ident |-> <<>>, ver |-> 0,
         entry |-> OnMain, try |-> 0, op |-> 0, uid |-> 0, res |-> "none"]

Init ==
    /\ branches = Main :> [ident |-> <<>>, parent |-> Main, ver |-> 1,
                           entry |-> [t \in Tables |-> OnMain], done |-> {}]
    /\ trees = {}
    /\ refs = [t \in Tables |-> <<>>]
    /\ sidecars = <<>>
    /\ commits = 0 /\ audit = {}
    /\ task = [k \in Tasks |-> Idle]
    /\ gate = NoTask /\ up = TRUE
    /\ uid = 0 /\ calls = 0 /\ faults = 0 /\ crashes = 0

-----------------------------------------------------------------------------
\* Steps of a task.

Set(k, r) == task' = [task EXCEPT ![k] = r]
Goto(k, p) == Set(k, [task[k] EXCEPT !.pc = p])
Free(k) == gate' = IF gate = k THEN NoTask ELSE gate
\* The request is answered and its guards are dropped.
End(k, answer) == Set(k, [task[k] EXCEPT !.pc = "done", !.res = answer]) /\ Free(k)

\* A storage call succeeds, or returns an error before or after its effect.
IoResults == {"ok", "lost", "landed"}
Io(r) ==
    /\ r = "ok" \/ faults < MaxFaults
    /\ faults' = IF r = "ok" THEN faults ELSE faults + 1

Without(f, x) == Restrict(f, DOMAIN f \ {x})

\* Path prefixes: a live name may be neither above nor below another one.
Under(S, n) == {c \in S : <<c, n>> \in Children}
Collides(S, n) == {c \in S : <<c, n>> \in Children \/ <<n, c>> \in Children}

\* Lance's force delete of a table ref, after our path check: refused while a
\* ref below it exists or another ref was forked from it; absent is success.
ForceDeletable(t, n) ==
    /\ Under(DOMAIN refs[t], n) = {}
    /\ \A c \in DOMAIN refs[t] : refs[t][c].from # n
ForceDelete(t, n) == refs' = [refs EXCEPT ![t] = Without(@, n)]

-----------------------------------------------------------------------------
\* What recovery sees of a pending operation.

\* Its target ref holds its transaction.
HasRef(s) == s.b \in DOMAIN refs[s.t]
OwnEffect(o, s) ==
    HasRef(s) /\ \E i \in DOMAIN refs[s.t][s.b].log : refs[s.t][s.b].log[i].op = o
OwnAtHead(o, s) ==
    HasRef(s) /\ LET log == refs[s.t][s.b].log IN log[Len(log)].op = o
UnpublishedFork(s) == branches[s.b].entry[s.t].at # s.b

\* Another pending intent names the same ref.
Claims(s, n, t) == s.b = n /\ s.t = t
ClaimedByOther(n, t, o) ==
    \E x \in Pending : x # o /\ Claims(sidecars[x], n, t)

\* cleanup_unpublished_no_effect_forks: only a ref that is exactly the fork
\* point of this intent may go.
UntouchedFork(s) ==
    HasRef(s) => /\ refs[s.t][s.b].pver = s.entry.v
                 /\ Len(refs[s.t][s.b].log) = s.entry.v

\* The live authority of the branch is the one the intent captured.
SameAuthority(s) == branches[s.b].ident = s.ident /\ branches[s.b].ver = s.ver

\* process_sidecar of a mutation on a branch that is listed as live.
Verdict(o, full) ==
    LET s == sidecars[o] IN
    CASE <<o, s.t>> \in branches[s.b].done -> "visible"
      [] <<o, s.t>> \notin branches[s.b].done /\ ~OwnEffect(o, s) ->
           IF ~full THEN IF s.phase = "Armed" \/ UnpublishedFork(s)
                         THEN "defer" ELSE "retire"
           ELSE IF ~UnpublishedFork(s) \/ ClaimedByOther(s.b, s.t, o) THEN "retire"
           ELSE IF Under(DOMAIN refs[s.t], s.b) # {} THEN "defer"
           ELSE IF UntouchedFork(s) THEN "unfork" ELSE "error"
      [] OTHER ->
           IF branches[s.b].ident # s.ident \/ ~OwnAtHead(o, s)
           THEN IF full THEN "error" ELSE "defer"
           ELSE IF SameAuthority(s) /\ s.phase = "Confirmed" THEN "forward"
           ELSE IF full THEN "back" ELSE "defer"

PublishOn(n, t, e, done) ==
    branches' = [branches EXCEPT ![n].entry[t] = e, ![n].done = @ \cup done,
                                 ![n].ver = @ + 1]

\* The ref's HEAD as a manifest entry.
HeadEntry(n, t) ==
    [at |-> n, uid |-> refs[t][n].uid, v |-> Len(refs[t][n].log)]

\* Roll forward, retire, or (Full only) remove the fork or restore and
\* publish; their inner steps are those of the write path.
Resolve(o, verdict) ==
    LET s == sidecars[o] IN
    /\ sidecars' = Without(sidecars, o)
    /\ CASE verdict \in {"visible", "retire"} -> UNCHANGED <<branches, refs>>
         [] verdict = "unfork" -> ForceDelete(s.t, s.b) /\ UNCHANGED branches
         [] verdict = "forward" ->
              PublishOn(s.b, s.t, HeadEntry(s.b, s.t), {<<o, s.t>>}) /\ UNCHANGED refs
         [] verdict = "back" ->
              LET log == refs[s.t][s.b].log
                  restored == [op |-> 0, rows |-> LogOf(s.t, s.entry)[s.entry.v].rows]
              IN /\ refs' = [refs EXCEPT ![s.t][s.b].log = Append(@, restored)]
                 /\ PublishOn(s.b, s.t, [at |-> s.b, uid |-> refs[s.t][s.b].uid,
                                         v |-> Len(log) + 1], {})
    /\ UNCHANGED <<trees, commits, audit>>

\* Mutated: a retry does not look for the audit row.
RecordedNever(o) == o = 0

\* The audit row of an earlier, interrupted discard.
AlreadyRecorded(o) == \E a \in audit : a[1] = o

\* Mutated: the audit row is written before the lineage commit.
AuditFirst(o, upto) ==
    LET fresh == ~AlreadyRecorded(o) IN
    /\ commits' = IF fresh /\ upto >= 2 THEN commits + 1 ELSE commits
    /\ branches' = [branches EXCEPT ![Main].ver = @ + (IF fresh /\ upto >= 2 THEN 1 ELSE 0)]
    /\ audit' = IF fresh /\ upto >= 1 THEN audit \cup {<<o, commits + 1>>} ELSE audit
    /\ sidecars' = IF upto = 3 THEN Without(sidecars, o) ELSE sidecars
    /\ UNCHANGED <<trees, refs>>

\* discard_orphaned_branch_sidecar up to its step: 1 the lineage commit on
\* main, 2 the audit row that names it, 3 the sidecar delete.
Discard(o, upto) ==
    LET fresh == ~AlreadyRecorded(o) IN
    /\ commits' = IF fresh /\ upto >= 1 THEN commits + 1 ELSE commits
    /\ branches' = [branches EXCEPT ![Main].ver = @ + (IF fresh /\ upto >= 1 THEN 1 ELSE 0)]
    /\ audit' = IF fresh /\ upto >= 2 THEN audit \cup {<<o, commits + 1>>} ELSE audit
    /\ sidecars' = IF upto = 3 THEN Without(sidecars, o) ELSE sidecars
    /\ UNCHANGED <<trees, refs>>

-----------------------------------------------------------------------------
\* Requests.

Start(k, r) ==
    /\ up /\ task[k].pc = "done"
    /\ Set(k, r)
    /\ UNCHANGED <<store, gate, up, uid, faults, crashes>>

Call(k, r) ==
    /\ calls < MaxCalls /\ calls' = calls + 1
    /\ Start(k, [r EXCEPT !.pc = "heal", !.todo = Pending])

BranchCreateFrom(k) == \E src \in Live, b \in Names :
    Call(k, [Idle EXCEPT !.kind = "create", !.src = src, !.b = b])
BranchDelete(k) == \E b \in Live \ {Main} :
    Call(k, [Idle EXCEPT !.kind = "delete", !.b = b])
Write(k) == \E b \in Live \ {Main}, t \in Tables :
    Call(k, [Idle EXCEPT !.kind = "write", !.b = b, !.t = t])
\* cleanup refuses at once while an intent is pending.
Cleanup(k) ==
    /\ Pending = {} /\ UNCHANGED calls
    /\ Start(k, [Idle EXCEPT !.kind = "cleanup", !.pc = "gate"])

\* Branches whose unresolved intents block the request; branch_delete lets
\* every data intent pass.
Relevant(k) ==
    CASE task[k].kind = "create" -> {task[k].src, task[k].b}
      [] task[k].kind = "write" -> {task[k].b}
      [] OTHER -> {}

\* One listed sidecar of the heal, under its gates, from its re-read body and
\* the branch list.
HealOne(k) ==
    /\ task[k].pc = "heal" /\ task[k].todo # {} /\ gate = NoTask
    /\ LET o == Min(task[k].todo)
           next == [task[k] EXCEPT !.todo = @ \ {o}]
       IN IF o \notin Pending THEN Set(k, next) /\ UNCHANGED <<store, faults>>
          ELSE IF sidecars[o].b \notin Live
          THEN \E upto \in 0..3 :
                 /\ Io(IF upto = 3 THEN "ok" ELSE "lost")
                 /\ Discard(o, upto)
                 /\ Set(k, IF upto = 3 THEN next
                           ELSE [task[k] EXCEPT !.pc = "done", !.res = "err"])
          ELSE LET v == Verdict(o, FALSE) IN
               /\ Set(k, [next EXCEPT !.blocked = @ \/ (v = "defer" /\ sidecars[o].b \in Relevant(k))])
               /\ IF v = "defer" THEN UNCHANGED store ELSE Resolve(o, v)
               /\ UNCHANGED faults
    /\ UNCHANGED <<gate, up, uid, calls, crashes>>

\* open_write_txn: one authority for the attempt, read without gates.
HealDone(k) ==
    /\ task[k].pc = "heal" /\ task[k].todo = {}
    /\ LET b == task[k].b IN
       IF task[k].blocked \/ (task[k].kind = "write" /\ b \notin Live)
       THEN End(k, "err")
       ELSE /\ Set(k, IF task[k].kind # "write" THEN [task[k] EXCEPT !.pc = "gate"]
                      ELSE [task[k] EXCEPT !.pc = "gate", !.ident = branches[b].ident,
                              !.ver = branches[b].ver, !.entry = branches[b].entry[task[k].t]])
            /\ UNCHANGED gate
    /\ UNCHANGED <<store, up, uid, calls, faults, crashes>>

\* schema gate, branch gates, table gates.
AcquireGates(k) ==
    /\ task[k].pc = "gate" /\ gate = NoTask
    /\ gate' = k /\ Goto(k, "check")
    /\ UNCHANGED <<store, up, uid, calls, faults, crashes>>

\* Mutated: the sidecars are not listed again under the gates.
ListedBefore(S) == S # {}

\* ensure_no_pending_recovery_sidecars_under_gates.
NoPendingOn(S) == \A o \in Pending : sidecars[o].b \notin S

\* Mutated: only the very name must be free.
NameFree(b) == b \notin Live

\* ensure_branch_create_namespace_safe.
NamespaceSafe(b) == b \notin Live /\ Collides(Live, b) = {}

CheckCreate(k) ==
    /\ task[k].pc = "check" /\ task[k].kind = "create"
    /\ LET b == task[k].b  src == task[k].src IN
       IF NoPendingOn({src, b}) /\ src \in Live /\ NamespaceSafe(b)
       THEN /\ Set(k, [task[k] EXCEPT !.pc = "native", !.ident = branches[src].ident,
                                      !.ver = branches[src].ver])
            /\ UNCHANGED gate
       ELSE End(k, "err")
    /\ UNCHANGED <<store, up, uid, calls, faults, crashes>>

\* Mutated: nothing keeps a branch alive.
AlwaysDeletable(b) == b \in Live

\* ensure_branch_delete_safe: nothing below its path, no branch created from
\* it, no branch that reads a table through its ref.
DeleteSafe(b) ==
    /\ Under(Live, b) = {}
    /\ \A n \in Live \ {b} :
         branches[n].parent # b /\ \A t \in Tables : branches[n].entry[t].at # b

\* The delete captures the branch's identifier and the tables it owns.
CheckDelete(k) ==
    /\ task[k].pc = "check" /\ task[k].kind = "delete"
    /\ LET b == task[k].b IN
       IF b \in Live /\ DeleteSafe(b)
       THEN /\ Set(k, [task[k] EXCEPT !.pc = "native", !.ident = branches[b].ident,
                         !.todo = {t \in Tables : branches[b].entry[t].at = b}])
            /\ UNCHANGED gate
       ELSE End(k, "err")
    /\ UNCHANGED <<store, up, uid, calls, faults, crashes>>

\* Mutated: the graph head alone stands for the authority.
TokenIgnoresIdentity(k) == branches[task[k].b].ver = task[k].ver

\* revalidate_write_txn.
TokenHolds(k) ==
    /\ branches[task[k].b].ident = task[k].ident
    /\ branches[task[k].b].ver = task[k].ver

\* ensure_existing_effect_baseline for a table the branch already owns.
BaselineExact(k) ==
    task[k].entry.at = task[k].b => Len(LogOf(task[k].t, task[k].entry)) = task[k].entry.v

CheckWrite(k) ==
    /\ task[k].pc = "check" /\ task[k].kind = "write"
    /\ IF NoPendingOn({task[k].b}) /\ task[k].b \in Live /\ TokenHolds(k) /\ BaselineExact(k)
       THEN Goto(k, "arm") /\ UNCHANGED gate ELSE End(k, "err")
    /\ UNCHANGED <<store, up, uid, calls, faults, crashes>>

-----------------------------------------------------------------------------
\* create_branch_recoverably and delete_branch_recoverably.

NewBranch(k) ==
    [branches[task[k].src] EXCEPT
        !.ident = Append(@, <<task[k].ver, uid + 1>>), !.parent = task[k].src]

\* One native attempt on a name whose leftover clone was reclaimed: nothing
\* happens, the clone appears, or the clone and then the ref.
NativeCreate(k) ==
    /\ task[k].pc = "native" /\ task[k].kind = "create"
    /\ \E r \in IoResults \cup {"clone"} :
         /\ Io(r)
         /\ branches' = IF r \in {"ok", "landed"}
                        THEN branches @@ (task[k].b :> NewBranch(k)) ELSE branches
         /\ trees' = IF r = "lost" THEN trees \ {task[k].b} ELSE trees \cup {task[k].b}
         /\ uid' = uid + 1
         /\ IF r = "ok"
            THEN /\ Set(k, [task[k] EXCEPT !.pc = "done", !.res = "ok", !.uid = uid + 1])
                 /\ Free(k)
            ELSE /\ Set(k, [task[k] EXCEPT !.pc = "classify", !.uid = uid + 1])
                 /\ UNCHANGED gate
    /\ UNCHANGED <<refs, sidecars, commits, audit, up, calls, crashes>>

\* The ref carries the parent's whole identifier plus one entry minted at the
\* captured parent version.
MatchesExpectation(k) ==
    LET n == branches[task[k].b]  d == Len(n.ident) IN
    /\ n.parent = task[k].src
    /\ d = Len(task[k].ident) + 1
    /\ SubSeq(n.ident, 1, d - 1) = task[k].ident
    /\ n.ident[d][1] = task[k].ver

\* After an ambiguous error fresh authority decides: a matching ref is a lost
\* acknowledgement; without a ref the clone is reclaimed for one more try.
ClassifyCreate(k) ==
    /\ task[k].pc = "classify" /\ task[k].kind = "create"
    /\ \E r \in {"ok", "lost"} :
         /\ Io(r)
         /\ IF r = "lost" THEN End(k, "unknown") /\ UNCHANGED trees
            ELSE IF task[k].b \in Live
            THEN /\ End(k, IF MatchesExpectation(k) THEN "ok" ELSE "err")
                 /\ UNCHANGED trees
            ELSE /\ trees' = trees \ {task[k].b}
                 /\ IF task[k].try = 1 THEN End(k, "err")
                    ELSE /\ Set(k, [task[k] EXCEPT !.pc = "native", !.try = 1])
                         /\ UNCHANGED gate
    /\ UNCHANGED <<branches, refs, sidecars, commits, audit, up, uid, calls, crashes>>

\* The ref goes first, the clone after it.
NativeDelete(k) ==
    /\ task[k].pc = "native" /\ task[k].kind = "delete"
    /\ branches[task[k].b].ident = task[k].ident
    /\ \E r \in IoResults \cup {"unref"} :
         /\ Io(r)
         /\ branches' = IF r = "lost" THEN branches ELSE Without(branches, task[k].b)
         /\ trees' = IF r \in {"ok", "landed"} THEN trees \ {task[k].b} ELSE trees
         /\ Goto(k, IF r = "ok" THEN "tables" ELSE "classify")
    /\ UNCHANGED <<refs, sidecars, commits, audit, gate, up, uid, calls, crashes>>

\* Mutated: the error of the native call is the answer.
AnswerNativeError(k) ==
    /\ task[k].pc = "classify" /\ task[k].kind = "delete"
    /\ End(k, "err")
    /\ UNCHANGED <<store, up, uid, calls, faults, crashes>>

\* A missing ref after an error is success; the clone is reclaimed as far as
\* possible.
ClassifyDelete(k) ==
    /\ task[k].pc = "classify" /\ task[k].kind = "delete"
    /\ \E r \in {"ok", "lost", "keep"} :
         /\ Io(r)
         /\ IF r = "lost" THEN End(k, "unknown") /\ UNCHANGED trees
            ELSE IF task[k].b \in Live
            THEN r = "ok" /\ End(k, "err") /\ UNCHANGED trees
            ELSE /\ Goto(k, "tables") /\ UNCHANGED gate
                 /\ trees' = IF r = "ok" THEN trees \ {task[k].b} ELSE trees
    /\ UNCHANGED <<branches, refs, sidecars, commits, audit, up, uid, calls, crashes>>

\* cleanup_deleted_branch_tables: best effort, a failure is logged.
DeleteForks(k) ==
    /\ task[k].pc = "tables"
    /\ IF task[k].todo = {} THEN End(k, "ok") /\ UNCHANGED <<refs, faults>>
       ELSE \E t \in task[k].todo, r \in {"ok", "lost"} :
              /\ Io(r)
              /\ Set(k, [task[k] EXCEPT !.todo = @ \ {t}]) /\ UNCHANGED gate
              /\ IF r = "ok" /\ ForceDeletable(t, task[k].b)
                 THEN ForceDelete(t, task[k].b) ELSE UNCHANGED refs
    /\ UNCHANGED <<branches, trees, sidecars, commits, audit, up, uid, calls, crashes>>

-----------------------------------------------------------------------------
\* A write of one table on a branch.

NextOp == uid + 1

\* The intent is durable before the first effect.
Arm(k) ==
    /\ task[k].pc = "arm"
    /\ uid' = NextOp
    /\ \E r \in IoResults :
         /\ Io(r)
         /\ sidecars' = IF r = "lost" THEN sidecars
                        ELSE sidecars @@ (NextOp :>
                               [b |-> task[k].b, ident |-> task[k].ident, ver |-> task[k].ver,
                                t |-> task[k].t, entry |-> task[k].entry, phase |-> "Armed"])
         /\ IF r # "ok" THEN End(k, "err")
            ELSE /\ Set(k, [task[k] EXCEPT !.op = NextOp,
                              !.pc = IF task[k].entry.at = task[k].b THEN "commit" ELSE "fork"])
                 /\ UNCHANGED gate
    /\ UNCHANGED <<branches, trees, refs, commits, audit, up, calls, crashes>>

\* fork_branch_from_state onto a free name.
ForkTable(k) ==
    /\ task[k].pc = "fork"
    /\ LET t == task[k].t  b == task[k].b  e == task[k].entry
           fork == [uid |-> uid + 1, from |-> e.at, pver |-> e.v,
                    log |-> SubSeq(LogOf(t, e), 1, e.v)]
       IN /\ b \notin DOMAIN refs[t]
          /\ uid' = uid + 1
          /\ IF Collides(DOMAIN refs[t], b) # {}
             THEN End(k, "err") /\ UNCHANGED <<refs, faults>>
             ELSE \E r \in IoResults :
                    /\ Io(r)
                    /\ refs' = IF r = "lost" THEN refs
                               ELSE [refs EXCEPT ![t] = @ @@ (b :> fork)]
                    /\ IF r = "ok" THEN Goto(k, "commit") /\ UNCHANGED gate
                       ELSE End(k, "err")
    /\ UNCHANGED <<branches, trees, sidecars, commits, audit, up, calls, crashes>>

\* Mutated: a ref in the way is taken over as it is.
AdoptLeftover(n, t, o) == "Adopt"

\* classify_fork_ref from fresh authority, leaving out intent o.
ForkRefStatus(n, t, o) ==
    IF ClaimedByOther(n, t, o) THEN "Indeterminate"
    ELSE IF n \in Live /\ branches[n].entry[t].at = n THEN "Legitimate"
    ELSE "Orphan"

\* reclaim_orphaned_fork_and_refork: a ref with this name is in the way.
ReclaimFork(k) ==
    /\ task[k].pc = "fork"
    /\ LET t == task[k].t  b == task[k].b  status == ForkRefStatus(b, t, task[k].op)
       IN /\ b \in DOMAIN refs[t]
          /\ \E r \in {"ok", "lost"} :
               /\ Io(r)
               /\ IF r = "ok" /\ status = "Orphan" /\ ForceDeletable(t, b)
                  THEN ForceDelete(t, b) /\ UNCHANGED <<gate, task>>
                  ELSE IF status = "Adopt" THEN Goto(k, "commit") /\ UNCHANGED <<gate, refs>>
                  ELSE End(k, "err") /\ UNCHANGED refs
    /\ UNCHANGED <<branches, trees, sidecars, commits, audit, up, uid, calls, crashes>>

CommitTable(k) ==
    /\ task[k].pc = "commit"
    /\ LET t == task[k].t  b == task[k].b  log == refs[t][b].log IN
       \E r \in IoResults :
         /\ Io(r)
         /\ refs' = IF r = "lost" THEN refs
                    ELSE [refs EXCEPT ![t][b].log = Append(@,
                           [op |-> task[k].op, rows |-> log[Len(log)].rows \cup {task[k].op}])]
         /\ IF r = "ok" THEN Goto(k, "confirm") /\ UNCHANGED gate ELSE End(k, "err")
    /\ UNCHANGED <<branches, trees, sidecars, commits, audit, up, uid, calls, crashes>>

Confirm(k) ==
    /\ task[k].pc = "confirm"
    /\ \E r \in IoResults :
         /\ Io(r)
         /\ sidecars' = IF r = "lost" THEN sidecars
                        ELSE [sidecars EXCEPT ![task[k].op].phase = "Confirmed"]
         /\ IF r = "ok" THEN Goto(k, "publish") /\ UNCHANGED gate ELSE End(k, "err")
    /\ UNCHANGED <<branches, trees, refs, commits, audit, up, uid, calls, crashes>>

\* The manifest publish compares the captured identifier and head.
Publish(k) ==
    /\ task[k].pc = "publish" /\ TokenHolds(k)
    /\ \E r \in IoResults :
         /\ Io(r)
         /\ IF r = "lost" THEN UNCHANGED branches
            ELSE PublishOn(task[k].b, task[k].t, HeadEntry(task[k].b, task[k].t),
                           {<<task[k].op, task[k].t>>})
         /\ IF r = "ok" THEN Goto(k, "unlink") /\ UNCHANGED gate ELSE End(k, "err")
    /\ UNCHANGED <<trees, refs, sidecars, commits, audit, up, uid, calls, crashes>>

\* The sidecar delete is best effort; the write is committed.
Unlink(k) ==
    /\ task[k].pc = "unlink"
    /\ \E r \in {"ok", "lost"} :
         /\ Io(r)
         /\ sidecars' = IF r = "ok" THEN Without(sidecars, task[k].op) ELSE sidecars
    /\ End(k, "ok")
    /\ UNCHANGED <<branches, trees, refs, commits, audit, up, uid, calls, crashes>>

-----------------------------------------------------------------------------
\* reconcile_orphaned_branches_with_catalog, under cleanup's schema gate.

\* Mutated: a ref is an orphan only when its branch is gone.
OrphansOfDeadBranches ==
    {<<t, n>> \in Tables \X Names : n \in DOMAIN refs[t] /\ n \notin Live}

OrphanRefs ==
    {<<t, n>> \in Tables \X Names :
        n \in DOMAIN refs[t] /\ (n \in Live => branches[n].entry[t].at # n)}

ListOrphans(k) ==
    /\ task[k].pc = "check" /\ task[k].kind = "cleanup"
    /\ Set(k, [task[k] EXCEPT !.pc = "sweep", !.todo = OrphanRefs])
    /\ UNCHANGED <<store, gate, up, uid, calls, faults, crashes>>

\* Path children come before their parents; each ref is classified afresh,
\* and a failure leaves it to the next cleanup.
ReclaimOrphan(k) ==
    /\ task[k].pc = "sweep"
    /\ IF task[k].todo = {} THEN End(k, "ok") /\ UNCHANGED <<refs, faults>>
       ELSE \E x \in task[k].todo, r \in {"ok", "lost"} :
              /\ \A y \in task[k].todo : y[1] = x[1] => <<y[2], x[2]>> \notin Children
              /\ Io(r)
              /\ Set(k, [task[k] EXCEPT !.todo = @ \ {x}]) /\ UNCHANGED gate
              /\ IF r = "ok" /\ ForkRefStatus(x[2], x[1], 0) = "Orphan"
                    /\ ForceDeletable(x[1], x[2])
                 THEN ForceDelete(x[1], x[2]) ELSE UNCHANGED refs
    /\ UNCHANGED <<branches, trees, sidecars, commits, audit, up, uid, calls, crashes>>

-----------------------------------------------------------------------------
\* Crash, and the Full sweep of the next read-write open.

Down == task' = [k \in Tasks |-> Idle] /\ gate' = NoTask /\ up' = FALSE
Crash ==
    /\ up /\ crashes < MaxCrashes /\ crashes' = crashes + 1
    /\ Down
    /\ UNCHANGED <<store, uid, calls, faults>>

\* The operator reopens the graph because an intent blocks it.
Reopen ==
    /\ up /\ Pending # {} /\ \A k \in Tasks : task[k].pc = "done"
    /\ Down
    /\ UNCHANGED <<store, uid, calls, faults, crashes>>

\* recover_manifest_drift, one sidecar at a time; an error fails the open.
SweepOne ==
    /\ ~up /\ Pending # {}
    /\ LET o == Min(Pending) IN
       IF sidecars[o].b \notin Live
       THEN \E upto \in 0..3 : Io(IF upto = 3 THEN "ok" ELSE "lost") /\ Discard(o, upto)
       ELSE /\ Verdict(o, TRUE) \notin {"defer", "error"}
            /\ Resolve(o, Verdict(o, TRUE))
            /\ UNCHANGED faults
    /\ UNCHANGED <<task, gate, up, uid, calls, crashes>>

Opened ==
    /\ ~up /\ \A o \in Pending : sidecars[o].b \in Live /\ Verdict(o, TRUE) = "defer"
    /\ up' = TRUE
    /\ UNCHANGED <<store, task, gate, uid, calls, faults, crashes>>

TaskStep(k) ==
    \/ HealOne(k) \/ HealDone(k) \/ AcquireGates(k)
    \/ CheckCreate(k) \/ CheckDelete(k) \/ CheckWrite(k)
    \/ NativeCreate(k) \/ ClassifyCreate(k)
    \/ NativeDelete(k) \/ ClassifyDelete(k) \/ DeleteForks(k)
    \/ Arm(k) \/ ForkTable(k) \/ ReclaimFork(k) \/ CommitTable(k) \/ Confirm(k)
    \/ Publish(k) \/ Unlink(k)
    \/ ListOrphans(k) \/ ReclaimOrphan(k)

Next ==
    \/ \E k \in Tasks : BranchCreateFrom(k) \/ BranchDelete(k) \/ Write(k) \/ Cleanup(k)
    \/ \E k \in Tasks : TaskStep(k)
    \/ Crash \/ Reopen \/ SweepOne \/ Opened

Spec == Init /\ [][Next]_vars

-----------------------------------------------------------------------------
\* Properties.

\* Whatever a live branch reads of a table is still there: the very fork its
\* manifest entry was published on, and at least up to the version it pins.
\* Deleting a branch, retrying a delete, reclaiming a leftover fork on the
\* write path and cleanup's sweep all remove forks by name
\* (force_delete_branch_idempotent).
ForksIntact ==
    \A n \in Live, t \in Tables :
        LET e == branches[n].entry[t] IN
        e.at # Main => /\ e.at \in DOMAIN refs[t]
                       /\ refs[t][e.at].uid = e.uid
                       /\ e.v <= Len(refs[t][e.at].log)

\* A branch shows exactly the rows of the operations its own lineage
\* committed: a name that was deleted and created again never shows rows of
\* its previous incarnation (open_for_mutation_on_branch, roll_back_sidecar).
RowsExact ==
    \A n \in Live, t \in Tables : Rows(n, t) = {o \in 1..uid : <<o, t>> \in branches[n].done}

\* Every branch the manifest lists can be opened, and no live name lies on
\* the path of another one (create_branch_recoverably reclaims clones by
\* name, and Lance cannot reclaim a tree with another branch below it).
BranchesOpen ==
    /\ Live \ {Main} \subseteq trees
    /\ \A n \in Live : Collides(Live, n) = {}

\* A pending intent of a live branch belongs to the live incarnation, so the
\* refusal at recovery.rs:3788 is never needed inside one process: creating a
\* name again first discards what its deleted incarnation left pending.
IntentOfLiveIncarnation ==
    \A o \in Pending : sidecars[o].b \in Live => branches[sidecars[o].b].ident = sidecars[o].ident

\* Discarding the intent of a deleted branch leaves at most one audit row per
\* operation, and every audit row names a commit that main's lineage has
\* (discard_orphaned_branch_sidecar, with a failure between its writes).
AuditJoins ==
    /\ \A a \in audit : a[2] <= commits
    /\ \A a, c \in audit : a[1] = c[1] => a = c

\* The answer of a branch control is the truth, lost acknowledgements
\* included: "ok" to a create means the ref this call minted is live, an error
\* means that it is not; "ok" to a delete means that the captured incarnation
\* is gone, an error after the native call means that it is still there.
AnswersTrue ==
    \A k \in Tasks :
     LET q == task'[k]
         minted == \E n \in DOMAIN branches' :
                     \E i \in DOMAIN branches'[n].ident : branches'[n].ident[i][2] = q.uid
         kept == \E n \in DOMAIN branches' : branches'[n].ident = q.ident
     IN task[k].pc \in {"native", "classify", "tables"} /\ q.pc = "done" /\ up' =>
          /\ q.kind = "create" => (q.res = "ok" => minted) /\ (q.res = "err" => ~minted)
          /\ q.kind = "delete" => (q.res = "ok" => ~kept) /\ (q.res = "err" => kept)

\* No table fork that no branch uses and no pending intent.
NoLeftovers ==
    /\ Pending = {}
    /\ \A t \in Tables : \A n \in DOMAIN refs[t] :
          n \in Live /\ branches[n].entry[t].at = n

\* The next read-write open can resolve every pending intent.
OpenResolves ==
    \A o \in Pending : sidecars[o].b \in Live => Verdict(o, TRUE) # "error"
=============================================================================
