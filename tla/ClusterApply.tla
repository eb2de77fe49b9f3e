---------------------------- MODULE ClusterApply ----------------------------
(***************************************************************************)
(* The cluster control plane: `apply`, `approve`, `refresh` and `import`   *)
(* run as separate processes over one object store that holds the state    *)
(* lock, the state ledger (state.json), recovery sidecars, approval        *)
(* artifacts, catalog payloads and the graph roots themselves.  Graph      *)
(* movement and the ledger are different objects, so every movement is     *)
(* fenced by a sidecar that a later command sweeps.  A process may die     *)
(* between any two steps, and a storage or engine call may fail with or    *)
(* without its effect; an operator may edit the configuration, remove a    *)
(* half-made root, force the lock and, by state.lock, do without it.       *)
(*                                                                         *)
(* Digests are abstracted to what they digest: a configuration is its own  *)
(* digest, a graph's composite digest is its schema and query pair.  Each  *)
(* graph declares at most one stored query.                                *)
(***************************************************************************)
EXTENDS Integers, FiniteSets, SequencesExt

CONSTANTS
    Graphs, Schemas, Commands,
    Configs,        \* the configurations an operator may put on disk
    None,
    MaxOps,         \* commands started
    MaxFaults,      \* crashes and failing storage or engine calls
    MaxEdits,       \* configuration edits
    ProbeOwner,     \* TRUE: the lock is forced only when its owner is dead
    StateLock,      \* state.lock of cluster.yaml
    ConditionalPut  \* the store replaces an object by version (not a local disk)

VARIABLES
    config,         \* cluster.yaml and the sources it names
    lock,           \* the lock file: None or the id of an operation
    breaker,        \* a force-unlock that has read the lock and not deleted it
    ledger,         \* state.json, None before `import`
    sidecars,       \* __cluster/recoveries
    approvals,      \* __cluster/approvals
    blobs,          \* graphs whose query payload is in the catalog
    root,           \* graph roots: a schema, "absent" or "partial"
    latent,         \* the schema an engine intent of a graph will roll forward to
    cmd,            \* the commands in flight
    strays,         \* history: graphs overlooked by a probe, or moved uncovered
    ops, faults, edits

vars == <<config, lock, breaker, ledger, sidecars, approvals, blobs, root,
          latent, cmd, strays, ops, faults, edits>>

Kinds == {"apply", "approve", "refresh", "import"}

Decl == [schema : Schemas, query : BOOLEAN]

EmptyState(d) == [rev |-> 0, schema |-> [g \in Graphs |-> None],
                  query |-> [g \in Graphs |-> FALSE], config |-> d,
                  consumed |-> {}]

Idle == [pc |-> "idle", kind |-> "apply", op |-> 0, d |-> None,
         base |-> None, st |-> None, done |-> {}, pending |-> {},
         arts |-> {}, cur |-> None, moved |-> {}, failed |-> {},
         gone |-> {}]

\* A cluster not yet imported, or one at rest with its configuration applied.
Init ==
    /\ config \in Configs
    /\ \/ /\ ledger = None /\ blobs = {}
          /\ root = [g \in Graphs |-> "absent"]
       \/ /\ ledger = [EmptyState(config) EXCEPT
                !.rev = 1,
                !.schema = [g \in Graphs |-> IF config[g] = None THEN None
                                             ELSE config[g].schema],
                !.query = [g \in Graphs |-> config[g] # None /\ config[g].query]]
          /\ blobs = {g \in Graphs : ledger.query[g]}
          /\ root = [g \in Graphs |-> IF config[g] = None THEN "absent"
                                      ELSE config[g].schema]
    /\ lock = None /\ breaker = None
    /\ sidecars = {} /\ approvals = {}
    /\ cmd = [c \in Commands |-> Idle]
    /\ latent = [g \in Graphs |-> None] /\ strays = {}
    /\ ops = 0 /\ faults = 0 /\ edits = 0

-----------------------------------------------------------------------------
(* The plan: what differs between a working state and the desired config.  *)

Composite(st, g) ==
    IF st.schema[g] = None THEN None ELSE <<st.schema[g], st.query[g]>>

Desires(d, g) == d[g] # None
DesiresQuery(d, g) == Desires(d, g) /\ d[g].query

GraphDeletes(st, d) == {g \in Graphs : st.schema[g] # None /\ ~Desires(d, g)}

\* An unconsumed artifact approves a delete when all its digests match.
ApprovesDelete(a, st, d, g) ==
    /\ a.graph = g
    /\ ~a.consumed
    /\ a.config = d
    /\ a.before = Composite(st, g)


ApprovedDeletes(k) ==
    {g \in GraphDeletes(k.st, k.d) \ k.pending :
        \E a \in k.arts : ApprovesDelete(a, k.st, k.d, g)}

Creates(k) ==
    {g \in Graphs : k.st.schema[g] = None /\ Desires(k.d, g)} \ k.pending

SchemaUpdates(k) ==
    {g \in Graphs : /\ k.st.schema[g] # None
                    /\ Desires(k.d, g)
                    /\ k.st.schema[g] # k.d[g].schema} \ k.pending

QueryWrites(k) ==
    {g \in Graphs : DesiresQuery(k.d, g) /\ ~k.st.query[g]}
        \ (k.pending \cup k.failed)

QueryDeletes(k) ==
    {g \in Graphs : k.st.query[g] /\ ~DesiresQuery(k.d, g)}
        \ ((GraphDeletes(k.st, k.d) \ ApprovedDeletes(k)) \cup k.failed)

\* Every graph a run means to move and has not.
Unmoved(k) ==
    (Creates(k) \cup SchemaUpdates(k) \cup ApprovedDeletes(k)) \ k.moved

HasBlocked(k) ==
    \/ k.pending # {} \/ k.failed # {}
    \/ GraphDeletes(k.st, k.d) # ApprovedDeletes(k)

-----------------------------------------------------------------------------
(* The recovery sweep: one decision per sidecar, in operation order.       *)

Openable(g) == root[g] \in Schemas

\* What a command sees of the roots: graph_root_exists takes a failed listing for
\* an absent root, and an open that fails for a root that cannot be opened.
Views == {v \in [Graphs -> Schemas \cup {"absent", "partial"}] :
             \A g \in Graphs : v[g] = root[g] \/ (root[g] # "absent" /\ v[g] \notin Schemas)}
Overlooked(v) == {g \in Graphs : v[g] = "absent" /\ root[g] # "absent"}

RollForward(acc, s, schema) == [acc EXCEPT !.st.schema[s.graph] = schema,
                                           !.done = @ \cup {s}]
Retired(acc, s) == [acc EXCEPT !.done = @ \cup {s}]
Pending(acc, s) == [acc EXCEPT !.pending = @ \cup {s.graph}]

Tombstone(st, g) == [st EXCEPT !.schema[g] = None, !.query[g] = FALSE]

\* The schema is read with a read-only open, which runs no engine recovery.
SweepSchema(acc, s, v) ==
    LET live == v[s.graph]
        recorded == acc.st.schema[s.graph]
    IN  CASE live \notin Schemas -> Pending(acc, s)
          [] live \in Schemas /\ live = recorded -> Retired(acc, s)
          [] live \in Schemas /\ live # recorded ->
                IF live = s.desired THEN RollForward(acc, s, live) ELSE Pending(acc, s)

\* Mutant: an interrupted create is retired although the ledger lacks it.
SweepCreateForgets(acc, s, v) ==
    IF v[s.graph] = "partial" THEN Pending(acc, s) ELSE Retired(acc, s)

SweepCreate(acc, s, v) ==
    IF v[s.graph] = "absent" THEN Retired(acc, s) ELSE SweepSchema(acc, s, v)

SweepDelete(acc, s, v) ==
    IF v[s.graph] # "absent" \/ acc.st.schema[s.graph] = None
    THEN Retired(acc, s)
    ELSE [acc EXCEPT !.st = [Tombstone(@, s.graph) EXCEPT
                                !.consumed = @ \cup {s.approval}],
                     !.done = @ \cup {s}]

SweepOne(acc, s, v) ==
    CASE s.kind = "create" -> SweepCreate(acc, s, v)
      [] s.kind = "schema" -> SweepSchema(acc, s, v)
      [] s.kind = "delete" -> SweepDelete(acc, s, v)

\* listed are the sidecars that could be listed and read; the rest stay in place.
Sweep(st, listed, v) ==
    FoldLeft(LAMBDA acc, s : SweepOne(acc, s, v),
             [st |-> st, done |-> {}, pending |-> {}],
             SetToSortSeq(listed, LAMBDA a, b : a.op < b.op))

-----------------------------------------------------------------------------
(* Steps common to the commands.                                           *)

Goto(c, k, pc) == cmd' = [cmd EXCEPT ![c] = [k EXCEPT !.pc = pc]]
Return(c) == cmd' = [cmd EXCEPT ![c] = Idle]

Fault == faults < MaxFaults /\ faults' = faults + 1

Durable == <<config, breaker, latent, strays, edits>>

Start(c) ==
    /\ cmd[c].pc = "idle" /\ ops < MaxOps
    /\ ops' = ops + 1
    /\ \E kind \in Kinds :
        cmd' = [cmd EXCEPT ![c] = [Idle EXCEPT !.pc = "lock", !.kind = kind,
                                               !.op = ops + 1, !.d = config]]
    /\ UNCHANGED <<Durable, lock, ledger, sidecars, approvals, blobs, root,
                   faults>>

\* Mutant: the lock file is overwritten instead of created.
AcquireOverwrites(c) ==
    LET k == cmd[c] IN
    /\ k.pc = "lock"
    /\ lock' = k.op /\ Goto(c, k, "read")
    /\ UNCHANGED <<Durable, ledger, sidecars, approvals, blobs, root, ops,
                   faults>>

AcquireLock(c) ==
    LET k == cmd[c] IN
    /\ k.pc = "lock"
    /\ \/ ~StateLock /\ Goto(c, k, "read") /\ UNCHANGED <<lock, faults>>
       \/ /\ StateLock /\ lock = None
          /\ lock' = k.op /\ Goto(c, k, "read") /\ UNCHANGED faults
       \/ StateLock /\ lock # None /\ Return(c) /\ UNCHANGED <<lock, faults>>
       \/ /\ StateLock /\ Fault
          /\ lock' \in {lock, IF lock = None THEN k.op ELSE lock}
          /\ Return(c)
    /\ UNCHANGED <<Durable, ledger, sidecars, approvals, blobs, root, ops>>

ReadState(c) ==
    LET k == cmd[c]
        st == IF k.kind = "import" THEN EmptyState(k.d) ELSE ledger
    IN
    /\ k.pc = "read"
    /\ \/ (ledger = None) # (k.kind = "import") /\ Goto(c, k, "release") /\ UNCHANGED faults
       \/ /\ (ledger = None) = (k.kind = "import")
          /\ Goto(c, [k EXCEPT !.base = ledger, !.st = st],
                  CASE k.kind = "apply" -> "plan"
                    [] k.kind = "approve" -> "approve"
                    [] OTHER -> "sync")
          /\ UNCHANGED faults
       \/ Fault /\ Goto(c, k, "release")
    /\ UNCHANGED <<Durable, lock, ledger, sidecars, approvals, blobs, root, ops>>

\* Dropping the guard: read the lock file, delete it if it is ours.
ReleaseRead(c) ==
    LET k == cmd[c] IN
    /\ k.pc = "release"
    /\ IF lock = k.op THEN Goto(c, k, "unlink") ELSE Return(c)
    /\ UNCHANGED <<Durable, lock, ledger, sidecars, approvals, blobs, root,
                   ops, faults>>

ReleaseUnlink(c) ==
    /\ cmd[c].pc = "unlink"
    /\ lock' = None
    /\ Return(c)
    /\ UNCHANGED <<Durable, ledger, sidecars, approvals, blobs, root, ops,
                   faults>>

-----------------------------------------------------------------------------
(* approve: bind a human decision to the exact gated change.               *)

ApproveDelete(c) ==
    LET k == cmd[c] IN
    /\ k.pc = "approve"
    /\ \/ \E g \in GraphDeletes(k.st, k.d) :
            approvals' = approvals \cup
                {[id |-> k.op, graph |-> g, config |-> k.d,
                  before |-> Composite(k.st, g), consumed |-> FALSE]}
       \/ GraphDeletes(k.st, k.d) = {} /\ UNCHANGED approvals
    /\ Goto(c, k, "release")
    /\ UNCHANGED <<Durable, lock, ledger, sidecars, blobs, root, ops, faults>>

-----------------------------------------------------------------------------
(* apply: sweep and plan, then creates, schema updates, payloads, deletes. *)

PlanApply(c) ==
    LET k == cmd[c] IN
    /\ k.pc = "plan"
    /\ \E listed \in SUBSET sidecars, v \in Views, arts \in {approvals, {}} :
        /\ \/ listed = sidecars /\ v = root /\ arts = approvals /\ UNCHANGED faults
           \/ Fault
        /\ LET sw == Sweep(k.st, listed, v) IN
           Goto(c, [k EXCEPT !.st = sw.st, !.done = sw.done,
                             !.pending = sw.pending, !.arts = arts],
                "create")
        /\ strays' = strays \cup Overlooked(v)
    /\ UNCHANGED <<config, breaker, latent, edits, lock, ledger, sidecars,
                   approvals, blobs, root, ops>>

\* A failed movement stops the graph-moving work of the run: what is left
\* is skipped and its dependents are demoted.
Abort(c, k, pc) ==
    Goto(c, [k EXCEPT !.failed = Unmoved(k), !.cur = None], pc)

Sidecar(k, kind, g, approval) ==
    [kind |-> kind, graph |-> g, op |-> k.op, approval |-> approval,
     desired |-> IF Desires(k.d, g) THEN k.d[g].schema ELSE None]

\* The source file still has the digest the plan was made from.  Dropping a
\* graph from cluster.yaml leaves its source file in place.
SourceMatches(k, g) == Desires(config, g) => config[g].schema = k.d[g].schema

WriteCreateSidecar(c) ==
    LET k == cmd[c]
        todo == Creates(k) \ k.moved
    IN
    /\ k.pc = "create"
    /\ \/ todo = {} /\ Goto(c, k, "schema") /\ UNCHANGED <<sidecars, faults>>
       \/ \E g \in todo :
            \/ /\ sidecars' = sidecars \cup {Sidecar(k, "create", g, None)}
               /\ Goto(c, [k EXCEPT !.cur = g], "init")
               /\ UNCHANGED faults
            \/ /\ Fault /\ Abort(c, k, "payload")
               /\ sidecars' \in {sidecars, sidecars \cup {Sidecar(k, "create", g, None)}}
    /\ UNCHANGED <<Durable, lock, ledger, approvals, blobs, root, ops>>

InitGraph(c) ==
    LET k == cmd[c]
        g == k.cur
        s == Sidecar(k, "create", g, None)
    IN
    /\ k.pc = "init"
    /\ \/ /\ ~SourceMatches(k, g)
          /\ sidecars' = sidecars \ {s}
          /\ Abort(c, k, "payload")
          /\ UNCHANGED <<root, faults>>
       \/ /\ SourceMatches(k, g) /\ root[g] # "absent"
          /\ Abort(c, k, "payload")
          /\ UNCHANGED <<sidecars, root, faults>>
       \/ /\ SourceMatches(k, g) /\ root[g] = "absent"
          /\ root' = [root EXCEPT ![g] = k.d[g].schema]
          /\ Goto(c, [k EXCEPT !.moved = @ \cup {g}, !.cur = None,
                               !.done = @ \cup {s}], "create")
          /\ UNCHANGED <<sidecars, faults>>
       \/ /\ SourceMatches(k, g) /\ root[g] = "absent"
          /\ Fault
          /\ \E left \in {"absent", "partial", k.d[g].schema} :
                root' = [root EXCEPT ![g] = left]
          /\ Abort(c, k, "payload")
          /\ UNCHANGED sidecars
    /\ UNCHANGED <<Durable, lock, ledger, approvals, blobs, ops>>

\* A schema sidecar that no command in flight is about to delete announces the
\* schema that the graph moves to.
Covered(g, schema) ==
    \E s \in sidecars : /\ s.graph = g /\ s.kind = "schema" /\ s.desired = schema
                        /\ \A c \in Commands : s \notin cmd[c].done

\* A read-write open: the engine's recovery finishes a confirmed schema apply.
EngineRecovers(g) ==
    /\ root' = IF latent[g] = None THEN root ELSE [root EXCEPT ![g] = latent[g]]
    /\ latent' = [latent EXCEPT ![g] = None]
    /\ strays' = IF latent[g] = None \/ Covered(g, latent[g]) THEN strays
                 ELSE strays \cup {g}

WriteSchemaSidecar(c) ==
    LET k == cmd[c]
        todo == SchemaUpdates(k) \ k.moved
    IN
    /\ k.pc = "schema"
    /\ \/ /\ todo = {} /\ Goto(c, k, "payload")
          /\ UNCHANGED <<sidecars, faults, root, latent, strays>>
       \/ \E g \in todo :
            \/ /\ Openable(g) /\ SourceMatches(k, g) /\ EngineRecovers(g)
               /\ sidecars' = sidecars \cup {Sidecar(k, "schema", g, None)}
               /\ Goto(c, [k EXCEPT !.cur = g], "migrate")
               /\ UNCHANGED faults
            \/ /\ Openable(g) /\ ~SourceMatches(k, g) /\ EngineRecovers(g)
               /\ Abort(c, k, "payload")
               /\ UNCHANGED <<sidecars, faults>>
            \/ /\ ~Openable(g)
               /\ Abort(c, k, "payload")
               /\ UNCHANGED <<sidecars, faults, root, latent, strays>>
            \/ /\ Openable(g) /\ Fault /\ EngineRecovers(g)
               /\ Abort(c, k, "payload")
               /\ sidecars' \in {sidecars, sidecars \cup {Sidecar(k, "schema", g, None)}}
    /\ UNCHANGED <<config, breaker, edits, lock, ledger, approvals, blobs, ops>>

\* A failed migration may have moved the graph, or may have left an engine intent
\* that the next read-write open rolls forward.  The sidecar is retired at once
\* when the live schema reads as the recorded one, which it does in either of
\* the cases that leave the graph where it was.
MigrateSchema(c) ==
    LET k == cmd[c]
        g == k.cur
        s == Sidecar(k, "schema", g, None)
        to == k.d[g].schema
    IN
    /\ k.pc = "migrate"
    /\ \/ /\ root' = [root EXCEPT ![g] = to]
          /\ Goto(c, [k EXCEPT !.moved = @ \cup {g}, !.cur = None,
                               !.done = @ \cup {s}], "schema")
          /\ UNCHANGED <<latent, sidecars, faults>>
       \/ /\ Fault
          /\ \/ root' = [root EXCEPT ![g] = to] /\ UNCHANGED latent
             \/ latent' \in {latent, [latent EXCEPT ![g] = to]} /\ UNCHANGED root
          /\ \/ root'[g] = k.st.schema[g] /\ sidecars' = sidecars \ {s}
             \/ UNCHANGED sidecars
          /\ Abort(c, k, "payload")
    /\ UNCHANGED <<config, breaker, strays, edits, lock, ledger, approvals, blobs, ops>>

\* A server, or any other read-write open of the graph.
ServerOpens(g) ==
    /\ Openable(g) /\ latent[g] # None
    /\ EngineRecovers(g)
    /\ UNCHANGED <<config, lock, breaker, ledger, sidecars, approvals, blobs,
                   cmd, ops, faults, edits>>

\* Mutant: a payload that cannot be written does not abort the run.
PayloadErrorIgnored(c) ==
    LET k == cmd[c] IN
    /\ k.pc = "payload"
    /\ \/ /\ blobs' = blobs \cup QueryWrites(k)
          /\ UNCHANGED faults
       \/ /\ QueryWrites(k) # {} /\ Fault
          /\ UNCHANGED blobs
    /\ Goto(c, k, "delete")
    /\ UNCHANGED <<Durable, lock, ledger, sidecars, approvals, root, ops>>

WritePayloads(c) ==
    LET k == cmd[c] IN
    /\ k.pc = "payload"
    /\ \/ /\ blobs' = blobs \cup QueryWrites(k)
          /\ Goto(c, k, "delete")
          /\ UNCHANGED faults
       \/ /\ QueryWrites(k) # {} /\ Fault
          /\ Goto(c, k, "release")
          /\ UNCHANGED blobs
    /\ UNCHANGED <<Durable, lock, ledger, sidecars, approvals, root, ops>>

\* The delete looks its approval up again, by resource and config only.
LocateApproval(k, g) ==
    CHOOSE a \in k.arts :
        /\ a.graph = g /\ ~a.consumed /\ a.config = k.d
        /\ \A b \in k.arts :
            (b.graph = g /\ ~b.consumed /\ b.config = k.d) => a.id <= b.id

WriteDeleteSidecar(c) ==
    LET k == cmd[c]
        todo == ApprovedDeletes(k) \ k.moved
    IN
    /\ k.pc = "delete"
    /\ \/ /\ todo = {} \/ k.failed # {}
          /\ Goto(c, k, "write") /\ UNCHANGED <<sidecars, faults>>
       \/ /\ k.failed = {}
          /\ \E g \in todo :
            \/ /\ sidecars' = sidecars \cup
                    {Sidecar(k, "delete", g, LocateApproval(k, g).id)}
               /\ Goto(c, [k EXCEPT !.cur = g], "remove")
               /\ UNCHANGED faults
            \/ /\ Fault /\ Abort(c, k, "write")
               /\ sidecars' \in {sidecars, sidecars \cup
                        {Sidecar(k, "delete", g, LocateApproval(k, g).id)}}
    /\ UNCHANGED <<Durable, lock, ledger, approvals, blobs, root, ops>>

RemoveRoot(c) ==
    LET k == cmd[c]
        g == k.cur
        a == LocateApproval(k, g)
        s == Sidecar(k, "delete", g, a.id)
    IN
    /\ k.pc = "remove"
    /\ \/ /\ root' = [root EXCEPT ![g] = "absent"]
          /\ latent' = [latent EXCEPT ![g] = None]
          /\ Goto(c, [k EXCEPT !.moved = @ \cup {g}, !.cur = None,
                               !.done = @ \cup {s},
                               !.gone = @ \cup {<<g, a.id>>}], "delete")
          /\ UNCHANGED faults
       \/ /\ Fault
          /\ root' \in {root, [root EXCEPT ![g] = "partial"], [root EXCEPT ![g] = "absent"]}
          /\ latent' = IF root' = root THEN latent ELSE [latent EXCEPT ![g] = None]
          /\ Abort(c, k, "write")
    /\ UNCHANGED <<config, lock, breaker, ledger, sidecars, approvals, blobs,
                   strays, ops, edits>>

-----------------------------------------------------------------------------
(* refresh and import: make the ledger say what storage says.              *)

\* Mutant: a missing root is recorded as if it were a schema.
ObserveMissingAsSchema(st, d, v) ==
    [st EXCEPT !.schema = [g \in Graphs |->
        IF Desires(d, g) THEN v[g] ELSE st.schema[g]]]

\* A declared graph whose root is gone loses its graph and schema entries;
\* an openable one records its live schema; an unopenable one is left alone.
ObserveGraphs(st, d, v) ==
    [st EXCEPT !.schema = [g \in Graphs |->
        CASE Desires(d, g) /\ v[g] = "absent" -> None
          [] Desires(d, g) /\ v[g] \in Schemas -> v[g]
          [] OTHER -> st.schema[g]]]

VerifyPayloads(st) == [st EXCEPT !.query = [g \in Graphs |->
                                               st.query[g] /\ g \in blobs]]

\* The sweep and the observation probe the roots each for itself.
SyncState(c) ==
    LET k == cmd[c] IN
    /\ k.pc = "sync"
    /\ \E listed \in SUBSET sidecars, v, w \in Views :
        /\ \/ listed = sidecars /\ v = root /\ w = root /\ UNCHANGED faults
           \/ Fault
        /\ LET sw == Sweep(k.st, listed, v)
               unreadable == {g \in Graphs : Desires(k.d, g) /\ w[g] = "partial"}
           IN  IF k.kind = "import" /\ unreadable # {}
               THEN Goto(c, k, "release") /\ UNCHANGED strays
               ELSE /\ Goto(c, [k EXCEPT !.st = ObserveGraphs(VerifyPayloads(sw.st), k.d, w),
                                         !.done = sw.done, !.pending = sw.pending],
                            "write")
                    /\ strays' = strays \cup Overlooked(v) \cup Overlooked(w)
    /\ UNCHANGED <<config, breaker, latent, edits, lock, ledger, sidecars,
                   approvals, blobs, root, ops>>

-----------------------------------------------------------------------------
(* Recording the outcome: the state write, then the cleanup it licenses.   *)

AppliedState(k) ==
    LET moved == {g \in k.moved : Desires(k.d, g)}
        gone == {p[1] : p \in k.gone}
        schema == [g \in Graphs |->
            CASE g \in moved -> k.d[g].schema
              [] g \in gone -> None
              [] OTHER -> k.st.schema[g]]
        query == [g \in Graphs |->
            /\ g \notin gone
            /\ (k.st.query[g] /\ g \notin QueryDeletes(k)) \/ g \in QueryWrites(k)]
        converged == \A g \in Graphs :
            /\ IF Desires(k.d, g) THEN schema[g] = k.d[g].schema
                                  ELSE schema[g] = None
            /\ query[g] <=> DesiresQuery(k.d, g)
    IN [k.st EXCEPT !.schema = schema, !.query = query,
                    !.config = IF converged THEN k.d ELSE @,
                    !.consumed = @ \cup {p[2] : p \in k.gone}]

NewState(k) == IF k.kind = "apply" THEN AppliedState(k) ELSE k.st

\* write_state reads the ledger afresh and compares it with what the command
\* read first.  An apply with nothing to record skips the write; statuses,
\* which are not modelled, may differ when something is blocked.
CheckState(c) ==
    LET k == cmd[c]
        dirty == k.kind # "apply" \/ NewState(k) # k.base
    IN
    /\ k.pc = "write"
    /\ \/ (dirty \/ HasBlocked(k)) /\ ledger = k.base /\ Goto(c, k, "put")
       \/ (dirty \/ HasBlocked(k)) /\ ledger # k.base /\ Goto(c, k, "release")
       \/ ~dirty /\ Goto(c, k, "retire")
    /\ UNCHANGED <<Durable, lock, ledger, sidecars, approvals, blobs, root,
                   ops, faults>>

\* What the ledger says of a graph is what its root holds.
Told(st, g) == st.schema[g] = IF Openable(g) THEN root[g] ELSE None

\* The ledger is replaced; a graph it is right about is no stray any more.
Replace(k) ==
    /\ ledger' = [NewState(k) EXCEPT !.rev = @ + 1]
    /\ strays' = {g \in strays : ~Told(NewState(k), g)}

\* The replacement reports an error, with or without its effect.
PutFails(c, k) ==
    /\ Fault /\ Goto(c, k, "release")
    /\ \/ UNCHANGED <<ledger, strays>>
       \/ Replace(k)

\* Mutant: the replacement is not conditional on the version just read.
PutUnconditional(c) ==
    LET k == cmd[c] IN
    /\ k.pc = "put"
    /\ Replace(k) /\ Goto(c, k, "retire")
    /\ UNCHANGED <<config, breaker, latent, edits, lock, sidecars, approvals,
                   blobs, root, ops, faults>>

\* The object store compares and replaces in one call, as every backend does for
\* a ledger that is created.  A local disk compares here and replaces later.
PutState(c) ==
    LET k == cmd[c]
        atomic == ConditionalPut \/ k.base = None
    IN
    /\ k.pc = "put"
    /\ \/ /\ atomic /\ ledger = k.base
          /\ Replace(k) /\ Goto(c, k, "retire") /\ UNCHANGED faults
       \/ atomic /\ ledger = k.base /\ PutFails(c, k)
       \/ /\ ~atomic /\ ledger = k.base
          /\ Goto(c, k, "replace") /\ UNCHANGED <<ledger, strays, faults>>
       \/ /\ ledger # k.base
          /\ Goto(c, k, "release") /\ UNCHANGED <<ledger, strays, faults>>
    /\ UNCHANGED <<config, breaker, latent, edits, lock, sidecars, approvals,
                   blobs, root, ops>>

ReplaceLocally(c) ==
    LET k == cmd[c] IN
    /\ k.pc = "replace"
    /\ \/ Replace(k) /\ Goto(c, k, "retire") /\ UNCHANGED faults
       \/ PutFails(c, k)
    /\ UNCHANGED <<config, breaker, latent, edits, lock, sidecars, approvals,
                   blobs, root, ops>>

\* Sidecars are deleted and approvals marked by best effort: an error is ignored.
RetireSidecar(c) ==
    LET k == cmd[c] IN
    /\ k.pc = "retire"
    /\ \/ \E s \in k.done \cap sidecars :
            sidecars' = sidecars \ {s} /\ UNCHANGED <<cmd, faults>>
       \/ /\ Goto(c, k, "mark") /\ UNCHANGED sidecars
          /\ IF k.done \cap sidecars = {} THEN UNCHANGED faults ELSE Fault
    /\ UNCHANGED <<Durable, lock, ledger, approvals, blobs, root, ops>>

\* The approvals this run consumed: by its own deletes, or swept forward.
Consumed(k) == {p[2] : p \in k.gone} \cup
    (k.st.consumed \ (IF k.base = None THEN {} ELSE k.base.consumed))

MarkConsumed(c) ==
    LET k == cmd[c]
        todo == {a \in approvals : a.id \in Consumed(k) /\ ~a.consumed}
    IN
    /\ k.pc = "mark"
    /\ \/ \E a \in todo :
            /\ approvals' = (approvals \ {a})
                                \cup {[a EXCEPT !.consumed = TRUE]}
            /\ UNCHANGED <<cmd, faults>>
       \/ /\ Goto(c, k, "release") /\ UNCHANGED approvals
          /\ IF todo = {} THEN UNCHANGED faults ELSE Fault
    /\ UNCHANGED <<Durable, lock, ledger, sidecars, blobs, root, ops>>

-----------------------------------------------------------------------------
(* Deaths and operators.                                                   *)

Crash(c) ==
    /\ cmd[c].pc # "idle"
    /\ Fault
    /\ Return(c)
    /\ UNCHANGED <<Durable, lock, ledger, sidecars, approvals, blobs, root,
                   ops>>

EditConfig ==
    /\ edits < MaxEdits
    /\ edits' = edits + 1
    /\ config' \in Configs \ {config}
    /\ UNCHANGED <<lock, breaker, ledger, sidecars, approvals, blobs, root,
                   latent, cmd, strays, ops, faults>>

\* The repair an incomplete create asks of the operator.
RemovePartialRoot(g) ==
    /\ root[g] = "partial"
    /\ \A c \in Commands : cmd[c].pc = "idle"
    /\ ledger # None => ledger.schema[g] = None
    /\ root' = [root EXCEPT ![g] = "absent"]
    /\ UNCHANGED <<Durable, lock, ledger, sidecars, approvals, blobs, cmd,
                   ops, faults>>

OwnerAlive == \E c \in Commands : cmd[c].pc # "idle" /\ cmd[c].op = lock

\* force-unlock reads the lock, checks the id it was given, and deletes.
ForceUnlockRead ==
    /\ lock # None /\ breaker = None
    /\ ProbeOwner => ~OwnerAlive
    /\ breaker' = lock
    /\ UNCHANGED <<config, lock, ledger, sidecars, approvals, blobs, root,
                   latent, cmd, strays, ops, faults, edits>>

ForceUnlockDelete ==
    /\ breaker # None
    /\ lock' = None
    /\ breaker' = None
    /\ UNCHANGED <<config, ledger, sidecars, approvals, blobs, root, latent,
                   cmd, strays, ops, faults, edits>>

Step(c) ==
    \/ Start(c) \/ AcquireLock(c) \/ ReadState(c) \/ ApproveDelete(c)
    \/ PlanApply(c) \/ WriteCreateSidecar(c) \/ InitGraph(c)
    \/ WriteSchemaSidecar(c) \/ MigrateSchema(c) \/ WritePayloads(c)
    \/ WriteDeleteSidecar(c) \/ RemoveRoot(c) \/ SyncState(c)
    \/ CheckState(c) \/ PutState(c) \/ ReplaceLocally(c)
    \/ RetireSidecar(c) \/ MarkConsumed(c) \/ ReleaseRead(c) \/ ReleaseUnlink(c) \/ Crash(c)

Next ==
    \/ \E c \in Commands : Step(c)
    \/ \E g \in Graphs : RemovePartialRoot(g) \/ ServerOpens(g)
    \/ EditConfig \/ ForceUnlockRead \/ ForceUnlockDelete

Spec == Init /\ [][Next]_vars

-----------------------------------------------------------------------------
TypeOK ==
    /\ config \in Configs
    /\ lock \in 1 .. MaxOps \cup {None} /\ breaker \in 1 .. MaxOps \cup {None}
    /\ ledger # None => /\ ledger.schema \in [Graphs -> Schemas \cup {None}]
                        /\ ledger.query \in [Graphs -> BOOLEAN]
                        /\ ledger.config \in Configs \cup {None}
    /\ root \in [Graphs -> Schemas \cup {"absent", "partial"}]
    /\ blobs \subseteq Graphs
    /\ \A s \in sidecars : s.kind \in {"create", "schema", "delete"}

Holding == {c \in Commands : cmd[c].pc \notin {"idle", "lock"}}

\* With state.lock on and the lock forced only after its owner died, two commands
\* never work on the cluster at once, although the owner's release and the
\* operator's force-unlock both read the lock file before they delete it
\* (state_lock.rs, release_remote_lock_if_owned; store.rs, force_unlock).
OneCommandAtATime == Cardinality(Holding) <= 1

\* No command overwrites a ledger it has not read: a state write always extends
\* the revision its command started from.  On an object store this holds however
\* the lock was lost or switched off; on a local disk, whose replacement is not
\* conditional, only under the lock (store.rs, write_state; storage
\* lib.rs, write_text_if_match).
NoLostLedger ==
    ledger' # ledger =>
     /\ \E c \in Commands : cmd[c].pc \in {"put", "replace"} /\ cmd[c].base = ledger
     /\ ledger # None => /\ ledger'.rev = ledger.rev + 1
                         /\ ledger.consumed \subseteq ledger'.consumed

\* Whenever no command runs, whatever crashes, failing calls and lost answers came
\* before, one sweep that can read the roots brings the ledger's schema of every
\* readable graph to what its root really holds, except of a graph that a failed
\* probe reported absent, or that the engine moved after its sidecar was retired,
\* and that no state write has told right since (sweep.rs; apply deletes a sidecar
\* only after the state write that records its outcome).
SweepHeals ==
    (ledger # None /\ \A c \in Commands : cmd[c].pc = "idle") =>
        \A g \in Graphs \ strays : root[g] # "partial" =>
            Told(Sweep(ledger, sidecars, root).st, g)

\* A query digest in the ledger always has its payload in the catalog: the
\* payload phase precedes the state write (lib.rs, apply_config_dir).
PayloadBeforeLedger ==
    ledger # None => \A g \in Graphs : ledger.query[g] => g \in blobs

\* A graph root is destroyed only by an apply whose configuration and recorded
\* digest an approval still unconsumed on disk was bound to
\* (diff.rs, approved_resources).
NoUnapprovedDelete ==
    \A g \in Graphs :
     Openable(g) /\ root'[g] \in {"absent", "partial"} =>
         \E c \in Commands, a \in approvals :
             /\ cmd[c].pc = "remove" /\ cmd[c].cur = g
             /\ ApprovesDelete(a, cmd[c].st, cmd[c].d, g)

\* An approval file is marked consumed only once the ledger durably records
\* the consumption, so a failed state write never spends an approval
\* (sweep.rs, record_approval_consumed and mark_approvals_consumed).
MarkedAfterRecorded ==
    \A a \in approvals : a.consumed => ledger # None /\ a.id \in ledger.consumed
=============================================================================
