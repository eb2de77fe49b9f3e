----------------------------- MODULE ClusterPlan -----------------------------
(***************************************************************************)
(* What a cluster command computes: loading a configuration, the diff      *)
(* against the applied ledger, the disposition of every change, the        *)
(* demotion of what depends on a failed graph, the ledger an apply         *)
(* records, what a refresh records, and the snapshot a server boots from.  *)
(* Each command is one step here; ClusterApply has their interleavings.    *)
(*                                                                         *)
(* A resource address is <<kind, id>>; a graph declares at most one query. *)
(* A graph's composite digest is the tuple of what it digests.             *)
(***************************************************************************)
EXTENDS Integers, FiniteSets, Functions, TLC

CONSTANTS
    Graphs,         \* graph ids, 1 .. n: the order graphs are moved in
    Policies, Providers, None,
    Configs         \* configurations an operator may write

VARIABLE ledger     \* applied_revision.resources: address -> entry

vars == <<ledger>>

Addr(kind, ids) == {<<kind, i>> : i \in ids}
Kind(a) == a[1]
Id(a) == a[2]

Cluster == 0        \* the binding scope that is no graph

Entry(digest) == [digest |-> digest, applies_to |-> None, provider |-> None,
                  profile |-> None, blob |-> "deny"]

-----------------------------------------------------------------------------
(* Loading: a configuration is a record of three partial functions,        *)
(*   graphs    id -> [schema, query, provider, blob]                       *)
(*   policies  id -> [text, binds]                                         *)
(*   providers id -> profile                                               *)

ProviderRefsResolve(c) ==
    \A g \in DOMAIN c.graphs :
        c.graphs[g].provider \in DOMAIN c.providers \cup {None}

GraphBinds(c, p) == c.policies[p].binds \ {Cluster}

PolicyBindsResolve(c) ==
    \A p \in DOMAIN c.policies :
        /\ c.policies[p].binds # {}
        /\ GraphBinds(c, p) \subseteq DOMAIN c.graphs
        /\ Cluster \in c.policies[p].binds => GraphBinds(c, p) = {}

OnePolicyPerScope(c) ==
    \A p, q \in DOMAIN c.policies :
        p # q => c.policies[p].binds \cap c.policies[q].binds = {}

Loads(c) == ProviderRefsResolve(c) /\ PolicyBindsResolve(c) /\ OnePolicyPerScope(c)

GraphDigest(schema, query, provider, profile, blob) ==
    <<schema, query, provider, profile, blob>>

ProviderDigest(rs, provider) ==
    LET a == <<"provider", provider>> IN
    IF a \in DOMAIN rs THEN rs[a].digest ELSE None

Resources(c) ==
    LET queried == {g \in DOMAIN c.graphs : c.graphs[g].query # None} IN
      [a \in Addr("provider", DOMAIN c.providers) |-> c.providers[Id(a)]]
   @@ [a \in Addr("schema", DOMAIN c.graphs) |-> c.graphs[Id(a)].schema]
   @@ [a \in Addr("query", queried) |-> c.graphs[Id(a)].query]
   @@ [a \in Addr("policy", DOMAIN c.policies) |-> c.policies[Id(a)].text]
   @@ [a \in Addr("graph", DOMAIN c.graphs) |->
        LET g == c.graphs[Id(a)] IN
        GraphDigest(g.schema, g.query, g.provider,
                    IF g.provider = None THEN None ELSE c.providers[g.provider],
                    g.blob)]

-----------------------------------------------------------------------------
(* The plan.                                                               *)

Digests(rs) == [a \in DOMAIN rs |-> rs[a].digest]

Changed(prior, desired) ==
    {a \in DOMAIN prior \cap DOMAIN desired : prior[a] # desired[a]}

DiffResources(prior, desired) ==
    [a \in DOMAIN desired \ DOMAIN prior |-> "create"]
 @@ [a \in Changed(prior, desired) |-> "update"]
 @@ [a \in DOMAIN prior \ DOMAIN desired |-> "delete"]

PolicyBindingChanges(rs, c) ==
    {a \in Addr("policy", DOMAIN c.policies) \cap DOMAIN rs :
        rs[a].applies_to # c.policies[Id(a)].binds}

EmbeddingProfileChanges(rs, c) ==
    {a \in Addr("provider", DOMAIN c.providers) \cap DOMAIN rs :
        rs[a].profile # c.providers[Id(a)]}

Plan(rs, c) ==
    DiffResources(Digests(rs), Resources(c))
 @@ [a \in PolicyBindingChanges(rs, c) \cup EmbeddingProfileChanges(rs, c) |->
        "update"]

GraphsWith(plan, kind, op) ==
    {Id(a) : a \in {b \in DOMAIN plan : Kind(b) = kind /\ plan[b] = op}}

SchemaPending(plan) ==
    GraphsWith(plan, "schema", "delete")
        \cup (GraphsWith(plan, "schema", "create")
                 \ GraphsWith(plan, "graph", "create"))

RidesApprovedDelete(plan, pending, approved) ==
    (GraphsWith(plan, "graph", "delete") \cap approved) \ pending

BindsAny(c, a, gs) ==
    Id(a) \in DOMAIN c.policies /\ GraphBinds(c, Id(a)) \cap gs # {}

Classify(plan, c, pending, approved) ==
    LET rides == RidesApprovedDelete(plan, pending, approved)
        doomed == GraphsWith(plan, "graph", "delete")
        Disposition(a) ==
            CASE Kind(a) = "schema" /\ plan[a] \in {"create", "update"} ->
                    IF Id(a) \notin pending /\
                       (plan[a] = "update" \/ Id(a) \in GraphsWith(plan, "graph", "create"))
                    THEN "applied" ELSE "blocked"
              [] Kind(a) = "schema" /\ plan[a] = "delete" ->
                    IF Id(a) \notin doomed THEN "deferred"
                    ELSE IF Id(a) \in rides THEN "applied" ELSE "blocked"
              [] Kind(a) = "graph" /\ plan[a] = "create" ->
                    IF Id(a) \in pending THEN "blocked" ELSE "applied"
              [] Kind(a) = "graph" /\ plan[a] = "update" ->
                    IF Id(a) \in SchemaPending(plan) THEN "deferred" ELSE "derived"
              [] Kind(a) = "graph" /\ plan[a] = "delete" ->
                    IF Id(a) \in rides THEN "applied" ELSE "blocked"
              [] Kind(a) = "query" /\ plan[a] = "delete" ->
                    IF Id(a) \in doomed \ rides THEN "blocked" ELSE "applied"
              [] Kind(a) = "query" /\ plan[a] # "delete" ->
                    IF Id(a) \in pending \cup SchemaPending(plan)
                    THEN "blocked" ELSE "applied"
              [] Kind(a) = "policy" /\ plan[a] # "delete" ->
                    IF BindsAny(c, a, pending) THEN "blocked" ELSE "applied"
              [] OTHER -> "applied"
    IN [a \in DOMAIN plan |-> Disposition(a)]

Demote(disp, c, failed) ==
    [a \in DOMAIN disp |->
        IF disp[a] = "applied" /\
           \/ Kind(a) \in {"graph", "schema", "query"} /\ Id(a) \in failed
           \/ Kind(a) = "policy" /\ BindsAny(c, a, failed)
        THEN "blocked" ELSE disp[a]]

\* Graphs are moved in phases, in id order; the first failure skips the rest.
MoveRank(plan, disp) ==
    LET moves == {a \in DOMAIN plan :
            /\ disp[a] = "applied"
            /\ \/ Kind(a) = "graph" /\ plan[a] \in {"create", "delete"}
               \/ Kind(a) = "schema" /\ plan[a] = "update"}
        phase == [create |-> 0, update |-> 1, delete |-> 2]
    IN [g \in {Id(a) : a \in moves} |->
            LET a == CHOOSE b \in moves : Id(b) = g
            IN phase[plan[a]] * (Cardinality(Graphs) + 1) + g]

FailureSets(plan, disp) ==
    LET rank == MoveRank(plan, disp) IN
    {{h \in DOMAIN rank : rank[h] >= rank[g]} : g \in DOMAIN rank} \cup {{}}

-----------------------------------------------------------------------------
(* The ledger an apply records.                                            *)

QueryOf(rs, g) ==
    IF <<"query", g>> \in DOMAIN rs THEN rs[<<"query", g>>].digest ELSE None
SchemaOf(rs, g) ==
    IF <<"schema", g>> \in DOMAIN rs THEN rs[<<"schema", g>>].digest ELSE None

BoundDigest(rs, g, provider, blob) ==
    GraphDigest(SchemaOf(rs, g), QueryOf(rs, g), provider,
                ProviderDigest(rs, provider), blob)

\* Mutant: an applied provider does not record the profile serving needs.
RecordWithoutProfile(rs, plan, disp, c) ==
    LET done == {a \in DOMAIN plan : disp[a] = "applied"}
        put == {a \in done : plan[a] # "delete"}
        Value(a) ==
            [Entry(Resources(c)[a]) EXCEPT
                !.applies_to = IF Kind(a) = "policy"
                               THEN c.policies[Id(a)].binds ELSE None]
    IN [a \in put |-> Value(a)] @@ Restrict(rs, DOMAIN rs \ done)

RecordChanges(rs, plan, disp, c) ==
    LET done == {a \in DOMAIN plan : disp[a] = "applied"}
        put == {a \in done : plan[a] # "delete"}
        Value(a) ==
            [Entry(Resources(c)[a]) EXCEPT
                !.applies_to = IF Kind(a) = "policy"
                               THEN c.policies[Id(a)].binds ELSE None,
                !.profile = IF Kind(a) = "provider"
                            THEN c.providers[Id(a)] ELSE None]
    IN [a \in put |-> Value(a)] @@ Restrict(rs, DOMAIN rs \ done)

TombstoneSubtree(rs, gone) ==
    Restrict(rs, {a \in DOMAIN rs :
        ~(Kind(a) \in {"graph", "schema", "query"} /\ Id(a) \in gone)})

\* Mutant: a blocked graph still takes the blob policy the config asks for.
RecomputeAdoptsPolicy(rs, disp, c) ==
    LET graphs == {a \in Addr("graph", DOMAIN c.graphs) : a \in DOMAIN rs} IN
    [a \in graphs |->
        [Entry(BoundDigest(rs, Id(a), c.graphs[Id(a)].provider,
                           c.graphs[Id(a)].blob)) EXCEPT
            !.provider = c.graphs[Id(a)].provider,
            !.blob = c.graphs[Id(a)].blob]] @@ rs

\* Mutant: the composite keeps the provider already in the ledger.
RecomputeKeepsProvider(rs, disp, c) ==
    LET graphs == {a \in Addr("graph", DOMAIN c.graphs) : a \in DOMAIN rs} IN
    [a \in graphs |->
        [rs[a] EXCEPT !.digest = BoundDigest(rs, Id(a), rs[a].provider,
                                             c.graphs[Id(a)].blob),
                      !.blob = c.graphs[Id(a)].blob]] @@ rs

RecomputeGraphDigests(rs, disp, c) ==
    LET graphs == {a \in Addr("graph", DOMAIN c.graphs) : a \in DOMAIN rs}
        Blocked(g) == \E a \in {<<"graph", g>>, <<"schema", g>>} :
                            a \in DOMAIN disp /\ disp[a] = "blocked"
        Blob(g) == IF Blocked(g) THEN rs[<<"graph", g>>].blob ELSE c.graphs[g].blob
    IN [a \in graphs |->
        [Entry(BoundDigest(rs, Id(a), c.graphs[Id(a)].provider, Blob(Id(a))))
            EXCEPT !.provider = c.graphs[Id(a)].provider,
                   !.blob = Blob(Id(a))]] @@ rs

ApplyState(rs, c, pending, approved, failed) ==
    LET plan == Plan(rs, c)
        disp == Demote(Classify(plan, c, pending, approved), c, failed)
        gone == {Id(a) : a \in {b \in DOMAIN plan :
                    Kind(b) = "graph" /\ plan[b] = "delete" /\ disp[b] = "applied"}}
    IN RecomputeGraphDigests(
            TombstoneSubtree(RecordChanges(rs, plan, disp, c), gone), disp, c)

Converged(rs, c) == DOMAIN Plan(rs, c) = {}

-----------------------------------------------------------------------------
(* The ledger a refresh records.  A graph's live schema is what the ledger *)
(* has; a payload may have been lost, a declared root may be unreadable.   *)

\* Mutant: a lost payload clears the digest and keeps the resource.
DropPayloadsHusk(rs, lost) ==
    [a \in lost \cap DOMAIN rs |-> Entry(None)] @@ rs

Catalogued(rs) == {a \in DOMAIN rs : Kind(a) \in {"query", "policy"}}

DropPayloads(rs, lost) == Restrict(rs, DOMAIN rs \ lost)

ObserveReadable(rs, c, unreadable) ==
    LET seen == {a \in DOMAIN rs : Kind(a) = "graph" /\
                    Id(a) \in DOMAIN c.graphs \ unreadable}
    IN [a \in seen |->
        [rs[a] EXCEPT !.digest = BoundDigest(rs, Id(a), rs[a].provider, rs[a].blob)]]
       @@ rs

-----------------------------------------------------------------------------
(* The as-read check every state-mutating command makes first, and the     *)
(* serving snapshot.                                                       *)

LedgerBinds(rs) ==
    \A a \in DOMAIN rs : Kind(a) = "graph" =>
        rs[a].digest = BoundDigest(rs, Id(a), rs[a].provider, rs[a].blob)

ServeErrors(rs, quarantined, lost) ==
    LET live == {a \in DOMAIN rs : Kind(a) = "graph" /\ Id(a) \notin quarantined}
        needed == {<<"provider", rs[a].provider>> :
                        a \in {b \in live : rs[b].provider # None}}
    IN  {a \in live : rs[a].provider # None /\
                      <<"provider", rs[a].provider>> \notin DOMAIN rs}
   \cup {a \in needed \cap DOMAIN rs : rs[a].profile # rs[a].digest}
   \cup {a \in live : rs[a].digest # BoundDigest(rs, Id(a), rs[a].provider, rs[a].blob)}
   \cup {a \in Catalogued(rs) \cap lost :
            Kind(a) = "query" => Id(a) \notin quarantined}
   \cup {a \in DOMAIN rs : Kind(a) = "policy" /\ rs[a].applies_to = None}
   \cup {a \in {<<"graph", None>>} : live = {}}

-----------------------------------------------------------------------------
Init == ledger = [a \in {} |-> None]

Apply ==
    \E c \in Configs, pending \in SUBSET Graphs, approved \in SUBSET Graphs :
        LET plan == Plan(ledger, c)
            disp == Classify(plan, c, pending, approved)
        IN
        /\ Loads(c)
        /\ LedgerBinds(ledger)
        /\ \E failed \in FailureSets(plan, disp) :
            ledger' = ApplyState(ledger, c, pending, approved, failed)

Refresh ==
    \E c \in Configs, lost \in SUBSET Catalogued(ledger),
       unreadable \in SUBSET Graphs :
        /\ Loads(c)
        /\ LedgerBinds(ledger)
        /\ ledger' = ObserveReadable(DropPayloads(ledger, lost), c, unreadable)

\* Every command refuses a ledger whose graph metadata is not bound.
Refuse == ~LedgerBinds(ledger) /\ UNCHANGED ledger

Next == Apply \/ Refresh \/ Refuse

Spec == Init /\ [][Next]_vars

-----------------------------------------------------------------------------
TypeOK ==
    /\ DOMAIN ledger \subseteq
            Addr("graph", Graphs) \cup Addr("schema", Graphs) \cup
            Addr("query", Graphs) \cup Addr("policy", Policies) \cup
            Addr("provider", Providers)
    /\ \A a \in DOMAIN ledger :
            /\ DOMAIN ledger[a] = DOMAIN Entry(None)
            /\ ledger[a].digest # None
            /\ ledger[a].provider \in Providers \cup {None}

\* From any ledger a clean apply, with every delete approved, converges in one
\* run: nothing is left to plan (lib.rs, recompute_state_graph_digests: without
\* it "apply could never converge").
CleanApplyConverges ==
    LedgerBinds(ledger) =>
        \A c \in Configs :
            Loads(c) => Converged(ApplyState(ledger, c, {}, Graphs, {}), c)

\* What a converged apply of a configuration with a graph leaves is always
\* sufficient to boot a server from, with no configuration at hand
\* (serve.rs, read_snapshot_with_store).
AppliedLedgerServes ==
    LedgerBinds(ledger) =>
        \A c \in Configs :
            (Loads(c) /\ DOMAIN c.graphs # {}) =>
                ServeErrors(ApplyState(ledger, c, {}, Graphs, {}), {}, {}) = {}

\* A run that fails to move a graph, or finds it pending recovery, leaves the
\* schema and the external-blob authority recorded for it as they were, and
\* records no query or policy that depends on it
\* (diff.rs, demote_dependents_of_failed_graphs).
FailedGraphKeepsItsAuthority ==
    LedgerBinds(ledger) =>
        \A c \in Configs, held \in Graphs, pend \in BOOLEAN :
            LET plan == Plan(ledger, c)
                pending == IF pend THEN {held} ELSE {}
                disp == Classify(plan, c, pending, Graphs)
                moving == DOMAIN MoveRank(plan, disp)
                failed == IF held \in moving THEN {held} ELSE {}
                after == ApplyState(ledger, c, pending, Graphs, failed)
                g == <<"graph", held>>
            IN (Loads(c) /\ held \in pending \cup failed) =>
                /\ SchemaOf(after, held) = SchemaOf(ledger, held)
                /\ g \in DOMAIN ledger =>
                     g \in DOMAIN after /\
                     (<<"schema", held>> \in DOMAIN plan =>
                        after[g].blob = ledger[g].blob)
                /\ \A a \in DOMAIN after :
                     (Kind(a) = "policy" /\ BindsAny(c, a, {held})) =>
                        a \in DOMAIN ledger /\ after[a] = ledger[a]

\* The ledger a command leaves passes the check the next command starts with
\* (docs/user/clusters/config.md: "recomputed from state's own schema/query
\* digests after each apply").
LedgerStaysBound == LedgerBinds(ledger)
=============================================================================
