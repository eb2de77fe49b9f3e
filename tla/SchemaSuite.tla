----------------------------- MODULE SchemaSuite ------------------------------
(*****************************************************************************)
(* Schemas for TLC: the identities and the migration a schema source is      *)
(* compiled to (SchemaIdentity), the apply of a migration with its intent,   *)
(* staging files and recovery (SchemaApply), and the init of a graph by      *)
(* racing callers (InitGraph). A behaviour is about one of them: area        *)
(* names it and its bounds, and the components share the variables.          *)
(*****************************************************************************)
EXTENDS Integers, Sequences, FiniteSets, TLC

CONSTANTS i1, i2, i3, none, o1, t1, t2, t3, t4

\* The component a behaviour is about, and its variables.
VARIABLES area, x1, x2, x3, x4, x5, x6, x7, x8, x9, x10, x11, x12, x13, x14,
          x15

vars == <<area, x1, x2, x3, x4, x5, x6, x7, x8, x9, x10, x11, x12, x13, x14,
        x15>>

\* Sources of a schema for SchemaIdentity.
Text == [scalar |-> "String", null |-> TRUE, values |-> {}]
Must(type) == [type EXCEPT !.null = FALSE]
Prop(from, type) == [from |-> from, type |-> type, marks |-> {}, embed |-> 0, ann |-> {}]
NodeOf(from, impl, props, cons) ==
    [from |-> from, impl |-> impl, props |-> props, cons |-> cons, ann |-> {}]
EdgeOf(from, ends) ==
    [from |-> from, ends |-> ends, card |-> 0, props |-> <<>>, cons |-> {}, ann |-> {}]
Src(ifaces, nodes, edges) == [ifaces |-> ifaces, nodes |-> nodes, edges |-> edges]

\* All ways to declare some of the names, each with no hint or with one that
\* names the next: renames can form chains and cycles.
After(n, names) == IF n + 1 \in names THEN n + 1 ELSE 1
Declarations(names) ==
    UNION {{f \in [S -> names \cup {0}] : \A n \in S : f[n] \in {0, After(n, names)}} :
           S \in SUBSET names}

\* Types that come, go and are renamed; an edge may share a node's name.
TypeSources ==
    {Src(<<>>, [n \in DOMAIN f |-> NodeOf(f[n], {}, <<>>, {})], e) :
        f \in Declarations({1, 2, 3}),
        e \in {<<>>, 1 :> EdgeOf(0, <<1, 2>>), 2 :> EdgeOf(1, <<2, 1>>),
               1 :> EdgeOf(0, <<1, 1>>) @@ 11 :> EdgeOf(0, <<1, 1>>)}}

\* Optional properties of one type that come, go and are renamed while the
\* type itself may be renamed.
PropertySources ==
    {Src(<<>>, n :> NodeOf(IF n = 2 THEN 1 ELSE 0, {},
                           [p \in DOMAIN f |-> Prop(f[p], Text)], {}), <<>>) :
        f \in Declarations({1, 2, 3}), n \in {1, 2}}

\* A composite key whose properties are renamed.
KeySources ==
    {Src(<<>>, 1 :> NodeOf(0, {}, [p \in DOMAIN f |-> Prop(f[p], Must(Text))],
                           {[k |-> "key", f |-> DOMAIN f, b |-> 0]}), <<>>) :
        f \in {g \in Declarations({1, 2, 3}) : DOMAIN g # {}}}

\* An interface's property that a node inherits or declares itself.
InterfaceSources ==
    {Src(1 :> [p \in DOMAIN f |-> Prop(f[p], Text)],
         1 :> NodeOf(0, impl, [p \in DOMAIN g |-> Prop(g[p], Text)], {}), <<>>) :
        f \in Declarations({1, 2}), g \in {<<>>, 1 :> 0, 1 :> 2, 2 :> 0, 2 :> 1},
        impl \in {{}, {1}}}

HistoryFamilies == <<TypeSources, PropertySources, KeySources, InterfaceSources>>

\* Pairs of schemas that differ in one respect or another.

Number == [Text EXCEPT !.scalar = "Int"]
Vector == [Text EXCEPT !.scalar = "Vector"]
Enum(values) == [Text EXCEPT !.values = values]
Marked(prop, marks) == [prop EXCEPT !.marks = marks]
Con(k, f, b) == [k |-> k, f |-> f, b |-> b]
OneNode(props, cons) == Src(<<>>, 1 :> NodeOf(0, {}, props, cons), <<>>)
Notes == {{}, {<<"description", 1>>}, {<<"description", 2>>}, {<<"other", 1>>}}

\* Types and marks of a property, next to one that is absent or not.
TypedSources ==
    {OneNode(1 :> Marked(Prop(0, t), m) @@ rest, {}) :
        t \in {Text, Must(Text), Number, Enum({1}), Enum({1, 2}), Must(Enum({1, 2}))},
        m \in {{}, {"index"}, {"unique"}, {"key"}},
        rest \in {<<>>, 2 :> Prop(0, Text), 2 :> Prop(1, Text), 2 :> Prop(0, Must(Text))}}

\* Constraints in the body, and annotations of type, of property and of both.
ConstrainedSources ==
    {[OneNode(1 :> [Prop(0, Number) EXCEPT !.ann = ab[2]] @@ 2 :> Prop(0, Text), c)
        EXCEPT !.nodes[1].ann = ab[1]] :
        ab \in {<<a, b>> \in Notes \X Notes : a = {} \/ b = {} \/ a = b},
        c \in {{}, {Con("unique", {1}, 0)}, {Con("unique", {1, 2}, 0)},
               {Con("index", {1, 2}, 0)}, {Con("range", {1}, 1)}, {Con("range", {1}, 2)},
               {Con("check", {2}, 1)}}}

\* Endpoints, cardinality and constraints of an edge (102 and 103: src and dst).
EdgeSources ==
    {Src(<<>>, [n \in {1, 2} |-> NodeOf(0, {}, <<>>, {})],
         1 :> [EdgeOf(0, <<1, to>>) EXCEPT !.card = card, !.cons = c]) :
        to \in {1, 2}, card \in {0, 1, 2},
        c \in {{}, {Con("unique", {102, 103}, 0)}, {Con("index", {102}, 0)}}}

\* The source of an @embed, by name and by identity.
EmbedSources ==
    {OneNode(1 :> Prop(h, Text) @@ 2 :> Prop(IF h = 0 THEN 0 ELSE 1, Text)
               @@ 3 :> [Prop(0, Vector) EXCEPT !.embed = e], {}) :
        h \in {0, 2}, e \in {0, 1, 2}}
    \cup {OneNode(1 :> Prop(0, Text) @@ 3 :> [Prop(0, Vector) EXCEPT !.embed = e], {}) :
            e \in {0, 1}}
    \cup {OneNode(2 :> Prop(1, Text) @@ 3 :> [Prop(0, Vector) EXCEPT !.embed = e], {}) :
            e \in {0, 2}}

\* Which interfaces a property satisfies, and whether it is declared.
ImplementSources ==
    {Src(1 :> (1 :> Prop(0, t)) @@ 2 :> (1 :> Prop(0, Text)),
         1 :> NodeOf(0, impl, direct, {}), <<>>) :
        t \in {Text, Number}, impl \in SUBSET {1, 2},
        direct \in {<<>>, 1 :> Prop(0, Text), 1 :> Prop(0, Number)}}

PairFamilies ==
    <<TypedSources, ConstrainedSources, EdgeSources, EmbedSources, ImplementSources>>
\* Schemas of an init: s2 declares an interface, which takes the first id; s3
\* is s1 under other names.
Table(k, p) == [key |-> k, path |-> p]
TablesOf == [s1 |-> <<Table("node:A", "nodes/1"), Table("edge:E", "edges/2")>>,
             s2 |-> <<Table("node:A", "nodes/2"), Table("edge:E", "edges/3")>>,
             s3 |-> <<Table("node:B", "nodes/1"), Table("edge:F", "edges/2")>>]

\* Two applies in a row of sources whose types, properties and keys come, go
\* and are renamed.
Identity == INSTANCE SchemaIdentity WITH
    Families <- HistoryFamilies, MaxApplies <- 2, IdLimit <- 14,
    family <- x1, ir <- x2, source <- x3, manifest <- x4, cols <- x5,
    retired <- x6, applies <- x7

\* One apply between any two sources of a family.
Change == INSTANCE SchemaIdentity WITH
    Families <- PairFamilies, MaxApplies <- 1, IdLimit <- 20,
    family <- x1, ir <- x2, source <- x3, manifest <- x4, cols <- x5,
    retired <- x6, applies <- x7

\* Two attempts through crashes and failed calls; the leftovers of an apply
\* without an intent; writers of other processes; opens that only read.
ApplyCases ==
    {[of |-> "apply", rewritten |-> {t1, t2}, renamed |-> {t1}, dropped |-> {t3}, added |-> {t4}, ops |-> 2,
          faults |-> 3, foreign |-> 0, atomic |-> FALSE, legacy |-> FALSE],
     [of |-> "apply", rewritten |-> {t1}, renamed |-> {t1}, dropped |-> {t3}, added |-> {t4}, ops |-> 1,
          faults |-> 2, foreign |-> 0, atomic |-> TRUE, legacy |-> TRUE],
     [of |-> "apply", rewritten |-> {t1, t2}, renamed |-> {}, dropped |-> {}, added |-> {t4}, ops |-> 2,
          faults |-> 2, foreign |-> 3, atomic |-> TRUE, legacy |-> FALSE],
     [of |-> "apply", rewritten |-> {t1, t2}, renamed |-> {}, dropped |-> {}, added |-> {}, ops |-> 2,
          faults |-> 3, foreign |-> 1, atomic |-> FALSE, legacy |-> FALSE]}
Apply(c) == INSTANCE SchemaApply WITH
    Rewritten <- c.rewritten, Renamed <- c.renamed, Dropped <- c.dropped,
    Added <- c.added, MaxOps <- c.ops, MaxFaults <- c.faults,
    MaxForeign <- c.foreign, AtomicRename <- c.atomic,
    LegacyStart <- c.legacy,
    live <- x1, staged <- x2, store <- x3, litter <- x4, manifest <- x5,
    lineage <- x6, sidecar <- x7, lock <- x8, audit <- x9, proc <- x10,
    cleared <- x11, wrote <- x12, ops <- x13, faults <- x14, foreign <- x15

\* Three strict callers with crashes and an opener; three schemas and two forced
\* callers, with an opener or with a storage error; callers that take turns through
\* storage errors.
CreateCases ==
    {[of |-> "init", forced |-> {}, openers |-> {o1}, shape |-> [i \in {i1, i2, i3} |-> "s1"],
          faults |-> 0, crashes |-> 2, alone |-> FALSE],
     [of |-> "init", forced |-> {i2, i3}, openers |-> {o1},
          shape |-> (i1 :> "s1") @@ (i2 :> "s2") @@ (i3 :> "s3"),
          faults |-> 0, crashes |-> 0, alone |-> FALSE],
     [of |-> "init", forced |-> {i2, i3}, openers |-> {},
          shape |-> (i1 :> "s1") @@ (i2 :> "s2") @@ (i3 :> "s3"),
          faults |-> 1, crashes |-> 0, alone |-> FALSE],
     [of |-> "init", forced |-> {i2}, openers |-> {}, shape |-> [i \in {i1, i2, i3} |-> "s1"],
          faults |-> 3, crashes |-> 1, alone |-> TRUE]}
Create(c) == INSTANCE InitGraph WITH
    Inits <- {i1, i2, i3}, Forced <- c.forced, Openers <- c.openers,
    Shape <- c.shape, Tables <- TablesOf, None <- none,
    MaxFaults <- c.faults, MaxCrashes <- c.crashes, Alone <- c.alone,
    file <- x1, dataset <- x2, manifest <- x3, pc <- x4, claimed <- x5,
    undeleted <- x6, opc <- x7, seen <- x8, faults <- x9, crashes <- x10

-----------------------------------------------------------------------------
IdentityInit ==
    /\ area = [of |-> "identity"] /\ Identity!Init
    /\ x8 = 0 /\ x9 = 0 /\ x10 = 0 /\ x11 = 0 /\ x12 = 0 /\ x13 = 0 /\ x14
       = 0 /\ x15 = 0

ChangeInit ==
    /\ area = [of |-> "pairs"] /\ Change!Init
    /\ x8 = 0 /\ x9 = 0 /\ x10 = 0 /\ x11 = 0 /\ x12 = 0 /\ x13 = 0 /\ x14
       = 0 /\ x15 = 0

ApplyInit ==
    /\ \E c \in ApplyCases : area = c /\ Apply(c)!Init

CreateInit ==
    /\ \E c \in CreateCases : area = c /\ Create(c)!Init
    /\ x11 = 0 /\ x12 = 0 /\ x13 = 0 /\ x14 = 0 /\ x15 = 0

Init == IdentityInit \/ ChangeInit \/ ApplyInit \/ CreateInit

IdentityNext ==
    /\ area.of = "identity" /\ Identity!Next
    /\ UNCHANGED <<area, x8, x9, x10, x11, x12, x13, x14, x15>>

ChangeNext ==
    /\ area.of = "pairs" /\ Change!Next
    /\ UNCHANGED <<area, x8, x9, x10, x11, x12, x13, x14, x15>>

ApplyNext ==
    /\ \E c \in ApplyCases : area = c /\ Apply(c)!Next
    /\ UNCHANGED <<area>>

CreateNext ==
    /\ \E c \in CreateCases : area = c /\ Create(c)!Next
    /\ UNCHANGED <<area, x11, x12, x13, x14, x15>>

Next == IdentityNext \/ ChangeNext \/ ApplyNext \/ CreateNext

Spec == Init /\ [][Next]_vars

-----------------------------------------------------------------------------
\* Compiling a schema source against the accepted one: an id is never given
\* twice, the physical columns follow the identity through renames, applying
\* the accepted source again changes nothing, the rows a supported migration
\* leaves fit the new schema, and the planner never changes what the sources
\* do not.
IdentitiesStable ==
    /\ area.of = "identity" =>
           /\ Identity!NoIdReuse
           /\ Identity!ColumnsFollowIdentity
           /\ Identity!ReapplyIsNoop
    /\ area.of = "pairs" =>
           /\ Change!MigratedRowsFit
           /\ Change!NoSurprises

\* An apply interrupted anywhere: at rest the contract files, the manifest and
\* the data belong to one schema, also for an open that repairs nothing; an
\* attempt is published or rolled back, once, with nothing left behind and one
\* true audit row; and leftovers of an apply without an intent never tear the
\* contract.
ApplySettles ==
    \A c \in ApplyCases : area = c =>
        /\ Apply(c)!CoherentAtRest
        /\ c.foreign = 0 /\ ~c.legacy => Apply(c)!StagingCovered
        /\ c.foreign = 0 /\ ~c.legacy => Apply(c)!OneOutcome
        /\ c.foreign = 0 /\ ~c.legacy => Apply(c)!NothingLeftBehind
        /\ c.foreign = 0 /\ ~c.legacy => Apply(c)!PinsExact
        /\ ~c.legacy => Apply(c)!AuditExact
        /\ c.legacy => Apply(c)!NoTornContract
        /\ ~c.legacy => Apply(c)!ReadOnlyCoherent

\* Racing inits of one root: at most one caller gets a handle to a manifest
\* that it made, the manifest is backed by the files and datasets of its
\* creator, every table an open hands out is there, and beside strict callers a
\* handle is made of one init's files; a failed init leaves nothing in the way
\* of a retry, except the source of a claim whose answer was lost; the schema
\* files of a handle are lost only to a caller that was let through to write;
\* and, by its point, each caller has made what the invariants of InitGraph say.
InitExclusive ==
    \A c \in CreateCases : area = c =>
        /\ Cardinality(c.forced) < 2 => Create(c)!HandleIsDurable
        /\ Create(c)!OneWinner
        /\ Create(c)!ManifestIsBacked
        /\ Create(c)!OpenTablesExist
        /\ Create(c)!FailedLeavesNothing
        /\ Create(c)!OnlyRivalsDamage
        /\ Create(c)!RaceInv
        /\ Create(c)!RivalInv
        /\ c.alone => Create(c)!TurnInv
        /\ c.forced = {} => Create(c)!OpenIsOneInits /\ Create(c)!StrictInv /\ Create(c)!StrictReads

\* What a schema step may never do: lose the values of a property that both
\* schemas have, change the order of a composite key, or remove or cover the
\* commit of another process that arrived after the intent.
MigrationKeeps ==
  [][
    /\ area.of = "identity" =>
           /\ Identity!ValuesSurvive
           /\ Identity!KeyOrderKept
    /\ \A c \in ApplyCases : area = c =>
           /\ c.foreign > 0 => Apply(c)!ForeignKept
  ]_vars
=============================================================================
