--------------------------- MODULE SchemaIdentity ---------------------------
(***************************************************************************)
(* Schema evolution.  A schema source is compiled to an identity-free      *)
(* shape, resolved against the accepted IR (which mints every stable id),  *)
(* compared with it by the migration planner, and, when every change is    *)
(* supported, applied to the manifest's aliases and the tables' columns.   *)
(*                                                                         *)
(* Names are numbers whose order is the lexical order; 0 is no name.  A    *)
(* declaration's key is <<kind, name>> with kind 1 interface, 2 node,      *)
(* 3 edge.  A table is known by its identity <<type id, incarnation id>>,  *)
(* which also fixes its path.  A column is abstracted to the set of        *)
(* property ids whose values it holds.  Sorting, which only makes the      *)
(* stored IR canonical, is left out.                                       *)
(***************************************************************************)
EXTENDS Integers, Sequences, FiniteSets, SequencesExt, FiniteSetsExt, Functions

CONSTANTS
    Families,      \* a sequence of sets of sources; a behaviour stays in one set
    MaxApplies,    \* schema applies of a behaviour
    IdLimit        \* u64::MAX

VARIABLES
    family,        \* where this behaviour takes its sources from
    ir,            \* the accepted SchemaIR: next and types
    source,        \* the source it was resolved from
    manifest,      \* table identity -> alias
    cols,          \* table identity -> column name -> property ids held
    retired,       \* history: ids that were live once and no longer are
    applies

vars == <<family, ir, source, manifest, cols, retired, applies>>

Interface == 1
Node == 2
Edge == 3
IdField == 101     \* the system columns a constraint may name
SrcField == 102
DstField == 103

Kind(k) == k[1]
Name(k) == k[2]
HasTable(k) == Kind(k) # Interface

\* The function with this graph.
FunctionOf(pairs) ==
    [x \in {pair[1] : pair \in pairs} |-> (CHOOSE pair \in pairs : pair[1] = x)[2]]

------------------------------------------------------------------------------
(* Source to shape.                                                         *)
(*   source: ifaces : name -> props                                         *)
(*           nodes  : name -> [from, impl, props, cons, ann]                *)
(*           edges  : name -> [from, ends, card, props, cons, ann]          *)
(*   a property: [from, type, marks, embed, ann], with type                 *)
(*           [scalar, null, values]; a constraint: [k, f, b].               *)

\* desugar_property_constraints: @key, @unique and @index on a property.
Desugar(props) ==
    {[k |-> m, f |-> {p}, b |-> 0] :
        <<m, p>> \in {x \in {"key", "unique", "index"} \X DOMAIN props :
                        x[1] \in props[x[2]].marks}}

\* resolve_interfaces: which interfaces contribute property p to a node.
Contributors(s, n, p) ==
    {i \in s.nodes[n].impl : p \in DOMAIN s.ifaces[i]}

InterfacesFit(s, n) ==
    /\ s.nodes[n].impl \subseteq DOMAIN s.ifaces
    /\ \A i \in s.nodes[n].impl : \A p \in DOMAIN s.ifaces[i] :
         \* a direct declaration, or the first injected one, has the type
         /\ p \in DOMAIN s.nodes[n].props =>
              s.nodes[n].props[p].type = s.ifaces[i][p].type
         \* canonical_interface_property: injected contributions are alike
         /\ p \notin DOMAIN s.nodes[n].props =>
              \A j \in Contributors(s, n, p) : s.ifaces[j][p] = s.ifaces[i][p]

PropertyShape(prop, direct, satisfies) ==
    [from |-> prop.from, type |-> prop.type, marks |-> prop.marks,
     embed |-> prop.embed, ann |-> prop.ann,
     direct |-> direct, sat |-> satisfies]

EffectiveProps(s, n) ==
    LET node == s.nodes[n] IN
    FunctionOf({
        LET sat == {<<i, p>> : i \in Contributors(s, n, p)} IN
        <<p, IF p \in DOMAIN node.props THEN PropertyShape(node.props[p], TRUE, sat)
             ELSE PropertyShape(s.ifaces[CHOOSE i \in Contributors(s, n, p) : TRUE][p],
                                FALSE, sat)>> :
        p \in DOMAIN node.props \cup UNION {DOMAIN s.ifaces[i] : i \in node.impl}})

DirectProps(props) == [p \in DOMAIN props |-> PropertyShape(props[p], TRUE, {})]

\* compile_schema_shape
InterfaceShape(props) ==
    [from |-> 0, impl |-> {}, ends |-> <<>>, card |-> 0, ann |-> {},
     props |-> DirectProps(props), cons |-> {}]

NodeShape(s, n) ==
    LET node == s.nodes[n]  props == EffectiveProps(s, n) IN
    [from |-> node.from, impl |-> node.impl, ends |-> <<>>, card |-> 0,
     ann |-> node.ann, props |-> props, cons |-> node.cons \cup Desugar(props)]

EdgeShape(edge) ==
    [from |-> edge.from, impl |-> {}, ends |-> edge.ends, card |-> edge.card,
     ann |-> edge.ann, props |-> DirectProps(edge.props),
     cons |-> edge.cons \cup Desugar(edge.props)]

ShapeOf(s) ==
    FunctionOf({<<<<Interface, i>>, InterfaceShape(s.ifaces[i])>> : i \in DOMAIN s.ifaces}
               \cup {<<<<Node, n>>, NodeShape(s, n)>> : n \in DOMAIN s.nodes}
               \cup {<<<<Edge, e>>, EdgeShape(s.edges[e])>> : e \in DOMAIN s.edges})

\* validate_type_constraints, on the constraints of one type.
ConstraintsFit(k, body, props) ==
    LET all == body \cup Desugar(props)
        keys(cs) == Cardinality({c \in cs : c.k = "key"}) IN
    /\ keys(body) + keys(Desugar(props)) <= 1
    /\ \A c \in all :
         /\ Kind(k) = Edge => c.k \in {"unique", "index"}
         /\ \A f \in c.f :
              \/ Kind(k) = Edge /\ f \in {SrcField, DstField}
              \/ /\ f \in DOMAIN props
                 /\ c.k = "key" => ~props[f].type.null
                 /\ props[f].type.scalar = "Blob" => c.k \notin {"key", "unique", "index"}
                 /\ c.k = "range" => props[f].type.scalar = "Int"
                 /\ c.k = "check" => props[f].type.scalar = "String"

\* validate_property_annotations, for @embed.
EmbedsFit(k, props) ==
    \A p \in DOMAIN props : props[p].embed # 0 =>
        /\ Kind(k) = Node
        /\ props[p].type.scalar = "Vector"
        /\ props[p].embed \in DOMAIN props
        /\ props[props[p].embed].type.scalar = "String"

\* parse_schema and validate_shape accept the source.
Compiles(s) ==
    /\ \A n \in DOMAIN s.nodes :
         /\ InterfacesFit(s, n)
         /\ ConstraintsFit(<<Node, n>>, s.nodes[n].cons, EffectiveProps(s, n))
         /\ EmbedsFit(<<Node, n>>, EffectiveProps(s, n))
    /\ \A e \in DOMAIN s.edges :
         /\ ConstraintsFit(<<Edge, e>>, s.edges[e].cons, DirectProps(s.edges[e].props))
         /\ EmbedsFit(<<Edge, e>>, DirectProps(s.edges[e].props))
         /\ s.edges[e].ends[1] \in DOMAIN s.nodes
         /\ s.edges[e].ends[2] \in DOMAIN s.nodes

------------------------------------------------------------------------------
(* Shape to IR.  `acc` is the accepted IR, or Fresh when a graph is created. *)

Fresh == [next |-> 1, types |-> <<>>]

\* The accepted declaration a desired one continues: the exact name first,
\* else the one its rename hint names; <<>> for a new one.
MMatchedHintFirst(acc, k, hint) ==
    IF <<Kind(k), hint>> \in DOMAIN acc.types THEN <<Kind(k), hint>>
    ELSE IF k \in DOMAIN acc.types THEN k ELSE <<>>

Matched(acc, k, hint) ==
    IF k \in DOMAIN acc.types THEN k
    ELSE IF <<Kind(k), hint>> \in DOMAIN acc.types THEN <<Kind(k), hint>>
    ELSE <<>>

MMatchedPropHintFirst(acc, k, hint, p, phint) ==
    LET owner == Matched(acc, k, hint) IN
    IF owner = <<>> THEN 0
    ELSE IF phint \in DOMAIN acc.types[owner].props THEN phint
    ELSE IF p \in DOMAIN acc.types[owner].props THEN p ELSE 0

MatchedProp(acc, k, hint, p, phint) ==
    LET owner == Matched(acc, k, hint) IN
    IF owner = <<>> THEN 0
    ELSE IF p \in DOMAIN acc.types[owner].props THEN p
    ELSE IF phint \in DOMAIN acc.types[owner].props THEN phint ELSE 0

\* During evolution a rename hint that finds nothing to rename is an error;
\* an accepted declaration claimed twice always is.
HintsResolve(acc, shape) ==
    /\ \A k \in DOMAIN shape : LET t == shape[k] IN
         /\ t.from # 0 => Matched(acc, k, t.from) # <<>>
         /\ \A p \in DOMAIN t.props :
              t.props[p].from # 0 => MatchedProp(acc, k, t.from, p, t.props[p].from) # 0

ClaimsAreUnique(acc, shape) ==
    /\ \A k, l \in DOMAIN shape :
         k # l /\ Matched(acc, k, shape[k].from) # <<>>
           => Matched(acc, k, shape[k].from) # Matched(acc, l, shape[l].from)
    /\ \A k \in DOMAIN shape :
         LET at(p) == MatchedProp(acc, k, shape[k].from, p, shape[k].props[p].from) IN
         \A p, q \in DOMAIN shape[k].props : p # q /\ at(p) # 0 => at(p) # at(q)

KeyLess(a, b) == a[1] < b[1] \/ (a[1] = b[1] /\ a[2] < b[2])

\* The Allocator: ids go to new types in (kind, name) order, then to new
\* properties in (owner id, name) order, then to new tables' incarnations in
\* type id order, which for new types is (kind, name) order again.
Rank(k, S) == Cardinality({l \in S : KeyLess(l, k)})

NewTypes(acc, shape) ==
    {k \in DOMAIN shape : Matched(acc, k, shape[k].from) = <<>>}

TypeId(acc, shape, k) ==
    LET m == Matched(acc, k, shape[k].from) IN
    IF m # <<>> THEN acc.types[m].id ELSE acc.next + Rank(k, NewTypes(acc, shape))

\* New properties, by owner's id and name.
NewProps(acc, shape) ==
    UNION {{<<TypeId(acc, shape, k), p>> :
              p \in {q \in DOMAIN shape[k].props :
                       MatchedProp(acc, k, shape[k].from, q, shape[k].props[q].from) = 0}} :
           k \in DOMAIN shape}

PropId(acc, shape, k, p) ==
    LET m == MatchedProp(acc, k, shape[k].from, p, shape[k].props[p].from) IN
    IF m # 0 THEN acc.types[Matched(acc, k, shape[k].from)].props[m].id
    ELSE acc.next + Cardinality(NewTypes(acc, shape))
           + Rank(<<TypeId(acc, shape, k), p>>, NewProps(acc, shape))

NewTables(acc, shape) == {k \in NewTypes(acc, shape) : HasTable(k)}

Incarnation(acc, shape, k) ==
    LET m == Matched(acc, k, shape[k].from) IN
    IF ~HasTable(k) THEN 0
    ELSE IF m # <<>> THEN acc.types[m].inc
    ELSE acc.next + Cardinality(NewTypes(acc, shape)) + Cardinality(NewProps(acc, shape))
           + Rank(k, NewTables(acc, shape))

MNextIdFromLive(acc, shape) ==
    1 + Max({0} \cup {TypeId(acc, shape, k) : k \in DOMAIN shape}
             \cup {Incarnation(acc, shape, k) : k \in DOMAIN shape}
             \cup UNION {{PropId(acc, shape, k, p) : p \in DOMAIN shape[k].props} :
                         k \in DOMAIN shape})

NextId(acc, shape) ==
    acc.next + Cardinality(NewTypes(acc, shape)) + Cardinality(NewProps(acc, shape))
             + Cardinality(NewTables(acc, shape))

\* References carry the id and, for diagnostics, the name.
FieldRef(acc, shape, k, f) ==
    IF f \in {IdField} \cup (IF Kind(k) = Edge THEN {SrcField, DstField} ELSE {})
    THEN <<"system", TypeId(acc, shape, k), Name(k), Incarnation(acc, shape, k), f>>
    ELSE <<"property", TypeId(acc, shape, k), Name(k), PropId(acc, shape, k, f), f>>

\* build_properties
BuildProps(acc, shape, k) ==
    LET t == shape[k]
        ref(l, p) == <<TypeId(acc, shape, l), Name(l), PropId(acc, shape, l, p), p>> IN
    FunctionOf({LET q == t.props[p] IN
        <<p, [id |-> PropId(acc, shape, k, p), type |-> q.type, ann |-> q.ann,
              marks |-> q.marks, direct |-> q.direct,
              embed |-> IF q.embed = 0 THEN <<>> ELSE ref(k, q.embed),
              sat |-> {ref(<<Interface, r[1]>>, r[2]) : r \in q.sat}]>> :
        p \in DOMAIN t.props})

\* build_constraints
BuildConstraints(acc, shape, k) ==
    {[k |-> c.k, b |-> c.b,
      f |-> {FieldRef(acc, shape, k, f) : f \in c.f}] : c \in shape[k].cons}

\* resolve, building the IR's types.
BuildTypes(acc, shape) ==
    LET ref(kind, n) == <<TypeId(acc, shape, <<kind, n>>), n>> IN
    FunctionOf({LET t == shape[k] IN
        <<k, [id |-> TypeId(acc, shape, k), inc |-> Incarnation(acc, shape, k),
              ann |-> t.ann, card |-> t.card,
              impl |-> {ref(Interface, n) : n \in t.impl},
              ends |-> [i \in DOMAIN t.ends |-> ref(Node, t.ends[i])],
              props |-> BuildProps(acc, shape, k),
              cons |-> BuildConstraints(acc, shape, k)]>> :
        k \in DOMAIN shape})

IdsOf(types) ==
    UNION {{types[k].id} \cup (IF HasTable(k) THEN {types[k].inc} ELSE {})
             \cup {types[k].props[p].id : p \in DOMAIN types[k].props} :
           k \in DOMAIN types}

------------------------------------------------------------------------------
(* validate_schema_ir *)

TypeRefFits(types, kind, r) ==
    <<kind, r[2]>> \in DOMAIN types /\ types[<<kind, r[2]>>].id = r[1]

PropRefFits(types, kind, r) ==
    /\ TypeRefFits(types, kind, <<r[1], r[2]>>)
    /\ r[4] \in DOMAIN types[<<kind, r[2]>>].props
    /\ types[<<kind, r[2]>>].props[r[4]].id = r[3]

IdsAreDistinct(types) ==
    Cardinality(IdsOf(types))
      = MapThenSumSet(LAMBDA k : 1 + (IF HasTable(k) THEN 1 ELSE 0)
                                   + Cardinality(DOMAIN types[k].props),
                      DOMAIN types)

PropertyFits(types, k, q) ==
    /\ Kind(k) = Interface => q.direct /\ q.sat = {}
    /\ Kind(k) = Edge => q.direct /\ q.sat = {} /\ q.embed = <<>>
    /\ q.embed # <<>> => /\ PropRefFits(types, Kind(k), q.embed)
                         /\ q.embed[1] = types[k].id

NodeFits(types, t) ==
    /\ \A p \in DOMAIN t.props : LET q == t.props[p] IN
         /\ ~q.direct => q.sat # {}
         /\ \A r \in q.sat :
              /\ PropRefFits(types, Interface, r)
              /\ <<r[1], r[2]>> \in t.impl
              /\ types[<<Interface, r[2]>>].props[r[4]].type = q.type
    /\ \A r \in t.impl :
         /\ TypeRefFits(types, Interface, r)
         /\ \A p \in DOMAIN types[<<Interface, r[2]>>].props :
              \E q \in DOMAIN t.props :
                \E s \in t.props[q].sat :
                  s[1] = r[1] /\ s[3] = types[<<Interface, r[2]>>].props[p].id

EdgeFits(types, t) == \A i \in {1, 2} : TypeRefFits(types, Node, t.ends[i])

ConstraintRefFits(types, k, r) ==
    IF r[1] = "property"
    THEN PropRefFits(types, Kind(k), Tail(r)) /\ r[2] = types[k].id
    ELSE /\ r[2] = types[k].id /\ r[3] = Name(k) /\ r[4] = types[k].inc
         /\ Kind(k) = Node => r[5] = IdField

TypeFits(types, k) ==
    /\ \A p \in DOMAIN types[k].props : PropertyFits(types, k, types[k].props[p])
    /\ Kind(k) = Node => NodeFits(types, types[k])
    /\ Kind(k) = Edge => EdgeFits(types, types[k])
    /\ \A c \in types[k].cons : \A r \in c.f : ConstraintRefFits(types, k, r)

ValidIR(x) ==
    /\ x.next > 0
    /\ IdsAreDistinct(x.types)
    /\ \A i \in IdsOf(x.types) : x.next > i
    /\ \A k \in DOMAIN x.types : TypeFits(x.types, k)

\* property_ref: an @embed source is a property of the same owner.
ReferencesResolve(shape) ==
    \A k \in DOMAIN shape : \A p \in DOMAIN shape[k].props :
        shape[k].props[p].embed \in {0} \cup DOMAIN shape[k].props

Resolves(acc, evolving, shape) ==
    /\ evolving => HintsResolve(acc, shape)
    /\ ClaimsAreUnique(acc, shape)
    /\ NextId(acc, shape) <= IdLimit
    /\ ReferencesResolve(shape)

\* initialize_schema_ir and resolve_schema_ir
Resolve(acc, shape) ==
    [next |-> NextId(acc, shape),
     types |-> BuildTypes(acc, shape)]

------------------------------------------------------------------------------
(* plan_schema_migration.  Steps are tagged tuples. *)

\* The accepted type with a desired type's id, <<>> when it is new.
Previous(a, d, k) ==
    LET same == {l \in DOMAIN a.types : a.types[l].id = d.types[k].id /\ Kind(l) = Kind(k)}
    IN IF same = {} THEN <<>> ELSE CHOOSE l \in same : TRUE

PreviousProp(old, new, p) ==
    LET same == {q \in DOMAIN old.props : old.props[q].id = new.props[p].id}
    IN IF same = {} THEN 0 ELSE CHOOSE q \in same : TRUE

\* validate_evolution_identity: kinds, incarnations and owners are kept, and
\* what is new is numbered above everything ever allocated.
EvolutionFits(a, d) ==
    LET owner(x, i) == {x.types[k].id : k \in {l \in DOMAIN x.types :
            \E p \in DOMAIN x.types[l].props : x.types[l].props[p].id = i}} IN
    /\ d.next >= a.next
    /\ \A k \in DOMAIN d.types :
         /\ \A l \in DOMAIN a.types : a.types[l].id = d.types[k].id =>
              Kind(l) = Kind(k) /\ a.types[l].inc = d.types[k].inc
         /\ (\A l \in DOMAIN a.types : a.types[l].id # d.types[k].id) =>
              /\ d.types[k].id >= a.next
              /\ HasTable(k) => d.types[k].inc >= a.next
         /\ \A p \in DOMAIN d.types[k].props :
              LET i == d.types[k].props[p].id IN
              IF owner(a, i) = {} THEN i >= a.next
              ELSE owner(a, i) = {d.types[k].id}

\* enum_widening
MWidensEither(old, new) ==
    /\ old.values # {} /\ new.values # {} /\ old.values # new.values
    /\ old.scalar = new.scalar /\ old.null = new.null

Widens(old, new) ==
    /\ old.values # {} /\ new.values # {} /\ old.values # new.values
    /\ old.scalar = new.scalar /\ old.null = new.null
    /\ old.values \subseteq new.values

Described(ann) == {x \in ann : x[1] \in {"description", "instruction"}}

MPlanAnnotationsStripped(k, p, old, new) ==
    IF old \ Described(old) # new \ Described(new)
    THEN {<<"Unsupported", k, p, "annotations">>} ELSE {}

PlanAnnotations(k, p, old, new) ==
    IF old \ Described(old) # new \ Described(new) THEN {<<"Unsupported", k, p, "annotations">>}
    ELSE IF Described(old) # Described(new) THEN {<<"UpdateMetadata", k, p>>} ELSE {}

\* plan_property_constraints: only an @index may be added, none removed.
PlanMarks(k, p, old, new) ==
    (IF old \ new # {} THEN {<<"Unsupported", k, p, "remove mark">>} ELSE {})
    \cup (IF "index" \in new \ old THEN {<<"AddIndex", k, {p}>>} ELSE {})
    \cup (IF (new \ old) \cap {"key", "unique"} # {}
          THEN {<<"Unsupported", k, p, "add mark">>} ELSE {})

EmbedIds(e) == IF e = <<>> THEN <<>> ELSE <<e[1], e[3]>>
SatIds(sat) == {<<r[1], r[3]>> : r \in sat}

\* plan_properties, for one desired property of a type that existed.
PlanProperty(k, old, new, p) ==
    LET was == PreviousProp(old, new, p)  q == new.props[p] IN
    IF was = 0
    THEN IF q.type.null THEN {<<"AddProperty", k, p>>}
         ELSE {<<"Unsupported", k, p, "required">>}
    ELSE LET o == old.props[was] IN
         (IF was # p THEN {<<"RenameProperty", k, p, was>>} ELSE {})
         \cup (IF Widens(o.type, q.type) THEN {<<"ExtendEnum", k, p>>}
               ELSE IF o.type # q.type THEN {<<"Unsupported", k, p, "type">>} ELSE {})
         \cup (IF EmbedIds(o.embed) # EmbedIds(q.embed)
               THEN {<<"Unsupported", k, p, "embed">>} ELSE {})
         \cup PlanMarks(k, p, o.marks, q.marks)
         \cup (IF o.direct # q.direct THEN {<<"Unsupported", k, p, "provenance">>} ELSE {})
         \cup (IF SatIds(o.sat) # SatIds(q.sat)
               THEN {<<"Unsupported", k, p, "satisfies">>} ELSE {})
         \cup PlanAnnotations(k, p, o.ann, q.ann)

PlanProperties(k, old, new) ==
    UNION {PlanProperty(k, old, new, p) : p \in DOMAIN new.props}
    \cup {<<"DropProperty", k, p>> :
            p \in {q \in DOMAIN old.props :
                     \A r \in DOMAIN new.props : new.props[r].id # old.props[q].id}}

\* constraint_ir_key: a constraint's kind, bounds and fields by id.
ConstraintKey(c) ==
    <<c.k, c.b, {IF r[1] = "property" THEN <<r[2], r[4], 0>> ELSE <<r[2], r[4], r[5]>> :
                   r \in c.f}>>

\* plan_constraints
PlanConstraints(k, old, new) ==
    LET had == {ConstraintKey(c) : c \in old.cons}
        has == {ConstraintKey(c) : c \in new.cons}
        added == {c \in new.cons : ConstraintKey(c) \notin had} IN
    (IF had \ has # {} THEN {<<"Unsupported", k, 0, "remove constraint">>} ELSE {})
    \cup {<<"AddIndex", k, {r[5] : r \in c.f}>> : c \in {x \in added : x.k = "index"}}
    \cup (IF \E c \in added : c.k # "index"
          THEN {<<"Unsupported", k, 0, "add constraint">>} ELSE {})

PlanInterface(k, l, old, new) ==
    (IF l # k THEN {<<"Unsupported", k, 0, "rename interface">>} ELSE {})
    \cup PlanProperties(k, old, new)

\* plan_nodes and plan_edges alike: the name, the metadata and the body.
PlanTable(k, l, old, new) ==
    (IF l # k THEN {<<"RenameType", k, l>>} ELSE {})
    \cup PlanAnnotations(k, 0, old.ann, new.ann)
    \cup PlanProperties(k, old, new)
    \cup PlanConstraints(k, old, new)

PlanNode(k, l, old, new) ==
    PlanTable(k, l, old, new)
    \cup (IF {r[1] : r \in old.impl} # {r[1] : r \in new.impl}
          THEN {<<"Unsupported", k, 0, "implements">>} ELSE {})

PlanEdge(k, l, old, new) ==
    PlanTable(k, l, old, new)
    \cup (IF \E i \in {1, 2} : old.ends[i][1] # new.ends[i][1]
          THEN {<<"Unsupported", k, 0, "endpoints">>} ELSE {})
    \cup (IF old.card # new.card THEN {<<"Unsupported", k, 0, "cardinality">>} ELSE {})

PlanType(a, d, k) ==
    LET l == Previous(a, d, k)  new == d.types[k] IN
    CASE l = <<>> -> {<<"AddType", k>>}
      [] Kind(k) = Interface -> PlanInterface(k, l, a.types[l], new)
      [] Kind(k) = Node -> PlanNode(k, l, a.types[l], new)
      [] OTHER -> PlanEdge(k, l, a.types[l], new)

PlanLeftovers(a, d) ==
    {IF HasTable(l) THEN <<"DropType", l>>
     ELSE <<"Unsupported", l, 0, "remove interface">> :
        l \in {x \in DOMAIN a.types :
                 \A k \in DOMAIN d.types : d.types[k].id # a.types[x].id}}

Unclassified == {<<"Unsupported", <<0, 0>>, 0, "unclassified">>}

Plan(a, d) ==
    LET steps == UNION {PlanType(a, d, k) : k \in DOMAIN d.types} \cup PlanLeftovers(a, d) IN
    IF steps = {} /\ a # d THEN Unclassified ELSE steps

Supported(plan) == \A s \in plan : s[1] # "Unsupported"

------------------------------------------------------------------------------
(* build_catalog_from_ir *)

\* normalize_edge_name: names that differ only in case are ten apart.
Folded(n) == n % 10

CatalogBuilds(x) ==
    \A k, l \in DOMAIN x.types :
        Kind(k) = Edge /\ Kind(l) = Edge /\ k # l => Folded(Name(k)) # Folded(Name(l))

\* The columns a row's id is derived from, in property id order.
MKeyColumnsByName(x, k) ==
    LET key == UNION {c.f : c \in {d \in x.types[k].cons : d.k = "key"}} IN
    SetToSortSeq({r[5] : r \in key}, LAMBDA p, q : p < q)

KeyColumns(x, k) ==
    LET key == UNION {c.f : c \in {d \in x.types[k].cons : d.k = "key"}} IN
    SetToSortSeq({r[5] : r \in key},
                 LAMBDA p, q : x.types[k].props[p].id < x.types[k].props[q].id)

------------------------------------------------------------------------------
(* apply_schema_with_lock: what the plan does to manifest and tables. *)

Added(plan) == {s[2] : s \in {t \in plan : t[1] = "AddType" /\ HasTable(t[2])}}
Dropped(plan) == {s[2] : s \in {t \in plan : t[1] = "DropType"}}
MRewrittenUnlessDropped(plan) ==
    {s[2] : s \in {t \in plan : t[1] \in {"AddProperty", "RenameProperty"} /\ HasTable(t[2])}}
Rewritten(plan) ==
    {s[2] : s \in {t \in plan : /\ t[1] \in {"AddProperty", "RenameProperty", "DropProperty"}
                                /\ HasTable(t[2])}}
SourceKey(plan, k) ==
    IF \E s \in plan : s[1] = "RenameType" /\ s[2] = k
    THEN (CHOOSE s \in plan : s[1] = "RenameType" /\ s[2] = k)[3] ELSE k
MSourceColumnByName(plan, k, p) == p
SourceColumn(plan, k, p) ==
    IF \E s \in plan : s[1] = "RenameProperty" /\ s[2] = k /\ s[3] = p
    THEN (CHOOSE s \in plan : s[1] = "RenameProperty" /\ s[2] = k /\ s[3] = p)[4] ELSE p
Renamed(plan) == {s[2] : s \in {t \in plan : t[1] = "RenameType"}}

\* table_identity_for_schema_key
Identity(x, k) == <<x.types[k].id, x.types[k].inc>>

\* Every table the plan touches is in the manifest under its old alias and
\* with the identity both IRs give it.
TablesResolve(d, plan) ==
    /\ \A k \in Renamed(plan) \cup (Rewritten(plan) \ Added(plan)) :
         /\ SourceKey(plan, k) \in DOMAIN ir.types
         /\ Identity(d, k) = Identity(ir, SourceKey(plan, k))
         /\ Identity(d, k) \in DOMAIN manifest
         /\ manifest[Identity(d, k)] = SourceKey(plan, k)
    /\ \A k \in Dropped(plan) : \E i \in DOMAIN manifest : manifest[i] = k
    /\ \A k \in Added(plan) : Identity(d, k) \notin DOMAIN cols

\* batch_for_schema_apply_rewrite: every target column is the source column
\* of its old name, or null when the table has none.
RewrittenColumns(d, plan, k) ==
    LET old == cols[Identity(d, k)] IN
    [p \in DOMAIN d.types[k].props |->
        LET c == SourceColumn(plan, k, p) IN IF c \in DOMAIN old THEN old[c] ELSE {}]

EmptyColumns(x, k) == [p \in DOMAIN x.types[k].props |-> {}]

Verdict(s) ==
    LET shape == ShapeOf(s)  d == Resolve(ir, shape)  plan == Plan(ir, d) IN
    IF ~Compiles(s) THEN "parse"
    ELSE IF ~Resolves(ir, TRUE, shape) THEN "resolution"
    ELSE IF ~ValidIR(d) THEN "invalid"
    ELSE IF ~EvolutionFits(ir, d) THEN "identity"
    ELSE IF ~Supported(plan)
         THEN IF plan = Unclassified THEN "unclassified" ELSE "unsupported"
    ELSE IF ~CatalogBuilds(d) THEN "catalog"
    ELSE IF plan = {} THEN "noop"
    ELSE IF ~TablesResolve(d, plan) THEN "internal" ELSE "applied"

Tables(x) == {k \in DOMAIN x.types : HasTable(k)}

------------------------------------------------------------------------------

Init ==
    /\ family \in DOMAIN Families
    /\ \E s \in Families[family] :
         LET shape == ShapeOf(s)  x == Resolve(Fresh, shape) IN
         /\ Compiles(s) /\ Resolves(Fresh, FALSE, shape)
         /\ ValidIR(x) /\ CatalogBuilds(x)
         /\ source = s /\ ir = x
         /\ manifest = [i \in {Identity(x, k) : k \in Tables(x)} |->
                          CHOOSE k \in Tables(x) : Identity(x, k) = i]
         /\ cols = [i \in DOMAIN manifest |-> EmptyColumns(x, manifest[i])]
    /\ retired = {} /\ applies = 0

\* The staged contract becomes the accepted one.
MAcceptRecounts(s, d) ==
    /\ ir' = [d EXCEPT !.next = 1 + Max({0} \cup IdsOf(d.types))] /\ source' = s
    /\ retired' = retired \cup (IdsOf(ir.types) \ IdsOf(d.types))
Accept(s, d) ==
    /\ ir' = d /\ source' = s
    /\ retired' = retired \cup (IdsOf(ir.types) \ IdsOf(d.types))

\* apply_schema, to the end.  With any other verdict it changes nothing.
Apply(s) ==
    /\ applies < MaxApplies
    /\ Verdict(s) = "applied"
    /\ LET d == Resolve(ir, ShapeOf(s))  plan == Plan(ir, d)
           keep == DOMAIN manifest \ {i \in DOMAIN manifest : manifest[i] \in Dropped(plan)}
           key(i) == CHOOSE k \in Tables(d) : Identity(d, k) = i
           new == {Identity(d, k) : k \in Added(plan)} IN
       /\ Accept(s, d)
       /\ manifest' = [i \in keep \cup new |->
                         IF i \in new \/ key(i) \in Renamed(plan) THEN key(i)
                         ELSE manifest[i]]
       /\ cols' = [i \in keep \cup new |->
                     IF i \in new THEN EmptyColumns(d, key(i))
                     ELSE IF key(i) \in Rewritten(plan)
                     THEN RewrittenColumns(d, plan, key(i)) ELSE cols[i]]
    /\ applies' = applies + 1
    /\ UNCHANGED family

\* Rows are written to every table: each column of the catalog takes values
\* of its property.
Write ==
    /\ cols' = [i \in DOMAIN cols |->
                  LET k == manifest[i] IN
                  [p \in DOMAIN cols[i] |->
                     IF p \in DOMAIN ir.types[k].props
                     THEN cols[i][p] \cup {ir.types[k].props[p].id} ELSE cols[i][p]]]
    /\ UNCHANGED <<family, ir, source, manifest, retired, applies>>

Next == Write \/ \E s \in Families[family] : Apply(s)

Spec == Init /\ [][Next]_vars

------------------------------------------------------------------------------
(* Properties *)

\* An id that was ever retired (a dropped type, property or table) is never
\* given to another declaration, however long the history of applies.
NoIdReuse == IdsOf(ir.types) \cap retired = {}

\* Manifest, tables and IR agree: every type's table is in the manifest under
\* the type's current name and identity, has exactly the declared columns, and
\* each column holds values written for that very property only, never for
\* another property that once had its name.
ColumnsFollowIdentity ==
    /\ DOMAIN manifest = {Identity(ir, k) : k \in Tables(ir)}
    /\ DOMAIN cols = DOMAIN manifest
    /\ \A k \in Tables(ir) : LET i == Identity(ir, k) IN
         /\ manifest[i] = k
         /\ DOMAIN cols[i] = DOMAIN ir.types[k].props
         /\ \A p \in DOMAIN cols[i] : cols[i][p] \subseteq {ir.types[k].props[p].id}

\* Applying the source that is already accepted changes nothing, although its
\* rename hints are still in it.
ReapplyIsNoop == Verdict(source) = "noop"

\* The planner's and the applier's checks that a resolved schema can be
\* trusted never fire: a legal source is applied, is a no-op, or is refused
\* for what it asks.
NoSurprises ==
    \A s \in Families[family] :
        Verdict(s) \notin {"invalid", "identity", "unclassified", "internal"}

\* While a property lives, through renames of it and of its type and rewrites
\* of its table, no value written for it is lost.
ValuesSurvive ==
    \A k \in Tables(ir), l \in Tables(ir') :
      Identity(ir, k) = Identity(ir', l) =>
        \A p \in DOMAIN ir.types[k].props, q \in DOMAIN ir'.types[l].props :
          ir.types[k].props[p].id = ir'.types[l].props[q].id =>
            cols[Identity(ir, k)][p] \subseteq cols'[Identity(ir, k)][q]

\* The order in which a composite key is turned into a row's id is fixed for
\* the life of the table: renaming a key property does not change it.
KeyOrderKept ==
    \A k \in Tables(ir), l \in Tables(ir') :
      Identity(ir, k) = Identity(ir', l) =>
        [i \in DOMAIN KeyColumns(ir, k) |-> ir.types[k].props[KeyColumns(ir, k)[i]].id]
        = [i \in DOMAIN KeyColumns(ir', l) |-> ir'.types[l].props[KeyColumns(ir', l)[i]].id]

\* What a type declares of its rows.  A row gives every column, an edge row
\* also its endpoints, one of a few values; bound b of a @range or @check
\* admits the values up to b.
RowsOf(type, k) ==
    [DOMAIN type.props \cup (IF Kind(k) = Edge THEN {SrcField, DstField} ELSE {})
        -> {0, 1, 2}]
RowFits(type, row) ==
    /\ \A p \in DOMAIN type.props :
         /\ row[p] = 0 => type.props[p].type.null
         /\ type.props[p].type.values # {} => row[p] \in {0} \cup type.props[p].type.values
    /\ \A c \in type.cons : c.k \in {"range", "check"} => \A r \in c.f : row[r[5]] <= c.b
RowsFit(type, rows) ==
    /\ \A row \in rows : RowFits(type, row)
    /\ \A x, y \in rows : x # y =>
         /\ \A c \in type.cons : c.k \in {"key", "unique"} =>
              \E r \in c.f : x[r[5]] # y[r[5]] \/ x[r[5]] = 0
         /\ type.card = 1 => x[SrcField] # y[SrcField]
Migrated(plan, type, k, row) ==
    [p \in DOMAIN type.props \cup (DOMAIN row \cap {SrcField, DstField}) |->
        LET c == SourceColumn(plan, k, p) IN IF c \in DOMAIN row THEN row[c] ELSE 0]

\* Rows are not validated again by a schema apply.  So whatever the planner
\* supports, rows that fit the accepted schema fit the desired one after the
\* rewrite: nullability, enums, ranges, uniqueness, cardinality and the types
\* of an edge's endpoints.
MigratedRowsFit ==
    \A s \in Families[family] :
        Verdict(s) \in {"applied", "noop"} =>
          LET d == Resolve(ir, ShapeOf(s))  plan == Plan(ir, d) IN
          \A k \in Tables(d) : LET l == Previous(ir, d, k) IN
            l # <<>> =>
              LET old == ir.types[l]  new == d.types[k]
                  fit == {row \in RowsOf(old, l) : RowFits(old, row)} IN
              /\ \A i \in DOMAIN new.ends : new.ends[i][1] = old.ends[i][1]
              /\ \A x, y \in fit :
                   RowsFit(old, {x, y}) =>
                     RowsFit(new, {Migrated(plan, new, k, x), Migrated(plan, new, k, y)})
=============================================================================
