---------------------------- MODULE TypedValues -----------------------------
(***************************************************************************)
(* A property value on its way between JSON and a typed column: the        *)
(* loader's conversion in its two modes, the typing of a query parameter   *)
(* and its conversion by a mutation, the export of a stored value and its  *)
(* spelling in a query result.                                             *)
(*                                                                         *)
(* Widths are scaled down.  A float is counted in quarters; Float32 holds  *)
(* the whole numbers up to a bound, and Float64 every quarter and, of the  *)
(* integers past SafeMax, the even ones.  The JSON parser is built without *)
(* float_roundtrip and may read the text of a float as its neighbour.  A   *)
(* calendar string names a day or an instant, which it gives finer than    *)
(* the millisecond a DateTime holds.  A JSON value is a tagged tuple.      *)
(***************************************************************************)
EXTENDS Integers, Sequences, FiniteSets, SequencesExt, TLC

CONSTANTS
    I32Max, I64Max,  \* i32::MAX, i64::MAX; the unsigned types double them
    SafeMax,         \* JS_MAX_SAFE_INTEGER_I64
    F32Max,          \* f32::MAX, in quarters
    Dim,             \* the declared dimension of a vector
    DayMax,          \* the last day the calendar can spell
    DayMillis,       \* milliseconds of a day
    RangeMax,        \* the bound of an @range, or Unbounded
    Null, Refused, Unbounded,
    Columns,         \* [shape, of, nullable]: the columns explored
    Inputs(_)        \* the JSON values offered to a column

VARIABLES col, json,  \* the column and the value offered to it
          slip,       \* by how much the parser misreads the text of a float
          path,       \* "compat", "strict", "standard" or "js"
          stored,     \* the cell written, Null or Refused
          out,        \* the JSON it was read back as
          again,      \* the cell that JSON gives when it is sent back
          phase

vars == <<col, json, slip, path, stored, out, again, phase>>

Init ==
    /\ col \in Columns /\ json \in Inputs(col)
    /\ slip \in IF col.of \in {"F32", "F64"} THEN -1 .. 1 ELSE {0}
    /\ path \in {"compat", "strict", "standard", "js"}
    /\ stored = Null /\ out = <<"null">> /\ again = Null /\ phase = "offered"

-----------------------------------------------------------------------------
\* the integers of a type
WidthOf(of) ==
    CASE of \in {"I32", "Date"} -> -(I32Max + 1) .. I32Max
      [] of \in {"I64", "DateTime"} -> -(I64Max + 1) .. I64Max
      [] of = "U32" -> 0 .. 2 * I32Max + 1
      [] of = "U64" -> 0 .. 2 * I64Max + 1

Whole == {"I32", "I64", "U32", "U64"}

\* a cast that keeps the low bits
Wrapped(of, n) ==
    CHOOSE m \in WidthOf(of) : (m - n) % Cardinality(WidthOf(of)) = 0

\* i32::try_from and its siblings
Fits(of, n) == IF n \in WidthOf(of) THEN n ELSE Refused

\* IEEE round to the nearest multiple of u, ties to the even one
Round(n, u) ==
    LET low == n \div u
        up == 2 * (n % u) > u \/ (2 * (n % u) = u /\ low % 2 = 1)
    IN  IF up THEN u * (low + 1) ELSE u * low

\* an integer as f64, in quarters
AsF64(n) == 4 * IF n \in -SafeMax .. SafeMax THEN n ELSE Round(n, 2)

\* checked_json_f32 and checked_f32: range judged after the rounding
CheckedF32(f) == IF Round(f, 4) \in -F32Max .. F32Max THEN Round(f, 4) ELSE Refused

Numeric(j) == j[1] \in {"int", "float"}

\* as_f64 of a parsed number
Float(j) == IF j[1] = "int" THEN AsF64(j[2]) ELSE j[2] + slip

\* Where a calendar string begins, and what one cell of a column covers, in half
\* milliseconds.
Instant(s) == IF s[1] = "day" THEN 2 * DayMillis * s[2] ELSE s[2]
Span(of) == IF of = "Date" THEN 2 * DayMillis ELSE 2

\* Mutant: an instant is rounded to the nearest day or millisecond.
RoundedDate(of, s) ==
    IF s[1] \in {"day", "time"} THEN (Instant(s) + Span(of) \div 2) \div Span(of) ELSE Refused

\* parse_date32_literal, parse_date64_literal: the cast takes either calendar
\* kind, and drops the time of an instant or starts a day at midnight
ParsedDate(of, s) ==
    IF s[1] \in {"day", "time"} THEN Instant(s) \div Span(of) ELSE Refused

-----------------------------------------------------------------------------
(* the loader                                                              *)

\* The Int32 .. UInt64 arms of build_column_from_json: a number that is no
\* integer counts as absent
IntCell(of, j) == IF j[1] = "int" THEN Fits(of, j[2]) ELSE Null

\* the Float32 and Float64 arms
FloatCell(of, j) ==
    IF ~ Numeric(j) THEN Null
    ELSE IF of = "F32" THEN CheckedF32(Float(j)) ELSE Float(j)

\* parse_date32_json_value, parse_date64_json_value
DateCell(of, j) ==
    CASE j[1] = "int" -> Fits(of, j[2])
      [] j[1] = "str" -> ParsedDate(of, j[2])
      [] OTHER -> Null

\* one scalar or list item
Cell(of, j) ==
    CASE of \in Whole -> IntCell(of, j)
      [] of \in {"F32", "F64"} -> FloatCell(of, j)
      [] of \in {"Date", "DateTime"} -> DateCell(of, j)
      [] of = "String" -> IF j[1] = "str" THEN j[2] ELSE Null
      [] of = "Bool" -> IF j[1] = "bool" THEN j[2] ELSE Null

AnyRefused(cells) == \E i \in DOMAIN cells : cells[i] = Refused

\* append_json_list_item for every item of the array
ListCell(of, j) ==
    LET cells == [i \in DOMAIN j[2] |-> Cell(of, j[2][i])]
    IN  CASE j[1] = "null" -> Null
          [] j[1] # "arr" -> Refused
          [] j[1] = "arr" -> IF AnyRefused(cells) THEN Refused ELSE cells

\* the FixedSizeList arm: elements are numbers or the load is refused
VectorCell(j, strict) ==
    LET cells == [i \in DOMAIN j[2] |->
                    IF Numeric(j[2][i]) THEN CheckedF32(Float(j[2][i])) ELSE Refused]
    IN  CASE j[1] = "arr" -> IF Len(j[2]) # Dim \/ AnyRefused(cells) THEN Refused ELSE cells
          [] j[1] # "arr" -> IF strict /\ j[1] # "null" THEN Refused ELSE Null

Column(c, j, strict) ==
    CASE c.shape = "scalar" -> Cell(c.of, j)
      [] c.shape = "list" -> ListCell(c.of, j)
      [] c.shape = "vector" -> VectorCell(j, strict)

\* The checks after the conversion: strict refuses a value or an item that
\* became null, both refuse a null in a column that holds none
Loaded(c, j, strict) ==
    LET cell == Column(c, j, strict)
        lost == \/ j # <<"null">> /\ cell = Null
                \/ c.shape = "list" /\ cell \notin {Null, Refused} /\ \E i \in DOMAIN cell : cell[i] = Null
    IN  IF (strict /\ lost) \/ (~ c.nullable /\ cell = Null) THEN Refused ELSE cell

-----------------------------------------------------------------------------
(* parameters and mutations                                                *)

\* the safe-range check left out: a large number arrives as its float
LooseIntParam(of, j, js) ==
    LET wide == IF of \in {"I32", "I64"} THEN "I64" ELSE "U64"
    IN  CASE j[1] = "str" -> IF j[2][1] = "dec" THEN Fits(wide, Round(j[2][2], 2)) ELSE Refused
          [] j[1] = "int" -> Fits(wide, AsF64(j[2]) \div 4)
          [] OTHER -> Refused

\* parse_i64_param, parse_u64_param: a decimal string is exact; a JavaScript
\* client's number may be a whole float, inside the safe range, whose text the
\* parser reads exactly
IntParam(of, j, js) ==
    LET wide == IF of \in {"I32", "I64"} THEN "I64" ELSE "U64"
        n == IF j[1] = "float" THEN j[2] \div 4 ELSE j[2]
    IN  CASE j[1] = "str" -> IF j[2][1] = "dec" THEN Fits(wide, j[2][2]) ELSE Refused
          [] j[1] = "int" -> IF js /\ n \notin -SafeMax .. SafeMax THEN Refused ELSE Fits(wide, n)
          [] j[1] = "float" -> IF ~ js \/ j[2] % 4 # 0 \/ n \notin -SafeMax .. SafeMax
                               THEN Refused ELSE Fits(wide, n)
          [] OTHER -> Refused

\* the arms of json_value_to_literal_typed for the scalar types: the literal
\* holds an i64 even for U64
ScalarLiteral(of, j, js) ==
    CASE of \in Whole ->
           LET n == IntParam(of, j, js)
               m == IF n = Refused THEN Refused ELSE Fits(of, n)
           IN  IF m = Refused \/ m \notin WidthOf("I64") THEN Refused ELSE <<"Integer", m>>
      [] of \in {"F32", "F64"} -> IF Numeric(j) THEN <<"Float", Float(j)>> ELSE Refused
      [] of = "Bool" -> IF j[1] = "bool" THEN <<"Bool", j[2]>> ELSE Refused
      [] of \in {"Date", "DateTime", "String"} -> IF j[1] = "str" THEN <<of, j[2]>> ELSE Refused

\* the list and vector arms
LiteralTyped(c, j, js) ==
    LET items == [i \in DOMAIN j[2] |->
                    IF c.shape = "list" THEN ScalarLiteral(c.of, j[2][i], js)
                    ELSE IF Numeric(j[2][i]) THEN <<"Float", Float(j[2][i])>> ELSE Refused]
    IN  IF c.shape = "scalar" THEN ScalarLiteral(c.of, j, js)
        ELSE IF j[1] # "arr" THEN Refused
        ELSE IF AnyRefused(items) \/ (c.shape = "vector" /\ Len(j[2]) # Dim) THEN Refused
        ELSE <<"List", items>>

\* json_params_to_param_map
ParamLiteral(c, j, js) ==
    IF j = <<"null">> THEN IF c.nullable THEN <<"Null">> ELSE Refused
    ELSE LiteralTyped(c, j, js)

\* literal_to_typed_array on a scalar
LiteralCell(of, lit) ==
    CASE lit[1] = "Null" -> Null
      [] lit[1] = "Integer" /\ of \in Whole -> Fits(of, lit[2])
      [] lit[1] = "Float" /\ of = "F32" -> CheckedF32(lit[2])
      [] lit[1] = "Float" /\ of = "F64" -> lit[2]
      [] lit[1] = of /\ of \in {"Date", "DateTime"} -> ParsedDate(of, lit[2])
      [] lit[1] = of /\ of \in {"String", "Bool"} -> lit[2]
      [] OTHER -> Refused

\* typed_list_literal_to_array: an item of another kind becomes null
ListLiteralItem(of, lit) ==
    CASE lit[1] = "Integer" /\ of \in Whole -> Fits(of, lit[2])
      [] lit[1] = "Float" /\ of \in {"F32", "F64"} -> LiteralCell(of, lit)
      [] lit[1] = of -> LiteralCell(of, lit)
      [] OTHER -> Null

\* the list and vector arms of literal_to_typed_array
Assigned(c, lit) ==
    LET cells == [i \in DOMAIN lit[2] |->
                    IF c.shape = "list" THEN ListLiteralItem(c.of, lit[2][i])
                    ELSE CheckedF32(lit[2][i][2])]
    IN  IF c.shape = "scalar" \/ lit[1] = "Null" THEN LiteralCell(c.of, lit)
        ELSE IF AnyRefused(cells) THEN Refused ELSE cells

\* a parameter bound and assigned
FromParam(c, j, js) ==
    LET lit == ParamLiteral(c, j, js)
    IN  IF lit = Refused THEN Refused ELSE Assigned(c, lit)

-----------------------------------------------------------------------------
(* reading back                                                            *)

\* large integers exported the way a JavaScript reader wants them
SafeExport(of, cell) ==
    IF cell = Null THEN <<"null">>
    ELSE CASE of \in Whole \cup {"Date", "DateTime"} ->
                IF cell \in -SafeMax .. SafeMax THEN <<"int", cell>> ELSE <<"str", <<"dec", cell>>>>
           [] of \in {"F32", "F64"} -> <<"float", cell>>
           [] of = "Bool" -> <<"bool", cell>>
           [] of = "String" -> <<"str", cell>>

\* json_value_from_array: dates stay numbers
ExportedCell(of, cell) ==
    IF cell = Null THEN <<"null">>
    ELSE CASE of \in Whole \cup {"Date", "DateTime"} -> <<"int", cell>>
           [] of \in {"F32", "F64"} -> <<"float", cell>>
           [] of = "Bool" -> <<"bool", cell>>
           [] of = "String" -> <<"str", cell>>

\* a large integer spelled from its float
ViaFloat(of, cell) ==
    IF cell # Null /\ of \in {"I64", "U64"} /\ cell \notin -SafeMax .. SafeMax
    THEN <<"str", <<"dec", AsF64(cell) \div 4>>>>
    ELSE ExportedCell(of, cell)

\* array_value_to_json_with_mode for a JavaScript reader: integers outside
\* the safe range are decimal strings; dates are calendar strings, or numbers
\* where the calendar ends
AnsweredCell(of, cell) ==
    IF cell = Null THEN <<"null">>
    ELSE CASE of \in {"I64", "U64"} /\ cell \notin -SafeMax .. SafeMax -> <<"str", <<"dec", cell>>>>
           [] of = "Date" /\ cell \in -DayMax .. DayMax -> <<"str", <<"day", cell>>>>
           [] of = "DateTime" /\ cell \div DayMillis \in -DayMax .. DayMax ->
                <<"str", <<"time", 2 * cell>>>>
           [] OTHER -> ExportedCell(of, cell)

\* the list, vector and null arms of both renderers
Rendered(c, cell, answer) ==
    LET scalar(v) == IF answer THEN AnsweredCell(c.of, v) ELSE ExportedCell(c.of, v)
    IN  IF cell = Null THEN <<"null">>
        ELSE IF c.shape = "scalar" THEN scalar(cell)
        ELSE <<"arr", [i \in DOMAIN cell |-> scalar(cell[i])]>>

-----------------------------------------------------------------------------
\* extract_numeric_value and the @range arm of validate_value_constraints:
\* both sides are compared as f64; a null is exempt
OutOfRange(c, cell) ==
    /\ RangeMax # Unbounded /\ c.shape = "scalar" /\ cell # Null
    /\ c.of \in Whole /\ AsF64(cell) > AsF64(RangeMax)

Converted ==
    CASE path \in {"compat", "strict"} -> Loaded(col, json, path = "strict")
      [] path \in {"standard", "js"} -> FromParam(col, json, path = "js")

Write ==
    /\ phase = "offered"
    /\ stored' = IF Converted # Refused /\ OutOfRange(col, Converted) THEN Refused ELSE Converted
    /\ phase' = IF stored' = Refused THEN "refused" ELSE "stored"
    /\ UNCHANGED <<col, json, slip, path, out, again>>

\* an export loaded again
Export ==
    /\ phase = "stored"
    /\ out' = Rendered(col, stored, FALSE) /\ again' = Loaded(col, out', FALSE)
    /\ phase' = "reloaded"
    /\ UNCHANGED <<col, json, slip, path, stored>>

\* a query result whose value a JavaScript client sends back as a parameter
Answer ==
    /\ phase = "stored"
    /\ out' = Rendered(col, stored, TRUE) /\ again' = FromParam(col, out', TRUE)
    /\ phase' = "resent"
    /\ UNCHANGED <<col, json, slip, path, stored>>

Next == Write \/ Export \/ Answer

Spec == Init /\ [][Next]_vars

-----------------------------------------------------------------------------
Written == phase \notin {"offered", "refused"}

\* the value an accepted JSON scalar denotes, up to the column's precision
Denotes(of, j, cell) ==
    CASE of = "String" -> cell = j[2]
      [] of = "Bool" -> cell = j[2]
      [] j[1] = "str" /\ of \in Whole -> cell = j[2][2]
      [] j[1] = "str" -> Instant(j[2]) - Span(of) * cell \in 0 .. Span(of) - 1
      [] of \in Whole \cup {"Date", "DateTime"} -> IF j[1] = "int" THEN cell = j[2] ELSE 4 * cell = j[2]
      [] of = "F64" -> IF j[1] = "int" THEN cell = AsF64(j[2]) ELSE cell - j[2] \in -1 .. 1
      [] of = "F32" -> cell - (IF j[1] = "int" THEN 4 * j[2] ELSE j[2]) \in -3 .. 3

\* Outside the permissive load, what is stored is what was sent: nothing that
\* was given is stored as null and no integer is wrapped or rounded.  A Float32
\* is a neighbour of the number sent, a Float64 differs from its text by the
\* parser's misreading at most, and a calendar string is stored as the day or the
\* millisecond that it falls in: a Date column drops the time of an instant
\* (loader/mod.rs, parse_date32_literal).
NothingLost ==
    Written /\ path # "compat" =>
        \/ json = <<"null">> /\ stored = Null
        \/ col.shape = "scalar" /\ Denotes(col.of, json, stored)
        \/ /\ col.shape # "scalar" /\ Len(stored) = Len(json[2])
           /\ \A i \in DOMAIN stored : stored[i] # Null /\ Denotes(col.of, json[2][i], stored[i])

\* equal, or Float64 neighbours
SameCell(of, a, b) ==
    IF of = "F64" /\ a # Null /\ b # Null THEN a - b \in -1 .. 1 ELSE a = b
SameValue(c, a, b) ==
    IF c.shape = "scalar" \/ a = Null \/ b = Null THEN SameCell(c.of, a, b)
    ELSE Len(a) = Len(b) /\ \A i \in DOMAIN a : SameCell(c.of, a[i], b[i])

\* Whatever way a value was written, the export of it loads again, and as the same
\* value; only a Float64 may come back as its neighbour.  A Float32, and so every
\* embedding, is the same although the parser misreads its text, because it is
\* rounded after it is read (loader/mod.rs, checked_json_f32).
ExportReloads == phase = "reloaded" => again # Refused /\ SameValue(col, again, stored)

\* A value read from a query result by a JavaScript client and sent back as a
\* parameter is the same value or is refused, a Float64 up to the parser's
\* misreading: a large id never comes back as its neighbour.
ResentIsSame == phase = "resent" /\ again # Refused => SameValue(col, again, stored)

\* A value that a strict load and a parameter both accept is the same value
\* whichever way it comes.
PathsAgree ==
    LET loaded == Loaded(col, json, TRUE)
        bound == FromParam(col, json, path = "js")
    IN  path \in {"standard", "js"} /\ loaded # Refused /\ bound # Refused => loaded = bound

\* A 64-bit integer that a query answers can be sent back.
IdsRoundTrip ==
    phase = "resent" /\ col.of \in {"I64", "U64"} /\ col.shape = "scalar" => again = stored

\* A stored value lies within the declared range.
RangeHolds ==
    Written /\ RangeMax # Unbounded /\ stored # Null => stored <= RangeMax
=============================================================================
