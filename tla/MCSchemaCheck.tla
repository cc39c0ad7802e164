--------------------------- MODULE MCSchemaCheck ---------------------------
(***************************************************************************)
(* Small documents and bodies for TLC.  Every keyword occurs with values   *)
(* of the right and of a wrong type, at its bounds, and beside types it    *)
(* does not belong to; schemas are nested once.                            *)
(***************************************************************************)
EXTENDS SchemaCheck, FiniteSetsExt, TLC

MCMantissa == 4

MCMatches == "^a" :> {"a", "ab"}

MCSnakeCase == {"go_to", "look_at"}

\* Halves: 1/2, the integers around 0, and those around Mantissa.
Numbers == {-10, -8, -2, 0, 1, 2, 4, 6, 8, 10, 12}

Scalars == {Null, Bool(TRUE), Str(""), Str("a"), Str("ab"), Str("b")} \cup {Num(n) : n \in Numbers}

Few == {Null, Str("a"), Str("b"), Num(1), Num(2), Num(8)}

MCBodies ==
  Scalars
  \cup {Arr(<<>>)} \cup {Arr(<<v>>) : v \in Few} \cup {Arr(<<v, w>>) : v, w \in Few}
  \cup {Obj([p |-> v]) : v \in Few} \cup {Obj([q |-> v]) : v \in {Null, Num(2)}}
  \cup {Obj([p |-> v, q |-> w]) : v \in Few, w \in {Null, Num(2)}}
  \cup {Obj([p |-> Obj([p |-> v])]) : v \in Few} \cup {Arr(<<Arr(<<v>>)>>) : v \in Few}

MCKinds == {[is |-> "absent"], Null, Num(2), Str(""), Str("go_to"), Str("look_at")}

\* A schema of a type and keywords; the value Null leaves a keyword out.
Schema(fields) == Obj([k \in {k \in DOMAIN fields : fields[k] # Null} |-> fields[k]])

Of(type) == Schema([type |-> Str(type)])

NumberSchemas ==
  {Schema([type |-> Str(t), minimum |-> a, maximum |-> b]) :
     t \in {"number", "integer"},
     a \in {Null, Str("a"), Num(-10), Num(0), Num(1), Num(8)},
     b \in {Null, Bool(TRUE), Num(1), Num(2), Num(8), Num(10), Num(12)}}

StringSchemas ==
  {Schema([type |-> Str("string"), minLength |-> a, maxLength |-> b, pattern |-> p, enum |-> e]) :
     a \in {Null, Num(1), Num(2), Num(-2)},
     b \in {Null, Str("a"), Num(0), Num(2)},
     p \in {Null, Num(2), Str("^a"), Str("(")},
     e \in {Null, Str("a"), Arr(<<>>), Arr(<<Num(2)>>), Arr(<<Str("a"), Str("b")>>)}}

Inner ==
  {Of("integer"), Of("string"), Of("null"), Of("time"), Of(""), Nothing, Str("string"),
   Schema([type |-> Str("integer"), maximum |-> Num(2)]),
   Schema([type |-> Str("integer"), enum |-> Arr(<<Str("a")>>)]),
   Schema([type |-> Str("string"), pattern |-> Str("(")]),
   Schema([type |-> Str("string"), format |-> Str("a")]),
   Schema([type |-> Str("array"), items |-> Of("string")]),
   Schema([type |-> Str("object"), required |-> Arr(<<Str("p")>>)])}

ArraySchemas ==
  {Schema([type |-> Str("array"), items |-> i, minItems |-> a, maxItems |-> b]) :
     i \in Inner \cup {Null}, a \in {Null, Num(1), Num(2)}, b \in {Null, Num(2), Num(-2)}}
  \cup {Obj([type |-> Str("array"), items |-> Null])}

ObjectSchemas ==
  {Schema([type |-> Str("object"), properties |-> p, required |-> r,
           additionalProperties |-> a, items |-> i]) :
     p \in {Null, Str("p"), Obj([p |-> Null])} \cup {Obj([p |-> s]) : s \in Inner},
     r \in {Null, Str("p"), Arr(<<Num(2)>>), Arr(<<Str("p")>>), Arr(<<Str("p"), Str("q")>>)},
     a \in {Null, Str("a"), Bool(TRUE), Bool(FALSE)},
     i \in {Null, Of("string")}}

\* No type, an unknown type, and keywords beside a type they are not about.
OtherSchemas ==
  {Schema([type |-> t, minimum |-> m, enum |-> e, properties |-> p]) :
     t \in {Null, Num(2), Str(""), Str("time")} \cup {Str(x) : x \in Types},
     m \in {Null, Num(2), Num(12)},
     e \in {Null, Arr(<<Str("a")>>)},
     p \in {Null, Num(2), Obj([p |-> Of("string")])}}
  \cup {Null, Str("object")}

AllSchemas ==
  NumberSchemas \cup StringSchemas \cup ArraySchemas \cup ObjectSchemas \cup OtherSchemas

Entry(name, texts, schema) == [name |-> name, texts |-> texts, schema |-> schema]

OneEntry == {<<Entry("go_to", TRUE, s)>> : s \in AllSchemas}

TwoEntries ==
  {<<Entry(a, ta, Of("integer")), Entry(b, tb, s)>> :
     a \in {"go_to", "look_at"}, b \in {"go_to", "look_at", "Go"}, ta, tb \in BOOLEAN,
     s \in {Of("string"), Of("time")}}

MCDocuments ==
  [of : {"commands"}, header : {TRUE}, entries : OneEntry]
  \cup [of : {"commands", "sightings"}, header : BOOLEAN, entries : TwoEntries]

DirectParts(v) ==
  CASE v.is = "array"  -> {v.items[i] : i \in DOMAIN v.items}
    [] v.is = "object" -> {v.fields[k] : k \in DOMAIN v.fields}
    [] OTHER           -> {}

\* A value, everything inside it, and all of that decoded.
RECURSIVE Parts(_)
Parts(v) == {v, Unmarshal(v)} \cup UNION {Parts(w) : w \in DirectParts(v)}

\* The calls on parts are calls of the functions themselves.
RECURSIVE MCUnmarshalled(_), MCSchemaVerdict(_), MCValueVerdict(_, _), MCSatisfied(_, _), MCUsedIn(_)
Rules == INSTANCE SchemaRules WITH
  Unmarshalled <- MCUnmarshalled, SchemaVerdict <- MCSchemaVerdict,
  ValueVerdict <- MCValueVerdict, Satisfied <- MCSatisfied, UsedIn <- MCUsedIn
MCUnmarshalled(v) == Rules!Unmarshal(v)
MCSchemaVerdict(s) == Rules!ValidateSchema(s)
MCValueVerdict(s, v) == Rules!ValidateValue(s, v)
MCSatisfied(s, v) == Rules!Satisfies(s, v)
MCUsedIn(s) == Rules!InUse(s)

\* How deeply a value is nested.
RECURSIVE MCDepth(_)
MCDepth(v) == Max({0} \cup {1 + MCDepth(w) : w \in DirectParts(v)})

MCSchemas == UNION {Parts(s) : s \in AllSchemas}

MCValues == UNION {Parts(v) : v \in MCBodies \cup {Nothing}}
=============================================================================
