---------------------------- MODULE SchemaRules ----------------------------
(***************************************************************************)
(* The restricted JSON Schema subset (internal/catalog/schema.go): which   *)
(* schemas ValidateSchema lets pass and which values ValidateValue         *)
(* accepts, beside a reference that goes keyword by keyword.               *)
(*                                                                         *)
(* Documents and bodies are decoded by encoding/json, which turns every    *)
(* number into a float64.  Strings stand for their text; what a pattern    *)
(* matches is given by a constant.  Errors are sets of codes: Go ranges    *)
(* over maps in no order, so any of them may be the one that is returned.  *)
(*                                                                         *)
(* Three functions of the code and two of the reference call themselves on *)
(* the parts of a value.  Such a call is a constant operator here, and     *)
(* SchemaCheck assumes that it is the function itself.                     *)
(***************************************************************************)
EXTENDS Integers, Sequences, FiniteSets

CONSTANTS
  Mantissa,   \* 2^53: up to it float64 tells integers apart
  Matches     \* pattern that compiles -> the strings it matches

CONSTANTS
  Unmarshalled(_),     \* Unmarshal of a part
  SchemaVerdict(_),    \* ValidateSchema of a part
  ValueVerdict(_, _),  \* ValidateValue of a part
  Satisfied(_, _),     \* Satisfies of a part
  UsedIn(_)            \* InUse of a part

-----------------------------------------------------------------------------
(* JSON values.  A number n is n halves, so that fractions occur. *)

Null == [is |-> "null"]
Str(text) == [is |-> "string", text |-> text]
Num(n) == [is |-> "number", n |-> n]
Bool(b) == [is |-> "boolean", b |-> b]
Arr(items) == [is |-> "array", items |-> items]
Obj(fields) == [is |-> "object", fields |-> fields]

Nothing == Obj([k \in {} |-> Null])

Has(obj, key) == key \in DOMAIN obj.fields

\* A key that is missing reads as nil, as in Go.
Get(obj, key) == IF Has(obj, key) THEN obj.fields[key] ELSE Null

IsStrings(v) == v.is = "array" /\ \A i \in DOMAIN v.items : v.items[i].is = "string"

Texts(v) == {v.items[i].text : i \in DOMAIN v.items}

Abs(n) == IF n < 0 THEN -n ELSE n

\* Distance of two neighbouring float64 at n; 64 is more than any number needs.
Spacing(n) == CHOOSE u \in {1, 2, 4, 8, 16, 32, 64} :
                /\ Abs(n) <= Mantissa * u
                /\ u > 1 => Abs(n) > Mantissa * (u \div 2)

\* The float64 nearest to a number, the even one if there are two.
Float64(n) ==
  LET u == Spacing(n)  low == n \div u IN
    IF 2 * (n % u) < u \/ (2 * (n % u) = u /\ low % 2 = 0) THEN low * u ELSE (low + 1) * u

\* json.Unmarshal: every number becomes a float64.
Unmarshal(v) ==
  CASE v.is = "number" -> Num(Float64(v.n))
    [] v.is = "array"  -> Arr([i \in DOMAIN v.items |-> Unmarshalled(v.items[i])])
    [] v.is = "object" -> Obj([k \in DOMAIN v.fields |-> Unmarshalled(v.fields[k])])
    [] OTHER           -> v

\* A JSON value whose parts are in S.
JSONOver(S) ==
  {Null} \cup [is : {"string"}, text : STRING] \cup [is : {"number"}, n : Int]
         \cup [is : {"boolean"}, b : BOOLEAN] \cup [is : {"array"}, items : Seq(S)]

IsJSON(v, S) ==
  \/ v \in JSONOver(S) /\ (v.is = "string" => Len(v.text) \in Nat)
  \/ v = Obj(v.fields) /\ v.fields \in [DOMAIN v.fields -> S]

-----------------------------------------------------------------------------
(* Schemas: ValidateSchema. *)

Types == {"object", "array", "string", "number", "integer", "boolean", "null"}

supportedSchemaKeywords ==
  {"type", "properties", "required", "additionalProperties", "items", "enum", "minimum",
   "maximum", "minLength", "maxLength", "pattern", "minItems", "maxItems"}

\* A float64 that stands for one integer only: 2^53 itself included.
IsInt(v) == v.is = "number" /\ v.n % 2 = 0 /\ Abs(v.n) <= 2 * Mantissa

isLossless(v) == Abs(v.n) <= 2 * Mantissa

Sized == {"minItems", "maxItems", "minLength", "maxLength"}

\* appendSchemaKeywordValueErrors: what is wrong with the value v of keyword k.
KeywordError(k, v) ==
  CASE k = "required" /\ ~IsStrings(v)                                -> "invalid_type"
    [] k \in {"minimum", "maximum"} /\ v.is # "number"                -> "invalid_type"
    [] k \in {"minimum", "maximum"} /\ v.is = "number" /\ ~isLossless(v) -> "invalid_value"
    [] k \in Sized /\ ~IsInt(v)                                       -> "invalid_type"
    [] k \in Sized /\ IsInt(v) /\ v.n < 0                             -> "invalid_value"
    [] k = "additionalProperties" /\ v.is # "boolean"                 -> "invalid_type"
    [] k = "enum" /\ ~IsStrings(v)                                    -> "invalid_type"
    [] k = "enum" /\ IsStrings(v) /\ v.items = <<>>                   -> "invalid_value"
    [] OTHER                                                          -> "ok"

KeywordErrors(schema) ==
  {e \in {<<k, KeywordError(k, Get(schema, k))>> : k \in DOMAIN schema.fields} : e[2] # "ok"}

\* A type that is not a string reads as no type.
TypeOf(schema) == IF Get(schema, "type").is = "string" THEN Get(schema, "type").text ELSE ""

When(condition, code) == IF condition THEN {code} ELSE {}

\* Mutant: any word may be a type.
BugTypeErrors(schema) ==
  When(Has(schema, "type") /\ Get(schema, "type").is # "string", <<"type", "invalid_type">>)
  \cup When(~Has(schema, "type") /\ DOMAIN schema.fields \cap supportedSchemaKeywords # {},
            <<"type", "required">>)

\* The type is a string, one of Types, and there if there is any other keyword.
TypeErrors(schema) ==
  When(Has(schema, "type") /\ Get(schema, "type").is # "string", <<"type", "invalid_type">>)
  \cup When(~Has(schema, "type") /\ DOMAIN schema.fields \cap supportedSchemaKeywords # {},
            <<"type", "required">>)
  \cup When(TypeOf(schema) \notin Types \cup {""}, <<"type", "invalid_value">>)

PropertyErrors(schema) ==
  LET properties == Get(schema, "properties") IN
    IF TypeOf(schema) # "object" \/ ~Has(schema, "properties") THEN {}
    ELSE IF properties.is # "object" THEN {<<"properties", "invalid_type">>}
    ELSE UNION {SchemaVerdict(properties.fields[k]) : k \in DOMAIN properties.fields}

ItemErrors(schema) ==
  CASE TypeOf(schema) = "object" /\ Has(schema, "items") -> {<<"items", "invalid_value">>}
    [] TypeOf(schema) = "array" /\ Has(schema, "items")  -> SchemaVerdict(Get(schema, "items"))
    [] OTHER                                             -> {}

\* A schema that is missing, or not an object, is refused wherever it stands.
ValidateSchema(schema) ==
  IF schema.is # "object" THEN {<<"schema", "invalid_type">>}
  ELSE {<<k, "invalid_value">> : k \in DOMAIN schema.fields \ supportedSchemaKeywords}
       \cup TypeErrors(schema) \cup PropertyErrors(schema) \cup ItemErrors(schema)
       \cup KeywordErrors(schema)

-----------------------------------------------------------------------------
(* Values: ValidateValue. *)

\* Mutant: a schema that says nothing about other fields forbids them.
BugFieldErrors(schema, key, child) ==
  LET properties == Get(schema, "properties") IN
    IF properties.is = "object" /\ Has(properties, key)
      THEN IF Get(properties, key).is = "object"
             THEN ValueVerdict(Get(properties, key), child)
             ELSE {"bad_schema"}
      ELSE IF Get(schema, "additionalProperties") # Bool(TRUE) THEN {"unknown_field"} ELSE {}

FieldErrors(schema, key, child) ==
  LET properties == Get(schema, "properties") IN
    IF properties.is = "object" /\ Has(properties, key)
      THEN IF Get(properties, key).is = "object"
             THEN ValueVerdict(Get(properties, key), child)
             ELSE {"bad_schema"}
      ELSE IF Get(schema, "additionalProperties") = Bool(FALSE) THEN {"unknown_field"} ELSE {}

ObjectErrors(schema, value) ==
  LET required == IF IsStrings(Get(schema, "required")) THEN Texts(Get(schema, "required")) ELSE {} IN
    IF value.is # "object" THEN {"invalid_type"}
    ELSE IF \E key \in required : ~Has(value, key) THEN {"required"}
    ELSE UNION {FieldErrors(schema, key, value.fields[key]) : key \in DOMAIN value.fields}

\* A length is less than the keyword "least" or greater than the keyword "most".
OutOfLength(length, schema, least, most) ==
  \/ IsInt(Get(schema, least)) /\ 2 * length < Get(schema, least).n
  \/ IsInt(Get(schema, most)) /\ 2 * length > Get(schema, most).n

BadItems(schema, value) ==
  {i \in DOMAIN value.items : ValueVerdict(Get(schema, "items"), value.items[i]) # {}}

ArrayErrors(schema, value) ==
  IF value.is # "array" THEN {"invalid_type"}
  ELSE IF OutOfLength(Len(value.items), schema, "minItems", "maxItems") THEN {"out_of_range"}
  ELSE IF Get(schema, "items").is # "object" THEN {}
  ELSE LET bad == BadItems(schema, value)
           first == CHOOSE i \in bad : \A j \in bad : i <= j
       IN  IF bad = {} THEN {} ELSE ValueVerdict(Get(schema, "items"), value.items[first])

StringErrors(schema, value) ==
  LET pattern == Get(schema, "pattern")  enum == Get(schema, "enum") IN
    IF value.is # "string" THEN {"invalid_type"}
    ELSE IF OutOfLength(Len(value.text), schema, "minLength", "maxLength") THEN {"out_of_range"}
    ELSE IF pattern.is = "string" /\ pattern.text \notin DOMAIN Matches THEN {"bad_schema"}
    ELSE IF \/ pattern.is = "string" /\ value.text \notin Matches[pattern.text]
            \/ IsStrings(enum) /\ value.text \notin Texts(enum)
         THEN {"invalid_value"}
    ELSE {}

\* compareNumericBound for both bounds.  It compares int64 values when IsInt holds
\* for both sides and float64 values otherwise; for decoded numbers, which are
\* float64 values to begin with, the two agree.
OutOfBounds(schema, value) ==
  \/ Get(schema, "minimum").is = "number" /\ value.n < Get(schema, "minimum").n
  \/ Get(schema, "maximum").is = "number" /\ value.n > Get(schema, "maximum").n

NumberErrors(schema, value) ==
  IF value.is # "number" \/ (TypeOf(schema) = "integer" /\ ~IsInt(value)) THEN {"invalid_type"}
  ELSE IF OutOfBounds(schema, value) THEN {"out_of_range"} ELSE {}

ValidateValue(schema, value) ==
  CASE TypeOf(schema) = "object"                 -> ObjectErrors(schema, value)
    [] TypeOf(schema) = "array"                  -> ArrayErrors(schema, value)
    [] TypeOf(schema) = "string"                 -> StringErrors(schema, value)
    [] TypeOf(schema) \in {"number", "integer"}  -> NumberErrors(schema, value)
    [] TypeOf(schema) \in {"boolean", "null"}    ->
         IF value.is # TypeOf(schema) THEN {"invalid_type"} ELSE {}
    [] TypeOf(schema) = ""                       -> {}
    [] OTHER                                     -> {"bad_schema"}

-----------------------------------------------------------------------------
(* The documented subset, keyword by keyword: a keyword restricts the values it *)
(* is about, whatever the other keywords of the schema are.                     *)

IsOfType(v, type) ==
  CASE type = "integer" -> IsInt(v)
    [] OTHER            -> v.is = type

Satisfies(schema, v) ==
  \A k \in DOMAIN schema.fields :
    LET a == schema.fields[k] IN
      /\ k = "type" => IsOfType(v, a.text)
      /\ k = "properties" /\ v.is = "object" =>
           \A p \in DOMAIN a.fields \cap DOMAIN v.fields : Satisfied(a.fields[p], v.fields[p])
      /\ k = "required" /\ v.is = "object" => Texts(a) \subseteq DOMAIN v.fields
      /\ k = "additionalProperties" /\ v.is = "object" /\ ~a.b =>
           DOMAIN v.fields \subseteq
             (IF Has(schema, "properties") THEN DOMAIN Get(schema, "properties").fields ELSE {})
      /\ k = "items" /\ v.is = "array" =>
           \A i \in DOMAIN v.items : Satisfied(a, v.items[i])
      /\ k = "enum" => v.is = "string" /\ v.text \in Texts(a)
      /\ k = "minimum" /\ v.is = "number" => v.n >= a.n
      /\ k = "maximum" /\ v.is = "number" => v.n <= a.n
      /\ k = "minLength" /\ v.is = "string" => 2 * Len(v.text) >= a.n
      /\ k = "maxLength" /\ v.is = "string" => 2 * Len(v.text) <= a.n
      /\ k = "pattern" /\ v.is = "string" => v.text \in Matches[a.text]
      /\ k = "minItems" /\ v.is = "array" => 2 * Len(v.items) >= a.n
      /\ k = "maxItems" /\ v.is = "array" => 2 * Len(v.items) <= a.n

\* The schemas directly inside one that ValidateSchema and ValidateValue look into.
Nested(schema) ==
  LET properties == Get(schema, "properties") IN
    CASE schema.is = "object" /\ TypeOf(schema) = "object" /\ properties.is = "object" ->
           {properties.fields[p] : p \in DOMAIN properties.fields}
      [] schema.is = "object" /\ TypeOf(schema) = "array" /\ Has(schema, "items") ->
           {Get(schema, "items")}
      [] OTHER -> {}

\* A schema and the schemas inside it that are in use.
InUse(schema) == {schema} \cup UNION {UsedIn(s) : s \in Nested(schema)}

PatternsCompile(schema) ==
  \A s \in InUse(schema) :
    TypeOf(s) = "string" /\ Get(s, "pattern").is = "string" => Get(s, "pattern").text \in DOMAIN Matches

\* ValidateSchema lets three kinds of rules pass that ValidateValue never applies:
\* every rule beside the empty type, an enum of a type other than string, and a
\* pattern that is not a string.
RulesApplied(schema) ==
  \A s \in InUse(schema) :
    /\ Get(s, "type") # Str("")
    /\ Has(s, "enum") => TypeOf(s) = "string"
    /\ TypeOf(s) = "string" /\ Has(s, "pattern") => Get(s, "pattern").is = "string"

\* Every number in it is a float64.
Exact(v) == Unmarshal(v) = v
=============================================================================
