------------------------- MODULE SchemaCheckProofs -------------------------
(***************************************************************************)
(* Proofs about SchemaCheck.  The judgement of a value by a schema is      *)
(* compared with the reference by induction on the depth of the schema;    *)
(* everything else is about one level, where the keywords of one type meet *)
(* those of the others.                                                    *)
(***************************************************************************)
EXTENDS SchemaCheck, WellFoundedInduction, TLAPS

Accepted(s) == ValidateSchema(s) = {}

-----------------------------------------------------------------------------
(* Induction on the depth of a schema, as infinite descent. *)

\* A set of schemas in which each has one of its own schemas in the set is empty.
LEMMA Descent ==
  ASSUME NEW B \in SUBSET Schemas, \A s \in B : \E t \in Nested(s) : t \in B
  PROVE  B = {}
<1> SUFFICES ASSUME B # {} PROVE FALSE
  OBVIOUS
<1> DEFINE D == {Depth(s) : s \in B}
           R == OpToRel(<, Nat)
<1>1. D \subseteq Nat /\ D # {}
  BY DepthAssumption
<1>2. IsWellFoundedOn(R, Nat)
  BY NatLessThanWellFounded
<1>3. PICK d \in D : \A e \in D : ~ (<<e, d>> \in R)
  <2> HIDE DEF D, R
  <2> QED BY <1>1, <1>2, WFMin
<1>4. PICK s \in B : d = Depth(s)
  BY <1>3
<1>5. PICK t \in Nested(s) : t \in B
  BY <1>4
<1>6. Depth(t) \in Nat /\ Depth(s) \in Nat /\ Depth(t) < Depth(s)
  BY <1>4, <1>5, DepthAssumption
<1>7. <<Depth(t), Depth(s)>> \in R
  BY <1>6 DEF OpToRel
<1> QED
  BY <1>3, <1>4, <1>5, <1>7

-----------------------------------------------------------------------------
(* What JSON values look like. *)

\* The shape of a value follows from what it is.
LEMMA Shapes ==
  ASSUME NEW S \in {Schemas, Values}, NEW v \in S
  PROVE  /\ v.is = "string" => v = Str(v.text) /\ Len(v.text) \in Nat
         /\ v.is = "number" => v.n \in Int
         /\ v.is = "boolean" => v = Bool(v.b) /\ v.b \in BOOLEAN
         /\ v.is = "array" => v.items \in Seq(S)
         /\ v.is = "object" => v = Obj(v.fields) /\ v.fields \in [DOMAIN v.fields -> S]
<1>1. IsJSON(v, S)
  BY JSONAssumption
<1>2. CASE v = Null
  BY <1>2 DEF Null
<1>3. CASE v \in [is : {"string"}, text : STRING] /\ Len(v.text) \in Nat
  BY <1>3 DEF Str
<1>4. CASE v \in [is : {"number"}, n : Int]
  BY <1>4
<1>5. CASE v \in [is : {"boolean"}, b : BOOLEAN]
  BY <1>5 DEF Bool
<1>6. CASE v \in [is : {"array"}, items : Seq(S)]
  BY <1>6
<1>7. CASE v = Obj(v.fields) /\ v.fields \in [DOMAIN v.fields -> S]
  BY <1>7 DEF Obj
<1>8. v \in [is : {"string"}, text : STRING] => v.is = "string"
  OBVIOUS
<1> QED
  BY <1>1, <1>2, <1>3, <1>4, <1>5, <1>6, <1>7, <1>8 DEF IsJSON, JSONOver

\* The value of a key is one of the same values, or null when it is missing.
LEMMA Members ==
  ASSUME NEW S \in {Schemas, Values}, NEW v \in S, v.is = "object"
  PROVE  /\ \A k \in DOMAIN v.fields : v.fields[k] \in S
         /\ \A k : ~Has(v, k) => Get(v, k) = Null /\ Get(v, k).is = "null"
         /\ \A k : Has(v, k) => Get(v, k) = v.fields[k] /\ Get(v, k) \in S
<1>1. v.fields \in [DOMAIN v.fields -> S]
  BY Shapes
<1>2. \A k \in DOMAIN v.fields : v.fields[k] \in S
  BY <1>1
<1> QED
  BY <1>2 DEF Has, Get, Null

-----------------------------------------------------------------------------
(* What ValidateSchema guarantees of a schema that it lets pass. *)

\* It is an object with known keywords, and has a known type if it has any keyword.
LEMMA AcceptedTypes ==
  ASSUME NEW s \in Schemas, Accepted(s)
  PROVE  /\ s.is = "object"
         /\ DOMAIN s.fields \subseteq supportedSchemaKeywords
         /\ ~Has(s, "type") => DOMAIN s.fields = {} /\ TypeOf(s) = ""
         /\ Has(s, "type") => s.fields["type"] = Str(TypeOf(s)) /\ Get(s, "type") = Str(TypeOf(s))
         /\ TypeOf(s) \in Types \cup {""}
<1>1. s.is = "object"
  BY DEF Accepted, ValidateSchema
<1>2. /\ {<<k, "invalid_value">> : k \in DOMAIN s.fields \ supportedSchemaKeywords} = {}
      /\ TypeErrors(s) = {}
  BY <1>1 DEF Accepted, ValidateSchema
<1>3. DOMAIN s.fields \subseteq supportedSchemaKeywords
  BY <1>2
<1>4. /\ ~(Has(s, "type") /\ Get(s, "type").is # "string")
      /\ ~(~Has(s, "type") /\ DOMAIN s.fields \cap supportedSchemaKeywords # {})
      /\ TypeOf(s) \in Types \cup {""}
  BY <1>2, Zenon DEF TypeErrors, When
<1>5. ASSUME ~Has(s, "type") PROVE DOMAIN s.fields = {} /\ TypeOf(s) = ""
  BY <1>1, <1>3, <1>4, <1>5, Members DEF TypeOf
<1>6. ASSUME Has(s, "type")
      PROVE  s.fields["type"] = Str(TypeOf(s)) /\ Get(s, "type") = Str(TypeOf(s))
  <2>1. Get(s, "type") = s.fields["type"] /\ Get(s, "type") \in Schemas
    BY <1>1, <1>6, Members
  <2>2. Get(s, "type").is = "string"
    BY <1>4, <1>6
  <2>3. Get(s, "type") = Str(Get(s, "type").text)
    BY <2>1, <2>2, Shapes
  <2> QED
    BY <2>1, <2>2, <2>3 DEF TypeOf
<1> QED
  BY <1>1, <1>3, <1>4, <1>5, <1>6

\* The value of each keyword has the type that is right for it.
LEMMA AcceptedKeywords ==
  ASSUME NEW s \in Schemas, Accepted(s)
  PROVE  /\ Has(s, "required") => IsStrings(s.fields["required"])
         /\ \A k \in {"minimum", "maximum"} : Has(s, k) => s.fields[k].is = "number"
         /\ \A k \in Sized : Has(s, k) => IsInt(s.fields[k])
         /\ Has(s, "additionalProperties") => s.fields["additionalProperties"].is = "boolean"
         /\ Has(s, "enum") => IsStrings(s.fields["enum"])
<1>1. s.is = "object" /\ KeywordErrors(s) = {}
  BY DEF Accepted, ValidateSchema
<1>2. ASSUME NEW k \in DOMAIN s.fields PROVE KeywordError(k, Get(s, k)) = "ok"
  <2> DEFINE e == <<k, KeywordError(k, Get(s, k))>>
  <2>1. e \in {<<j, KeywordError(j, Get(s, j))>> : j \in DOMAIN s.fields}
    OBVIOUS
  <2>2. ~(e[2] # "ok")
    BY <1>1, <2>1, Zenon DEF KeywordErrors
  <2>3. e[2] = KeywordError(k, Get(s, k))
    OBVIOUS
  <2> QED
    BY <2>2, <2>3
<1>3. \A k : Has(s, k) => KeywordError(k, s.fields[k]) = "ok"
  BY <1>2 DEF Has, Get
<1>4. ASSUME Has(s, "required") PROVE IsStrings(s.fields["required"])
  <2>1. KeywordError("required", s.fields["required"]) = "ok"
    BY <1>3, <1>4
  <2> QED
    BY <2>1 DEF KeywordError
<1>5. ASSUME NEW k \in {"minimum", "maximum"}, Has(s, k) PROVE s.fields[k].is = "number"
  <2>1. KeywordError(k, s.fields[k]) = "ok"
    BY <1>3, <1>5
  <2> QED
    BY <2>1 DEF KeywordError
<1>6. ASSUME NEW k \in Sized, Has(s, k) PROVE IsInt(s.fields[k])
  <2>1. KeywordError(k, s.fields[k]) = "ok"
    BY <1>3, <1>6
  <2> QED
    BY <2>1 DEF KeywordError, Sized
<1>7. ASSUME Has(s, "additionalProperties")
      PROVE  s.fields["additionalProperties"].is = "boolean"
  <2>1. KeywordError("additionalProperties", s.fields["additionalProperties"]) = "ok"
    BY <1>3, <1>7
  <2> QED
    BY <2>1 DEF KeywordError, Sized
<1>8. ASSUME Has(s, "enum") PROVE IsStrings(s.fields["enum"])
  <2>1. KeywordError("enum", s.fields["enum"]) = "ok"
    BY <1>3, <1>8
  <2> QED
    BY <2>1 DEF KeywordError, Sized
<1> QED
  BY <1>4, <1>5, <1>6, <1>7, <1>8

\* Properties are an object, items belong to arrays, and every schema in use inside
\* is let pass too.
LEMMA AcceptedNested ==
  ASSUME NEW s \in Schemas, Accepted(s)
  PROVE  /\ TypeOf(s) = "object" /\ Has(s, "properties") => s.fields["properties"].is = "object"
         /\ TypeOf(s) = "object" => ~Has(s, "items")
         /\ \A t \in Nested(s) : t \in Schemas /\ Accepted(t)
<1>1. s.is = "object" /\ PropertyErrors(s) = {} /\ ItemErrors(s) = {}
  BY DEF Accepted, ValidateSchema
<1>2. /\ \A k : Has(s, k) => Get(s, k) = s.fields[k] /\ Get(s, k) \in Schemas
      /\ \A k : ~Has(s, k) => Get(s, k).is = "null"
  BY <1>1, Members
<1>3. ASSUME TypeOf(s) = "object", Has(s, "properties")
      PROVE  Get(s, "properties").is = "object"
  BY <1>1, <1>3 DEF PropertyErrors
<1>4. ASSUME TypeOf(s) = "object" PROVE ~Has(s, "items")
  BY <1>1, <1>4 DEF ItemErrors
<1>5. ASSUME NEW t \in Nested(s) PROVE t \in Schemas /\ Accepted(t)
  <2>1. CASE TypeOf(s) = "object" /\ Get(s, "properties").is = "object"
    <3> DEFINE properties == Get(s, "properties")
    <3>1. Has(s, "properties") /\ properties \in Schemas
      BY <1>2, <2>1
    <3>2. PICK p \in DOMAIN properties.fields : t = properties.fields[p]
      BY <1>1, <1>5, <2>1 DEF Nested
    <3>3. t \in Schemas
      BY <3>1, <3>2, <2>1, Members
    <3>4. UNION {SchemaVerdict(properties.fields[k]) : k \in DOMAIN properties.fields} = {}
      BY <1>1, <2>1, <3>1 DEF PropertyErrors
    <3>5. SchemaVerdict(t) = {}
      BY <3>2, <3>4
    <3> QED
      BY <3>3, <3>5, SchemaAssumption DEF Accepted
  <2>2. CASE TypeOf(s) = "array" /\ Has(s, "items")
    <3>1. t = Get(s, "items") /\ t \in Schemas
      BY <1>1, <1>2, <1>5, <2>2 DEF Nested
    <3>2. SchemaVerdict(t) = {}
      BY <1>1, <2>2, <3>1 DEF ItemErrors
    <3> QED
      BY <3>1, <3>2, SchemaAssumption DEF Accepted
  <2> QED
    BY <1>1, <1>5, <2>1, <2>2 DEF Nested
<1> QED
  BY <1>2, <1>3, <1>4, <1>5

-----------------------------------------------------------------------------
(* One level: the keywords of a type against the reference. *)

Sound(s) == Accepted(s) /\ PatternsCompile(s) /\ RulesApplied(s)

\* What holds of all schemas in use inside one holds of those directly inside it.
LEMMA SoundNested ==
  ASSUME NEW s \in Schemas, Accepted(s), NEW t \in Nested(s)
  PROVE  /\ PatternsCompile(s) => PatternsCompile(t)
         /\ Sound(s) => Sound(t)
<1>1. t \in Schemas /\ Accepted(t)
  BY AcceptedNested
<1>2. InUse(t) \subseteq InUse(s)
  BY <1>1, UseAssumption DEF InUse
<1> QED
  BY <1>1, <1>2 DEF Sound, PatternsCompile, RulesApplied

\* The rules of a schema itself.
LEMMA SoundHere ==
  ASSUME NEW s \in Schemas, Sound(s)
  PROVE  /\ TypeOf(s) = "string" /\ Has(s, "pattern") =>
              s.fields["pattern"].is = "string" /\ s.fields["pattern"].text \in DOMAIN Matches
         /\ Has(s, "enum") => TypeOf(s) = "string"
         /\ TypeOf(s) = "" => ~Has(s, "type")
<1>1. s \in InUse(s)
  BY DEF InUse
<1> QED
  BY <1>1, AcceptedTypes DEF Sound, PatternsCompile, RulesApplied, Has, Get

\* The reference, keyword by keyword.
LEMMA Keywords ==
  ASSUME NEW s, NEW v
  PROVE  Satisfies(s, v) <=>
    /\ Has(s, "type") => IsOfType(v, s.fields["type"].text)
    /\ Has(s, "properties") /\ v.is = "object" =>
         \A p \in DOMAIN s.fields["properties"].fields \cap DOMAIN v.fields :
            Satisfied(s.fields["properties"].fields[p], v.fields[p])
    /\ Has(s, "required") /\ v.is = "object" => Texts(s.fields["required"]) \subseteq DOMAIN v.fields
    /\ Has(s, "additionalProperties") /\ v.is = "object" /\ ~s.fields["additionalProperties"].b =>
         DOMAIN v.fields \subseteq
           (IF Has(s, "properties") THEN DOMAIN Get(s, "properties").fields ELSE {})
    /\ Has(s, "items") /\ v.is = "array" =>
         \A i \in DOMAIN v.items : Satisfied(s.fields["items"], v.items[i])
    /\ Has(s, "enum") => v.is = "string" /\ v.text \in Texts(s.fields["enum"])
    /\ Has(s, "minimum") /\ v.is = "number" => v.n >= s.fields["minimum"].n
    /\ Has(s, "maximum") /\ v.is = "number" => v.n <= s.fields["maximum"].n
    /\ Has(s, "minLength") /\ v.is = "string" => 2 * Len(v.text) >= s.fields["minLength"].n
    /\ Has(s, "maxLength") /\ v.is = "string" => 2 * Len(v.text) <= s.fields["maxLength"].n
    /\ Has(s, "pattern") /\ v.is = "string" => v.text \in Matches[s.fields["pattern"].text]
    /\ Has(s, "minItems") /\ v.is = "array" => 2 * Len(v.items) >= s.fields["minItems"].n
    /\ Has(s, "maxItems") /\ v.is = "array" => 2 * Len(v.items) <= s.fields["maxItems"].n
BY DEF Satisfies, Has

\* Parts of a sound schema are judged as the reference says.
NestedAgree(s) ==
  \A t \in Nested(s), w \in Values : ValueVerdict(t, w) = {} <=> Satisfied(t, w)

\* A field is accepted exactly if it satisfies its property, or need not have one.
LEMMA FieldsAgree ==
  ASSUME NEW s \in Schemas, Sound(s), TypeOf(s) = "object", NestedAgree(s),
         NEW key, NEW child \in Values
  PROVE  FieldErrors(s, key, child) = {} <=>
           IF Has(s, "properties") /\ key \in DOMAIN s.fields["properties"].fields
             THEN Satisfied(s.fields["properties"].fields[key], child)
             ELSE ~ (Has(s, "additionalProperties") /\ ~s.fields["additionalProperties"].b)
<1> DEFINE properties == s.fields["properties"]
<1>1. s.is = "object" /\ Accepted(s)
  BY AcceptedTypes DEF Sound
<1>2. /\ \A k : Has(s, k) => Get(s, k) = s.fields[k] /\ Get(s, k) \in Schemas
      /\ \A k : ~Has(s, k) => Get(s, k) = Null /\ Get(s, k).is = "null"
  BY <1>1, Members
<1>3. CASE Has(s, "properties") /\ key \in DOMAIN properties.fields
  <2>1. properties = Get(s, "properties") /\ properties \in Schemas /\ properties.is = "object"
    BY <1>1, <1>2, <1>3, AcceptedNested
  <2>2. Has(properties, key) /\ Get(properties, key) = properties.fields[key]
    BY <1>3 DEF Has, Get
  <2>3. properties.fields[key] \in Nested(s)
    BY <1>1, <1>3, <2>1 DEF Nested
  <2>4. properties.fields[key].is = "object"
    BY <1>1, <2>3, AcceptedNested, AcceptedTypes
  <2>5. FieldErrors(s, key, child) = ValueVerdict(properties.fields[key], child)
    BY <2>1, <2>2, <2>4 DEF FieldErrors
  <2> QED
    BY <1>3, <2>3, <2>5 DEF NestedAgree
<1>4. CASE ~ (Has(s, "properties") /\ key \in DOMAIN properties.fields)
  <2>1. ~ (Get(s, "properties").is = "object" /\ Has(Get(s, "properties"), key))
    BY <1>2, <1>4 DEF Has
  <2>2. FieldErrors(s, key, child) =
          IF Get(s, "additionalProperties") = Bool(FALSE) THEN {"unknown_field"} ELSE {}
    BY <2>1 DEF FieldErrors
  <2>3. CASE Has(s, "additionalProperties")
    <3> DEFINE a == s.fields["additionalProperties"]
    <3>1. Get(s, "additionalProperties") = a /\ a \in Schemas /\ a.is = "boolean"
      BY <1>1, <1>2, <2>3, AcceptedKeywords
    <3>2. a = Bool(a.b) /\ a.b \in BOOLEAN
      BY <3>1, Shapes
    <3>3. a.b = TRUE \/ a.b = FALSE
      BY <3>2
    <3>4. Bool(FALSE).b = FALSE
      BY DEF Bool
    <3>5. a = Bool(FALSE) <=> a.b = FALSE
      <4> HIDE DEF a
      <4> QED BY <3>2, <3>4
    <3>6. a = Bool(FALSE) <=> ~a.b
      <4> HIDE DEF a
      <4> QED BY <3>3, <3>5, Zenon
    <3> QED
      BY <1>4, <2>2, <2>3, <3>1, <3>6
  <2>4. CASE ~Has(s, "additionalProperties")
    <3>1. Get(s, "additionalProperties") # Bool(FALSE)
      BY <1>2, <2>4 DEF Bool
    <3> QED
      BY <1>4, <2>2, <2>4, <3>1
  <2> QED
    BY <2>3, <2>4
<1> QED
  BY <1>3, <1>4

\* Objects: required, declared, undeclared and forbidden fields together.
LEMMA ObjectsAgree ==
  ASSUME NEW s \in Schemas, Sound(s), TypeOf(s) = "object", NestedAgree(s),
         NEW v \in Values
  PROVE  ObjectErrors(s, v) = {} <=> Satisfies(s, v)
<1>1. /\ s.is = "object" /\ Accepted(s) /\ Has(s, "type")
      /\ s.fields["type"] = Str("object")
  BY AcceptedTypes DEF Sound
<1>2. IsOfType(v, s.fields["type"].text) <=> v.is = "object"
  BY <1>1 DEF IsOfType, Str
<1>3. CASE v.is # "object"
  BY <1>1, <1>2, <1>3, Keywords DEF ObjectErrors
<1>4. CASE v.is = "object"
  <2> DEFINE required == IF IsStrings(Get(s, "required")) THEN Texts(Get(s, "required")) ELSE {}
             Declared(key) == Has(s, "properties") /\ key \in DOMAIN s.fields["properties"].fields
             forbids == Has(s, "additionalProperties") /\ ~s.fields["additionalProperties"].b
  <2>1. \A key \in DOMAIN v.fields : v.fields[key] \in Values
    BY <1>4, Members
  <2>2. required \subseteq DOMAIN v.fields <=>
          (Has(s, "required") => Texts(s.fields["required"]) \subseteq DOMAIN v.fields)
    <3>1. Has(s, "required") => IsStrings(Get(s, "required")) /\ Get(s, "required") = s.fields["required"]
      BY <1>1, AcceptedKeywords DEF Has, Get
    <3>2. ~Has(s, "required") => ~IsStrings(Get(s, "required"))
      BY <1>1, Members DEF IsStrings
    <3> QED
      BY <3>1, <3>2
  <2>3. ObjectErrors(s, v) = {} <=>
          /\ required \subseteq DOMAIN v.fields
          /\ \A key \in DOMAIN v.fields : FieldErrors(s, key, v.fields[key]) = {}
    <3> DEFINE Errors(key) == FieldErrors(s, key, v.fields[key])
    <3>1. UNION {Errors(key) : key \in DOMAIN v.fields} = {} <=>
            \A key \in DOMAIN v.fields : Errors(key) = {}
      <4> HIDE DEF Errors
      <4> QED
        OBVIOUS
    <3>2. ObjectErrors(s, v) =
            IF \E key \in required : key \notin DOMAIN v.fields THEN {"required"}
            ELSE UNION {Errors(key) : key \in DOMAIN v.fields}
      BY <1>4 DEF ObjectErrors, Has
    <3> QED
      BY <3>1, <3>2
  <2>4. \A key \in DOMAIN v.fields :
          FieldErrors(s, key, v.fields[key]) = {} <=>
            IF Declared(key) THEN Satisfied(s.fields["properties"].fields[key], v.fields[key])
                             ELSE ~forbids
    BY <2>1, FieldsAgree
  <2>5. (\A key \in DOMAIN v.fields : FieldErrors(s, key, v.fields[key]) = {}) <=>
          /\ Has(s, "properties") =>
               \A p \in DOMAIN s.fields["properties"].fields \cap DOMAIN v.fields :
                  Satisfied(s.fields["properties"].fields[p], v.fields[p])
          /\ forbids =>
               DOMAIN v.fields \subseteq
                 (IF Has(s, "properties") THEN DOMAIN s.fields["properties"].fields ELSE {})
    BY <2>4
  <2>6. /\ ~Has(s, "enum") /\ ~Has(s, "items")
        /\ Has(s, "properties") => Get(s, "properties") = s.fields["properties"]
    BY <1>1, SoundHere, AcceptedNested DEF Has, Get
  <2>7. v.is \notin {"array", "string", "number"}
    BY <1>4
  <2> QED
    BY <1>1, <1>2, <1>4, <2>2, <2>3, <2>5, <2>6, <2>7, Keywords
<1> QED
  BY <1>3, <1>4

\* Lengths, of arrays and of strings.
LEMMA LengthsAgree ==
  ASSUME NEW s \in Schemas, Accepted(s), NEW length \in Nat, NEW least \in Sized, NEW most \in Sized
  PROVE  OutOfLength(length, s, least, most) <=>
           ~ (/\ Has(s, least) => 2 * length >= s.fields[least].n
              /\ Has(s, most) => 2 * length <= s.fields[most].n)
<1>1. s.is = "object"
  BY AcceptedTypes
<1>2. ASSUME NEW k \in Sized
      PROVE  /\ Has(s, k) => Get(s, k) = s.fields[k] /\ IsInt(Get(s, k)) /\ s.fields[k].n \in Int
             /\ ~Has(s, k) => ~IsInt(Get(s, k))
  <2>1. CASE Has(s, k)
    <3>1. Get(s, k) = s.fields[k] /\ s.fields[k] \in Schemas /\ IsInt(s.fields[k])
      BY <1>1, <2>1, Members, AcceptedKeywords
    <3> QED
      BY <2>1, <3>1, Shapes DEF IsInt
  <2>2. CASE ~Has(s, k)
    BY <1>1, <2>2, Members DEF IsInt
  <2> QED
    BY <2>1, <2>2
<1>3. /\ Has(s, least) => Get(s, least) = s.fields[least] /\ IsInt(Get(s, least)) /\ s.fields[least].n \in Int
      /\ ~Has(s, least) => ~IsInt(Get(s, least))
  BY <1>2
<1>4. /\ Has(s, most) => Get(s, most) = s.fields[most] /\ IsInt(Get(s, most)) /\ s.fields[most].n \in Int
      /\ ~Has(s, most) => ~IsInt(Get(s, most))
  BY <1>2
<1> QED
  BY <1>3, <1>4 DEF OutOfLength

\* A set of numbers that is not empty has a least one.
LEMMA LeastExists ==
  ASSUME NEW B \in SUBSET Nat, B # {}
  PROVE  \E i \in B : \A j \in B : i <= j
<1> DEFINE R == OpToRel(<, Nat)
<1>1. IsWellFoundedOn(R, Nat)
  BY NatLessThanWellFounded
<1>2. PICK i \in B : \A j \in B : ~ (<<j, i>> \in R)
  <2> HIDE DEF R
  <2> QED BY <1>1, WFMin
<1>3. ASSUME NEW j \in B PROVE i <= j
  <2>1. j < i => <<j, i>> \in R
    BY DEF OpToRel
  <2> HIDE DEF R
  <2> QED BY <1>2, <2>1
<1> QED
  BY <1>3

\* Arrays: their length, and the first item that is refused.
LEMMA ArraysAgree ==
  ASSUME NEW s \in Schemas, Sound(s), TypeOf(s) = "array", NestedAgree(s), NEW v \in Values
  PROVE  ArrayErrors(s, v) = {} <=> Satisfies(s, v)
<1>1. /\ s.is = "object" /\ Accepted(s) /\ Has(s, "type")
      /\ s.fields["type"] = Str("array")
  BY AcceptedTypes DEF Sound
<1>2. IsOfType(v, s.fields["type"].text) <=> v.is = "array"
  BY <1>1 DEF IsOfType, Str
<1>3. CASE v.is # "array"
  BY <1>1, <1>2, <1>3, Keywords DEF ArrayErrors
<1>4. CASE v.is = "array"
  <2> DEFINE Errors(i) == ValueVerdict(Get(s, "items"), v.items[i])
             bad == BadItems(s, v)
             first == CHOOSE i \in bad : \A j \in bad : i <= j
             short == OutOfLength(Len(v.items), s, "minItems", "maxItems")
  <2>1. v.items \in Seq(Values) /\ Len(v.items) \in Nat /\ DOMAIN v.items = 1..Len(v.items)
    BY <1>4, Shapes
  <2>2. short <=>
          ~ (/\ Has(s, "minItems") => 2 * Len(v.items) >= s.fields["minItems"].n
             /\ Has(s, "maxItems") => 2 * Len(v.items) <= s.fields["maxItems"].n)
    BY <1>1, <2>1, LengthsAgree DEF Sized
  <2>3. CASE ~Has(s, "items")
    <3>1. Get(s, "items").is # "object"
      BY <1>1, <2>3, Members
    <3>2. ArrayErrors(s, v) = IF short THEN {"out_of_range"} ELSE {}
      BY <1>4, <3>1 DEF ArrayErrors
    <3> QED
      BY <1>1, <1>2, <1>4, <2>2, <2>3, <3>2, SoundHere, Keywords
  <2>4. CASE Has(s, "items")
    <3>1. Get(s, "items") \in Nested(s) /\ Get(s, "items") = s.fields["items"]
      BY <1>1, <2>4 DEF Nested, Has, Get
    <3>2. Get(s, "items").is = "object"
      BY <1>1, <3>1, AcceptedNested, AcceptedTypes
    <3>3. \A i \in DOMAIN v.items : Errors(i) = {} <=> Satisfied(s.fields["items"], v.items[i])
      BY <2>1, <3>1 DEF NestedAgree
    <3>4. ArrayErrors(s, v) =
            IF short THEN {"out_of_range"} ELSE IF bad = {} THEN {} ELSE Errors(first)
      BY <1>4, <3>2 DEF ArrayErrors
    <3>5. bad # {} => first \in bad
      <4>1. ASSUME bad # {} PROVE \E i \in bad : \A j \in bad : i <= j
        <5>1. bad \in SUBSET Nat
          BY <2>1 DEF BadItems
        <5> HIDE DEF bad
        <5> QED BY <4>1, <5>1, LeastExists
      <4> HIDE DEF bad
      <4> QED BY <4>1
    <3>6. /\ \A i \in bad : Errors(i) # {}
          /\ bad = {} <=> \A i \in DOMAIN v.items : Satisfied(s.fields["items"], v.items[i])
      BY <3>3 DEF BadItems
    <3>7. ArrayErrors(s, v) = {} <=>
            ~short /\ \A i \in DOMAIN v.items : Satisfied(s.fields["items"], v.items[i])
      <4> HIDE DEF bad, short, Errors, first
      <4> QED BY <3>4, <3>5, <3>6
    <3> HIDE DEF short
    <3> QED
      BY <1>1, <1>2, <1>4, <2>2, <2>4, <3>7, SoundHere, Keywords
  <2> QED
    BY <2>3, <2>4
<1> QED
  BY <1>3, <1>4

\* Strings: their length, the pattern and the enumeration.
LEMMA StringsAgree ==
  ASSUME NEW s \in Schemas, Sound(s), TypeOf(s) = "string", NEW v \in Values
  PROVE  StringErrors(s, v) = {} <=> Satisfies(s, v)
<1>1. /\ s.is = "object" /\ Accepted(s) /\ Has(s, "type")
      /\ s.fields["type"] = Str("string")
  BY AcceptedTypes DEF Sound
<1>2. IsOfType(v, s.fields["type"].text) <=> v.is = "string"
  BY <1>1 DEF IsOfType, Str
<1>3. CASE v.is # "string"
  BY <1>1, <1>2, <1>3, Keywords DEF StringErrors
<1>4. CASE v.is = "string"
  <2> DEFINE pattern == Get(s, "pattern")
             enum == Get(s, "enum")
             out == OutOfLength(Len(v.text), s, "minLength", "maxLength")
  <2>1. Len(v.text) \in Nat
    BY <1>4, Shapes
  <2>2. out <=>
          ~ (/\ Has(s, "minLength") => 2 * Len(v.text) >= s.fields["minLength"].n
             /\ Has(s, "maxLength") => 2 * Len(v.text) <= s.fields["maxLength"].n)
    BY <1>1, <2>1, LengthsAgree DEF Sized
  <2>3. /\ Has(s, "pattern") => /\ pattern = s.fields["pattern"] /\ pattern.is = "string"
                                /\ pattern.text \in DOMAIN Matches
        /\ ~Has(s, "pattern") => pattern.is # "string"
    BY <1>1, Members, SoundHere
  <2>4. /\ Has(s, "enum") => enum = s.fields["enum"] /\ IsStrings(enum)
        /\ ~Has(s, "enum") => ~IsStrings(enum)
    BY <1>1, Members, AcceptedKeywords DEF IsStrings
  <2>5. StringErrors(s, v) = {} <=>
          /\ ~out
          /\ ~ (pattern.is = "string" /\ pattern.text \notin DOMAIN Matches)
          /\ ~ (pattern.is = "string" /\ v.text \notin Matches[pattern.text])
          /\ ~ (IsStrings(enum) /\ v.text \notin Texts(enum))
    BY <1>4 DEF StringErrors
  <2>6. StringErrors(s, v) = {} <=>
          /\ ~out
          /\ Has(s, "pattern") => v.text \in Matches[s.fields["pattern"].text]
          /\ Has(s, "enum") => v.text \in Texts(s.fields["enum"])
    BY <2>3, <2>4, <2>5
  <2>7. v.is \notin {"array", "object", "number"}
    BY <1>4
  <2> HIDE DEF out
  <2> QED
    BY <1>1, <1>2, <1>4, <2>2, <2>6, <2>7, Keywords
<1> QED
  BY <1>3, <1>4

\* Numbers: integers among them, and the two bounds.
LEMMA NumbersAgree ==
  ASSUME NEW s \in Schemas, Sound(s), TypeOf(s) \in {"number", "integer"}, NEW v \in Values
  PROVE  NumberErrors(s, v) = {} <=> Satisfies(s, v)
<1>1. /\ s.is = "object" /\ Accepted(s) /\ Has(s, "type")
      /\ s.fields["type"] = Str(TypeOf(s)) /\ ~Has(s, "enum")
  BY AcceptedTypes, SoundHere DEF Sound
<1>2. IsOfType(v, s.fields["type"].text) <=>
        v.is = "number" /\ (TypeOf(s) = "integer" => IsInt(v))
  BY <1>1 DEF IsOfType, Str, IsInt
<1>3. CASE ~ (v.is = "number" /\ (TypeOf(s) = "integer" => IsInt(v)))
  BY <1>1, <1>2, <1>3, Keywords DEF NumberErrors
<1>4. CASE v.is = "number" /\ (TypeOf(s) = "integer" => IsInt(v))
  <2>1. v.n \in Int
    BY <1>4, Shapes
  <2>2. ASSUME NEW k \in {"minimum", "maximum"}
        PROVE  /\ Has(s, k) => /\ Get(s, k) = s.fields[k] /\ Get(s, k).is = "number"
                               /\ s.fields[k].n \in Int
               /\ ~Has(s, k) => Get(s, k).is # "number"
    BY <1>1, Members, AcceptedKeywords, Shapes
  <2>3. OutOfBounds(s, v) <=>
          ~ (/\ Has(s, "minimum") => v.n >= s.fields["minimum"].n
             /\ Has(s, "maximum") => v.n <= s.fields["maximum"].n)
    <3>1. /\ Has(s, "minimum") => /\ Get(s, "minimum") = s.fields["minimum"]
                                  /\ Get(s, "minimum").is = "number"
                                  /\ s.fields["minimum"].n \in Int
          /\ ~Has(s, "minimum") => Get(s, "minimum").is # "number"
      BY <2>2
    <3>2. /\ Has(s, "maximum") => /\ Get(s, "maximum") = s.fields["maximum"]
                                  /\ Get(s, "maximum").is = "number"
                                  /\ s.fields["maximum"].n \in Int
          /\ ~Has(s, "maximum") => Get(s, "maximum").is # "number"
      BY <2>2
    <3> QED
      BY <2>1, <3>1, <3>2 DEF OutOfBounds
  <2>4. NumberErrors(s, v) = {} <=> ~OutOfBounds(s, v)
    BY <1>4 DEF NumberErrors
  <2>5. v.is \notin {"array", "object", "string"}
    BY <1>4
  <2> QED
    BY <1>1, <1>2, <1>4, <2>3, <2>4, <2>5, Keywords
<1> QED
  BY <1>3, <1>4

\* One level: a sound schema whose parts are judged as the reference says is itself.
LEMMA LevelAgrees ==
  ASSUME NEW s \in Schemas, Sound(s), NestedAgree(s), NEW v \in Values
  PROVE  ValidateValue(s, v) = {} <=> Satisfies(s, v)
<1>1. s.is = "object" /\ Accepted(s) /\ TypeOf(s) \in Types \cup {""}
  BY AcceptedTypes DEF Sound
<1>2. CASE TypeOf(s) = "object"
  BY <1>2, ObjectsAgree DEF ValidateValue
<1>3. CASE TypeOf(s) = "array"
  BY <1>3, ArraysAgree DEF ValidateValue
<1>4. CASE TypeOf(s) = "string"
  BY <1>4, StringsAgree DEF ValidateValue
<1>5. CASE TypeOf(s) \in {"number", "integer"}
  BY <1>5, NumbersAgree DEF ValidateValue
<1>6. CASE TypeOf(s) \in {"boolean", "null"}
  <2>1. ValidateValue(s, v) = {} <=> v.is = TypeOf(s)
    BY <1>6 DEF ValidateValue
  <2>2. Has(s, "type") /\ s.fields["type"] = Str(TypeOf(s)) /\ ~Has(s, "enum")
    BY <1>1, <1>6, AcceptedTypes, SoundHere
  <2>3. IsOfType(v, s.fields["type"].text) <=> v.is = TypeOf(s)
    BY <1>6, <2>2 DEF IsOfType, Str
  <2>4. v.is = TypeOf(s) => v.is \notin {"array", "object", "string", "number"}
    BY <1>6
  <2> QED
    BY <2>1, <2>2, <2>3, <2>4, Keywords
<1>7. CASE TypeOf(s) = ""
  <2>1. ValidateValue(s, v) = {}
    BY <1>7 DEF ValidateValue
  <2>2. DOMAIN s.fields = {}
    BY <1>1, <1>7, AcceptedTypes, SoundHere
  <2> QED
    BY <2>1, <2>2 DEF Satisfies
<1> QED
  BY <1>1, <1>2, <1>3, <1>4, <1>5, <1>6, <1>7 DEF Types

\* Every sound schema, however deep, judges every value as the reference says.
LEMMA SchemasAgree ==
  ASSUME NEW s \in Schemas, Sound(s), NEW v \in Values
  PROVE  ValidateValue(s, v) = {} <=> Satisfies(s, v)
<1> DEFINE Agrees(t) == \A w \in Values : ValidateValue(t, w) = {} <=> Satisfies(t, w)
           B == {t \in Schemas : Sound(t) /\ ~Agrees(t)}
<1>1. ASSUME NEW t \in B PROVE \E u \in Nested(t) : u \in B
  <2> SUFFICES ASSUME \A u \in Nested(t) : u \notin B PROVE FALSE
    OBVIOUS
  <2>1. ASSUME NEW u \in Nested(t), NEW w \in Values
        PROVE  ValueVerdict(u, w) = {} <=> Satisfied(u, w)
    <3>1. u \in Schemas /\ Sound(u) /\ Accepted(u) /\ u.is = "object"
      BY AcceptedNested, AcceptedTypes, SoundNested DEF Sound
    <3>2. ValueVerdict(u, w) = ValidateValue(u, w)
      BY <3>1, ValueAssumption
    <3>3. Satisfied(u, w) = Satisfies(u, w)
      BY <3>1, ReferenceAssumption DEF Sound, Accepted
    <3> QED
      BY <3>1, <3>2, <3>3
  <2>2. NestedAgree(t)
    BY <2>1 DEF NestedAgree
  <2> QED
    BY <2>2, LevelAgrees
<1>2. B = {}
  <2>1. B \in SUBSET Schemas
    OBVIOUS
  <2> HIDE DEF B
  <2> QED BY <1>1, <2>1, Descent
<1> QED
  BY <1>2

-----------------------------------------------------------------------------
(* A schema that was let pass is not itself the reason to refuse a value. *)

\* One level: if no part of it is, the schema itself is not.
LEMMA LevelFaultless ==
  ASSUME NEW s \in Schemas, Accepted(s), PatternsCompile(s), NEW v \in Values,
         \A t \in Nested(s), w \in Values : "bad_schema" \notin ValueVerdict(t, w)
  PROVE  "bad_schema" \notin ValidateValue(s, v)
<1>1. s.is = "object" /\ TypeOf(s) \in Types \cup {""}
  BY AcceptedTypes
<1>2. CASE TypeOf(s) = "object"
  <2>1. CASE v.is # "object"
    BY <1>2, <2>1 DEF ValidateValue, ObjectErrors
  <2>2. CASE v.is = "object"
    <3> DEFINE properties == Get(s, "properties")
    <3>1. ASSUME NEW key \in DOMAIN v.fields
          PROVE  "bad_schema" \notin FieldErrors(s, key, v.fields[key])
      <4>1. v.fields[key] \in Values
        BY <2>2, Members
      <4>2. CASE properties.is = "object" /\ Has(properties, key)
        <5>1. Get(properties, key) \in Nested(s)
          BY <1>1, <1>2, <4>2 DEF Nested, Has, Get
        <5>2. Get(properties, key).is = "object"
          BY <5>1, AcceptedNested, AcceptedTypes
        <5>3. FieldErrors(s, key, v.fields[key]) = ValueVerdict(Get(properties, key), v.fields[key])
          BY <4>2, <5>2 DEF FieldErrors
        <5> QED
          BY <4>1, <5>1, <5>3
      <4>3. CASE ~ (properties.is = "object" /\ Has(properties, key))
        BY <4>3 DEF FieldErrors
      <4> QED
        BY <4>2, <4>3
    <3> DEFINE Errors(key) == FieldErrors(s, key, v.fields[key])
               lacks == \E key \in IF IsStrings(Get(s, "required")) THEN Texts(Get(s, "required"))
                                                                    ELSE {} : ~Has(v, key)
    <3>2. "bad_schema" \notin UNION {Errors(key) : key \in DOMAIN v.fields}
      BY <3>1
    <3>3. ValidateValue(s, v) =
            IF lacks THEN {"required"} ELSE UNION {Errors(key) : key \in DOMAIN v.fields}
      BY <1>2, <2>2 DEF ValidateValue, ObjectErrors
    <3> HIDE DEF Errors, lacks
    <3> QED
      BY <3>2, <3>3
  <2> QED
    BY <2>1, <2>2
<1>3. CASE TypeOf(s) = "array"
  <2> DEFINE bad == BadItems(s, v)
             first == CHOOSE i \in bad : \A j \in bad : i <= j
  <2>1. CASE v.is = "array" /\ Get(s, "items").is = "object" /\ bad # {}
    <3>1. v.items \in Seq(Values) /\ DOMAIN v.items = 1..Len(v.items)
      BY <2>1, Shapes
    <3>2. Get(s, "items") \in Nested(s)
      BY <1>1, <1>3, <2>1, Members DEF Nested
    <3>3. first \in bad
      <4>1. bad \in SUBSET Nat
        BY <3>1 DEF BadItems
      <4>2. \E i \in bad : \A j \in bad : i <= j
        <5> HIDE DEF bad
        <5> QED BY <2>1, <4>1, LeastExists
      <4> HIDE DEF bad
      <4> QED BY <4>2
    <3>4. v.items[first] \in Values
      <4>1. first \in 1..Len(v.items)
        <5>1. bad \subseteq DOMAIN v.items
          BY DEF BadItems
        <5> HIDE DEF bad, first
        <5> QED BY <3>1, <3>3, <5>1
      <4> HIDE DEF first
      <4> QED BY <3>1, <4>1
    <3>5. "bad_schema" \notin ValueVerdict(Get(s, "items"), v.items[first])
      BY <3>2, <3>4
    <3> HIDE DEF first
    <3>6. ValidateValue(s, v) \in {{"out_of_range"}, ValueVerdict(Get(s, "items"), v.items[first])}
      BY <1>3, <2>1 DEF ValidateValue, ArrayErrors, first
    <3> QED
      BY <3>5, <3>6
  <2>2. CASE ~ (v.is = "array" /\ Get(s, "items").is = "object" /\ bad # {})
    <3>1. ValidateValue(s, v) \in {{"invalid_type"}, {"out_of_range"}, {}}
      BY <1>3, <2>2 DEF ValidateValue, ArrayErrors
    <3> QED
      BY <3>1
  <2> QED
    BY <2>1, <2>2
<1>4. CASE TypeOf(s) = "string"
  <2>1. s \in InUse(s)
    BY DEF InUse
  <2>2. ~ (Get(s, "pattern").is = "string" /\ Get(s, "pattern").text \notin DOMAIN Matches)
    BY <1>4, <2>1 DEF PatternsCompile
  <2> QED
    BY <1>4, <2>2 DEF ValidateValue, StringErrors
<1>5. CASE TypeOf(s) \in {"number", "integer"}
  BY <1>5 DEF ValidateValue, NumberErrors
<1>6. CASE TypeOf(s) \in {"boolean", "null", ""}
  BY <1>6 DEF ValidateValue
<1> QED
  BY <1>1, <1>2, <1>3, <1>4, <1>5, <1>6 DEF Types

\* Whatever the depth.
LEMMA SchemasFaultless ==
  ASSUME NEW s \in Schemas, Accepted(s), PatternsCompile(s), NEW v \in Values
  PROVE  "bad_schema" \notin ValidateValue(s, v)
<1> DEFINE Faultless(t) == \A w \in Values : "bad_schema" \notin ValidateValue(t, w)
           B == {t \in Schemas : Accepted(t) /\ PatternsCompile(t) /\ ~Faultless(t)}
<1>1. ASSUME NEW t \in B PROVE \E u \in Nested(t) : u \in B
  <2> SUFFICES ASSUME \A u \in Nested(t) : u \notin B PROVE FALSE
    OBVIOUS
  <2>1. ASSUME NEW u \in Nested(t), NEW w \in Values
        PROVE  "bad_schema" \notin ValueVerdict(u, w)
    <3>1. u \in Schemas /\ Accepted(u) /\ PatternsCompile(u) /\ u.is = "object"
      BY AcceptedNested, AcceptedTypes, SoundNested
    <3>2. ValueVerdict(u, w) = ValidateValue(u, w)
      BY <3>1, ValueAssumption
    <3> QED
      BY <3>1, <3>2
  <2> QED
    BY <2>1, LevelFaultless
<1>2. B = {}
  <2>1. B \in SUBSET Schemas
    OBVIOUS
  <2> HIDE DEF B
  <2> QED BY <1>1, <2>1, Descent
<1> QED
  BY <1>2

-----------------------------------------------------------------------------
(* Numbers.  n counts halves, so 2 * Mantissa is the number 2^53. *)

\* float64 keeps every whole number up to 2^53.
LEMMA WholeNumbers ==
  ASSUME NEW n \in Int, n % 2 = 0, Abs(n) <= 2 * Mantissa
  PROVE  Float64(n) = n
<1> DEFINE Fits(u) == Abs(n) <= Mantissa * u /\ (u > 1 => Abs(n) > Mantissa * (u \div 2))
           U == {1, 2, 4, 8, 16, 32, 64}
<1>1. Mantissa \in Nat \ {0} /\ Abs(n) \in Nat
  BY MantissaAssumption DEF Abs
<1>2. 2 \div 2 = 1 /\ 4 \div 2 = 2 /\ 8 \div 2 = 4 /\ 16 \div 2 = 8 /\ 32 \div 2 = 16 /\ 64 \div 2 = 32
  OBVIOUS
<1>3. \E u \in {1, 2} : Fits(u)
  BY <1>1, <1>2
<1>4. \A u \in U : Fits(u) => u \in {1, 2}
  BY <1>1, <1>2
<1>5. Spacing(n) \in {1, 2}
  <2>1. Spacing(n) = CHOOSE u \in U : Fits(u)
    BY DEF Spacing
  <2> HIDE DEF Fits
  <2> QED BY <1>3, <1>4, <2>1
<1>6. ASSUME NEW u \in {1, 2} PROVE n % u = 0 /\ (n \div u) * u = n
  BY <1>6
<1> HIDE DEF Fits, U
<1> QED
  BY <1>5, <1>6 DEF Float64

\* What isJSONIntegerKeyword and numberToInt64 take for an integer is left alone by
\* decoding: the judgement of such a value is about the number its author wrote.
THEOREM IntegersSurvive == \A n \in Int : IsInt(Num(n)) => Unmarshal(Num(n)) = Num(n)
<1> SUFFICES ASSUME NEW n \in Int, IsInt(Num(n)) PROVE Unmarshal(Num(n)) = Num(n)
  OBVIOUS
<1>1. n % 2 = 0 /\ Abs(n) <= 2 * Mantissa
  BY DEF IsInt, Num
<1>2. Unmarshal(Num(n)) = Num(Float64(n))
  BY DEF Unmarshal, Num
<1> QED
  BY <1>1, <1>2, WholeNumbers

-----------------------------------------------------------------------------
(* Decoding changes numbers only: patterns, types and nesting stay. *)

\* A decoded value is what it was, text for text and field for field.
LEMMA DecodedObject ==
  ASSUME NEW S \in {Schemas, Values}, NEW v \in S
  PROVE  /\ Unmarshal(v).is = v.is
         /\ v.is = "string" => Unmarshal(v) = v
         /\ v.is = "object" =>
              /\ DOMAIN Unmarshal(v).fields = DOMAIN v.fields
              /\ \A k \in DOMAIN v.fields : Unmarshal(v).fields[k] = Unmarshal(v.fields[k])
<1>1. Unmarshal(v).is = v.is /\ (v.is = "string" => Unmarshal(v) = v)
  BY DEF Unmarshal, Num, Arr, Obj
<1>2. ASSUME v.is = "object"
      PROVE  /\ DOMAIN Unmarshal(v).fields = DOMAIN v.fields
             /\ \A k \in DOMAIN v.fields : Unmarshal(v).fields[k] = Unmarshal(v.fields[k])
  <2>1. Unmarshal(v).fields = [k \in DOMAIN v.fields |-> Unmarshalled(v.fields[k])]
    BY <1>2 DEF Unmarshal, Obj
  <2>2. \A k \in DOMAIN v.fields : Unmarshalled(v.fields[k]) = Unmarshal(v.fields[k])
    BY <1>2, Members, DecodingAssumption
  <2> QED
    BY <2>1, <2>2
<1> QED
  BY <1>1, <1>2

\* A decoded schema has the same type and pattern, and its own schemas decoded.
LEMMA DecodedSchema ==
  ASSUME NEW s \in Schemas, s.is = "object"
  PROVE  /\ TypeOf(Unmarshal(s)) = TypeOf(s)
         /\ Get(s, "pattern").is = "string" => Get(Unmarshal(s), "pattern") = Get(s, "pattern")
         /\ Get(Unmarshal(s), "pattern").is = Get(s, "pattern").is
         /\ \A t \in Nested(Unmarshal(s)) : \E u \in Nested(s) : u \in Schemas /\ t = Unmarshal(u)
<1> DEFINE d == Unmarshal(s)
<1>1. d.is = "object" /\ \A k : Has(d, k) <=> Has(s, k)
  BY DecodedObject DEF Has
<1>2. ASSUME NEW k, Has(s, k)
      PROVE  Get(s, k) \in Schemas /\ Get(d, k) = Unmarshal(Get(s, k))
  BY <1>1, <1>2, Members, DecodedObject DEF Has, Get
<1>3. \A k : ~Has(s, k) => Get(s, k) = Null /\ Get(d, k) = Null
  BY <1>1 DEF Get
<1>4. \A k : Get(d, k).is = Get(s, k).is
  BY <1>2, <1>3, DecodedObject
<1>5. \A k : Get(s, k).is = "string" => Get(d, k) = Get(s, k)
  BY <1>2, <1>3, DecodedObject
<1>6. TypeOf(d) = TypeOf(s)
  BY <1>4, <1>5 DEF TypeOf
<1>7. ASSUME NEW t \in Nested(d) PROVE \E u \in Nested(s) : u \in Schemas /\ t = Unmarshal(u)
  <2>1. CASE TypeOf(d) = "object" /\ Get(d, "properties").is = "object"
    <3> DEFINE properties == Get(s, "properties")
    <3>1. Has(s, "properties") /\ properties \in Schemas /\ properties.is = "object"
      BY <1>2, <1>3, <1>4, <2>1 DEF Null
    <3>2. Get(d, "properties") = Unmarshal(properties)
      BY <1>2, <3>1
    <3>3. PICK p \in DOMAIN Unmarshal(properties).fields : t = Unmarshal(properties).fields[p]
      BY <1>1, <1>7, <2>1, <3>2 DEF Nested
    <3>4. p \in DOMAIN properties.fields /\ t = Unmarshal(properties.fields[p])
      BY <3>1, <3>3, DecodedObject
    <3>5. properties.fields[p] \in Schemas
      BY <3>1, <3>4, Members
    <3>6. properties.fields[p] \in Nested(s)
      BY <1>6, <2>1, <3>1, <3>4 DEF Nested
    <3> QED
      BY <3>4, <3>5, <3>6
  <2>2. CASE TypeOf(d) = "array" /\ Has(d, "items")
    <3>1. t = Get(d, "items")
      BY <1>1, <1>7, <2>2 DEF Nested
    <3>2. Get(s, "items") \in Schemas /\ t = Unmarshal(Get(s, "items"))
      BY <1>1, <1>2, <2>2, <3>1
    <3>3. Get(s, "items") \in Nested(s)
      BY <1>1, <1>6, <2>2 DEF Nested
    <3> QED
      BY <3>2, <3>3
  <2> QED
    BY <1>7, <2>1, <2>2 DEF Nested
<1> QED
  BY <1>4, <1>5, <1>6, <1>7

\* The patterns of a document compile after decoding too.
LEMMA PatternsDecoded ==
  ASSUME NEW s \in Schemas, Accepted(Unmarshal(s)), PatternsCompile(s)
  PROVE  PatternsCompile(Unmarshal(s))
<1> DEFINE B == {t \in Schemas : /\ Accepted(Unmarshal(t)) /\ PatternsCompile(t)
                                 /\ ~PatternsCompile(Unmarshal(t))}
<1>1. ASSUME NEW t \in B PROVE \E u \in Nested(t) : u \in B
  <2> SUFFICES ASSUME \A u \in Nested(t) : u \notin B PROVE FALSE
    OBVIOUS
  <2> DEFINE d == Unmarshal(t)
  <2>1. d \in Schemas /\ d.is = "object" /\ t.is = "object"
    BY DecodingAssumption, AcceptedTypes, DecodedObject
  <2>2. t \in InUse(t)
    BY DEF InUse
  <2>3. TypeOf(d) = "string" /\ Get(d, "pattern").is = "string" =>
          Get(d, "pattern").text \in DOMAIN Matches
    BY <2>1, <2>2, DecodedSchema DEF PatternsCompile
  <2>4. ASSUME NEW e \in Nested(d) PROVE e \in Schemas /\ PatternsCompile(e)
    <3>1. e \in Schemas /\ Accepted(e)
      BY <2>1, AcceptedNested
    <3>2. PICK u \in Nested(t) : u \in Schemas /\ e = Unmarshal(u)
      BY <2>1, DecodedSchema
    <3>3. InUse(u) \subseteq InUse(t)
      BY <3>2, UseAssumption DEF InUse
    <3>4. PatternsCompile(u)
      BY <3>3 DEF PatternsCompile
    <3> QED
      BY <3>1, <3>2, <3>4
  <2>5. PatternsCompile(d)
    <3>1. \A e \in Nested(d) : UsedIn(e) = InUse(e)
      BY <2>4, UseAssumption
    <3> QED
      BY <2>3, <2>4, <3>1 DEF PatternsCompile, InUse
  <2> QED
    BY <2>5
<1>2. B = {}
  <2>1. B \in SUBSET Schemas
    OBVIOUS
  <2> HIDE DEF B
  <2> QED BY <1>1, <2>1, Descent
<1> QED
  BY <1>2

-----------------------------------------------------------------------------
(* Catalogs and requests. *)

\* An entry of a document without errors: its name is its own, its schema is let pass.
LEMMA Entries ==
  ASSUME NEW doc \in Documents, CatalogErrors(doc) = {}, NEW i \in DOMAIN doc.entries
  PROVE  /\ doc.entries[i].schema \in Schemas
         /\ Accepted(Unmarshal(doc.entries[i].schema))
         /\ Named(doc, i) \in SnakeCase
         /\ Named(doc, i) \in DOMAIN ByName(doc)
         /\ ByName(doc)[Named(doc, i)] = Unmarshal(doc.entries[i].schema)
<1>1. /\ doc.entries \in Seq({doc.entries[j] : j \in DOMAIN doc.entries})
      /\ DOMAIN doc.entries = 1..Len(doc.entries) /\ Len(doc.entries) \in Nat
  BY DocumentsAssumption
<1>2. doc.entries[i].schema \in Schemas
  BY DocumentsAssumption
<1>3. ASSUME NEW j \in DOMAIN doc.entries PROVE EntryErrors(doc, j) = {}
  BY <1>3 DEF CatalogErrors
<1>4. ASSUME NEW j \in DOMAIN doc.entries
      PROVE  Named(doc, j) \in SnakeCase /\ \A k \in 1..(j - 1) : Named(doc, k) # Named(doc, j)
  BY <1>3, <1>4 DEF EntryErrors, NameErrors, When
<1>5. Accepted(Unmarshal(doc.entries[i].schema))
  BY <1>3 DEF EntryErrors, When, Accepted
<1>6. \A j \in (i + 1)..Len(doc.entries) : Named(doc, j) # Named(doc, i)
  <2> SUFFICES ASSUME NEW j \in (i + 1)..Len(doc.entries) PROVE Named(doc, j) # Named(doc, i)
    OBVIOUS
  <2>1. j \in DOMAIN doc.entries /\ i \in 1..(j - 1)
    BY <1>1
  <2> QED
    BY <1>4, <2>1
<1>7. ASSUME NEW j \in DOMAIN doc.entries, Named(doc, j) = Named(doc, i),
             \A k \in (j + 1)..Len(doc.entries) : Named(doc, k) # Named(doc, i)
      PROVE  j = i
  <2>1. ~ (j < i)
    BY <1>1, <1>7
  <2>2. ~ (i < j)
    BY <1>1, <1>6, <1>7
  <2> QED
    BY <1>1, <2>1, <2>2
<1> DEFINE IsLast(j) == /\ Named(doc, j) = Named(doc, i)
                        /\ \A k \in (j + 1)..Len(doc.entries) : Named(doc, k) # Named(doc, i)
           last == CHOOSE j \in DOMAIN doc.entries : IsLast(j)
<1>8. last = i
  <2>1. IsLast(i) /\ \A j \in DOMAIN doc.entries : IsLast(j) => j = i
    BY <1>6, <1>7
  <2> HIDE DEF IsLast
  <2> QED BY <2>1
<1>9. /\ Named(doc, i) \in DOMAIN ByName(doc)
      /\ ByName(doc)[Named(doc, i)] = Unmarshal(doc.entries[last].schema)
  BY Zenon DEF ByName
<1> QED
  BY <1>2, <1>4, <1>5, <1>8, <1>9

\* A catalog has no names but those of its document.
LEMMA NamesOfCatalog ==
  ASSUME NEW doc \in Documents, CatalogErrors(doc) = {}
  PROVE  DOMAIN ByName(doc) \subseteq SnakeCase
<1>1. DOMAIN ByName(doc) = {Named(doc, i) : i \in DOMAIN doc.entries}
  BY DEF ByName
<1> QED
  BY <1>1, Entries

\* A loaded catalog stems from a document without errors, and an answer from the
\* schema that the name in the request resolves to.
THEOREM Invariant == Spec => []IInv
<1>1. Init => IInv
  BY DEF Init, IInv, Loaded, Judged, NoRequest, Unavailable
<1>2. IInv /\ [Next]_vars => IInv'
  <2> SUFFICES ASSUME IInv, [Next]_vars PROVE IInv'
    OBVIOUS
  <2> USE DEF IInv
  <2>1. CASE Load
    <3>1. request = NoRequest /\ UNCHANGED <<document, request, answer>>
      BY <2>1 DEF Load
    <3>2. \/ active' = Unavailable
          \/ /\ CatalogErrors(document) = {}
             /\ active' = [status |-> "ready", byName |-> ByName(document)]
      BY <2>1 DEF Load
    <3>3. Loaded' /\ (active'.status = "starting" => FALSE)
      BY <3>1, <3>2 DEF Loaded, Unavailable
    <3>4. Judged'
      BY <3>1 DEF Judged, NoRequest
    <3> QED
      BY <3>1, <3>3, <3>4
  <2>2. CASE JudgeParameters
    <3>1. PICK name \in SnakeCase, body \in Bodies \cup {Nothing} :
            /\ Receive("commands")
            /\ request' = [name |-> name, body |-> body, wellFormed |-> TRUE]
            /\ answer' = IF active.status = "unavailable" THEN {"catalog_unavailable"}
                         ELSE IF name \notin DOMAIN active.byName THEN {"unknown_name"}
                         ELSE ValidateValue(active.byName[name], Unmarshal(body))
            /\ UNCHANGED <<document, active>>
      BY <2>2 DEF JudgeParameters
    <3>2. active.status # "starting"
      BY <3>1 DEF Receive
    <3>3. Judged'
      BY <3>1, BodiesAssumption DEF Judged
    <3> QED
      BY <3>1, <3>2, <3>3 DEF Loaded
  <2>3. CASE JudgeSighting
    <3>1. PICK kind \in Kinds, body \in Bodies \cup {Null}, wellFormed \in BOOLEAN :
            LET name == IF kind.is = "string" THEN kind.text ELSE "" IN
              /\ Receive("sightings")
              /\ request' = [name |-> name, body |-> body, wellFormed |-> wellFormed]
              /\ answer' = IF active.status = "unavailable" THEN {"catalog_unavailable"}
                           ELSE IF ~wellFormed THEN {"invalid_value"}
                           ELSE IF kind.is \notin {"string", "absent"} THEN {"invalid_type"}
                           ELSE IF name = "" THEN {"required"}
                           ELSE IF name \notin DOMAIN active.byName THEN {"unknown_name"}
                           ELSE ValidateValue(active.byName[name], Unmarshal(body))
              /\ UNCHANGED <<document, active>>
      BY <2>3 DEF JudgeSighting
    <3>2. active.status # "starting"
      BY <3>1 DEF Receive
    <3>3. active.status = "ready" => "" \notin DOMAIN active.byName
      BY NamesOfCatalog, NamesAssumption DEF Loaded
    <3>4. Judged'
      <4> SUFFICES ASSUME active'.status = "ready", request'.wellFormed,
                          request'.name \in DOMAIN active'.byName
                   PROVE  /\ request'.body \in Values
                          /\ answer' = ValidateValue(active'.byName[request'.name],
                                                     Unmarshal(request'.body))
        BY DEF Judged
      <4> DEFINE name == IF kind.is = "string" THEN kind.text ELSE ""
      <4>1. /\ request' = [name |-> name, body |-> body, wellFormed |-> wellFormed]
            /\ active' = active
        BY <3>1
      <4>2. wellFormed /\ name # "" /\ name \in DOMAIN active.byName /\ active.status = "ready"
        BY <3>3, <4>1
      <4>3. kind.is = "string"
        BY <4>2
      <4>4. answer' = ValidateValue(active.byName[name], Unmarshal(body))
        BY <3>1, <4>2, <4>3
      <4>5. body \in Values
        BY BodiesAssumption
      <4> HIDE DEF name
      <4> QED
        BY <4>1, <4>4, <4>5
    <3> QED
      BY <3>1, <3>2, <3>4 DEF Loaded
  <2>4. CASE Respond
    BY <2>4 DEF Respond, Loaded, Judged, NoRequest
  <2>5. CASE UNCHANGED vars
    BY <2>5 DEF vars, Loaded, Judged
  <2> QED
    BY <2>1, <2>2, <2>3, <2>4, <2>5 DEF Next
<1> QED
  BY <1>1, <1>2, PTL DEF Spec

\* What the entry that a request is judged by says of its answer.
LEMMA JudgedByEntry ==
  ASSUME IInv, NEW i \in DOMAIN document.entries, JudgedBy(i)
  PROVE  LET schema == document.entries[i].schema IN
           /\ schema \in Schemas /\ Unmarshal(schema) \in Schemas
           /\ Accepted(Unmarshal(schema))
           /\ request.body \in Values /\ Unmarshal(request.body) \in Values
           /\ answer = ValidateValue(Unmarshal(schema), Unmarshal(request.body))
<1>1. /\ document \in Documents /\ CatalogErrors(document) = {}
      /\ active.status = "ready" /\ active.byName = ByName(document)
      /\ request.name = Named(document, i) /\ request.wellFormed
  BY DEF IInv, Loaded, JudgedBy
<1>2. /\ document.entries[i].schema \in Schemas
      /\ Accepted(Unmarshal(document.entries[i].schema))
      /\ request.name \in DOMAIN active.byName
      /\ active.byName[request.name] = Unmarshal(document.entries[i].schema)
  BY <1>1, Entries
<1>3. /\ request.body \in Values
      /\ answer = ValidateValue(Unmarshal(document.entries[i].schema), Unmarshal(request.body))
  BY <1>1, <1>2 DEF IInv, Judged
<1> QED
  BY <1>2, <1>3, DecodingAssumption

\* Whatever the documents and bodies: where the rules of a schema are applied and
\* numbers are float64 values, a body is accepted exactly if it satisfies the schema.
THEOREM VerdictsAgree == Spec => []VerdictAgrees
<1>1. IInv => VerdictAgrees
  <2> SUFFICES ASSUME IInv, NEW i \in 1..Len(document.entries), JudgedBy(i),
                      PatternsCompile(document.entries[i].schema),
                      RulesApplied(document.entries[i].schema),
                      Exact(document.entries[i].schema), Exact(request.body)
               PROVE  answer = {} <=> Satisfies(document.entries[i].schema, request.body)
    BY DEF VerdictAgrees
  <2> DEFINE schema == document.entries[i].schema
  <2>1. i \in DOMAIN document.entries
    BY DEF JudgedBy
  <2>2. /\ schema \in Schemas /\ Accepted(schema) /\ request.body \in Values
        /\ answer = ValidateValue(schema, request.body)
    BY <2>1, JudgedByEntry DEF Exact
  <2>3. Sound(schema)
    BY <2>2 DEF Sound
  <2> QED
    BY <2>2, <2>3, SchemasAgree
<1> QED
  BY <1>1, Invariant, PTL

\* Whatever the documents and bodies: an accepted catalog refuses a value on its own
\* account only where a pattern does not compile.
THEOREM CatalogsNeverAtFault == Spec => []CatalogNeverAtFault
<1>1. IInv => CatalogNeverAtFault
  <2> SUFFICES ASSUME IInv, NEW i \in 1..Len(document.entries), JudgedBy(i),
                      PatternsCompile(document.entries[i].schema)
               PROVE  "bad_schema" \notin answer
    BY DEF CatalogNeverAtFault
  <2> DEFINE schema == document.entries[i].schema
  <2>1. i \in DOMAIN document.entries
    BY DEF JudgedBy
  <2>2. PatternsCompile(Unmarshal(schema))
    BY <2>1, JudgedByEntry, PatternsDecoded
  <2> QED
    BY <2>1, <2>2, JudgedByEntry, SchemasFaultless
<1> QED
  BY <1>1, Invariant, PTL

\* Whatever the documents: no entry of a loaded catalog hides another.
THEOREM EntriesCount == Spec => []EveryEntryCounts
<1>1. IInv => EveryEntryCounts
  BY Entries DEF IInv, Loaded, EveryEntryCounts
<1> QED
  BY <1>1, Invariant, PTL
=============================================================================
