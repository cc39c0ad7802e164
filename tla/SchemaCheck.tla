---------------------------- MODULE SchemaCheck ----------------------------
(***************************************************************************)
(* The catalogs of commands and of sighting kinds (internal/catalog,       *)
(* internal/sightingcatalog): a document is loaded at the start if every   *)
(* schema in it is one of the subset of SchemaRules, and every parameter   *)
(* object or sighting of a client is then judged by one of them.           *)
(***************************************************************************)
EXTENDS Integers, Sequences, FiniteSets

CONSTANTS
  Documents,  \* catalog documents as their authors wrote them
  Bodies,     \* parameters and sighting data as clients wrote them
  Kinds,      \* values of "kind" in a sighting
  Mantissa,   \* 2^53: up to it float64 tells integers apart
  Matches,    \* pattern that compiles -> the strings it matches
  SnakeCase,  \* names that ValidateSnakeCase accepts
  Schemas,    \* JSON values that occur in documents
  Values      \* JSON values that occur in bodies

CONSTANTS
  Unmarshalled(_),     \* Unmarshal of a part
  SchemaVerdict(_),    \* ValidateSchema of a part
  ValueVerdict(_, _),  \* ValidateValue of a part
  Satisfied(_, _),     \* Satisfies of a part
  UsedIn(_),           \* InUse of a part
  Depth(_)             \* nesting depth, which encoding/json bounds

ASSUME MantissaAssumption == Mantissa \in Nat \ {0} /\ \E p \in 1..53 : Mantissa = 2 ^ p

ASSUME NamesAssumption == "" \notin SnakeCase

VARIABLES
  document,   \* the document on disk
  active,     \* catalog in memory: name -> schema, or Unavailable
  request,    \* the last request judged: the name it gives and its body
  answer      \* what it was answered: the set of possible errors

vars == <<document, active, request, answer>>

-----------------------------------------------------------------------------
(* JSON values and schemas: the calls on parts are the functions themselves. *)

INSTANCE SchemaRules

ASSUME JSONAssumption ==
  \A S \in {Schemas, Values} : \A v \in S : IsJSON(v, S)

ASSUME DecodingAssumption ==
  \A S \in {Schemas, Values} : \A v \in S : Unmarshalled(v) = Unmarshal(v) /\ Unmarshal(v) \in S

ASSUME DocumentsAssumption ==
  /\ \A doc \in Documents : doc.entries \in Seq({doc.entries[i] : i \in DOMAIN doc.entries})
  /\ UNION {{doc.entries[i].schema : i \in DOMAIN doc.entries} : doc \in Documents} \subseteq Schemas

ASSUME BodiesAssumption == Bodies \cup {Null, Nothing} \subseteq Values

ASSUME SchemaAssumption == \A s \in Schemas : SchemaVerdict(s) = ValidateSchema(s)

ASSUME ValueAssumption ==
  \A s \in Schemas : s.is = "object" =>
    \A v \in Values : ValueVerdict(s, v) = ValidateValue(s, v)

ASSUME UseAssumption == \A s \in Schemas : UsedIn(s) = InUse(s)

ASSUME DepthAssumption ==
  \A s \in Schemas : Depth(s) \in Nat /\ \A t \in Nested(s) : Depth(t) < Depth(s)

\* A rule that is not of its type says nothing, so that Satisfies is about the others.
ASSUME ReferenceAssumption ==
  \A s \in Schemas : ValidateSchema(s) = {} /\ PatternsCompile(s) /\ RulesApplied(s) =>
    \A v \in Values : Satisfied(s, v) = Satisfies(s, v)

-----------------------------------------------------------------------------
(* Catalogs: Load of both packages.  A document says what it is "of", whether *)
(* its "header" (catalog_id and version) is there, and has entries: a command *)
(* type or sighting kind, its texts (display_name, description), its schema.  *)

Named(doc, i) == doc.entries[i].name

\* Mutant: a name may be defined twice.
BugNameErrors(doc, i) == When(Named(doc, i) \notin SnakeCase, "name")

NameErrors(doc, i) ==
  When(Named(doc, i) \notin SnakeCase, "name")
  \cup When(\E j \in 1..(i - 1) : Named(doc, j) = Named(doc, i), "duplicate")

\* What both packages check of an entry.
EntryErrors(doc, i) ==
  NameErrors(doc, i) \cup When(ValidateSchema(Unmarshal(doc.entries[i].schema)) # {}, "schema")

\* Validate: only that of commands checks the header and the texts.
CatalogErrors(doc) ==
  When(doc.of = "commands" /\ ~doc.header, "header") \cup
  UNION {EntryErrors(doc, i) \cup When(doc.of = "commands" /\ ~doc.entries[i].texts, "text")
         : i \in DOMAIN doc.entries}

\* ByType and ByKind: a later entry would replace an earlier one.
ByName(doc) ==
  [name \in {Named(doc, i) : i \in DOMAIN doc.entries} |->
     LET last == CHOOSE i \in DOMAIN doc.entries :
                   /\ Named(doc, i) = name
                   /\ \A j \in (i + 1)..Len(doc.entries) : Named(doc, j) # name
     IN  Unmarshal(doc.entries[last].schema)]

Unavailable == [status |-> "unavailable", byName |-> Nothing.fields]

Load ==
  /\ active.status = "starting"
  /\ active' = IF CatalogErrors(document) = {}
                 THEN [status |-> "ready", byName |-> ByName(document)]
                 ELSE Unavailable
  /\ UNCHANGED <<document, request, answer>>

-----------------------------------------------------------------------------
(* Requests.  Judging one changes nothing that another reads, so one at a time *)
(* shows every judgement.                                                      *)

NoRequest == [name |-> "", body |-> Null, wellFormed |-> FALSE]

Receive(kind) == request = NoRequest /\ active.status # "starting" /\ document.of = kind

\* validateTaskCommandCatalog: a task names a command and may give parameters.
JudgeParameters ==
  \E name \in SnakeCase, body \in Bodies \cup {Nothing} :
    /\ Receive("commands")
    /\ request' = [name |-> name, body |-> body, wellFormed |-> TRUE]
    /\ answer' = IF active.status = "unavailable" THEN {"catalog_unavailable"}
                 ELSE IF name \notin DOMAIN active.byName THEN {"unknown_name"}
                 ELSE ValidateValue(active.byName[name], Unmarshal(body))
    /\ UNCHANGED <<document, active>>

\* ValidateSighting.  Data that is missing is null; wellFormed stands for the
\* checks of observed_at and its inaccuracy, which come first and have one code here.
JudgeSighting ==
  \E kind \in Kinds, body \in Bodies \cup {Null}, wellFormed \in BOOLEAN :
    LET name == IF kind.is = "string" THEN kind.text ELSE "" IN
      /\ Receive("sightings")
      /\ request' = [name |-> name, body |-> body, wellFormed |-> wellFormed]
      /\ answer' = IF active.status = "unavailable" THEN {"catalog_unavailable"}
                   ELSE IF ~wellFormed THEN {"invalid_value"}
                   ELSE IF kind.is \notin {"string", "absent"} THEN {"invalid_type"}
                   ELSE IF name = "" THEN {"required"}
                   ELSE IF name \notin DOMAIN active.byName THEN {"unknown_name"}
                   ELSE ValidateValue(active.byName[name], Unmarshal(body))
      /\ UNCHANGED <<document, active>>

Respond ==
  /\ request # NoRequest
  /\ request' = NoRequest /\ answer' = {}
  /\ UNCHANGED <<document, active>>

Init ==
  /\ document \in Documents
  /\ active = [Unavailable EXCEPT !.status = "starting"]
  /\ request = NoRequest
  /\ answer = {}

Next == Load \/ JudgeParameters \/ JudgeSighting \/ Respond

Spec == Init /\ [][Next]_vars

-----------------------------------------------------------------------------
(* Properties. *)

\* The entry of the document that the last request was judged by.
JudgedBy(i) ==
  /\ active.status = "ready" /\ i \in DOMAIN document.entries
  /\ request.name = Named(document, i) /\ request.wellFormed

\* A body is accepted exactly if it satisfies, as its client wrote it, the schema
\* as its author wrote it: no rule is lost between the keywords of a type, nested
\* schemas and decoding, and no foreign keyword adds one.
VerdictAgrees ==
  \A i \in 1..Len(document.entries) :
    LET schema == document.entries[i].schema IN
      /\ JudgedBy(i)
      /\ PatternsCompile(schema) /\ RulesApplied(schema) /\ Exact(schema) /\ Exact(request.body)
      => (answer = {} <=> Satisfies(schema, request.body))

\* A catalog that was accepted at the start is never itself the reason to refuse a
\* request, unless a pattern in it does not compile.
CatalogNeverAtFault ==
  \A i \in 1..Len(document.entries) :
    JudgedBy(i) /\ "bad_schema" \in answer => ~PatternsCompile(document.entries[i].schema)

\* Each entry of a loaded document is the one its name resolves to.
EveryEntryCounts ==
  active.status = "ready" =>
    \A i \in DOMAIN document.entries :
      active.byName[Named(document, i)] = Unmarshal(document.entries[i].schema)

-----------------------------------------------------------------------------
(* What the properties rest on. *)

\* A loaded catalog is that of its document, which had no errors.
Loaded ==
  active.status = "ready" => CatalogErrors(document) = {} /\ active.byName = ByName(document)

\* The answer to a request that reached a schema is what this schema says.
Judged ==
  active.status = "ready" /\ request.wellFormed /\ request.name \in DOMAIN active.byName =>
    /\ request.body \in Values
    /\ answer = ValidateValue(active.byName[request.name], Unmarshal(request.body))

IInv ==
  /\ document \in Documents
  /\ active.status = "starting" => request = NoRequest
  /\ Loaded
  /\ Judged
=============================================================================
