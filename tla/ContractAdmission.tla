------------------------- MODULE ContractAdmission -------------------------
(***************************************************************************)
(* Admission: whether a contract may become active policy.  One operator   *)
(* per check of domain/contract_admission.py, each giving the issues it    *)
(* finds as [code, at], with the vocabulary of domain/schema_vocabulary.py *)
(* and the capability that infrastructure/jsonschema_validator.py derives  *)
(* from the handlers of the configured draft.                              *)
(***************************************************************************)
EXTENDS ContractDocuments

CONSTANTS
  DraftOrder,    \* the supported drafts, oldest first
  Handlers,      \* [draft -> keywords the library has a handler for]
  Formats,       \* [draft -> formats its checker knows]
  Alphabet,      \* the names and keywords in use, in the order of their code points
  MaxReported,   \* schema_vocabulary._MAX_REPORTED
  MaxIssues      \* contract_admission._MAX_ISSUES

ASSUME CapsPositive == MaxReported \in Nat \ {0} /\ MaxIssues \in Nat \ {0}
ASSUME DraftsKnown ==
  /\ DraftOrder \in Seq(STRING)
  /\ \A d \in Range(DraftOrder) : Handlers[d] # {} /\ DOMAIN Formats = DOMAIN Handlers
ASSUME AlphabetOrdered == Alphabet \in Seq(STRING) /\ IsInjective(Alphabet)

(***************************************************************************)
(* Vocabulary.                                                             *)
(***************************************************************************)
TopLevelKeywords == {"properties", "required", "null_forbidden"}
PropertyKeywords == {"type", "enum", "min", "max", "minimum", "maximum", "pattern"}
NativeKeywords == TopLevelKeywords \cup PropertyKeywords
MetadataKeywords ==
  {"description", "title", "default", "examples", "$comment", "deprecated", "readOnly",
   "writeOnly", "$schema", "$id"}
TypeNames == {"string", "number", "integer", "boolean", "object", "array", "null"}

\* Mutant: one known name is enough in a union.
AnyNameKnown(doc, p) ==
  LET known(q) == Kind(doc, q) = "string" /\ doc[q].text \in TypeNames
  IN  IF Kind(doc, p) = "list" THEN \E q \in Below(doc, p) : known(q) ELSE known(p)

TypeEnforceable(doc, p) ==
  LET known(q) == Kind(doc, q) = "string" /\ doc[q].text \in TypeNames
  IN  IF Kind(doc, p) = "list" THEN Below(doc, p) # {} /\ \A q \in Below(doc, p) : known(q)
      ELSE known(p)

\* find_unenforced_keywords: what the rule engine will not enforce, at the top and in
\* the properties, not below.
Unenforced(doc) ==
  LET top == {<<k>> : k \in Keys(doc, <<>>) \ (TopLevelKeywords \cup MetadataKeywords)}
      specs == {p \in Below(doc, <<"properties">>) :
                  Kind(doc, <<"properties">>) = "object" /\ Kind(doc, p) = "object"}
      inSpec == {q \in UNION {Below(doc, p) : p \in specs} : Last(q) \notin MetadataKeywords}
  IN  {q \in top : q = <<"type">> => Kind(doc, q) # "string" \/ doc[q].text # "object"}
      \cup {q \in inSpec : IF Last(q) = "type" THEN ~TypeEnforceable(doc, q)
                           ELSE Last(q) \notin PropertyKeywords}

\* A finding is reported as "field.keyword", sorted, and the list is cut.
Place(name) == CHOOSE i \in DOMAIN Alphabet : Alphabet[i] = name
Listed(q) == \A i \in DOMAIN q : q[i] \in Range(Alphabet)
Before(q, r) ==
  LET field(p) == IF Len(p) = 1 THEN 0 ELSE Place(p[2])
  IN  field(q) < field(r) \/ (field(q) = field(r) /\ Place(Last(q)) < Place(Last(r)))
Reported(doc) ==
  {q \in Unenforced(doc) : Cardinality({r \in Unenforced(doc) : Before(r, q)}) < MaxReported}

(***************************************************************************)
(* Capability.                                                             *)
(***************************************************************************)
Composed == [then |-> "if", else |-> "if", minContains |-> "contains", maxContains |-> "contains"]
ComposedMinRank == [minContains |-> 3, maxContains |-> 3]
Rank(draft) == (CHOOSE i \in DOMAIN DraftOrder : DraftOrder[i] = draft) - 1

\* Mutant: the composed keywords are claimed for every draft that has the handler.
CapabilityUngated(draft, formats) ==
  LET handlers == Handlers[draft]
      containers == IF "$ref" \in handlers THEN {"$defs", "definitions"} ELSE {}
      composed == {k \in DOMAIN Composed : Composed[k] \in handlers}
  IN  [keywords |-> (handlers \cup containers \cup composed) \ (IF formats THEN {} ELSE {"format"}),
       formats |-> IF formats THEN Formats[draft] ELSE {},
       booleanBounds |-> "minimum" \in handlers /\ "exclusiveMinimum" \notin handlers]

Capability(draft, formats) ==
  LET handlers == Handlers[draft]
      containers == IF "$ref" \in handlers THEN {"$defs", "definitions"} ELSE {}
      composed == {k \in DOMAIN Composed :
                     /\ Composed[k] \in handlers
                     /\ k \in DOMAIN ComposedMinRank => Rank(draft) >= ComposedMinRank[k]}
  IN  [keywords |-> (handlers \cup containers \cup composed) \ (IF formats THEN {} ELSE {"format"}),
       formats |-> IF formats THEN Formats[draft] ELSE {},
       booleanBounds |-> "minimum" \in handlers /\ "exclusiveMinimum" \notin handlers]

\* What SyncContractsUseCase hands to admission: the rule engine's own keywords, and
\* with semantic validation on the capability of the evaluator.
Wired(setup) ==
  IF setup.semantic
  THEN LET c == Capability(setup.draft, setup.formats)
       IN  [c EXCEPT !.keywords = c.keywords \cup NativeKeywords]
  ELSE [keywords |-> NativeKeywords, formats |-> {}, booleanBounds |-> FALSE]

ExclusiveBounds == {"exclusiveMinimum", "exclusiveMaximum"}
Sibling(k) == IF k = "exclusiveMinimum" THEN "minimum" ELSE "maximum"
EnforcesBound(cap, doc, p, k) ==
  LET boolean == Kind(doc, Append(p, k)) = "boolean"
  IN  IF k \in cap.keywords THEN ~boolean
      ELSE cap.booleanBounds /\ boolean /\ Present(doc, Append(p, Sibling(k)))

(***************************************************************************)
(* The checks, in the order admit_contract makes them.                     *)
(***************************************************************************)
Issue(code, at) == [code |-> code, at |-> at]

CheckTopLevelLists(doc) ==
  LET list(k) ==
        IF Kind(doc, <<k>>) \in {"absent", "null"} THEN {}
        ELSE IF Kind(doc, <<k>>) # "list" THEN {Issue("invalid_structure", <<k>>)}
        ELSE {Issue("invalid_structure", q) : q \in {r \in Below(doc, <<k>>) : Kind(doc, r) # "string"}}
  IN  list("required") \cup list("null_forbidden")

CheckRegexText(text, at) ==
  IF text \in OverLong \cup Uncompilable THEN {Issue("invalid_pattern", at)} ELSE {}
CheckRegex(doc, p) ==
  IF Kind(doc, p) = "string" THEN CheckRegexText(doc[p].text, p) ELSE {Issue("invalid_structure", p)}

CheckType(doc, p) ==
  IF Kind(doc, p) = "list" /\ Below(doc, p) = {} THEN {Issue("empty_type_union", p)}
  ELSE IF TypeEnforceable(doc, p) THEN {} ELSE {Issue("unknown_type", p)}
CheckEnum(doc, p) == IF Kind(doc, p) = "list" THEN {} ELSE {Issue("invalid_structure", p)}

\* Mutant: the JSON Schema spellings of a bound are not looked at.
CheckRangeNative(doc, spec) ==
  {Issue("invalid_structure", q) :
     q \in {Append(spec, k) : k \in {"min", "max"}}
           \cap {r \in DOMAIN doc : Kind(doc, r) \notin {"integer", "float"}}}

CheckRange(doc, spec) ==
  {Issue("invalid_structure", q) :
     q \in {Append(spec, k) : k \in {"min", "max", "minimum", "maximum"}}
           \cap {r \in DOMAIN doc : Kind(doc, r) \notin {"integer", "float"}}}

CheckProperty(doc, f) ==
  LET spec == <<"properties", f>>
      where(k, issues) == IF Present(doc, Append(spec, k)) THEN issues ELSE {}
  IN  IF Dotted(f) THEN {Issue("ambiguous_property_path", spec)}
      ELSE IF Kind(doc, spec) # "object" THEN {Issue("invalid_structure", spec)}
      ELSE where("type", CheckType(doc, Append(spec, "type")))
           \cup where("pattern", CheckRegex(doc, Append(spec, "pattern")))
           \cup where("enum", CheckEnum(doc, Append(spec, "enum")))
           \cup CheckRange(doc, spec)
CheckProperties(doc) ==
  CASE Kind(doc, <<"properties">>) = "object" ->
         UNION {CheckProperty(doc, f) : f \in Keys(doc, <<"properties">>)}
    [] Kind(doc, <<"properties">>) \in {"absent", "null"} -> {}
    [] OTHER -> {Issue("invalid_structure", <<"properties">>)}

\* The keyword of a finding is what follows the last dot of its text.
KeywordOf(q) == Last(PartsOf(Last(q)))
CheckUnsupportedKeywords(doc, cap) ==
  {Issue("unsupported_keyword", q) :
     q \in {r \in Reported(doc) :
              KeywordOf(r) \notin {"type"} \cup ExclusiveBounds \cup MetadataKeywords \cup cap.keywords}}

CheckExclusiveBounds(doc, cap) ==
  UNION {{Issue("unsupported_keyword", Append(p, k)) :
            k \in {b \in ExclusiveBounds :
                     Present(doc, Append(p, b)) /\ ~EnforcesBound(cap, doc, p, b)}} :
         p \in Subschemas(doc)}

CheckReferences(doc) ==
  LET refs == {q \in {Append(p, "$ref") : p \in Subschemas(doc)} :
                 Kind(doc, q) \notin {"absent", "null"}}
      wrong == {q \in refs : Kind(doc, q) # "string"}
      refused == {q \in refs \ wrong :
                    LET ref == doc[q].text
                    IN  ~Local(ref) \/ ~Resolves(doc, ref) \/ ReferenceCycle(doc, ref)}
  IN  {Issue("invalid_structure", q) : q \in wrong}
      \cup {Issue("unsupported_reference", q) : q \in refused}

CheckNestedPatterns(doc) ==
  LET nested == {q \in {Append(p, "pattern") : p \in Subschemas(doc) \ {<<>>}} :
                   Kind(doc, q) \notin {"absent", "null"}}
      keyed == {q \in {Append(p, "patternProperties") : p \in Subschemas(doc)} :
                  Kind(doc, q) = "object"}
  IN  (UNION {CheckRegex(doc, q) : q \in nested})
      \cup (UNION {CheckRegexText(Last(q), q) : q \in UNION {Below(doc, p) : p \in keyed}})

CheckFormats(doc, cap) ==
  {Issue("unsupported_keyword", q) :
     q \in {Append(p, "format") : p \in Subschemas(doc)}
           \cap {r \in DOMAIN doc : Kind(doc, r) = "string" /\ doc[r].text \notin cap.formats}}

LegacyAdvisories(doc) ==
  IF Present(doc, <<"null_forbidden">>) THEN {Issue("legacy_construct", <<"null_forbidden">>)} ELSE {}

(***************************************************************************)
(* admit_contract.                                                         *)
(***************************************************************************)
Errors(doc, setup) ==
  LET cap == Wired(setup)
  IN  IF Kind(doc, <<>>) # "object" THEN {Issue("invalid_structure", <<>>)}
      ELSE CheckTopLevelLists(doc) \cup CheckProperties(doc)
           \cup CheckUnsupportedKeywords(doc, cap) \cup CheckExclusiveBounds(doc, cap)
           \cup CheckReferences(doc) \cup CheckNestedPatterns(doc)
           \cup (IF setup.semantic THEN CheckFormats(doc, cap) ELSE {})
Advisories(doc, setup) ==
  IF setup.mode = "warn" /\ Kind(doc, <<>>) = "object" THEN LegacyAdvisories(doc) ELSE {}

\* Mutant: the cut keeps the end of the list, where the advisories are.
IssuesCutInFront(doc, setup) ==
  LET all == SetToSeq(Errors(doc, setup)) \o SetToSeq(Advisories(doc, setup))
  IN  SubSeq(all, 1 + Max({0, Len(all) - MaxIssues}), Len(all))

\* The advisories come last, and the list is cut at its end.
Issues(doc, setup) ==
  LET all == SetToSeq(Errors(doc, setup)) \o SetToSeq(Advisories(doc, setup))
  IN  SubSeq(all, 1, Min({Len(all), MaxIssues}))
Blocking(issue) == issue.code # "legacy_construct"
Admits(doc, setup) == ~\E i \in DOMAIN Issues(doc, setup) : Blocking(Issues(doc, setup)[i])
=============================================================================
