------------------------- MODULE ContractDocuments -------------------------
(***************************************************************************)
(* Contracts and payloads as JSON documents.  A document is a function     *)
(* from positions (the keys and indices on the way from the root) to       *)
(* nodes, so that walking it needs no recursion over trees.  An index is   *)
(* written as text, as it is in a JSON pointer.                            *)
(***************************************************************************)
EXTENDS Integers, FiniteSets, SequencesExt

CONSTANTS
  Segments,   \* [dotted field name -> its parts]; a name outside has one part, itself
  Pointers,   \* [text of a local JSON pointer -> the decoded tokens it names]
  Anchors,    \* local references ("#...") that are no JSON pointer
  Uncompilable,  \* regular expressions RE2 refuses
  OverLong       \* regular expressions above MAX_PATTERN_LENGTH

NoRef == "no reference"

ASSUME DocumentTexts ==
  /\ Anchors \cap DOMAIN Pointers = {} /\ IsFiniteSet(DOMAIN Pointers)
  /\ NoRef \notin DOMAIN Pointers \cup Anchors
  /\ \A name \in DOMAIN Segments : Len(Segments[name]) > 1

Scalars == {"string", "integer", "float", "boolean", "null"}

\* Positions above one that is there are there, in objects and lists.
IsDocument(doc) ==
  /\ DOMAIN doc \subseteq Seq(STRING) /\ IsFiniteSet(DOMAIN doc) /\ <<>> \in DOMAIN doc
  /\ \A p \in DOMAIN doc \ {<<>>} :
       Front(p) \in DOMAIN doc /\ doc[Front(p)].kind \in {"object", "list"}
  /\ \A p \in DOMAIN doc : /\ doc[p].kind = "string" => doc[p].text \in STRING
                           /\ doc[p].kind \in {"integer", "float"} => doc[p].number \in Int

(***************************************************************************)
(* Building documents.                                                     *)
(***************************************************************************)
Text(t) == <<>> :> [kind |-> "string", text |-> t]
Number(n) == <<>> :> [kind |-> "integer", number |-> n]
Float(n) == <<>> :> [kind |-> "float", number |-> n]
Truth(b) == <<>> :> [kind |-> "boolean", number |-> IF b THEN 1 ELSE 0]
Null == <<>> :> [kind |-> "null"]

Nested(kind, members) ==
  [p \in {<<>>} \cup UNION {{<<k>> \o q : q \in DOMAIN members[k]} : k \in DOMAIN members} |->
     IF p = <<>> THEN [kind |-> kind] ELSE members[Head(p)][Tail(p)]]
Object(members) == Nested("object", members)
IndexText == <<"0", "1", "2">>
List(items) ==
  Nested("list", [i \in {IndexText[n] : n \in DOMAIN items} |-> items[CHOOSE n \in DOMAIN items :
                                                                  IndexText[n] = i]])

(***************************************************************************)
(* Reading them.                                                           *)
(***************************************************************************)
Kind(doc, p) == IF p \in DOMAIN doc THEN doc[p].kind ELSE "absent"
Present(doc, p) == p \in DOMAIN doc
Below(doc, p) == {q \in DOMAIN doc : Len(q) = Len(p) + 1 /\ Front(q) = p}
Keys(doc, p) == {Last(q) : q \in Below(doc, p)}
\* The texts of a list of names; entries that are no text are left to admission.
Names(doc, p) == {doc[q].text : q \in {r \in Below(doc, p) : Kind(doc, r) = "string"}}

PartsOf(name) == IF name \in DOMAIN Segments THEN Segments[name] ELSE <<name>>
Dotted(name) == Len(PartsOf(name)) > 1

\* Python's == of two scalars: True is 1, and 1 is 1.0.
SameValue(a, b) ==
  IF "number" \in DOMAIN a /\ "number" \in DOMAIN b THEN a.number = b.number
  ELSE a = b

(***************************************************************************)
(* _walk_subschemas: the positions of the schemas in a contract.           *)
(***************************************************************************)
SchemaValued ==
  {"items", "contains", "not", "if", "then", "else", "propertyNames",
   "additionalProperties", "unevaluatedItems", "unevaluatedProperties"}
SchemaListValued == {"allOf", "anyOf", "oneOf", "prefixItems", "items"}
SchemaMapValued == {"properties", "patternProperties", "$defs", "definitions", "dependentSchemas"}

Subschemas(doc) ==
  LET walked[p \in DOMAIN doc] ==
        /\ doc[p].kind = "object"
        /\ \/ p = <<>>
           \/ Last(p) \in SchemaValued /\ walked[Front(p)]
           \/ /\ Len(p) > 1
              /\ \/ p[Len(p) - 1] \in SchemaListValued /\ Kind(doc, Front(p)) = "list"
                 \/ p[Len(p) - 1] \in SchemaMapValued /\ Kind(doc, Front(p)) = "object"
              /\ walked[Front(Front(p))]
  IN  {p \in DOMAIN doc : walked[p]}

(***************************************************************************)
(* _resolve_pointer and _reference_cycle: following a local $ref.          *)
(***************************************************************************)
Local(ref) == ref \in DOMAIN Pointers \cup Anchors
Resolves(doc, ref) == ref \in DOMAIN Pointers /\ Pointers[ref] \in DOMAIN doc

RefAt(doc, p) ==
  LET q == Append(p, "$ref")
  IN  IF Kind(doc, p) = "object" /\ Kind(doc, q) = "string" /\ Local(doc[q].text)
      THEN doc[q].text ELSE NoRef

\* Mutant: only a reference to itself counts as a cycle.
ReferenceLoop(doc, start) == Resolves(doc, start) /\ RefAt(doc, Pointers[start]) = start

\* The chain of pointers from a reference: more than there are pointers is a cycle.
ReferenceCycle(doc, start) ==
  LET bound == Cardinality(DOMAIN Pointers) + 1
      chain[n \in 0 .. bound] ==
        IF n = 0 THEN start
        ELSE IF chain[n - 1] # NoRef /\ Resolves(doc, chain[n - 1])
             THEN RefAt(doc, Pointers[chain[n - 1]])
             ELSE NoRef
  IN  chain[bound] # NoRef
=============================================================================
