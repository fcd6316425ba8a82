----------------------------- MODULE RuleEngine -----------------------------
(***************************************************************************)
(* The native rules of domain/validator.py: six rules over the top level   *)
(* of a payload, each giving the breaches it finds as [rule, field].       *)
(***************************************************************************)
EXTENDS ContractDocuments

CONSTANTS
  FullMatch,   \* pairs <<regular expression, text>> that RE2 matches in full
  LongTexts    \* texts above MAX_REGEX_VALUE_LENGTH

Breach(rule, field) == [rule |-> rule, field |-> field]

(***************************************************************************)
(* What a rule is given: _extract_params.                                  *)
(***************************************************************************)
SpecOf(f) == <<"properties", f>>
Fields(doc) == IF Kind(doc, <<"properties">>) = "object" THEN Keys(doc, <<"properties">>) ELSE {}
With(doc, k) == {f \in Fields(doc) : Kind(doc, SpecOf(f)) = "object" /\ Present(doc, SpecOf(f) \o <<k>>)}
Given(payload, f) == Present(payload, <<f>>)

\* A property may be given as a bare type name.
Declaration(doc, f) ==
  IF Kind(doc, SpecOf(f)) = "object" THEN SpecOf(f) \o <<"type">> ELSE SpecOf(f)

(***************************************************************************)
(* The rules.                                                              *)
(***************************************************************************)
\* _path_present: a nested key counts only below mappings; null is present.
PathPresent(payload, parts) ==
  /\ parts \in DOMAIN payload
  /\ \A n \in 0 .. Len(parts) - 1 : Kind(payload, SubSeq(parts, 1, n)) = "object"

KindsOf ==
  [string |-> {"string"}, number |-> {"integer", "float"}, integer |-> {"integer"},
   boolean |-> {"boolean"}, object |-> {"object"}, array |-> {"list"}, null |-> {"null"}]
\* A name that is not recognised matches everything.
NameMatches(kind, doc, q) ==
  Kind(doc, q) = "string" /\ doc[q].text \in DOMAIN KindsOf => kind \in KindsOf[doc[q].text]
TypeMatches(kind, doc, p) ==
  IF Kind(doc, p) = "list"
  THEN Below(doc, p) = {} \/ \E q \in Below(doc, p) : NameMatches(kind, doc, q)
  ELSE NameMatches(kind, doc, p)

FieldPresence(payload, doc) ==
  {f \in Names(doc, <<"required">>) : ~PathPresent(payload, PartsOf(f))}

TypeMatch(payload, doc) ==
  {f \in Fields(doc) :
     /\ Given(payload, f) /\ Kind(payload, <<f>>) # "null"
     /\ Kind(doc, Declaration(doc, f)) \notin {"absent", "null"}
     /\ ~TypeMatches(Kind(payload, <<f>>), doc, Declaration(doc, f))}

EnumValues(payload, doc) ==
  {f \in With(doc, "enum") :
     Given(payload, f) /\ ~\E q \in Below(doc, SpecOf(f) \o <<"enum">>) : SameValue(doc[q], payload[<<f>>])}

\* spec.get("min", spec.get("minimum")): the first name, when it is there, hides the
\* other.  No bound is found at null.
Limit(doc, f, name, other) ==
  IF Present(doc, SpecOf(f) \o <<name>>) THEN SpecOf(f) \o <<name>> ELSE SpecOf(f) \o <<other>>
Bound(doc, f, name, other) ==
  {doc[p].number : p \in {q \in {Limit(doc, f, name, other)} :
                            Kind(doc, q) \in {"integer", "float", "boolean"}}}
Ranged(doc) == UNION {With(doc, k) : k \in {"min", "max", "minimum", "maximum"}}
IsNumber(payload, f) == Given(payload, f) /\ Kind(payload, <<f>>) \in {"integer", "float"}
BelowRange(payload, doc, f) == \E low \in Bound(doc, f, "min", "minimum") : payload[<<f>>].number < low
RangeCheck(payload, doc) ==
  {f \in Ranged(doc) :
     /\ IsNumber(payload, f)
     /\ \/ BelowRange(payload, doc, f)
        \/ \E high \in Bound(doc, f, "max", "maximum") : payload[<<f>>].number > high}

NullGuard(payload, doc) ==
  {f \in Names(doc, <<"null_forbidden">>) : Kind(payload, <<f>>) = "null"}

RegexPattern(payload, doc) ==
  {f \in With(doc, "pattern") :
     /\ Given(payload, f) /\ Kind(payload, <<f>>) = "string"
     /\ LET pattern == doc[SpecOf(f) \o <<"pattern">>].text
            text == payload[<<f>>].text
        IN  /\ pattern # ""
            /\ \/ pattern \in OverLong \cup Uncompilable
               \/ text \in LongTexts
               \/ <<pattern, text>> \notin FullMatch}

(***************************************************************************)
(* What makes a rule raise, and the whole validation with it: a value the  *)
(* rule iterates, compares, looks up or compiles and Python does not.      *)
(***************************************************************************)
Unhashable == {"object", "list"}
Iterable == {"list", "string", "object"}

\* A name that is no text has no parts to split.
PresenceRaises(doc) ==
  \/ Kind(doc, <<"required">>) \notin Iterable \cup {"absent"}
  \/ /\ Kind(doc, <<"required">>) = "list"
     /\ \E q \in Below(doc, <<"required">>) : Kind(doc, q) # "string"

\* value in allowed: of a text only texts are parts, of an object only what is hashable.
EnumRaises(payload, doc) ==
  \E f \in With(doc, "enum") :
    /\ Given(payload, f)
    /\ LET allowed == Kind(doc, SpecOf(f) \o <<"enum">>)
       IN  \/ allowed \notin Iterable
           \/ allowed = "string" /\ Kind(payload, <<f>>) # "string"
           \/ allowed = "object" /\ Kind(payload, <<f>>) \in Unhashable

\* A number is compared with texts and containers; the upper bound is looked at only
\* when the lower holds.
RangeRaises(payload, doc) ==
  \E f \in Ranged(doc) :
    /\ IsNumber(payload, f)
    /\ \/ Kind(doc, Limit(doc, f, "min", "minimum")) \in Iterable
       \/ /\ ~BelowRange(payload, doc, f)
          /\ Kind(doc, Limit(doc, f, "max", "maximum")) \in Iterable

\* field_name in payload
NullGuardRaises(doc) ==
  \/ Kind(doc, <<"null_forbidden">>) \notin Iterable \cup {"absent"}
  \/ /\ Kind(doc, <<"null_forbidden">>) = "list"
     /\ \E q \in Below(doc, <<"null_forbidden">>) : Kind(doc, q) \in Unhashable

\* What is falsy is no pattern; a number has no length, and a container (of no more than
\* MAX_PATTERN_LENGTH members) no compiled form.
Falsy(doc, p) ==
  \/ Kind(doc, p) = "null"
  \/ Kind(doc, p) \in {"integer", "float", "boolean"} /\ doc[p].number = 0
  \/ Kind(doc, p) = "string" /\ doc[p].text = ""
  \/ Kind(doc, p) \in Unhashable /\ Below(doc, p) = {}
PatternRaises(payload, doc) ==
  \E f \in With(doc, "pattern") :
    /\ Kind(payload, <<f>>) = "string"
    /\ LET p == SpecOf(f) \o <<"pattern">>
       IN  /\ ~Falsy(doc, p)
           /\ Kind(doc, p) # "string"
           /\ Kind(doc, p) \in Unhashable => payload[<<f>>].text \notin LongTexts

(***************************************************************************)
(* LocalValidator.validate.                                                *)
(***************************************************************************)
Raises(payload, doc) ==
  /\ Kind(payload, <<>>) = "object"
  /\ \/ Kind(doc, <<>>) # "object"
     \/ Kind(doc, <<"properties">>) \notin {"absent", "object"}
     \/ PresenceRaises(doc) \/ EnumRaises(payload, doc) \/ RangeRaises(payload, doc)
     \/ NullGuardRaises(doc) \/ PatternRaises(payload, doc)

Breaches(payload, doc) ==
  IF Kind(payload, <<>>) # "object" THEN {Breach("TYPE_MATCH", "<root>")}
  ELSE {Breach("FIELD_PRESENCE", f) : f \in FieldPresence(payload, doc)}
       \cup {Breach("TYPE_MATCH", f) : f \in TypeMatch(payload, doc)}
       \cup {Breach("ENUM_VALUES", f) : f \in EnumValues(payload, doc)}
       \cup {Breach("RANGE_CHECK", f) : f \in RangeCheck(payload, doc)}
       \cup {Breach("NULL_GUARD", f) : f \in NullGuard(payload, doc)}
       \cup {Breach("REGEX_PATTERN", f) : f \in RegexPattern(payload, doc)}
=============================================================================
