--------------------------- MODULE ContractPolicy ---------------------------
(***************************************************************************)
(* A contract on its way to a validation: published, admitted or refused   *)
(* under the configured evaluators, and then put to payloads.  Admission   *)
(* is ContractAdmission, the native stage RuleEngine; of the semantic      *)
(* stage, a library, only the clauses it asserts are used.                 *)
(***************************************************************************)
EXTENDS ContractAdmission, RuleEngine

CONSTANTS
  Contracts,   \* the schemas that may be published
  Payloads,    \* the outputs that may be validated
  Setups,      \* [semantic, draft, formats, mode]
  Asserted,    \* [draft -> keywords the library asserts when they are well placed]
  RefAlone     \* drafts in which nothing beside a $ref is looked at

ASSUME PolicyAssumption ==
  /\ \A doc \in Contracts \cup Payloads : IsDocument(doc)
  /\ \A doc \in Contracts : \A q \in Unenforced(doc) : Listed(q)
  /\ Setups \subseteq [semantic : BOOLEAN, draft : Range(DraftOrder), formats : BOOLEAN,
                       mode : {"strict", "warn"}]
\* A keyword the library has a handler for is asserted, and so are those its handlers
\* read beside it, minContains and maxContains from the fourth draft on.
ASSUME AssertedAssumption ==
  \A i \in DOMAIN DraftOrder :
    LET handlers == Handlers[DraftOrder[i]]
        asserted == Asserted[DraftOrder[i]]
    IN  /\ handlers \subseteq asserted
        /\ "$ref" \in handlers => {"$defs", "definitions"} \subseteq asserted
        /\ "if" \in handlers => {"then", "else"} \subseteq asserted
        /\ "contains" \in handlers /\ i > 3 => {"minContains", "maxContains"} \subseteq asserted

VARIABLES setup, contract, status, payload, outcome
policyVars == <<setup, contract, status, payload, outcome>>

None == Null

PolicyInit ==
  /\ setup \in Setups
  /\ contract = None /\ status = "none"
  /\ payload = None /\ outcome = "none"

\* SyncContractsUseCase receives a contract and puts it in the cache if it is admitted.
Adopt(doc) ==
  /\ status = "none"
  /\ contract' = doc
  /\ status' = IF Admits(doc, setup) THEN "active" ELSE "refused"
  /\ UNCHANGED <<setup, payload, outcome>>

\* A validation against the contract in force: the native stage.
Validate(p) ==
  /\ status = "active" /\ outcome = "none"
  /\ payload' = p
  /\ outcome' = IF Raises(p, contract) THEN "raised"
                ELSE IF Breaches(p, contract) = {} THEN "pass" ELSE "fail"
  /\ UNCHANGED <<setup, contract, status>>

PolicyNext == (\E doc \in Contracts : Adopt(doc)) \/ (\E p \in Payloads : Validate(p))
PolicySpec == PolicyInit /\ [][PolicyNext]_policyVars

-----------------------------------------------------------------------------
(* What the clauses of a contract say.                                     *)

\* A field name says where its value is: below other keys when it has dots, or, for a
\* property, under the literal name.
Values(f) == {payload[p] : p \in {PartsOf(f), <<f>>} \cap DOMAIN payload}

\* The declared types, bounds and choices of a property, on a value.
TypeHolds(doc, f, v) ==
  LET p == SpecOf(f) \o <<"type">>
      names == IF Kind(doc, p) = "list" THEN Below(doc, p) ELSE {p}
  IN  Present(doc, p) =>
        \E q \in names : Kind(doc, q) = "string" /\ doc[q].text \in DOMAIN KindsOf
                         /\ v.kind \in KindsOf[doc[q].text]
BoundHolds(doc, f, k, v) ==
  LET p == SpecOf(f) \o <<k>>
  IN  Present(doc, p) /\ v.kind \in {"integer", "float"} =>
        IF k \in {"min", "minimum"} THEN v.number >= doc[p].number ELSE v.number <= doc[p].number
Shadowed(doc, f, k) ==
  \/ k = "minimum" /\ Present(doc, SpecOf(f) \o <<"min">>)
  \/ k = "maximum" /\ Present(doc, SpecOf(f) \o <<"max">>)
ChoiceHolds(doc, f, v) ==
  Present(doc, SpecOf(f) \o <<"enum">>) =>
    \E q \in Below(doc, SpecOf(f) \o <<"enum">>) : SameValue(doc[q], v)

PatternHolds(doc, f, v) ==
  LET p == SpecOf(f) \o <<"pattern">>
  IN  Present(doc, p) /\ v.kind = "string" /\ doc[p].text # "" => <<doc[p].text, v.text>> \in FullMatch

\* A pass on an active contract means that every name it requires is there, no field
\* it forbids to be null is null, and every value it describes, however its field is
\* read, has a declared type, lies in every bound, is a choice and matches the pattern.  Null is
\* of every type; a bound hidden by its other spelling, and a dotted null_forbidden,
\* are the limits the README names.
PassMeansSatisfied ==
  outcome = "pass" =>
    /\ \A f \in Names(contract, <<"required">>) : PartsOf(f) \in DOMAIN payload
    /\ \A f \in Names(contract, <<"null_forbidden">>) :
         ~Dotted(f) => \A v \in Values(f) : v.kind # "null"
    /\ \A f \in Fields(contract) : \A v \in Values(f) :
         /\ v.kind # "null" => TypeHolds(contract, f, v)
         /\ ChoiceHolds(contract, f, v)
         /\ PatternHolds(contract, f, v)
         /\ \A k \in {"min", "max", "minimum", "maximum"} :
              ~Shadowed(contract, f, k) => BoundHolds(contract, f, k, v)

\* An active contract never makes the native stage raise, which would degrade every
\* validation: no rule is given a value it cannot iterate, compare, look up or compile,
\* unless one of the top-level members is null.
AdmittedEvaluates ==
  outcome = "raised" =>
    \E k \in TopLevelKeywords : Kind(contract, <<k>>) = "null"

\* WARN relaxes compatibility, never correctness: the mode decides nothing, however
\* many issues and advisories there are and wherever the report is cut.
ModeNeverAdmits ==
  \A mode \in {"strict", "warn"} :
    status # "none" => (Admits(contract, [setup EXCEPT !.mode = mode]) <=> status = "active")

\* In an active contract every reference of a schema names a place in the document, and
\* no chain of references from a schema comes back: no set of places refers into itself.
ReferencesEnd ==
  status = "active" =>
    LET referring == {p \in DOMAIN contract : RefAt(contract, p) # NoRef}
    IN  /\ \A p \in Subschemas(contract) :
             Kind(contract, Append(p, "$ref")) \notin {"absent", "null"} =>
               p \in referring /\ Resolves(contract, RefAt(contract, p))
        /\ ~\E loop \in SUBSET referring :
              /\ loop \cap Subschemas(contract) # {}
              /\ \A p \in loop : Resolves(contract, RefAt(contract, p))
                               /\ Pointers[RefAt(contract, p)] \in loop

\* The clauses of a contract: every keyword in a schema that is no documentation.
Clauses(doc) ==
  {q \in DOMAIN doc : q # <<>> /\ Front(q) \in Subschemas(doc) /\ Last(q) \notin MetadataKeywords}

\* What the library passes over at a place where it knows the keyword: one that is read
\* beside another which is not there, and, in some drafts, whatever stands beside a $ref.
\* With a clause goes what is below it.
Idle(doc, q) ==
  \/ Last(q) \in DOMAIN Composed /\ ~Present(doc, Append(Front(q), Composed[Last(q)]))
  \/ /\ setup.draft \in RefAlone /\ Last(q) # "$ref"
     /\ Kind(doc, Append(Front(q), "$ref")) \notin {"absent", "null"}
PassedOver(doc, q) ==
  \E r \in Clauses(doc) : IsPrefix(r, q) /\ Idle(doc, r)

\* The clauses a configured evaluator executes.  The rule engine reads the top level
\* and the properties; the semantic one asserts its keywords in every schema it gets to.
Executed(doc) ==
  LET inForm(q) ==
        \/ /\ Last(q) \in ExclusiveBounds
           /\ EnforcesBound(Capability(setup.draft, setup.formats), doc, Front(q), Last(q))
        \/ /\ Last(q) = "format" /\ setup.formats
           /\ Kind(doc, q) = "string" => doc[q].text \in Formats[setup.draft]
        \/ Last(q) \notin ExclusiveBounds \cup {"format"} /\ Last(q) \in Asserted[setup.draft]
  IN  {q \in Clauses(doc) :
         \/ Len(q) = 1 /\ Last(q) \in TopLevelKeywords
         \/ q = <<"type">> /\ q \notin Unenforced(doc)
         \/ Len(q) = 3 /\ q[1] = "properties" /\ Last(q) \in PropertyKeywords
         \/ setup.semantic /\ inForm(q) /\ ~PassedOver(doc, q)}

\* The clauses at the top of an active contract or in a property that admission is to
\* look at, those in the rule engine's vocabulary aside.  Findings beyond the cap of the
\* report are not looked at, and of a key with dots only what follows the last.
ForeignClauses ==
  IF status = "active" /\ Cardinality(Unenforced(contract)) <= MaxReported
  THEN {q \in Unenforced(contract) : ~Dotted(Last(q)) /\ Last(q) \notin NativeKeywords}
  ELSE {}

\* Each of these clauses is executed by the semantic evaluator as written (by the
\* configured draft, with its formats, in the form of an exclusive bound it asserts) or
\* stands where JSON Schema gives it no effect: then without if, minContains without
\* contains, a neighbour of $ref in the older drafts.  Those admission lets through.
\* A contract with a format that is no text fails check_schema.
ForeignClausesExecuted ==
  \A q \in ForeignClauses : q \in Executed(contract) \/ PassedOver(contract, q)
=============================================================================
