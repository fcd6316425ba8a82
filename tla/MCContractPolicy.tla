-------------------------- MODULE MCContractPolicy --------------------------
(* Contracts put together from a set of properties and a set of top levels, *)
(* for five drafts, with the scanner cut after two findings and the list of *)
(* issues after one.                                                        *)
EXTENDS ContractPolicy

MCSegments == ("a.b" :> <<"a", "b">>) @@ ("x.type" :> <<"x", "type">>)
              @@ ("x.items" :> <<"x", "items">>)
MCPointers == ("#/$defs/d" :> <<"$defs", "d">>) @@ ("#/$defs/e" :> <<"$defs", "e">>)
              @@ ("#" :> <<>>)
MCAnchors == {"#anchor"}
MCDraftOrder == <<"draft4", "draft6", "draft7", "draft201909", "draft202012">>
Handlers4 == {"$ref", "items", "minLength", "format", "allOf", "not", "type", "enum", "pattern",
              "minimum", "maximum", "properties", "required", "patternProperties"}
Handlers6 == Handlers4 \cup {"contains", "const", "exclusiveMinimum", "exclusiveMaximum"}
Handlers7 == Handlers6 \cup {"if"}
MCHandlers ==
  ("draft4" :> Handlers4) @@ ("draft6" :> Handlers6) @@ ("draft7" :> Handlers7)
  @@ ("draft201909" :> Handlers7) @@ ("draft202012" :> (Handlers7 \cup {"prefixItems"}))
\* The drafts' own rules on the keywords without a handler.
MCAsserted ==
  [d \in DOMAIN MCHandlers |->
     MCHandlers[d] \cup {"$defs", "definitions"}
     \cup (IF d \in {"draft4", "draft6"} THEN {} ELSE {"then", "else"})
     \cup (IF d \in {"draft201909", "draft202012"} THEN {"minContains", "maxContains"} ELSE {})]
MCRefAlone == {"draft4", "draft6", "draft7"}
MCFormats == [d \in DOMAIN MCHandlers |-> {"email"}]
MCUncompilable == {"(?=a)"}
MCOverLong == {"aaaa"}
MCFullMatch == {<<"a|b", "b">>}
MCLongTexts == {"bbbb"}
MCAlphabet ==
  <<"$defs", "$ref", "(?=a)", "a", "a.b", "contains", "contentEncoding", "enum", "exclusiveMinimum",
    "format", "if", "items", "min", "minContains", "minLength", "minimum", "pattern",
    "patternProperties", "properties", "required", "then", "type", "x.items", "x.type">>

Member(k, doc) == Object(k :> doc)
Pair(k, doc, l, other) == Object((k :> doc) @@ (l :> other))
Empty == Object([k \in {} |-> Null])
Specs ==
  {Empty, Null, Text("string"), Member("x.type", Number(1)), Member("x.items", Empty), Member("description", Text("x")),
   Member("type", Text("string")), Member("type", Text("str")), Member("type", List(<<>>)),
   Member("type", List(<<Text("integer"), Text("null")>>)),
   Member("type", List(<<Text("integer"), Text("str")>>)),
   Member("enum", List(<<Number(1), Text("b")>>)), Member("enum", Text("ab")), Member("enum", Object("b" :> Null)),
   Member("min", Number(1)), Member("maximum", Text("1")), Member("minimum", Truth(TRUE)),
   Pair("min", Number(0), "minimum", Number(1)), Member("max", Number(0)),
   Member("pattern", Text("a|b")), Member("pattern", Text("(?=a)")),
   Member("pattern", Text("aaaa")), Member("pattern", Number(1)),
   Member("format", Text("email")), Member("format", Text("unknown")),
   Member("exclusiveMinimum", Number(1)), Member("exclusiveMinimum", Truth(TRUE)),
   Pair("exclusiveMinimum", Truth(TRUE), "minimum", Number(1)),
   Pair("contains", Empty, "minContains", Number(2)), Pair("if", Empty, "then", Empty), Member("then", Empty),
   Pair("$ref", Text("#/$defs/d"), "minLength", Number(1)),
   Member("contentEncoding", Text("x")), Member("minLength", Number(1)),
   Pair("contentEncoding", Text("x"), "minLength", Number(1)),
   Object(("contentEncoding" :> Text("x")) @@ ("contains" :> Empty) @@ ("minLength" :> Number(1))),
   Member("properties", Member("a", Member("type", Text("string")))),
   Member("required", List(<<Text("a")>>)),
   Member("items", Member("pattern", Text("(?=a)"))),
   Member("patternProperties", Member("(?=a)", Empty)),
   Member("$ref", Text("#/$defs/d")), Member("$ref", Text("#anchor")),
   Member("$ref", Text("http://x")), Member("$ref", Number(1)), Member("$ref", Text("#"))}
Tops ==
  {Empty, Member("required", List(<<Text("a")>>)), Member("required", List(<<Text("a.b")>>)),
   Member("required", Text("ab")), Member("required", Number(1)), Member("required", Null),
   Member("required", List(<<Number(1)>>)),
   Member("null_forbidden", List(<<Text("a")>>)), Member("null_forbidden", List(<<Text("a.b")>>)),
   Pair("null_forbidden", List(<<Text("a")>>), "required", List(<<Number(1), Number(2)>>)),
   Member("null_forbidden", Null), Member("null_forbidden", List(<<Empty>>)), Member("type", Text("object")), Member("type", Text("array")),
   Member("pattern", Text("a|b")),
   Member("$defs", Member("d", Empty)),
   Member("$defs", Member("d", Member("$ref", Text("#/$defs/d")))),
   Member("$defs", Pair("d", Member("$ref", Text("#/$defs/e")), "e", Member("$ref", Text("#/$defs/d")))),
   Member("$defs", Pair("d", Member("$ref", Text("#/$defs/e")), "e", Member("minLength", Number(1))))}

MCContracts ==
  {Null, Member("properties", Null), Member("properties", List(<<>>))} \cup Tops
  \cup {ps @@ top :
          top \in Tops, ps \in {Member("properties", Member("a", s)) : s \in Specs}
                           \cup {Member("properties", Member("a.b", s)) : s \in {Member("type", Text("string"))}}}
MCPayloads ==
  {List(<<>>), Empty, Member("a", Null), Member("a", Text("b")), Member("a", Text("bbbb")),
   Member("a", Number(0)), Member("a", Number(1)), Member("a", Truth(TRUE)),
   Member("a", Member("b", Number(1))), Member("a", Member("b", Null)), Member("a.b", Number(1))}
MCSetups ==
  {[semantic |-> FALSE, draft |-> "draft202012", formats |-> FALSE, mode |-> m] : m \in {"strict", "warn"}}
  \cup {[semantic |-> TRUE, draft |-> d, formats |-> f, mode |-> "strict"] :
          d \in DOMAIN MCHandlers, f \in BOOLEAN}
=============================================================================
