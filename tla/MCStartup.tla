----------------------------- MODULE MCStartup -----------------------------
EXTENDS Startup

MCNormal == (" FILE " :> "file") @@ ("Strict" :> "strict") @@ ("TRUE" :> "true") @@ ("Off" :> "off")
MCNumbers == ("-1" :> -1) @@ ("0" :> 0) @@ ("1" :> 1) @@ ("50" :> 50) @@ ("200" :> 200)
MCUrls ==
  ("http://localhost:8080" :> [local |-> TRUE, https |-> FALSE])
  @@ ("http://plane" :> [local |-> FALSE, https |-> FALSE])
  @@ ("https://plane" :> [local |-> FALSE, https |-> TRUE])
  @@ ("" :> [local |-> FALSE, https |-> FALSE])
MCDrafts == {"draft202012", "draft7"}

\* Single settings of the environment, each a plausible text or a plausible slip.
Pairs(fields, texts) == {f :> t : f \in fields, t \in texts}
Settings ==
  Pairs({"region"}, {"eu", "mars", ""}) \cup Pairs({"fail_mode", "contract_admission"}, {"Strict", "strikt"})
  \cup Pairs({"contract_source"}, {" FILE ", "files"}) \cup Pairs({"deployment_mode"}, {"multi_tenant"})
  \cup Pairs(BoolFields, {"TRUE", "Off", "TRUE!"})
  \cup Pairs({"validation_timeout_ms"}, {"1", "ten"}) \cup Pairs(CapFields, {"50", "200", "0", ""})
  \cup Pairs({"validation_max_workers", "breaker_failure_threshold", "drift_sample_limit"}, {"0"})
  \cup Pairs({"validation_max_pending", "cache_capacity"}, {"0", "-1"})
  \cup Pairs(PathFields, {"here", "gone", ""}) \cup Pairs({"jsonschema_draft"}, {"draft7", "draft99"})
  \cup Pairs({"base_url"}, {"", "http://plane", "https://plane"})
Nothing == [f \in {} |-> ""]
Remote ==
  ("base_url" :> "https://plane") @@ ("region" :> "eu")
  @@ [f \in {"api_key", "project_id", "tenant_id"} |-> "secret"]
Env(set) == [by |-> "env", set |-> [f \in DOMAIN set |-> Text(set[f])], yaml |-> TRUE]
FromTexts ==
  {Env(a @@ b) : a, b \in Settings \cup {Nothing}} \cup {Env(a @@ Remote) : a \in Settings}
Local ==
  {[Env(("local_contracts_dir" :> "here") @@ a @@ b) EXCEPT !.yaml = y] :
     y \in BOOLEAN, a \in Pairs({"max_contract_files"}, {"-1", "0", "1", "50"}),
     b \in {Nothing} \cup Pairs({"sync_enabled"}, {"TRUE"})}
  \cup {Env(("contract_source" :> "file") @@ ("contracts_dir" :> "here") @@ a) :
          a \in Pairs({"sync_enabled"}, {"TRUE", "Off"})}

\* Arguments of a call: texts and members of enumerations, and values of other types.
Arguments ==
  {f :> v : f \in EnumFields, v \in {Text("Strict"), Text(" FILE "), Text("us"), Member("strict"), Number(1)}}
  \cup {f :> Truth(b) : f \in BoolFields, b \in BOOLEAN}
  \cup {f :> v : f \in CapFields, v \in {Number(50), Number(200), Number(0), Truth(TRUE), Text("50")}}
  \cup {f :> Text(t) : f \in PathFields, t \in {"here", ""}}
  \cup {"base_url" :> Text(t) : t \in {"", "https://plane", "http://plane"}}
  \cup {[f \in {"api_key", "project_id", "tenant_id"} |-> Text("secret")]}
Typed(set) ==
  \A f \in DOMAIN set : f \in EnumFields /\ set[f].kind = "member" => set[f].member \in Members[f]
FromValues ==
  {[by |-> "call", set |-> s, yaml |-> TRUE] : s \in {r \in {a @@ b : a, b \in Arguments} : Typed(r)}}
MCSources == FromTexts \cup Local \cup FromValues

MCJsonFiles == <<"a.json", "b.json">>
MCYamlFiles == <<"c.yml">>
MCContents == {"absent", "one", "two", "odd", "broken", "latin1"}
MCDocuments ==
  ("one" :> [kind |-> "contract", items |-> <<"a">>])
  @@ ("two" :> [kind |-> "envelope", items |-> <<"b", "no mapping", "a">>])
  @@ ("odd" :> [kind |-> "other", items |-> <<"c">>])
=============================================================================
