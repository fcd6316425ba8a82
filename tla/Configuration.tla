--------------------------- MODULE Configuration ---------------------------
(***************************************************************************)
(* CongineConfig: what the texts of the environment, or the arguments of a *)
(* direct construction, become, and which configurations are refused.  A   *)
(* field stands for its CONGINE_ variable too.  Of the fields that are     *)
(* read alike and checked nowhere one is kept for each way they are read.  *)
(***************************************************************************)
EXTENDS Integers, FiniteSets, Sequences, TLC

CONSTANTS
  Normal,     \* [text -> the text stripped and in lower case]; a text outside is its own
  Numbers,    \* [text -> the integer it reads as]
  Urls        \* [url -> [local, https : BOOLEAN]]

ASSUME NumbersAssumption == \A t \in DOMAIN Numbers : Numbers[t] \in Int
ASSUME TextsNormal == \A t \in DOMAIN Normal : Normal[t] \notin DOMAIN Normal

\* [enum field -> its wire values]
Members ==
  [region |-> {"us", "eu", "apac"}, fail_mode |-> {"strict", "degrade", "silent"},
   contract_source |-> {"http", "file"}, deployment_mode |-> {"single_tenant", "multi_tenant"},
   contract_admission |-> {"strict", "warn"}]
EnumFields == DOMAIN Members
BoolFields ==
  {"telemetry_enabled", "start_background_services", "sync_enabled", "semantic_validation_enabled",
   "require_https", "allow_cleartext"}
IntFields ==
  {"validation_timeout_ms", "validation_max_workers", "validation_max_pending", "cache_capacity",
   "breaker_failure_threshold", "drift_sample_limit", "max_contract_files"}
CapFields == {"native_validation_timeout_ms", "semantic_validation_timeout_ms"}
PathFields == {"contracts_dir", "local_contracts_dir"}
TextFields == {"api_key", "project_id", "tenant_id", "jsonschema_draft"}
Fields ==
  EnumFields \cup BoolFields \cup IntFields \cup CapFields \cup PathFields \cup TextFields \cup {"base_url"}

\* Values: an enum member is not the text that spells it.
Member(m) == [kind |-> "member", member |-> m]
Text(t) == [kind |-> "text", text |-> t]
Number(n) == [kind |-> "number", number |-> n]
Truth(b) == [kind |-> "truth", truth |-> b]
Unset == [kind |-> "none"]
Bad == [kind |-> "bad"]

Defaults ==
  [f \in Fields |->
     CASE f = "region" -> Member("us") [] f = "fail_mode" -> Member("degrade")
       [] f = "contract_source" -> Member("http") [] f = "deployment_mode" -> Member("single_tenant")
       [] f = "contract_admission" -> Member("strict")
       [] f \in {"telemetry_enabled", "start_background_services", "require_https"} -> Truth(TRUE)
       [] f \in {"sync_enabled", "semantic_validation_enabled", "allow_cleartext"} -> Truth(FALSE)
       [] f = "validation_timeout_ms" -> Number(100) [] f = "cache_capacity" -> Number(500)
       [] f = "drift_sample_limit" -> Number(500) [] f = "breaker_failure_threshold" -> Number(5)
       [] f \in {"validation_max_workers", "validation_max_pending"} -> Number(10)
       [] f = "max_contract_files" -> Number(1000)
       [] f = "jsonschema_draft" -> Text("draft202012") [] f = "base_url" -> Text("http://localhost:8080")
       [] OTHER -> Unset]

-----------------------------------------------------------------------------
(* Reading the environment: the settings, a function from fields to texts. *)

Blank == {"", " "}
TrueTexts == {"1", "true", "yes", "on"}
FalseTexts == {"0", "false", "no", "off"}
Norm(t) == IF t \in DOMAIN Normal THEN Normal[t] ELSE t

EnumValue(f, t) == IF Norm(t) \in Members[f] THEN Member(Norm(t)) ELSE Bad
IntValue(t) == IF t \in DOMAIN Numbers THEN Number(Numbers[t]) ELSE Bad
PathValue(t) == IF t \in Blank THEN Bad ELSE Text(t)

\* Mutant: a text that is not recognised means no.
BoolGuessed(t) == Truth(Norm(t) \in TrueTexts)
BoolValue(t) == IF Norm(t) \in TrueTexts \cup FalseTexts THEN Truth(Norm(t) \in TrueTexts) ELSE Bad

\* The region selects no endpoint, but naming one says that there is one.
BaseUrl(set) ==
  IF "base_url" \in DOMAIN set /\ set["base_url"] # "" THEN Text(set["base_url"])
  ELSE IF "region" \in DOMAIN set /\ set["region"] # "" THEN Bad ELSE Defaults["base_url"]

Read(f, t) ==
  CASE f \in EnumFields -> EnumValue(f, t)
    [] f \in BoolFields -> BoolValue(t)
    [] f \in IntFields \cup CapFields -> IntValue(t)
    [] f \in PathFields -> PathValue(t)
    [] OTHER -> Text(t)
FromEnv(set) ==
  [f \in Fields |->
     IF f = "base_url" THEN BaseUrl(set)
     ELSE IF f \in DOMAIN set THEN Read(f, set[f]) ELSE Defaults[f]]

\* The arguments of a direct construction.
FromCall(set) == [f \in Fields |-> IF f \in DOMAIN set THEN set[f] ELSE Defaults[f]]

-----------------------------------------------------------------------------
(* __post_init__, on both paths: normalise, then validate.                 *)

Normalized(config) ==
  [f \in Fields |->
     IF f \notin EnumFields \/ config[f].kind = "member" THEN config[f]
     ELSE IF config[f].kind = "text" THEN EnumValue(f, config[f].text) ELSE Bad]

\* True is an int of Python's, but no budget.
StageBudgetsFit(config) ==
  \A f \in CapFields :
    \/ config[f] = Unset
    \/ /\ config[f].kind = "number" /\ config[f].number > 0
       /\ config[f].number <= config["validation_timeout_ms"].number

IsLocal(config) == Urls[config["base_url"].text].local
Given(value) == value.kind = "text" /\ value.text # ""
Policy(config) ==
  \/ IsLocal(config)
  \/ /\ \A f \in {"api_key", "project_id", "tenant_id"} : Given(config[f])
     /\ \/ ~config["require_https"].truth \/ config["allow_cleartext"].truth
        \/ Urls[config["base_url"].text].https

Accepted(config) ==
  /\ \A f \in Fields : config[f] # Bad
  /\ StageBudgetsFit(config) /\ Policy(config)
=============================================================================
