------------------------------ MODULE Startup ------------------------------
(***************************************************************************)
(* From the environment to a container at work: the configuration, the     *)
(* construction of the container's components in their order, which is     *)
(* rolled back as a whole when a step fails, and the boot, which for a     *)
(* file repository reads a directory its owner may be editing.             *)
(***************************************************************************)
EXTENDS Configuration, Sublists

CONSTANTS
  Sources,       \* what is configured from, and whether PyYAML is installed:
                 \* [by : {"env", "call"}, set, yaml : BOOLEAN]
  Drafts,        \* the dialect texts _resolve_draft knows
  JsonFiles, YamlFiles,   \* the paths there may be, each in sorted order
  Contents,      \* what a file may hold, Absent included
  Absent,
  Documents,     \* [content that parses -> [kind, items]]
  Undecodable,   \* the contents that are no UTF-8
  NotAMapping,   \* an item of a document that is no mapping
  DirectoryThere,  \* the paths that are directories
  MaxEdits       \* bound of the model

ASSUME FilesAssumption ==
  /\ Absent \in Contents \ (DOMAIN Documents \cup Undecodable)
  /\ DOMAIN Documents \cup Undecodable \subseteq Contents
  /\ DOMAIN Documents \cap Undecodable = {} /\ MaxEdits \in Nat
\* The environment gives texts; a call gives members of the enumerations, or whatever
\* else, but a truth value or an integer where one is declared; None is nothing given.
ASSUME SourcesAssumption ==
  \A s \in Sources :
    /\ DOMAIN s.set \subseteq Fields /\ s.by \in {"env", "call"}
    /\ \A f \in DOMAIN s.set :
         /\ s.set[f] # Unset
         /\ s.by = "env" => s.set[f] = Text(s.set[f].text)
         /\ s.by = "call" /\ f \in BoolFields => s.set[f] \in {Truth(TRUE), Truth(FALSE)}
         /\ s.by = "call" /\ f \in IntFields =>
              s.set[f] = Number(s.set[f].number) /\ s.set[f].number \in Int
         /\ s.by = "call" /\ f \in EnumFields /\ s.set[f].kind = "member" =>
              \E m \in Members[f] : s.set[f] = Member(m)

Order ==
  <<"executor", "cache", "breaker", "repository", "bus", "semantic", "drift", "usecases", "worker">>
Parts == {Order[i] : i \in DOMAIN Order}
Position(c) == CHOOSE i \in DOMAIN Order : Order[i] = c
Stoppable == {"worker", "executor", "bus", "cache"}
Files == {JsonFiles[i] : i \in DOMAIN JsonFiles} \cup {YamlFiles[i] : i \in DOMAIN YamlFiles}
ASSUME ListingsAssumption ==
  /\ JsonFiles \in Seq(Files) /\ YamlFiles \in Seq(Files)
  /\ \A c \in DOMAIN Documents : Documents[c].items \in Seq(ToSet(Documents[c].items))
Phases ==
  {"given", "building", "failed", "refused", "starting", "ready", "json", "yaml", "booted", "raised"}

VARIABLES
  source,      \* the settings and where they come from
  config,
  phase,
  owners,      \* [component -> absent, built, running, stopped]
  exitHooks,   \* the components with an exit hook
  armed,       \* the finalizer
  repository,  \* http or file, once built
  directory,   \* [file -> content]
  listing,     \* the files still to be read
  read,        \* the files read
  edited,      \* history: the files edited since the boot began
  loaded       \* the contracts read
buildVars == <<owners, exitHooks, armed, repository>>
fileVars == <<directory, listing, read, edited, loaded>>
startupVars == <<source, config, phase, buildVars, fileVars>>

StartupInit ==
  /\ source \in Sources /\ config = Defaults /\ phase = "given"
  /\ owners = [c \in Parts |-> "absent"] /\ exitHooks = {} /\ armed = FALSE
  /\ repository = "none"
  /\ directory = [f \in Files |-> Absent] /\ listing = <<>> /\ read = <<>>
  /\ edited = {} /\ loaded = <<>>

On(f) == config[f].truth

-----------------------------------------------------------------------------
(* CongineConfig.from_env, and direct construction.                        *)

Configure(by, made) ==
  /\ phase = "given" /\ source.by = by
  /\ config' = Normalized(made)
  /\ phase' = IF Accepted(Normalized(made)) THEN "building" ELSE "refused"
  /\ UNCHANGED <<source, buildVars, fileVars>>

FromEnvironment == Configure("env", FromEnv([f \in DOMAIN source.set |-> source.set[f].text]))
Construct == Configure("call", FromCall(source.set))

-----------------------------------------------------------------------------
(* _initialize_components: one step for each component, then the workers.  *)

Accepts(c) ==
  CASE c = "executor" ->
         config["validation_max_workers"].number > 0 /\ config["validation_max_pending"].number >= 0
    [] c = "cache" -> config["cache_capacity"].number >= 0
    [] c = "breaker" -> config["breaker_failure_threshold"].number > 0
    [] c = "semantic" -> config["jsonschema_draft"].text \in Drafts
    [] c = "drift" -> config["drift_sample_limit"].number > 0
    [] OTHER -> TRUE

Standalone == config["local_contracts_dir"] # Unset
FromFiles ==
  Standalone \/ (config["contract_source"] = Member("file") /\ config["contracts_dir"] # Unset)
\* Standalone, there is no sync worker; without telemetry, the bus is one that does nothing.
Needed(c) ==
  CASE c = "worker" -> ~Standalone [] c = "bus" -> On("telemetry_enabled") [] OTHER -> TRUE
ToBuild == {c \in Parts : Needed(c) /\ owners[c] = "absent"}
Workers == {c \in {"cache", "bus"} : On("start_background_services") /\ Needed(c)}

BuildPart(c) ==
  /\ phase = "building" /\ c \in ToBuild /\ Accepts(c)
  /\ \A d \in ToBuild : Position(c) <= Position(d)
  /\ owners' = [owners EXCEPT ![c] = "built"]
  /\ exitHooks' = exitHooks \cup (IF On("start_background_services") THEN {c} \cap {"executor"} ELSE {})
  /\ repository' = IF c # "repository" THEN repository ELSE IF FromFiles THEN "file" ELSE "http"
  /\ phase' = IF ToBuild = {c} THEN "starting" ELSE phase
  /\ UNCHANGED <<source, config, armed, fileVars>>

\* The cache's sweeper, then the bus.
StartWorker(c) ==
  /\ phase = "starting" /\ c \in Workers /\ owners[c] = "built"
  /\ c = "bus" => owners["cache"] = "running"
  /\ owners' = [owners EXCEPT ![c] = "running"] /\ exitHooks' = exitHooks \cup {c}
  /\ UNCHANGED <<source, config, phase, armed, repository, fileVars>>

\* A constructor refuses its arguments, a thread does not start, or an interrupt arrives.
Fail ==
  /\ phase \in {"building", "starting"} /\ phase' = "failed"
  /\ UNCHANGED <<source, config, buildVars, fileVars>>

\* Mutant: only what was started is stopped.
RollbackStarted ==
  /\ phase = "failed" /\ phase' = "refused"
  /\ owners' = [c \in Parts |-> IF owners[c] = "running" THEN "stopped" ELSE owners[c]]
  /\ exitHooks' = {c \in exitHooks : owners[c] # "running"}
  /\ UNCHANGED <<source, config, armed, repository, fileVars>>

Rollback ==
  /\ phase = "failed" /\ phase' = "refused"
  /\ owners' = [c \in Parts |->
                  IF c \in Stoppable /\ owners[c] # "absent" THEN "stopped" ELSE owners[c]]
  /\ exitHooks' = exitHooks \ {c \in Stoppable : owners[c] # "absent"}
  /\ UNCHANGED <<source, config, armed, repository, fileVars>>

\* The last statement of the construction.
Arm ==
  /\ phase = "starting" /\ \A c \in Workers : owners[c] = "running"
  /\ armed' = TRUE /\ phase' = "ready"
  /\ UNCHANGED <<source, config, owners, exitHooks, repository, fileVars>>

-----------------------------------------------------------------------------
(* bootstrap, with FileContractRepository.fetch_active_contracts.          *)

Present(d) == {f \in Files : d[f] # Absent}
\* seq[:n]; a negative n counts from the end.
Cut(seq, n) ==
  SubSeq(seq, 1, IF n < 0 THEN Len(seq) + n ELSE IF Len(seq) < n THEN Len(seq) ELSE n)
ContractsDir ==
  IF Standalone THEN config["local_contracts_dir"].text ELSE config["contracts_dir"].text
MaxFiles == config["max_contract_files"].number

\* Once the pass is over the sync worker starts, if there is one and it is asked for.
FinishBoot ==
  /\ phase' = "booted"
  /\ owners' = IF On("sync_enabled") /\ ~Standalone THEN [owners EXCEPT !["worker"] = "running"] ELSE owners
  /\ exitHooks' = exitHooks \cup {c \in {"worker"} : On("sync_enabled") /\ ~Standalone}
  /\ UNCHANGED <<source, config, armed, repository>>

\* With the HTTP repository the pass is ContractSync's.
BootRemote ==
  /\ phase = "ready"
  /\ repository = "file" => ContractsDir \notin DirectoryThere
  /\ FinishBoot /\ UNCHANGED fileVars

ListJson(d) ==
  /\ phase = "ready" /\ repository = "file" /\ ContractsDir \in DirectoryThere
  /\ phase' = "json" /\ directory' = d
  /\ listing' = Cut(Only(JsonFiles, Present(d)), MaxFiles)
  /\ UNCHANGED <<source, config, buildVars, read, edited, loaded>>

\* What the JSON files have left of the allowance; without PyYAML nothing.
ListYaml ==
  /\ phase = "json" /\ listing = <<>>
  /\ phase' = "yaml"
  /\ listing' = IF source.yaml /\ MaxFiles > Len(read)
                THEN Cut(Only(YamlFiles, Present(directory)), MaxFiles - Len(read)) ELSE <<>>
  /\ UNCHANGED <<source, config, buildVars, directory, read, edited, loaded>>

Extract(content) ==
  LET document == Documents[content]
  IN  CASE document.kind \in {"envelope", "list"} ->
             Only(document.items, ToSet(document.items) \ {NotAMapping})
        [] document.kind = "contract" -> document.items
        [] OTHER -> <<>>

\* What a file adds: one that is gone, too large or malformed is skipped.
Offered(f) == IF directory[f] \in DOMAIN Documents THEN Extract(directory[f]) ELSE <<>>

\* Mutant: the first file that cannot be read ends the pass.
ReadFileOrStop ==
  /\ phase \in {"json", "yaml"} /\ listing # <<>>
  /\ directory[Head(listing)] \notin Undecodable
  /\ listing' = IF directory[Head(listing)] \in DOMAIN Documents THEN Tail(listing) ELSE <<>>
  /\ loaded' = loaded \o Offered(Head(listing))
  /\ read' = Append(read, Head(listing))
  /\ UNCHANGED <<source, config, phase, buildVars, directory, edited>>

ReadFile ==
  /\ phase \in {"json", "yaml"} /\ listing # <<>>
  /\ directory[Head(listing)] \notin Undecodable
  /\ loaded' = loaded \o Offered(Head(listing))
  /\ listing' = Tail(listing) /\ read' = Append(read, Head(listing))
  /\ UNCHANGED <<source, config, phase, buildVars, directory, edited>>

\* UnicodeDecodeError is none of the errors that are handled: the boot raises.
ReadUndecodable ==
  /\ phase \in {"json", "yaml"} /\ listing # <<>> /\ directory[Head(listing)] \in Undecodable
  /\ phase' = "raised"
  /\ UNCHANGED <<source, config, buildVars, fileVars>>

BootFiles ==
  /\ phase = "yaml" /\ listing = <<>>
  /\ FinishBoot /\ UNCHANGED fileVars

\* The owner of the directory writes or removes a file meanwhile.
Edit(f, content) ==
  /\ phase \in {"json", "yaml"} /\ Cardinality(edited) < MaxEdits /\ content # directory[f]
  /\ directory' = [directory EXCEPT ![f] = content] /\ edited' = edited \cup {f}
  /\ UNCHANGED <<source, config, phase, buildVars, listing, read, loaded>>

Boot ==
  \/ BootRemote \/ (\E d \in [Files -> Contents] : ListJson(d))
  \/ ListYaml \/ ReadFile \/ ReadUndecodable \/ BootFiles
StartupNext ==
  \/ FromEnvironment \/ Construct
  \/ (\E c \in Parts : BuildPart(c) \/ StartWorker(c)) \/ Fail \/ Rollback \/ Arm
  \/ Boot \/ (\E f \in Files, content \in Contents : Edit(f, content))
StartupSpec == StartupInit /\ [][StartupNext]_startupVars

-----------------------------------------------------------------------------
(* Properties.                                                             *)

StartupTypeOK ==
  /\ source \in Sources /\ phase \in Phases /\ DOMAIN config = Fields
  /\ owners \in [Parts -> {"absent", "built", "running", "stopped"}]
  /\ exitHooks \subseteq Parts /\ armed \in BOOLEAN
  /\ repository \in {"none", "http", "file"}
  /\ directory \in [Files -> Contents] /\ listing \in Seq(Files) /\ read \in Seq(Files)
  /\ edited \subseteq Files

\* A construction leaves a whole container or nothing: wherever it fails, no pool, no
\* thread and no exit hook stays behind; a container that is handed out has every
\* component it needs, runs the workers that were asked for, and cleans up after itself.
WholeOrNothing ==
  /\ phase = "refused" =>
       /\ \A c \in Stoppable : owners[c] \in {"absent", "stopped"}
       /\ exitHooks = {} /\ ~armed
  /\ armed =>
       /\ \A c \in Parts : owners[c] = "absent" <=> ~Needed(c)
       /\ \A c \in Workers : owners[c] = "running" /\ c \in exitHooks

\* What a setting says, by whichever way it was given.
Written(f) == f \in DOMAIN source.set
Says(f) ==
  CASE source.set[f].kind = "member" -> source.set[f].member
    [] source.set[f].kind = "text" -> Norm(source.set[f].text)
    [] source.set[f].kind = "truth" -> IF source.set[f].truth THEN "true" ELSE "false"
    [] OTHER -> "something"

\* A container is what its settings say, whether they came from the environment or from a
\* call: an enumerated setting is the member it spells, a switch is on or off because it
\* says so, and no typo and no blank decides where contracts come from, whether there is
\* a network loop, or which threads run.
TopologyAsWritten ==
  armed =>
    /\ \A f \in EnumFields : config[f] = IF Written(f) THEN Member(Says(f)) ELSE Defaults[f]
    /\ \A f \in BoolFields : Written(f) => Says(f) \in IF On(f) THEN TrueTexts ELSE FalseTexts
    /\ repository = "file" <=>
         \/ Written("local_contracts_dir")
         \/ Written("contract_source") /\ Says("contract_source") = "file" /\ Written("contracts_dir")
    /\ owners["bus"] = "absent" <=>
         Written("telemetry_enabled") /\ Says("telemetry_enabled") \in FalseTexts
    /\ owners["worker"] = "absent" <=> Written("local_contracts_dir")
    /\ owners["worker"] = "running" => Written("sync_enabled") /\ Says("sync_enabled") \in TrueTexts
    /\ Written("start_background_services") /\ Says("start_background_services") \in FalseTexts =>
         \A c \in Parts \ {"worker"} : owners[c] # "running"

\* A boot from files loads the contracts of the first files there are, in their order, and
\* one that cannot be read hides no other; if files change meanwhile, still those of
\* every well-formed file that does not, unless the allowance is too small for all.
BootLoads ==
  phase = "booted" /\ repository = "file" /\ ContractsDir \in DirectoryThere =>
    LET order == JsonFiles \o (IF source.yaml THEN YamlFiles ELSE <<>>)
        first == Cut(Only(order, Present(directory)), MaxFiles)
    IN  /\ edited = {} /\ MaxFiles >= 0 => loaded = FlattenSeq([i \in DOMAIN first |-> Offered(first[i])])
        /\ MaxFiles >= Len(order) => \A f \in ToSet(order) \ edited : ToSet(Offered(f)) \subseteq ToSet(loaded)
=============================================================================
