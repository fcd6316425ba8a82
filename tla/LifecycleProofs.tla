-------------------------- MODULE LifecycleProofs --------------------------
(***************************************************************************)
(* Proofs about the life of containers, for any threads, tenants, size of  *)
(* the registry and number of containers, every configuration, every       *)
(* directory and every point at which a step may fail: a construction is   *)
(* all or nothing and what the settings spell, a boot from a directory     *)
(* loads every file it should, nothing in use is torn down, and nothing is *)
(* torn down both by close() and by its finalizer.                         *)
(***************************************************************************)
EXTENDS Startup, ServiceContainer, SequenceLemmas

-----------------------------------------------------------------------------
(* Sequences and what is in them.                                          *)

\* A concatenation has the elements of both.
LEMMA Joined ==
  ASSUME NEW S, NEW s \in Seq(S), NEW r \in Seq(S)
  PROVE  ToSet(s \o r) = ToSet(s) \cup ToSet(r)
<1>1. ASSUME NEW x \in ToSet(s) PROVE x \in ToSet(s \o r)
  <2>1. PICK i \in 1..Len(s) : x = s[i]
    BY <1>1 DEF ToSet
  <2>2. i \in 1..Len(s \o r) /\ (s \o r)[i] = s[i]
    BY <2>1
  <2> QED BY <2>1, <2>2 DEF ToSet
<1>2. ASSUME NEW x \in ToSet(r) PROVE x \in ToSet(s \o r)
  <2>1. PICK i \in 1..Len(r) : x = r[i]
    BY <1>2 DEF ToSet
  <2>2. Len(s) + i \in 1..Len(s \o r) /\ (s \o r)[Len(s) + i] = r[i]
    BY <2>1
  <2> QED BY <2>1, <2>2 DEF ToSet
<1>3. ASSUME NEW x \in ToSet(s \o r) PROVE x \in ToSet(s) \cup ToSet(r)
  <2>1. PICK i \in 1..Len(s \o r) : x = (s \o r)[i]
    BY <1>3 DEF ToSet
  <2>2. CASE i <= Len(s)
    BY <2>1, <2>2 DEF ToSet
  <2>3. CASE i > Len(s)
    <3>1. i - Len(s) \in 1..Len(r) /\ (s \o r)[i] = r[i - Len(s)]
      BY <2>1, <2>3
    <3> QED BY <2>1, <3>1 DEF ToSet
  <2> QED BY <2>2, <2>3
<1> QED BY <1>1, <1>2, <1>3

\* Appending adds the one element.
LEMMA Appended ==
  ASSUME NEW S, NEW s \in Seq(S), NEW e \in S
  PROVE  Append(s, e) \in Seq(S) /\ ToSet(Append(s, e)) = ToSet(s) \cup {e}
<1>1. /\ Append(s, e) \in Seq(S) /\ Len(Append(s, e)) = Len(s) + 1
      /\ Append(s, e)[Len(s) + 1] = e /\ Len(s) \in Nat
      /\ \A i \in 1..Len(s) : Append(s, e)[i] = s[i]
  OBVIOUS
<1>2. ToSet(s) = {s[i] : i \in 1..Len(s)}
  BY DEF ToSet
<1>3. ToSet(Append(s, e)) = {Append(s, e)[i] : i \in 1..Len(s) + 1}
  BY <1>1 DEF ToSet
<1> DEFINE a == Append(s, e)
<1> HIDE DEF a
<1>4. {a[i] : i \in 1..Len(s) + 1} = {s[i] : i \in 1..Len(s)} \cup {e}
  <2>1. 1..Len(s) + 1 = 1..Len(s) \cup {Len(s) + 1}
    BY <1>1
  <2> QED BY <1>1, <2>1 DEF a
<1> QED BY <1>1, <1>2, <1>3, <1>4 DEF a

\* The head is an element, and the tail has no others.
LEMMA HeadAndTail ==
  ASSUME NEW S, NEW s \in Seq(S), s # <<>>
  PROVE  /\ Head(s) \in S /\ Head(s) \in ToSet(s)
         /\ Tail(s) \in Seq(S) /\ ToSet(Tail(s)) \subseteq ToSet(s)
         /\ Len(s) # 1 => Tail(s) # <<>>
<1>1. Head(s) \in ToSet(s) /\ Tail(s) \in Seq(S) /\ ToSet(Tail(s)) \subseteq ToSet(s)
  BY DEF ToSet
<1>2. Head(s) \in S /\ Len(Tail(s)) = Len(s) - 1 /\ Len(s) \in Nat
  OBVIOUS
<1>3. Len(s) # 1 => Tail(s) # <<>>
  <2>1. Len(s) # 1 => Len(Tail(s)) # 0
    BY <1>2
  <2>2. Len(<<>>) = 0
    OBVIOUS
  <2> QED BY <2>1, <2>2, Zenon
<1> QED BY <1>1, <1>2, <1>3

\* A sequence of one element.
LEMMA Single ==
  ASSUME NEW S, NEW e \in S
  PROVE  <<e>> \in Seq(S) /\ ToSet(<<e>>) = {e} /\ <<e>> # <<>>
<1>1. ToSet(<<e>>) = {e}
  BY DEF ToSet
<1>2. <<e>> \in Seq(S) /\ <<e>> # <<>>
  OBVIOUS
<1> QED BY <1>1, <1>2

\* Nothing is in the empty sequence.
LEMMA NothingIn == ToSet(<<>>) = {}
BY DEF ToSet

\* A sequence without one of its positions has no other elements.
LEMMA RemoveAtElements ==
  ASSUME NEW S, NEW s \in Seq(S), NEW k \in 1..Len(s)
  PROVE  RemoveAt(s, k) \in Seq(S) /\ ToSet(RemoveAt(s, k)) \subseteq ToSet(s)
<1> DEFINE front == SubSeq(s, 1, k - 1)
           back == SubSeq(s, k + 1, Len(s))
<1>1. front \in Seq(S) /\ Len(front) = k - 1 /\ \A i \in 1..(k - 1) : front[i] = s[i]
  OBVIOUS
<1>2. back \in Seq(S) /\ Len(back) = Len(s) - k /\ \A i \in 1..(Len(s) - k) : back[i] = s[i + k]
  OBVIOUS
<1>3. RemoveAt(s, k) = front \o back
  BY DEF RemoveAt
<1> HIDE DEF front, back
<1>4. ToSet(front) \subseteq ToSet(s)
  <2>1. Len(s) \in Nat /\ k - 1 <= Len(s)
    OBVIOUS
  <2>2. DOMAIN front = 1..(k - 1) /\ DOMAIN s = 1..Len(s)
    BY <1>1
  <2>3. ToSet(front) = {front[i] : i \in 1..(k - 1)} /\ ToSet(s) = {s[i] : i \in 1..Len(s)}
    BY <2>2, Zenon DEF ToSet
  <2> QED BY <1>1, <2>1, <2>3
<1>5. ToSet(back) \subseteq ToSet(s)
  <2>1. \A i \in 1..(Len(s) - k) : i + k \in 1..Len(s)
    OBVIOUS
  <2>2. DOMAIN back = 1..(Len(s) - k) /\ DOMAIN s = 1..Len(s)
    BY <1>2
  <2>3. ToSet(back) = {back[i] : i \in 1..(Len(s) - k)} /\ ToSet(s) = {s[i] : i \in 1..Len(s)}
    BY <2>2, Zenon DEF ToSet
  <2> QED BY <1>2, <2>1, <2>3
<1>6. front \o back \in Seq(S)
  BY <1>1, <1>2
<1>7. ToSet(front \o back) = ToSet(front) \cup ToSet(back)
  <2>1. front \in Seq(S) /\ back \in Seq(S)
    BY <1>1, <1>2
  <2> QED BY <2>1, Joined
<1> QED BY <1>3, <1>4, <1>5, <1>6, <1>7

-----------------------------------------------------------------------------
(* The construction of a container.                                        *)

Whole == {"starting", "ready", "json", "yaml", "booted", "raised"}

\* What a component is known to be: it has a hook only if it is one that can be stopped and
\* exists, one that runs has its hook, and one that is not needed is never built.
Owned ==
  /\ owners \in [Parts -> {"absent", "built", "running", "stopped"}]
  /\ phase \in Phases /\ armed \in BOOLEAN
  /\ exitHooks \subseteq {c \in Stoppable : owners[c] # "absent"}
  /\ \A c \in Parts : owners[c] = "running" => c \in exitHooks
  /\ \A c \in Parts : ~Needed(c) => owners[c] = "absent"

\* What the phases say of all the components together.
Staged ==
  /\ phase = "given" => \A c \in Parts : owners[c] = "absent"
  /\ phase \in Whole => \A c \in Parts : Needed(c) => owners[c] # "absent"
  /\ phase = "refused" => exitHooks = {} /\ \A c \in Stoppable : owners[c] \in {"absent", "stopped"}
  /\ armed => phase \in Whole \ {"starting"} /\ \A c \in Workers : owners[c] = "running"

StartupInv == Owned /\ Staged

\* The components, spelled out.
LEMMA ComponentsSpelled ==
  /\ Parts =
       {"executor", "cache", "breaker", "repository", "bus", "semantic", "drift", "usecases", "worker"}
  /\ Stoppable \subseteq Parts
  /\ Workers \subseteq {"cache", "bus"} /\ Workers \subseteq Stoppable
  /\ \A c \in Workers : Needed(c)
<1>1. DOMAIN Order = 1..9
  BY DEF Order
<1>2. Parts =
       {"executor", "cache", "breaker", "repository", "bus", "semantic", "drift", "usecases", "worker"}
  BY <1>1 DEF Parts, Order
<1> QED
  BY <1>2 DEF Stoppable, Workers

\* The invariant holds at the beginning.
LEMMA StartupInitially == StartupInit => StartupInv
BY DEF StartupInit, StartupInv, Owned, Staged, Whole, Phases

\* A step before the boot keeps it: the configuration, the construction and its rollback.
LEMMA ConstructionKeeps ==
  ASSUME StartupInv,
         \/ FromEnvironment \/ Construct
         \/ (\E c \in Parts : BuildPart(c) \/ StartWorker(c)) \/ Fail \/ Rollback \/ Arm
  PROVE  StartupInv'
<1> USE ComponentsSpelled DEF StartupInv
<1>1. CASE FromEnvironment \/ Construct
  <2>1. /\ phase = "given" /\ phase' \in {"building", "refused"}
        /\ owners' = owners /\ exitHooks' = exitHooks /\ armed' = armed
    BY <1>1 DEF FromEnvironment, Construct, Configure, buildVars
  <2> QED BY <2>1 DEF Owned, Staged, Whole, Phases
<1>2. ASSUME NEW c \in Parts, BuildPart(c) PROVE StartupInv'
  <2>1. Needed(c) /\ owners[c] = "absent" /\ ~armed /\ phase = "building" /\ config' = config
    BY <1>2 DEF BuildPart, ToBuild, Owned, Staged, Whole
  <2>2. \A d \in Parts : owners'[d] = IF d = c THEN "built" ELSE owners[d]
    BY <1>2 DEF BuildPart, Owned
  <2>3. \A d \in Parts : Needed(d)' <=> Needed(d)
    BY <2>1 DEF Needed, Standalone, On
  <2>4. phase' \in {"building", "starting"} /\ armed' = armed
    BY <1>2, <2>1 DEF BuildPart
  <2>5. phase' = "starting" => ToBuild = {c}
    BY <1>2, <2>1 DEF BuildPart
  <2>6. exitHooks \subseteq exitHooks' /\ exitHooks' \subseteq exitHooks \cup ({c} \cap {"executor"})
    BY <1>2 DEF BuildPart
  <2>7. Owned'
    <3>1. owners' \in [Parts -> {"absent", "built", "running", "stopped"}]
      BY <1>2 DEF BuildPart, Owned
    <3>2. exitHooks' \subseteq {d \in Stoppable : owners'[d] # "absent"}
      BY <2>2, <2>6 DEF Owned, Stoppable
    <3> QED
      BY <2>1, <2>2, <2>3, <2>4, <2>6, <3>1, <3>2 DEF Owned, Phases
  <2>8. Staged'
    BY <2>1, <2>2, <2>3, <2>4, <2>5 DEF Staged, Whole, ToBuild
  <2> QED
    BY <2>7, <2>8
<1>3. ASSUME NEW c \in Parts, StartWorker(c) PROVE StartupInv'
  <2>1. c \in Workers /\ owners[c] = "built" /\ phase = "starting" /\ phase' = phase
        /\ armed' = armed /\ config' = config /\ exitHooks' = exitHooks \cup {c}
    BY <1>3 DEF StartWorker
  <2>2. \A d \in Parts : owners'[d] = IF d = c THEN "running" ELSE owners[d]
    BY <1>3 DEF StartWorker, Owned
  <2>3. (\A d \in Parts : Needed(d)' <=> Needed(d)) /\ Workers' = Workers
    BY <2>1 DEF Needed, Standalone, On, Workers
  <2>4. Owned'
    <3>1. owners' \in [Parts -> {"absent", "built", "running", "stopped"}]
      BY <1>3 DEF StartWorker, Owned
    <3> QED
      BY <2>1, <2>2, <2>3, <3>1 DEF Owned, Stoppable
  <2>5. Staged'
    BY <2>1, <2>2, <2>3 DEF Staged, Whole
  <2> QED
    BY <2>4, <2>5
<1>4. CASE Fail
  BY <1>4 DEF Fail, buildVars, Owned, Staged, Whole, Phases, Needed, Standalone, On, Workers
<1>5. CASE Rollback
  <2>1. phase = "failed" /\ phase' = "refused" /\ armed' = armed /\ config' = config /\ ~armed
    BY <1>5 DEF Rollback, Staged, Whole
  <2>2. \A c \in Parts :
          owners'[c] = IF c \in Stoppable /\ owners[c] # "absent" THEN "stopped" ELSE owners[c]
    BY <1>5 DEF Rollback
  <2>3. exitHooks' = {}
    BY <1>5 DEF Rollback, Owned
  <2>4. \A c \in Parts : Needed(c)' <=> Needed(c)
    BY <2>1 DEF Needed, Standalone, On
  <2>5. owners' \in [Parts -> {"absent", "built", "running", "stopped"}]
    BY <1>5 DEF Rollback, Owned
  <2>6. \A c \in Parts : owners'[c] # "running"
    BY <2>2 DEF Owned
  <2> QED
    BY <2>1, <2>2, <2>3, <2>4, <2>5, <2>6 DEF Owned, Staged, Whole, Phases
<1>6. CASE Arm
  BY <1>6 DEF Arm, Owned, Staged, Whole, Phases, Needed, Standalone, On, Workers
<1> QED
  BY <1>1, <1>2, <1>3, <1>4, <1>5, <1>6

\* The end of the boot starts the sync worker, if there is one.
LEMMA FinishBootKeeps ==
  ASSUME StartupInv, phase \in Whole, FinishBoot
  PROVE  StartupInv'
<1> USE ComponentsSpelled DEF StartupInv
<1>1. phase' = "booted" /\ armed' = armed /\ config' = config
  BY DEF FinishBoot
<1>2. (\A c \in Parts : Needed(c)' <=> Needed(c)) /\ Workers' = Workers
  BY <1>1 DEF Needed, Standalone, On, Workers
<1>3. CASE On("sync_enabled") /\ ~Standalone
  <2>1. Needed("worker") /\ owners["worker"] # "absent"
    BY <1>3 DEF Needed, Staged
  <2>2. owners' = [owners EXCEPT !["worker"] = "running"] /\ exitHooks' = exitHooks \cup {"worker"}
    BY <1>3 DEF FinishBoot
  <2> QED
    BY <1>1, <1>2, <2>1, <2>2 DEF Owned, Staged, Whole, Phases, Stoppable
<1>4. CASE ~(On("sync_enabled") /\ ~Standalone)
  <2>1. owners' = owners /\ exitHooks' = exitHooks
    BY <1>4 DEF FinishBoot
  <2> QED
    BY <1>1, <1>2, <2>1 DEF Owned, Staged, Whole, Phases
<1> QED
  BY <1>3, <1>4

\* Every step keeps the invariant.
LEMMA StartupStep == StartupInv /\ [StartupNext]_startupVars => StartupInv'
<1> SUFFICES ASSUME StartupInv, [StartupNext]_startupVars PROVE StartupInv'
  OBVIOUS
<1>1. ASSUME phase \in Whole \ {"starting"}, phase' \in Whole \ {"starting"}, config' = config,
             UNCHANGED buildVars
      PROVE  StartupInv'
  BY <1>1 DEF buildVars, StartupInv, Owned, Staged, Whole, Phases, Needed, Standalone, On, Workers
<1>2. CASE BootRemote \/ BootFiles
  BY <1>2, FinishBootKeeps DEF BootRemote, BootFiles, Whole
<1>3. ASSUME NEW d \in [Files -> Contents], ListJson(d) PROVE StartupInv'
  BY <1>1, <1>3 DEF ListJson, Whole
<1>4. CASE ListYaml
  BY <1>1, <1>4 DEF ListYaml, Whole
<1>5. CASE ReadFile
  BY <1>1, <1>5 DEF ReadFile, Whole
<1>6. CASE ReadUndecodable
  BY <1>1, <1>6 DEF ReadUndecodable, Whole
<1>7. ASSUME NEW f \in Files, NEW content \in Contents, Edit(f, content) PROVE StartupInv'
  BY <1>1, <1>7 DEF Edit, Whole
<1>8. CASE UNCHANGED startupVars
  BY <1>8 DEF startupVars, buildVars, StartupInv, Owned, Staged, Needed, Standalone, On, Workers
<1> QED
  BY ConstructionKeeps, <1>2, <1>3, <1>4, <1>5, <1>6, <1>7, <1>8 DEF StartupNext, Boot

\* The property is what the invariant says of the phases it names.
LEMMA StartupSuffices == StartupInv => WholeOrNothing
BY ComponentsSpelled DEF StartupInv, Owned, Staged, WholeOrNothing, Whole

\* Wherever a construction fails, nothing of it stays behind, and a container that is
\* handed out is complete and cleans up after itself: ServiceContainer.__init__ and
\* _initialize_components, for every configuration.
THEOREM ConstructionIsWhole == StartupSpec => []WholeOrNothing
<1>1. StartupInit => StartupInv
  BY StartupInitially
<1>2. StartupInv /\ [StartupNext]_startupVars => StartupInv'
  BY StartupStep
<1> QED
  BY <1>1, <1>2, StartupSuffices, PTL DEF StartupSpec

-----------------------------------------------------------------------------
(* What the settings have to do with what was built.                       *)

\* The configuration a source makes, by either path.
Made ==
  IF source.by = "env" THEN FromEnv([f \in DOMAIN source.set |-> source.set[f].text])
  ELSE FromCall(source.set)

\* The configuration is the accepted reading of the settings; the repository and the
\* threads that run are those it asks for.
Configured ==
  /\ source \in Sources
  /\ phase \notin {"given", "refused"} => config = Normalized(Made) /\ Accepted(config)
  /\ owners["repository"] = "absent" \/ repository = (IF FromFiles THEN "file" ELSE "http")
  /\ owners["worker"] = "running" => On("sync_enabled")
  /\ \A c \in Parts \ {"worker"} : owners[c] = "running" => On("start_background_services")

\* A setting that is not given has its default.
LEMMA DefaultKept ==
  ASSUME source \in Sources, NEW f \in Fields, ~Written(f), f # "base_url"
  PROVE  Made[f] = Defaults[f]
<1>1. CASE source.by = "env"
  BY <1>1 DEF Made, FromEnv, Written
<1>2. CASE source.by # "env"
  BY <1>2 DEF Made, Written, FromCall
<1> QED BY <1>1, <1>2

\* A setting from the environment, and one of a call.
LEMMA SettingRead ==
  ASSUME source \in Sources, NEW f \in Fields, Written(f), f # "base_url"
  PROVE  /\ source.by = "env" => Made[f] = Read(f, source.set[f].text)
         /\ source.by = "call" => Made[f] = source.set[f]
<1>1. ASSUME source.by = "env" PROVE Made[f] = Read(f, source.set[f].text)
  BY <1>1 DEF Made, FromEnv, Written
<1>2. ASSUME source.by = "call" PROVE Made[f] = source.set[f]
  BY <1>2 DEF Made, Written, FromCall
<1> QED BY <1>1, <1>2

\* The fields, and the members of the enumerations.
LEMMA FieldsSpelled ==
  /\ EnumFields = {"region", "fail_mode", "contract_source", "deployment_mode", "contract_admission"}
  /\ EnumFields \subseteq Fields /\ BoolFields \subseteq Fields /\ PathFields \subseteq Fields
  /\ EnumFields \cap BoolFields = {} /\ EnumFields \cap PathFields = {} /\ BoolFields \cap PathFields = {}
  /\ "base_url" \notin EnumFields \cup BoolFields \cup PathFields
  /\ \A f \in EnumFields : Defaults[f].kind = "member"
  /\ \A f \in PathFields : Defaults[f] = Unset
  /\ Defaults["contract_source"] = Member("http")
  /\ Defaults["telemetry_enabled"] = Truth(TRUE) /\ Defaults["sync_enabled"] = Truth(FALSE)
<1>1. EnumFields = {"region", "fail_mode", "contract_source", "deployment_mode", "contract_admission"}
  BY DEF EnumFields, Members
<1>2. EnumFields \cup BoolFields \cup PathFields \subseteq Fields
  BY DEF Fields
<1> QED BY <1>1, <1>2 DEF BoolFields, PathFields, Defaults, Member, Unset, Truth

\* What an accepted configuration makes of a setting.
LEMMA EnumAsSaid ==
  ASSUME source \in Sources, NEW f \in EnumFields, Normalized(Made)[f] # Bad
  PROVE  Normalized(Made)[f] = IF Written(f) THEN Member(Says(f)) ELSE Defaults[f]
<1>1. f \in Fields /\ f # "base_url" /\ Defaults[f].kind = "member"
  BY FieldsSpelled
<1>2. PICK v : v = Made[f]
  OBVIOUS
<1>3. Normalized(Made)[f] = IF v.kind = "member" THEN v
                            ELSE IF v.kind = "text" THEN EnumValue(f, v.text) ELSE Bad
  BY <1>1, <1>2 DEF Normalized
<1>4. CASE ~Written(f)
  BY <1>1, <1>2, <1>3, <1>4, DefaultKept
<1>5. CASE Written(f) /\ source.by = "env"
  <2>1. source.set[f] = Text(source.set[f].text) /\ v = EnumValue(f, source.set[f].text)
    <3>1. source.set[f] = Text(source.set[f].text)
      BY <1>5, SourcesAssumption DEF Written
    <3>2. Read(f, source.set[f].text) = EnumValue(f, source.set[f].text)
      BY FieldsSpelled DEF Read, BoolFields, IntFields, CapFields, PathFields
    <3> QED BY <1>1, <1>2, <1>5, <3>1, <3>2, SettingRead
  <2>2. Says(f) = Norm(source.set[f].text)
    BY <2>1 DEF Says, Text
  <2>3. v = Member(Norm(source.set[f].text)) \/ v = Bad
    BY <2>1 DEF EnumValue
  <2> QED BY <1>3, <1>5, <2>2, <2>3 DEF Member, Bad
<1>6. CASE Written(f) /\ source.by = "call"
  <2>1. v = source.set[f]
    BY <1>1, <1>2, <1>6, SettingRead
  <2>2. v.kind = "member" => v = Member(v.member)
    <3>1. v.kind = "member" => \E m \in Members[f] : v = Member(m)
      BY <1>6, <2>1, SourcesAssumption DEF Written
    <3> QED BY <3>1 DEF Member
  <2>3. v.kind = "text" => EnumValue(f, v.text) = Member(Norm(v.text)) \/ EnumValue(f, v.text) = Bad
    BY DEF EnumValue
  <2>4. v.kind = "member" => Says(f) = v.member
    BY <2>1 DEF Says
  <2>5. v.kind = "text" => Says(f) = Norm(v.text)
    BY <2>1 DEF Says
  <2> QED BY <1>3, <1>6, <2>2, <2>3, <2>4, <2>5
<1> QED BY <1>4, <1>5, <1>6, SourcesAssumption

\* A switch is on or off because the setting says so.
LEMMA BoolAsSaid ==
  ASSUME source \in Sources, NEW f \in BoolFields, Normalized(Made)[f] # Bad
  PROVE  /\ Written(f) => Says(f) \in IF Normalized(Made)[f].truth THEN TrueTexts ELSE FalseTexts
         /\ ~Written(f) => Normalized(Made)[f] = Defaults[f]
<1>1. f \in Fields /\ f # "base_url" /\ f \notin EnumFields
  BY FieldsSpelled
<1>2. PICK v : v = Made[f]
  OBVIOUS
<1>3. Normalized(Made)[f] = v
  BY <1>1, <1>2 DEF Normalized
<1>4. CASE ~Written(f)
  BY <1>1, <1>2, <1>3, <1>4, DefaultKept
<1>5. CASE Written(f) /\ source.by = "env"
  <2>1. source.set[f] = Text(source.set[f].text) /\ v = BoolValue(source.set[f].text)
    <3>1. source.set[f] = Text(source.set[f].text)
      BY <1>5, SourcesAssumption DEF Written
    <3>2. Read(f, source.set[f].text) = BoolValue(source.set[f].text)
      BY <1>1 DEF Read, BoolFields, IntFields, CapFields, PathFields
    <3> QED BY <1>1, <1>2, <1>5, <3>1, <3>2, SettingRead
  <2>2. Says(f) = Norm(source.set[f].text)
    BY <2>1 DEF Says, Text
  <2>3. Says(f) \in TrueTexts \cup FalseTexts /\ v = Truth(Says(f) \in TrueTexts)
    BY <1>3, <2>1, <2>2 DEF BoolValue
  <2>4. v.truth <=> Says(f) \in TrueTexts
    BY <2>3, Zenon DEF Truth
  <2> QED BY <1>3, <1>5, <2>3, <2>4
<1>6. CASE Written(f) /\ source.by = "call"
  <2>1. v = source.set[f] /\ v \in {Truth(TRUE), Truth(FALSE)}
    BY <1>1, <1>2, <1>6, SettingRead, SourcesAssumption DEF Written
  <2>2. CASE v = Truth(TRUE)
    <3>1. Says(f) = "true" /\ v.truth
      BY <2>1, <2>2 DEF Says, Truth
    <3> QED BY <1>3, <1>6, <3>1 DEF TrueTexts
  <2>3. CASE v = Truth(FALSE)
    <3>1. Says(f) = "false" /\ ~v.truth
      BY <2>1, <2>3 DEF Says, Truth
    <3> QED BY <1>3, <1>6, <3>1 DEF FalseTexts
  <2> QED BY <2>1, <2>2, <2>3
<1> QED BY <1>4, <1>5, <1>6, SourcesAssumption

\* A directory is configured if one is given.
LEMMA PathAsSaid ==
  ASSUME source \in Sources, NEW f \in PathFields, Normalized(Made)[f] # Bad
  PROVE  Normalized(Made)[f] # Unset <=> Written(f)
<1>1. f \in Fields /\ f # "base_url" /\ f \notin EnumFields \cup BoolFields /\ Defaults[f] = Unset
  BY FieldsSpelled
<1>2. PICK v : v = Made[f]
  OBVIOUS
<1>3. Normalized(Made)[f] = v
  BY <1>1, <1>2 DEF Normalized
<1>4. CASE ~Written(f)
  BY <1>1, <1>2, <1>3, <1>4, DefaultKept
<1>5. CASE Written(f) /\ source.by = "env"
  <2>1. v = PathValue(source.set[f].text)
    <3>1. f \notin IntFields \cup CapFields
      BY DEF PathFields, IntFields, CapFields
    <3>2. Read(f, source.set[f].text) = PathValue(source.set[f].text)
      BY <1>1, <3>1 DEF Read
    <3> QED BY <1>1, <1>2, <1>5, <3>2, SettingRead
  <2>2. v # Unset
    BY <2>1 DEF PathValue, Text, Bad, Unset
  <2> QED BY <1>3, <1>5, <2>2
<1>6. CASE Written(f) /\ source.by = "call"
  <2>1. v = source.set[f] /\ v # Unset
    BY <1>1, <1>2, <1>6, SettingRead, SourcesAssumption DEF Written
  <2> QED BY <1>3, <1>6, <2>1
<1> QED BY <1>4, <1>5, <1>6, SourcesAssumption

\* What does not change with the configuration.
LEMMA SameSettings ==
  ASSUME UNCHANGED <<source, config>>
  PROVE  /\ Made' = Made /\ Normalized(Made)' = Normalized(Made) /\ Accepted(config)' = Accepted(config)
         /\ FromFiles' = FromFiles /\ Standalone' = Standalone
         /\ On("sync_enabled")' = On("sync_enabled")
         /\ On("start_background_services")' = On("start_background_services")
<1>1. source' = source /\ config' = config
  OBVIOUS
<1>2. Made' = Made
  BY <1>1 DEF Made
<1> QED BY <1>1, <1>2 DEF FromFiles, Standalone, On

\* A step that builds, starts and stops nothing, after the settings were accepted.
LEMMA QuietKeeps ==
  ASSUME Configured, UNCHANGED <<source, config, owners, repository>>,
         phase' \in {"given", "refused"} \/ phase \notin {"given", "refused"}
  PROVE  Configured'
<1>1. UNCHANGED <<source, config>> /\ source' = source /\ config' = config
      /\ owners' = owners /\ repository' = repository
  OBVIOUS
<1> QED BY <1>1, SameSettings DEF Configured

\* Every step keeps it.
LEMMA ConfiguredStep ==
  ASSUME StartupInv, Configured, [StartupNext]_startupVars
  PROVE  Configured'
<1> USE ComponentsSpelled
<1>1. CASE FromEnvironment \/ Construct
  <2>1. /\ phase = "given" /\ config' = Normalized(Made) /\ source' = source
        /\ phase' = IF Accepted(Normalized(Made)) THEN "building" ELSE "refused"
        /\ owners' = owners /\ repository' = repository
    BY <1>1 DEF FromEnvironment, Construct, Configure, Made, buildVars
  <2>2. \A c \in Parts : owners'[c] = "absent"
    BY <2>1 DEF StartupInv, Staged
  <2>3. Made' = Made
    BY <2>1 DEF Made
  <2>4. phase' \notin {"given", "refused"} => config' = Normalized(Made)' /\ Accepted(config')
    BY <2>1, <2>3
  <2> QED BY <2>1, <2>2, <2>4 DEF Configured
<1>2. ASSUME NEW c \in Parts, BuildPart(c) PROVE Configured'
  <2>1. /\ UNCHANGED <<source, config>> /\ source' = source /\ config' = config /\ phase = "building"
        /\ phase' \in {"building", "starting"}
        /\ repository' = IF c # "repository" THEN repository ELSE IF FromFiles THEN "file" ELSE "http"
    BY <1>2 DEF BuildPart
  <2>2. \A d \in Parts : owners'[d] = IF d = c THEN "built" ELSE owners[d]
    BY <1>2 DEF BuildPart, StartupInv, Owned
  <2>3. owners'["repository"] = "absent" \/ repository' = IF FromFiles THEN "file" ELSE "http"
    BY <2>1, <2>2 DEF Configured
  <2>4. \A d \in Parts : owners'[d] = "running" => owners[d] = "running"
    BY <2>2
  <2> QED BY <2>1, <2>3, <2>4, SameSettings DEF Configured
<1>3. ASSUME NEW c \in Parts, StartWorker(c) PROVE Configured'
  <2>1. /\ UNCHANGED <<source, config>> /\ source' = source /\ config' = config /\ phase = "starting"
        /\ phase' = "starting" /\ repository' = repository
        /\ c \in Workers
    BY <1>3 DEF StartWorker
  <2>2. \A d \in Parts : owners'[d] = IF d = c THEN "running" ELSE owners[d]
    BY <1>3 DEF StartWorker, StartupInv, Owned
  <2>3. On("start_background_services") /\ c \in {"cache", "bus"}
    BY <2>1 DEF Workers
  <2>4. owners'["repository"] = owners["repository"] /\ owners'["worker"] = owners["worker"]
    BY <2>2, <2>3
  <2>5. \A d \in Parts \ {"worker"} : owners'[d] = "running" => On("start_background_services")
    BY <2>2, <2>3 DEF Configured
  <2> QED BY <2>1, <2>4, <2>5, SameSettings DEF Configured
<1>4. CASE Fail \/ Arm
  BY <1>4, QuietKeeps DEF Fail, Arm, buildVars
<1>5. CASE Rollback
  <2>1. /\ UNCHANGED <<source, config>> /\ source' = source /\ config' = config
        /\ phase' = "refused" /\ repository' = repository
    BY <1>5 DEF Rollback
  <2>2. \A c \in Parts :
          owners'[c] = IF c \in Stoppable /\ owners[c] # "absent" THEN "stopped" ELSE owners[c]
    BY <1>5 DEF Rollback
  <2>3. \A c \in Parts : owners'[c] # "running"
    BY <2>2 DEF StartupInv, Owned
  <2>4. owners'["repository"] = owners["repository"]
    BY <2>2 DEF Stoppable
  <2> QED BY <2>1, <2>3, <2>4, SameSettings DEF Configured
<1>6. CASE BootRemote \/ BootFiles
  <2>1. /\ UNCHANGED <<source, config>> /\ source' = source /\ config' = config
        /\ phase \notin {"given", "refused"} /\ repository' = repository
        /\ owners' = IF On("sync_enabled") /\ ~Standalone THEN [owners EXCEPT !["worker"] = "running"] ELSE owners
    BY <1>6 DEF BootRemote, BootFiles, FinishBoot
  <2>2. \A c \in Parts \ {"worker"} : owners'[c] = owners[c]
    BY <2>1 DEF StartupInv, Owned
  <2>3. owners'["worker"] = "running" => On("sync_enabled")
    BY <2>1 DEF Configured
  <2> QED BY <2>1, <2>2, <2>3, SameSettings DEF Configured
<1>7. ASSUME NEW d \in [Files -> Contents], ListJson(d) PROVE Configured'
  BY <1>7, QuietKeeps DEF ListJson, buildVars
<1>8. CASE ListYaml \/ ReadFile \/ ReadUndecodable
  BY <1>8, QuietKeeps DEF ListYaml, ReadFile, ReadUndecodable, buildVars
<1>9. ASSUME NEW f \in Files, NEW content \in Contents, Edit(f, content) PROVE Configured'
  BY <1>9, QuietKeeps DEF Edit, buildVars
<1>10. CASE UNCHANGED startupVars
  BY <1>10, QuietKeeps DEF startupVars, buildVars
<1> QED BY <1>1, <1>2, <1>3, <1>4, <1>5, <1>6, <1>7, <1>8, <1>9, <1>10 DEF StartupNext, Boot

\* A container that is handed out is what its settings say.
LEMMA ConfiguredSuffices == StartupInv /\ Configured => TopologyAsWritten
<1> SUFFICES ASSUME StartupInv, Configured, armed PROVE TopologyAsWritten
  BY DEF TopologyAsWritten
<1> USE ComponentsSpelled
<1>1. /\ source \in Sources /\ config = Normalized(Made)
      /\ \A f \in Fields : Normalized(Made)[f] # Bad
  BY DEF StartupInv, Staged, Configured, Whole, Accepted
<1>2. \A c \in Parts : owners[c] = "absent" <=> ~Needed(c)
  BY DEF StartupInv, Owned, Staged
<1>3. \A f \in EnumFields : config[f] = IF Written(f) THEN Member(Says(f)) ELSE Defaults[f]
  BY <1>1, EnumAsSaid, FieldsSpelled
<1>4. /\ \A f \in BoolFields : Written(f) => Says(f) \in IF On(f) THEN TrueTexts ELSE FalseTexts
      /\ \A f \in BoolFields : ~Written(f) => config[f] = Defaults[f]
  BY <1>1, BoolAsSaid, FieldsSpelled DEF On
<1>5. \A f \in PathFields : config[f] # Unset <=> Written(f)
  BY <1>1, PathAsSaid, FieldsSpelled
<1>6. TrueTexts \cap FalseTexts = {}
  BY DEF TrueTexts, FalseTexts
<1>7. /\ "contract_source" \in EnumFields
      /\ {"telemetry_enabled", "sync_enabled", "start_background_services"} \subseteq BoolFields
      /\ {"contracts_dir", "local_contracts_dir"} \subseteq PathFields
  BY FieldsSpelled DEF BoolFields, PathFields
<1>8. Standalone <=> Written("local_contracts_dir")
  BY <1>5, <1>7 DEF Standalone
<1>9. config["contract_source"] = Member("file")
        <=> Written("contract_source") /\ Says("contract_source") = "file"
  BY <1>3, <1>7, FieldsSpelled DEF Member
<1>10. repository = "file" <=>
         \/ Written("local_contracts_dir")
         \/ Written("contract_source") /\ Says("contract_source") = "file" /\ Written("contracts_dir")
  <2>1. owners["repository"] # "absent"
    BY <1>2 DEF Needed
  <2>2. repository = IF FromFiles THEN "file" ELSE "http"
    BY <2>1 DEF Configured
  <2> QED BY <1>5, <1>7, <1>8, <1>9, <2>2 DEF FromFiles
<1>11. owners["bus"] = "absent" <=>
         Written("telemetry_enabled") /\ Says("telemetry_enabled") \in FalseTexts
  <2>1. owners["bus"] = "absent" <=> ~On("telemetry_enabled")
    BY <1>2 DEF Needed
  <2>2. ~Written("telemetry_enabled") => On("telemetry_enabled")
    BY <1>4, <1>7, FieldsSpelled DEF On, Truth
  <2> QED BY <1>4, <1>6, <1>7, <2>1, <2>2
<1>12. owners["worker"] = "absent" <=> Written("local_contracts_dir")
  BY <1>2, <1>8 DEF Needed
<1>13. owners["worker"] = "running" => Written("sync_enabled") /\ Says("sync_enabled") \in TrueTexts
  <2>1. owners["worker"] = "running" => On("sync_enabled")
    BY DEF Configured
  <2>2. ~Written("sync_enabled") => ~On("sync_enabled")
    BY <1>4, <1>7, FieldsSpelled DEF On, Truth
  <2> QED BY <1>4, <1>7, <2>1, <2>2
<1>14. Written("start_background_services") /\ Says("start_background_services") \in FalseTexts =>
         \A c \in Parts \ {"worker"} : owners[c] # "running"
  <2>1. \A c \in Parts \ {"worker"} : owners[c] = "running" => On("start_background_services")
    BY DEF Configured
  <2> QED BY <1>4, <1>6, <1>7, <2>1
<1> QED BY <1>3, <1>4, <1>10, <1>11, <1>12, <1>13, <1>14 DEF TopologyAsWritten

\* Nothing but the settings decides what a container is: every enumerated setting is the
\* member it spells, every switch is on or off because it says so, and the repository,
\* the bus, the sync worker and the threads are those that were asked for.
THEOREM BuiltAsWritten == StartupSpec => []TopologyAsWritten
<1>1. StartupInit => StartupInv /\ Configured
  BY StartupInitially, ComponentsSpelled DEF StartupInit, Configured
<1>2. StartupInv /\ Configured /\ [StartupNext]_startupVars => (StartupInv /\ Configured)'
  BY StartupStep, ConfiguredStep
<1> QED
  BY <1>1, <1>2, ConfiguredSuffices, PTL DEF StartupSpec

-----------------------------------------------------------------------------
(* The boot from a directory.                                              *)

\* A cut is a sequence no longer than it may be.
LEMMA CutTypes ==
  ASSUME NEW S, NEW s \in Seq(S), NEW n \in Nat
  PROVE  /\ Cut(s, n) \in Seq(S) /\ Len(Cut(s, n)) = (IF Len(s) < n THEN Len(s) ELSE n)
         /\ \A i \in 1..Len(Cut(s, n)) : Cut(s, n)[i] = s[i]
<1>1. PICK m \in Nat : m = (IF Len(s) < n THEN Len(s) ELSE n)
  BY LenProperties
<1>2. /\ m <= Len(s) /\ Len(s) \in Nat /\ \A i \in 1..m : s[i] \in S
  BY <1>1, LenProperties, ElementOfSeq
<1>3. Cut(s, n) = SubSeq(s, 1, m)
  BY <1>1, <1>2 DEF Cut
<1>4. /\ SubSeq(s, 1, m) \in Seq(S) /\ Len(SubSeq(s, 1, m)) = (IF 1 <= m THEN m - 1 + 1 ELSE 0)
      /\ \A i \in 1..m - 1 + 1 : SubSeq(s, 1, m)[i] = s[1 + i - 1]
  BY <1>2, SubSeqProperties
<1>5. Len(SubSeq(s, 1, m)) = m
  BY <1>4
<1>6. \A i \in 1..m : SubSeq(s, 1, m)[i] = s[i]
  BY <1>4
<1> QED BY <1>1, <1>3, <1>4, <1>5, <1>6

\* What fits is not cut.
LEMMA CutNothing ==
  ASSUME NEW S, NEW s \in Seq(S), NEW n \in Nat, Len(s) <= n
  PROVE  Cut(s, n) = s
<1>1. PICK c : c = Cut(s, n)
  OBVIOUS
<1>2. /\ c \in Seq(S) /\ Len(c) = Len(s) /\ \A i \in 1..Len(c) : c[i] = s[i]
  BY <1>1, CutTypes, LenProperties
<1> QED BY <1>1, <1>2, SeqEqual

\* A cut through a concatenation takes the rest from the second part.
LEMMA CutJoined ==
  ASSUME NEW S, NEW s \in Seq(S), NEW r \in Seq(S), NEW n \in Nat
  PROVE  Cut(s \o r, n) = IF Len(s) < n THEN s \o Cut(r, n - Len(s)) ELSE Cut(s, n)
<1>1. PICK b, c : b = s \o r /\ c = Cut(b, n)
  OBVIOUS
<1>2. /\ b \in Seq(S) /\ Len(b) = Len(s) + Len(r) /\ Len(s) \in Nat /\ Len(r) \in Nat
      /\ \A i \in 1..Len(s) + Len(r) : b[i] = IF i <= Len(s) THEN s[i] ELSE r[i - Len(s)]
  BY <1>1, ConcatProperties, LenProperties
<1>3. /\ c \in Seq(S) /\ Len(c) = (IF Len(b) < n THEN Len(b) ELSE n)
      /\ \A i \in 1..Len(c) : c[i] = b[i]
  BY <1>1, <1>2, CutTypes
<1>4. CASE Len(s) < n
  <2>0. PICK m \in Nat : m = n - Len(s)
    <3>1. n - Len(s) \in Nat
      BY <1>2, <1>4
    <3> QED BY <3>1
  <2>1. PICK d, e : d = Cut(r, m) /\ e = s \o d
    OBVIOUS
  <2>2. /\ d \in Seq(S) /\ Len(d) = (IF Len(r) < m THEN Len(r) ELSE m)
        /\ \A i \in 1..Len(d) : d[i] = r[i]
    BY <2>0, <2>1, CutTypes
  <2>3. /\ e \in Seq(S) /\ Len(e) = Len(s) + Len(d)
        /\ \A i \in 1..Len(s) + Len(d) : e[i] = IF i <= Len(s) THEN s[i] ELSE d[i - Len(s)]
    BY <2>1, <2>2, ConcatProperties
  <2>4. Len(e) = Len(c) /\ Len(d) <= Len(r) /\ Len(d) \in Nat
    BY <1>2, <1>3, <1>4, <2>0, <2>2, <2>3
  <2>5. ASSUME NEW i \in 1..Len(c) PROVE c[i] = e[i]
    <3>1. i \in 1..Len(s) + Len(d) /\ i \in 1..Len(s) + Len(r)
      BY <1>2, <2>3, <2>4
    <3>2. c[i] = IF i <= Len(s) THEN s[i] ELSE r[i - Len(s)]
      BY <1>2, <1>3, <3>1
    <3>3. e[i] = IF i <= Len(s) THEN s[i] ELSE d[i - Len(s)]
      BY <2>3, <3>1
    <3>4. CASE i <= Len(s)
      BY <3>2, <3>3, <3>4
    <3>5. CASE ~(i <= Len(s))
      <4>1. i - Len(s) \in 1..Len(d)
        BY <1>2, <2>4, <3>1, <3>5
      <4> QED BY <2>2, <3>2, <3>3, <3>5, <4>1
    <3> QED BY <3>4, <3>5
  <2>6. c = e
    BY <1>3, <2>3, <2>4, <2>5, SeqEqual
  <2> QED BY <1>1, <1>4, <2>0, <2>1, <2>6
<1>5. CASE ~(Len(s) < n)
  <2>1. PICK d : d = Cut(s, n)
    OBVIOUS
  <2>2. /\ d \in Seq(S) /\ Len(d) = n /\ \A i \in 1..Len(d) : d[i] = s[i]
    BY <1>5, <2>1, CutTypes
  <2>3. Len(c) = n
    BY <1>2, <1>3, <1>5
  <2>4. ASSUME NEW i \in 1..Len(c) PROVE c[i] = d[i]
    <3>1. i \in 1..Len(s) + Len(r) /\ i <= Len(s) /\ i \in 1..Len(d)
      BY <1>2, <1>5, <2>2, <2>3
    <3> QED BY <1>2, <1>3, <2>2, <3>1
  <2>5. c = d
    BY <1>3, <2>2, <2>3, <2>4, SeqEqual
  <2> QED BY <1>1, <1>5, <2>1, <2>5
<1> QED BY <1>4, <1>5

\* The order in which the pass lists the files, and how much of it is listed so far.
FilesInOrder == JsonFiles \o (IF source.yaml THEN YamlFiles ELSE <<>>)
Listed == IF phase = "json" THEN JsonFiles ELSE FilesInOrder
FromDirectory == repository = "file" /\ ContractsDir \in DirectoryThere
Reading == phase \in {"json", "yaml"} \/ (phase = "booted" /\ FromDirectory)

AllContracts == UNION {ToSet(Documents[c].items) : c \in DOMAIN Documents}
Offers == [f \in Files |-> Offered(f)]

\* While nobody edits the directory: what was read and what is still to be read are the
\* first files there are, and what is loaded is what the files read offer.
InOrder ==
  /\ read \o listing = Cut(Only(Listed, Present(directory)), MaxFiles)
  /\ loaded = FlattenSeq(Mapped(Offers, read))

\* A file that is not edited is still to be read, or what it offers is loaded.
NothingHidden ==
  \A f \in ToSet(Listed) \ edited : f \in ToSet(listing) \/ ToSet(Offered(f)) \subseteq ToSet(loaded)

\* What is known of the pass before it begins, and until the boot has ended.
Pass ==
  /\ listing \in Seq(Files) /\ read \in Seq(Files) /\ loaded \in Seq(AllContracts)
  /\ phase = "json" => Len(read) + Len(listing) <= Len(JsonFiles)
  /\ phase = "booted" => listing = <<>>
  /\ edited = {} => InOrder
  /\ MaxFiles >= Len(FilesInOrder) => NothingHidden
Reads ==
  /\ directory \in [Files -> Contents]
  /\ phase \notin {"json", "yaml", "booted", "raised"} =>
       listing = <<>> /\ read = <<>> /\ loaded = <<>> /\ edited = {}
  /\ Reading /\ MaxFiles >= 0 => Pass

\* The allowance is a number.
LEMMA AllowanceIsNumber ==
  ASSUME Configured, phase \notin {"given", "refused"}
  PROVE  MaxFiles \in Int
<1>1. "max_contract_files" \in IntFields /\ "max_contract_files" \in Fields
  BY DEF IntFields, Fields
<1>2. /\ "max_contract_files" # "base_url"
      /\ "max_contract_files" \notin EnumFields \cup BoolFields
  BY FieldsSpelled DEF BoolFields
<1>3. PICK v : v = Made["max_contract_files"]
  OBVIOUS
<1>4. source \in Sources /\ config["max_contract_files"] = v /\ v # Bad
  BY <1>1, <1>2, <1>3 DEF Configured, Normalized, Accepted
<1>5. v.number \in Int
  <2>1. CASE ~Written("max_contract_files")
    <3>0. Defaults["max_contract_files"] = Number(1000)
      BY <1>1 DEF Defaults, Number
    <3>1. v = Number(1000)
      BY <1>1, <1>2, <1>3, <1>4, <2>1, <3>0, DefaultKept
    <3> QED BY <3>1 DEF Number
  <2>2. CASE Written("max_contract_files") /\ source.by = "env"
    <3>0. Read("max_contract_files", source.set["max_contract_files"].text)
            = IntValue(source.set["max_contract_files"].text)
      <4>1. "max_contract_files" \notin EnumFields \cup BoolFields \cup PathFields
        BY <1>2 DEF PathFields
      <4> QED BY <1>1, <4>1 DEF Read
    <3>1. v = IntValue(source.set["max_contract_files"].text)
      BY <1>1, <1>2, <1>3, <1>4, <2>2, <3>0, SettingRead
    <3> QED BY <1>4, <3>1, NumbersAssumption DEF IntValue, Number
  <2>3. CASE Written("max_contract_files") /\ source.by = "call"
    <3>1. v = source.set["max_contract_files"]
      BY <1>1, <1>2, <1>3, <1>4, <2>3, SettingRead
    <3>2. source.set["max_contract_files"].number \in Int
      BY <1>1, <1>4, <2>3, SourcesAssumption DEF Written
    <3> QED BY <3>1, <3>2
  <2> QED BY <1>4, <2>1, <2>2, <2>3, SourcesAssumption
<1> QED BY <1>4, <1>5 DEF MaxFiles

\* What a file offers is a sequence of contracts.
LEMMA OfferTypes ==
  /\ \A f \in Files : Offered(f) \in Seq(AllContracts)
  /\ Offers \in [Files -> Seq(AllContracts)]
  /\ \A f \in Files : Offers[f] = Offered(f)
<1>1. ASSUME NEW c \in DOMAIN Documents PROVE Extract(c) \in Seq(AllContracts)
  <2>1. PICK items : items = Documents[c].items
    OBVIOUS
  <2>2. items \in Seq(ToSet(items)) /\ ToSet(items) \subseteq AllContracts
    BY <2>1, ListingsAssumption DEF AllContracts
  <2>3. Only(items, ToSet(items) \ {NotAMapping}) \in Seq(ToSet(items))
    BY <2>2, OnlyTypes
  <2>4. /\ items \in Seq(AllContracts)
        /\ Only(items, ToSet(items) \ {NotAMapping}) \in Seq(AllContracts)
        /\ <<>> \in Seq(AllContracts)
    <3>1. ASSUME NEW u \in Seq(ToSet(items)) PROVE u \in Seq(AllContracts)
      BY <2>2, <3>1, ElementOfSeq, LenProperties, SeqDef
    <3> QED BY <2>2, <2>3, <3>1, EmptySeq
  <2>5. CASE Documents[c].kind \in {"envelope", "list"}
    BY <2>1, <2>4, <2>5 DEF Extract
  <2>6. CASE Documents[c].kind = "contract"
    BY <2>1, <2>4, <2>6 DEF Extract
  <2>7. CASE Documents[c].kind \notin {"envelope", "list", "contract"}
    BY <2>4, <2>7 DEF Extract
  <2> QED BY <2>5, <2>6, <2>7
<1>2. ASSUME NEW f \in Files PROVE Offered(f) \in Seq(AllContracts)
  BY <1>1, EmptySeq DEF Offered
<1> QED BY <1>2 DEF Offers

\* The files to be listed.
LEMMA ListTypes ==
  ASSUME NEW D
  PROVE  /\ JsonFiles \in Seq(Files) /\ YamlFiles \in Seq(Files) /\ FilesInOrder \in Seq(Files)
         /\ Len(JsonFiles) \in Nat /\ Len(YamlFiles) \in Nat
         /\ Len(FilesInOrder) = Len(JsonFiles) + (IF source.yaml THEN Len(YamlFiles) ELSE 0)
         /\ ToSet(FilesInOrder) = ToSet(JsonFiles) \cup (IF source.yaml THEN ToSet(YamlFiles) ELSE {})
         /\ Only(FilesInOrder, D) = IF source.yaml THEN Only(JsonFiles, D) \o Only(YamlFiles, D)
                                    ELSE Only(JsonFiles, D)
<1>1. /\ JsonFiles \in Seq(Files) /\ YamlFiles \in Seq(Files)
      /\ Len(JsonFiles) \in Nat /\ Len(YamlFiles) \in Nat
  BY ListingsAssumption, LenProperties
<1>2. CASE source.yaml
  <2>1. FilesInOrder = JsonFiles \o YamlFiles
    BY <1>2 DEF FilesInOrder
  <2>2. Len(JsonFiles \o YamlFiles) = Len(JsonFiles) + Len(YamlFiles) /\ JsonFiles \o YamlFiles \in Seq(Files)
    BY <1>1, ConcatProperties
  <2>3. Only(JsonFiles \o YamlFiles, D) = Only(JsonFiles, D) \o Only(YamlFiles, D)
    BY <1>1, OnlyJoined
  <2>4. ToSet(JsonFiles \o YamlFiles) = ToSet(JsonFiles) \cup ToSet(YamlFiles)
    BY <1>1, Joined
  <2> QED BY <1>1, <1>2, <2>1, <2>2, <2>3, <2>4
<1>3. CASE ~source.yaml
  <2>1. FilesInOrder = JsonFiles
    BY <1>1, <1>3, ConcatEmptySeq DEF FilesInOrder
  <2> QED BY <1>1, <1>3, <2>1
<1> QED BY <1>2, <1>3

\* What is there and listed, when nothing is cut, is everything that offers something.
LEMMA NothingCut ==
  ASSUME NEW d \in [Files -> Contents], NEW s \in Seq(Files), NEW n \in Nat, Len(s) <= n
  PROVE  /\ Cut(Only(s, Present(d)), n) = Only(s, Present(d))
         /\ \A f \in ToSet(s) : d[f] # Absent => f \in ToSet(Cut(Only(s, Present(d)), n))
<1>1. PICK o : o = Only(s, Present(d))
  OBVIOUS
<1>2. o \in Seq(Files) /\ Len(o) <= Len(s) /\ ToSet(o) = ToSet(s) \cap Present(d)
  BY <1>1, OnlyTypes, OnlyShortens, OnlyElements
<1>3. Len(o) <= n
  BY <1>2, LenProperties
<1>4. Cut(o, n) = o
  BY <1>2, <1>3, CutNothing
<1>5. ASSUME NEW f \in ToSet(s), d[f] # Absent PROVE f \in Present(d)
  <2>1. f \in Files
    <3>1. PICK i \in DOMAIN s : f = s[i]
      BY <1>5 DEF ToSet
    <3> QED BY <3>1, LenProperties, ElementOfSeq
  <2> QED BY <1>5, <2>1 DEF Present
<1> QED BY <1>1, <1>2, <1>4, <1>5

\* A step that leaves the directory and the pass alone, and is not part of a pass.
LEMMA PassUntouched ==
  ASSUME Reads, UNCHANGED fileVars, ~Reading',
         phase' \in {"booted", "raised"} \/ phase \notin {"json", "yaml", "booted", "raised"}
  PROVE  Reads'
<1>1. /\ directory' = directory /\ listing' = listing /\ read' = read /\ edited' = edited
      /\ loaded' = loaded
  BY DEF fileVars
<1> QED BY <1>1 DEF Reads

\* What depends on the configuration and the directory alone.
LEMMA SameFiles ==
  ASSUME UNCHANGED <<source, config, repository>>
  PROVE  /\ FilesInOrder' = FilesInOrder /\ MaxFiles' = MaxFiles /\ FromDirectory' = FromDirectory
         /\ directory' = directory => Offers' = Offers /\ \A f \in Files : Offered(f)' = Offered(f)
<1>1. source' = source /\ config' = config /\ repository' = repository
  OBVIOUS
<1>2. FilesInOrder' = FilesInOrder /\ MaxFiles' = MaxFiles /\ ContractsDir' = ContractsDir
  BY <1>1 DEF FilesInOrder, MaxFiles, ContractsDir, Standalone
<1>3. FromDirectory' = FromDirectory
  BY <1>1, <1>2 DEF FromDirectory
<1>4. directory' = directory => Offers' = Offers /\ \A f \in Files : Offered(f)' = Offered(f)
  BY DEF Offers, Offered
<1> QED BY <1>2, <1>3, <1>4

\* The pass begins with the JSON files.
LEMMA ListJsonReads ==
  ASSUME Configured, Reads, NEW d \in [Files -> Contents], ListJson(d)
  PROVE  Reads'
<1>1. /\ phase = "ready" /\ phase' = "json" /\ directory' = d
      /\ listing' = Cut(Only(JsonFiles, Present(d)), MaxFiles)
      /\ read' = read /\ edited' = edited /\ loaded' = loaded
      /\ UNCHANGED <<source, config, repository>>
  BY DEF ListJson, buildVars
<1>2. read = <<>> /\ edited = {} /\ loaded = <<>>
  BY <1>1 DEF Reads
<1>3. MaxFiles \in Int /\ MaxFiles' = MaxFiles /\ FilesInOrder' = FilesInOrder
  BY <1>1, AllowanceIsNumber, SameFiles
<1>4. ASSUME MaxFiles >= 0 PROVE Pass'
  <2>1. PICK n \in Nat, o \in Seq(Files), c \in Seq(Files) :
          n = MaxFiles /\ o = Only(JsonFiles, Present(d)) /\ c = Cut(o, n)
    <3>1. MaxFiles \in Nat
      BY <1>3, <1>4
    <3>2. Only(JsonFiles, Present(d)) \in Seq(Files)
      BY OnlyTypes, ListingsAssumption
    <3> QED BY <3>1, <3>2, CutTypes
  <2>2. listing' = c /\ Listed' = JsonFiles
    BY <1>1, <2>1 DEF Listed
  <2>3. Len(read') + Len(listing') <= Len(JsonFiles)
    <3>1. Len(o) <= Len(JsonFiles)
      BY <2>1, OnlyShortens, ListingsAssumption
    <3>2. Len(c) \in Nat /\ Len(o) \in Nat /\ Len(JsonFiles) \in Nat /\ Len(<<>>) = 0
      BY <2>1, LenProperties, ListingsAssumption
    <3>3. Len(c) = IF Len(o) < n THEN Len(o) ELSE n
      BY <2>1, CutTypes
    <3>4. Len(read') = 0 /\ Len(listing') = Len(c)
      BY <1>1, <1>2, <2>2, <3>2
    <3> QED BY <2>1, <3>1, <3>2, <3>3, <3>4
  <2>4. InOrder'
    <3>1. <<>> \o c = c
      BY ConcatEmptySeq
    <3>2. (Cut(Only(Listed, Present(directory)), MaxFiles))' = c
      BY <1>1, <1>3, <2>1, <2>2 DEF Present, Cut
    <3>3. Mapped(Offers', <<>>) = <<>> /\ FlattenSeq(<<>>) = <<>>
      BY DEF Mapped, FlattenSeq
    <3> QED BY <1>1, <1>2, <2>2, <3>1, <3>2, <3>3 DEF InOrder, Mapped
  <2>5. ASSUME MaxFiles >= Len(FilesInOrder) PROVE NothingHidden'
    <3>1. Len(JsonFiles) <= n
      BY <2>1, <2>5, ListTypes
    <3>2. \A f \in ToSet(JsonFiles) : d[f] # Absent => f \in ToSet(c)
      BY <2>1, <3>1, NothingCut, ListingsAssumption
    <3>3. ASSUME NEW f, d[f] = Absent PROVE Offered(f)' = <<>>
      BY <1>1, <3>3, FilesAssumption DEF Offered
    <3>4. ToSet(<<>>) = {}
      BY NothingIn
    <3> QED BY <2>2, <3>2, <3>3, <3>4 DEF NothingHidden
  <2>6. read' \in Seq(Files) /\ loaded' \in Seq(AllContracts)
    BY <1>1, <1>2, EmptySeq
  <2> QED BY <1>1, <1>3, <2>1, <2>2, <2>3, <2>4, <2>5, <2>6 DEF Pass
<1> QED BY <1>1, <1>3, <1>4 DEF Reads

\* The YAML files follow, as far as the allowance goes.
LEMMA ListYamlReads ==
  ASSUME Configured, Reads, ListYaml
  PROVE  Reads'
<1>1. /\ phase = "json" /\ listing = <<>> /\ phase' = "yaml"
      /\ listing' = IF source.yaml /\ MaxFiles > Len(read)
                    THEN Cut(Only(YamlFiles, Present(directory)), MaxFiles - Len(read)) ELSE <<>>
      /\ directory' = directory /\ read' = read /\ edited' = edited /\ loaded' = loaded
      /\ UNCHANGED <<source, config, repository>>
  BY DEF ListYaml, buildVars
<1>2. /\ MaxFiles \in Int /\ MaxFiles' = MaxFiles /\ FilesInOrder' = FilesInOrder
      /\ Offers' = Offers /\ \A f \in Files : Offered(f)' = Offered(f)
  BY <1>1, AllowanceIsNumber, SameFiles
<1>3. ASSUME MaxFiles >= 0 PROVE Pass'
  <2>1. /\ read \in Seq(Files) /\ loaded \in Seq(AllContracts)
        /\ edited = {} => InOrder
        /\ MaxFiles >= Len(FilesInOrder) => NothingHidden
        /\ Len(read) + Len(listing) <= Len(JsonFiles) /\ Len(listing) = 0
    BY <1>1, <1>3, EmptySeq DEF Reads, Reading, Pass
  <2>2. PICK n \in Nat, j \in Seq(Files), y \in Seq(Files) :
          /\ n = MaxFiles /\ j = Only(JsonFiles, Present(directory))
          /\ y = Only(YamlFiles, Present(directory))
    <3>1. MaxFiles \in Nat
      BY <1>2, <1>3
    <3>2. /\ Only(JsonFiles, Present(directory)) \in Seq(Files)
          /\ Only(YamlFiles, Present(directory)) \in Seq(Files)
      BY OnlyTypes, ListingsAssumption
    <3> QED BY <3>1, <3>2
  <2>3. /\ Len(read) \in Nat /\ Len(j) \in Nat /\ Len(y) \in Nat /\ Len(read) <= Len(JsonFiles)
    BY <2>1, <2>2, LenProperties, ListingsAssumption
  <2>4. /\ Listed' = FilesInOrder /\ Listed = JsonFiles
    BY <1>1, <1>2 DEF Listed
  <2>5. /\ listing' \in Seq(Files)
        /\ listing' = IF source.yaml /\ n > Len(read) THEN Cut(y, n - Len(read)) ELSE <<>>
    <3>1. listing' = IF source.yaml /\ n > Len(read) THEN Cut(y, n - Len(read)) ELSE <<>>
      BY <1>1, <2>2
    <3>2. ASSUME n > Len(read) PROVE Cut(y, n - Len(read)) \in Seq(Files)
      <4>1. n - Len(read) \in Nat
        BY <2>2, <2>3, <3>2
      <4> QED BY <2>2, <4>1, CutTypes
    <3> QED BY <3>1, <3>2, EmptySeq
  <2>6. ASSUME edited = {} PROVE InOrder'
    <3>1. PICK all : all = Only(FilesInOrder, Present(directory))
      OBVIOUS
    <3>2. all = IF source.yaml THEN j \o y ELSE j
      BY <2>2, <3>1, ListTypes
    <3>3. read = Cut(j, n) /\ loaded = FlattenSeq(Mapped(Offers, read))
      <4>1. /\ read \o listing = Cut(Only(Listed, Present(directory)), MaxFiles)
            /\ loaded = FlattenSeq(Mapped(Offers, read))
        BY <2>1, <2>6 DEF InOrder
      <4>2. read \o <<>> = read
        BY <2>1, ConcatEmptySeq
      <4> QED BY <1>1, <2>2, <2>4, <4>1, <4>2
    <3>4. Len(read) = IF Len(j) < n THEN Len(j) ELSE n
      BY <2>2, <3>3, CutTypes
    <3>5. read \o listing' = Cut(all, n)
      <4>1. CASE source.yaml /\ Len(j) < n
        <5>1. read = j /\ n > Len(read) /\ Len(read) = Len(j)
          BY <2>2, <2>3, <3>3, <3>4, <4>1, CutNothing
        <5>2. Cut(j \o y, n) = j \o Cut(y, n - Len(j))
          BY <2>2, <4>1, CutJoined
        <5> QED BY <2>5, <3>2, <4>1, <5>1, <5>2
      <4>2. CASE source.yaml /\ ~(Len(j) < n)
        <5>1. ~(n > Len(read))
          BY <2>2, <3>4, <4>2
        <5>2. Cut(j \o y, n) = Cut(j, n)
          BY <2>2, <4>2, CutJoined
        <5>3. read \o <<>> = read
          BY <2>1, ConcatEmptySeq
        <5> QED BY <2>5, <3>2, <3>3, <4>2, <5>1, <5>2, <5>3
      <4>3. CASE ~source.yaml
        <5>1. read \o <<>> = read
          BY <2>1, ConcatEmptySeq
        <5> QED BY <2>5, <3>2, <3>3, <4>3, <5>1
      <4> QED BY <4>1, <4>2, <4>3
    <3>6. (Cut(Only(Listed, Present(directory)), MaxFiles))' = Cut(all, n)
      BY <1>1, <1>2, <2>2, <2>4, <3>1 DEF Present, Cut
    <3> QED BY <1>1, <1>2, <3>3, <3>5, <3>6 DEF InOrder, Mapped
  <2>7. ASSUME MaxFiles >= Len(FilesInOrder) PROVE NothingHidden'
    <3>1. ASSUME NEW f \in ToSet(JsonFiles) \ edited
          PROVE  ToSet(Offered(f)) \subseteq ToSet(loaded)
      BY <1>1, <2>1, <2>4, <2>7, <3>1, NothingIn DEF NothingHidden
    <3>2. ASSUME source.yaml, NEW f \in ToSet(YamlFiles), directory[f] # Absent
          PROVE  f \in ToSet(listing')
      <4>1. Len(JsonFiles) + Len(YamlFiles) <= n
        BY <2>2, <2>7, <3>2, ListTypes
      <4>2. Len(YamlFiles) # 0
        <5>1. YamlFiles # <<>>
          BY <3>2, NothingIn
        <5> QED BY <5>1, EmptySeq, ListingsAssumption
      <4>3. PICK k \in Nat : k = n - Len(read) /\ Len(YamlFiles) <= k /\ n > Len(read)
        <5>1. /\ n - Len(read) \in Nat /\ Len(YamlFiles) <= n - Len(read)
              /\ n > Len(read)
          BY <2>2, <2>3, <4>1, <4>2, ListTypes
        <5> QED BY <5>1
      <4>4. directory \in [Files -> Contents]
        BY DEF Reads
      <4>5. f \in ToSet(Cut(y, k))
        BY <2>2, <3>2, <4>3, <4>4, NothingCut, ListingsAssumption
      <4> QED BY <2>5, <3>2, <4>3, <4>5
    <3>3. ASSUME NEW f, directory[f] = Absent PROVE Offered(f) = <<>>
      BY <3>3, FilesAssumption DEF Offered
    <3>4. \A f \in ToSet(FilesInOrder) : f \in Files
      BY ListTypes, ElementOfSeq, LenProperties DEF ToSet
    <3>5. ToSet(FilesInOrder) = ToSet(JsonFiles) \cup (IF source.yaml THEN ToSet(YamlFiles) ELSE {})
      BY ListTypes
    <3> QED BY <1>1, <1>2, <2>4, <3>1, <3>2, <3>3, <3>4, <3>5, NothingIn DEF NothingHidden
  <2>8. /\ listing' \in Seq(Files) /\ read' \in Seq(Files) /\ loaded' \in Seq(AllContracts)
        /\ phase' # "json" /\ phase' # "booted"
    BY <1>1, <2>1, <2>5
  <2>9. /\ edited' = {} => InOrder'
        /\ (MaxFiles >= Len(FilesInOrder))' => NothingHidden'
    BY <1>1, <1>2, <2>6, <2>7
  <2> QED BY <2>8, <2>9 DEF Pass
<1>4. directory' \in [Files -> Contents]
  BY <1>1 DEF Reads
<1> QED BY <1>1, <1>2, <1>3, <1>4 DEF Reads

\* A file is read: what it offers follows what is loaded.
LEMMA ReadFileReads ==
  ASSUME Configured, Reads, ReadFile
  PROVE  Reads'
<1>1. /\ phase \in {"json", "yaml"} /\ phase' = phase /\ listing # <<>>
      /\ loaded' = loaded \o Offered(Head(listing))
      /\ listing' = Tail(listing) /\ read' = Append(read, Head(listing))
      /\ directory' = directory /\ edited' = edited
      /\ UNCHANGED <<source, config, repository>>
  BY DEF ReadFile, buildVars
<1>2. /\ MaxFiles' = MaxFiles /\ FilesInOrder' = FilesInOrder
      /\ Offers' = Offers /\ \A f \in Files : Offered(f)' = Offered(f)
  BY <1>1, SameFiles
<1>3. ASSUME MaxFiles >= 0 PROVE Pass'
  <2>1. /\ listing \in Seq(Files) /\ read \in Seq(Files) /\ loaded \in Seq(AllContracts)
        /\ phase = "json" => Len(read) + Len(listing) <= Len(JsonFiles)
        /\ edited = {} => InOrder
        /\ MaxFiles >= Len(FilesInOrder) => NothingHidden
    BY <1>1, <1>3 DEF Reads, Reading, Pass
  <2>2. PICK f, rest : f = Head(listing) /\ rest = Tail(listing)
    OBVIOUS
  <2>3. /\ f \in Files /\ rest \in Seq(Files) /\ Len(rest) = Len(listing) - 1
        /\ Len(listing) \in Nat /\ listing = <<f>> \o rest
    <3>1. f \in Files /\ rest \in Seq(Files) /\ Len(rest) = Len(listing) - 1 /\ Len(listing) \in Nat
      BY <1>1, <2>1, <2>2, HeadTailProperties, LenProperties
    <3>2. listing = <<f>> \o rest
      BY <1>1, <2>1, <2>2
    <3> QED BY <3>1, <3>2
  <2>4. PICK more \in Seq(AllContracts) : more = Offered(f) /\ more = Offers[f]
    BY <2>3, OfferTypes
  <2>5. /\ read' = Append(read, f) /\ read' \in Seq(Files) /\ Len(read') = Len(read) + 1
        /\ Len(read) \in Nat
    BY <1>1, <2>1, <2>2, <2>3, AppendProperties, LenProperties
  <2>6. loaded' = loaded \o more /\ loaded' \in Seq(AllContracts)
        /\ ToSet(loaded') = ToSet(loaded) \cup ToSet(more)
    BY <1>1, <2>1, <2>2, <2>4, ConcatProperties, Joined
  <2>7. Listed' = Listed
    BY <1>1, <1>2 DEF Listed
  <2>8. ASSUME edited = {} PROVE InOrder'
    <3>1. read' \o listing' = read \o listing
      <4>1. <<f>> \in Seq(Files) /\ (read \o <<f>>) \o rest = read \o (<<f>> \o rest)
        BY <2>1, <2>3, ConcatAssociative
      <4>2. read' = read \o <<f>>
        BY <2>1, <2>3, <2>5, AppendIsConcat
      <4> QED BY <1>1, <2>2, <2>3, <4>1, <4>2
    <3>2. loaded' = FlattenSeq(Mapped(Offers, read'))
      <4>1. PICK m : m = Mapped(Offers, read)
        OBVIOUS
      <4>2. m \in Seq(Seq(AllContracts))
        BY <2>1, <4>1, OfferTypes, MappedTypes
      <4>3. Mapped(Offers, read') = Append(m, more)
        <5>1. PICK g, a : g = Offers /\ a = read'
          OBVIOUS
        <5>2. g \in [Files -> Seq(AllContracts)] /\ a = Append(read, f)
          BY <2>5, <5>1, OfferTypes
        <5>3. Mapped(g, a) = Append(Mapped(g, read), g[f])
          BY <2>1, <2>3, <5>2, MappedAppend
        <5> QED BY <2>4, <4>1, <5>1, <5>3
      <4>4. FlattenSeq(Append(m, more)) = FlattenSeq(m) \o more
        BY <2>4, <4>2, FlattenAppend
      <4>5. loaded = FlattenSeq(m)
        BY <2>1, <2>8, <4>1 DEF InOrder
      <4> QED BY <2>6, <4>3, <4>4, <4>5
    <3>3. (Cut(Only(Listed, Present(directory)), MaxFiles))' = Cut(Only(Listed, Present(directory)), MaxFiles)
      BY <1>1, <1>2, <2>7 DEF Present, Cut
    <3>4. Mapped(Offers, read)' = Mapped(Offers, read')
      BY <1>2 DEF Mapped
    <3> QED BY <2>1, <2>8, <3>1, <3>2, <3>3, <3>4 DEF InOrder
  <2>9. ASSUME MaxFiles >= Len(FilesInOrder) PROVE NothingHidden'
    <3>1. ToSet(listing) \subseteq {f} \cup ToSet(rest)
      <4>1. <<f>> \in Seq(Files) /\ ToSet(<<f>>) = {f}
        BY <2>3, Single
      <4> QED BY <2>3, <4>1, Joined
    <3>2. Listed \in Seq(Files)
      BY ListTypes DEF Listed
    <3>3. \A g \in ToSet(Listed) : g \in Files
      BY <3>2, ElementOfSeq, LenProperties DEF ToSet
    <3> QED BY <1>1, <1>2, <2>1, <2>2, <2>4, <2>6, <2>7, <2>9, <3>1, <3>3 DEF NothingHidden
  <2>10. phase = "json" => Len(read') + Len(listing') <= Len(JsonFiles)
    BY <1>1, <2>1, <2>2, <2>3, <2>5, ListTypes
  <2> QED BY <1>1, <1>2, <2>2, <2>3, <2>5, <2>6, <2>8, <2>9, <2>10 DEF Pass
<1>4. directory' \in [Files -> Contents]
  BY <1>1 DEF Reads
<1> QED BY <1>1, <1>2, <1>3, <1>4 DEF Reads

\* The last file was read: the boot is over.
LEMMA BootFilesReads ==
  ASSUME Reads, BootFiles
  PROVE  Reads'
<1>1. /\ phase = "yaml" /\ phase' = "booted" /\ listing = <<>>
      /\ directory' = directory /\ listing' = listing /\ read' = read /\ edited' = edited
      /\ loaded' = loaded /\ UNCHANGED <<source, config, repository>>
  BY DEF BootFiles, FinishBoot, fileVars
<1>2. /\ MaxFiles' = MaxFiles /\ FilesInOrder' = FilesInOrder
      /\ Offers' = Offers /\ \A f \in Files : Offered(f)' = Offered(f)
  BY <1>1, SameFiles
<1>3. Listed' = FilesInOrder /\ Listed = FilesInOrder /\ \A f \in ToSet(FilesInOrder) : f \in Files
  <2>1. Listed' = FilesInOrder /\ Listed = FilesInOrder
    BY <1>1, <1>2 DEF Listed
  <2>2. \A f \in ToSet(FilesInOrder) : f \in Files
    BY ListTypes, ElementOfSeq, LenProperties DEF ToSet
  <2> QED BY <2>1, <2>2
<1>4. ASSUME Pass PROVE Pass'
  <2>1. InOrder => InOrder'
    BY <1>1, <1>2, <1>3 DEF InOrder, Present, Cut, Mapped
  <2>2. NothingHidden => NothingHidden'
    BY <1>1, <1>2, <1>3 DEF NothingHidden
  <2> QED BY <1>1, <1>2, <1>4, <2>1, <2>2 DEF Pass
<1>5. MaxFiles >= 0 => Pass
  BY <1>1 DEF Reads, Reading
<1> QED BY <1>1, <1>2, <1>4, <1>5 DEF Reads

\* An edit: the pass promises nothing of that file any more.
LEMMA EditReads ==
  ASSUME Reads, NEW f \in Files, NEW content \in Contents, Edit(f, content)
  PROVE  Reads'
<1>1. /\ phase \in {"json", "yaml"} /\ phase' = phase
      /\ directory' = [directory EXCEPT ![f] = content] /\ edited' = edited \cup {f}
      /\ listing' = listing /\ read' = read /\ loaded' = loaded
      /\ UNCHANGED <<source, config, repository>>
  BY DEF Edit, buildVars
<1>2. MaxFiles' = MaxFiles /\ FilesInOrder' = FilesInOrder
  BY <1>1, SameFiles
<1>3. /\ directory' \in [Files -> Contents]
      /\ \A g \in Files \ {f} : directory'[g] = directory[g]
  BY <1>1 DEF Reads
<1>4. Listed' = Listed /\ \A g \in ToSet(Listed) : g \in Files
  <2>1. Listed \in Seq(Files)
    BY ListTypes DEF Listed
  <2>2. Listed' = Listed
    BY <1>1, <1>2 DEF Listed
  <2> QED BY <2>1, <2>2, ElementOfSeq, LenProperties DEF ToSet
<1>5. NothingHidden => NothingHidden'
  <2>1. \A g \in Files \ {f} : Offered(g)' = Offered(g)
    BY <1>3 DEF Offered
  <2> QED BY <1>1, <1>4, <2>1 DEF NothingHidden
<1>6. MaxFiles >= 0 => Pass
  BY <1>1 DEF Reads, Reading
<1>7. Pass => Pass'
  BY <1>1, <1>2, <1>5 DEF Pass
<1> QED BY <1>1, <1>2, <1>3, <1>6, <1>7 DEF Reads

\* A step in which nothing happens.
LEMMA StutterReads ==
  ASSUME Reads, UNCHANGED startupVars
  PROVE  Reads'
<1>1. /\ phase' = phase /\ directory' = directory /\ listing' = listing /\ read' = read
      /\ edited' = edited /\ loaded' = loaded /\ UNCHANGED <<source, config, repository>>
  BY DEF startupVars, fileVars, buildVars
<1>2. /\ MaxFiles' = MaxFiles /\ FilesInOrder' = FilesInOrder /\ FromDirectory' = FromDirectory
      /\ Offers' = Offers
  BY <1>1, SameFiles
<1>3. Listed' = Listed /\ Reading' = Reading
  BY <1>1, <1>2 DEF Listed, Reading
<1>4. InOrder' = InOrder
  BY <1>1, <1>2, <1>3 DEF InOrder, Present, Cut, Mapped
<1>5. NothingHidden' = NothingHidden
  BY <1>1, <1>3 DEF NothingHidden, Offered
<1>6. Pass => Pass'
  BY <1>1, <1>2, <1>4, <1>5 DEF Pass
<1> QED BY <1>1, <1>2, <1>3, <1>6 DEF Reads

\* Every step keeps it.
LEMMA ReadsStep ==
  ASSUME Configured, Reads, [StartupNext]_startupVars
  PROVE  Reads'
<1>1. CASE FromEnvironment \/ Construct
  BY <1>1, PassUntouched DEF FromEnvironment, Construct, Configure, Reading
<1>2. ASSUME NEW c \in Parts, BuildPart(c) \/ StartWorker(c) PROVE Reads'
  <2>1. UNCHANGED fileVars /\ phase \in {"building", "starting"} /\ phase' \in {"building", "starting"}
    BY <1>2 DEF BuildPart, StartWorker
  <2> QED BY <2>1, PassUntouched DEF Reading
<1>3. CASE Fail \/ Rollback \/ Arm
  BY <1>3, PassUntouched DEF Fail, Rollback, Arm, Reading
<1>4. CASE BootRemote
  <2>1. /\ phase' = "booted" /\ UNCHANGED fileVars /\ ~FromDirectory
        /\ UNCHANGED <<source, config, repository>>
    BY <1>4 DEF BootRemote, FinishBoot, FromDirectory
  <2>2. ~Reading'
    BY <2>1, SameFiles DEF Reading
  <2> QED BY <2>1, <2>2, PassUntouched
<1>5. ASSUME NEW d \in [Files -> Contents], ListJson(d) PROVE Reads'
  BY <1>5, ListJsonReads
<1>6. CASE ReadUndecodable
  BY <1>6, PassUntouched DEF ReadUndecodable, Reading
<1>7. CASE ListYaml \/ ReadFile \/ BootFiles
  BY <1>7, ListYamlReads, ReadFileReads, BootFilesReads
<1>8. ASSUME NEW f \in Files, NEW content \in Contents, Edit(f, content) PROVE Reads'
  BY <1>8, EditReads
<1>9. CASE UNCHANGED startupVars
  BY <1>9, StutterReads
<1> QED BY <1>1, <1>2, <1>3, <1>4, <1>5, <1>6, <1>7, <1>8, <1>9 DEF StartupNext, Boot

\* A boot that has ended has read everything it listed.
LEMMA ReadsSuffices == Configured /\ Reads => BootLoads
<1> SUFFICES ASSUME Configured, Reads, phase = "booted", FromDirectory PROVE BootLoads
  BY DEF BootLoads, FromDirectory
<1>1. MaxFiles \in Int /\ Listed = FilesInOrder /\ Reading
  BY AllowanceIsNumber DEF Listed, Reading
<1>2. PICK first : first = Cut(Only(FilesInOrder, Present(directory)), MaxFiles)
  OBVIOUS
<1>3. ASSUME edited = {}, MaxFiles >= 0
      PROVE  loaded = FlattenSeq([i \in DOMAIN first |-> Offered(first[i])])
  <2>1. /\ read \in Seq(Files) /\ read \o <<>> = first
        /\ loaded = FlattenSeq(Mapped(Offers, read))
    BY <1>1, <1>2, <1>3 DEF Reads, Pass, InOrder
  <2>2. read = first
    BY <2>1, ConcatEmptySeq
  <2>3. \A i \in DOMAIN first : Offers[first[i]] = Offered(first[i])
    BY <2>1, <2>2, OfferTypes, ElementOfSeq, LenProperties
  <2> QED BY <2>1, <2>2, <2>3 DEF Mapped
<1>4. ASSUME MaxFiles >= Len(FilesInOrder), NEW f \in ToSet(FilesInOrder) \ edited
      PROVE  ToSet(Offered(f)) \subseteq ToSet(loaded)
  <2>1. MaxFiles >= 0
    <3>1. Len(FilesInOrder) \in Nat
      BY ListTypes, LenProperties
    <3> QED BY <1>1, <1>4, <3>1
  <2>2. NothingHidden /\ listing = <<>>
    BY <1>1, <1>4, <2>1 DEF Reads, Pass
  <2> QED BY <1>1, <1>4, <2>2, NothingIn DEF NothingHidden
<1> QED BY <1>2, <1>3, <1>4 DEF BootLoads, FilesInOrder

\* A boot from a directory that nobody edits loads the contracts of the first files there
\* are, in their order; if files change meanwhile, still all those of the files that
\* do not, unless the allowance is too small for all.
THEOREM EveryFileIsLoaded == StartupSpec => []BootLoads
<1>1. StartupInit => StartupInv /\ Configured /\ Reads
  <2>1. StartupInit => Reads
    BY FilesAssumption DEF StartupInit, Reads, Reading
  <2> QED BY <2>1, StartupInitially, ComponentsSpelled DEF StartupInit, Configured
<1>2. StartupInv /\ Configured /\ Reads /\ [StartupNext]_startupVars
        => (StartupInv /\ Configured /\ Reads)'
  BY StartupStep, ConfiguredStep, ReadsStep
<1> QED
  BY <1>1, <1>2, ReadsSuffices, PTL DEF StartupSpec

-----------------------------------------------------------------------------
(* Containers at work.                                                     *)

FinalizerStates == {"armed", "detached", "fired"}

\* The part of the types the argument needs.
Shape ==
  /\ tenant \in Seq(Tenants \cup {Default}) /\ closed \subseteq Built
  /\ finalizer \in Seq(FinalizerStates) /\ Len(finalizer) = Len(tenant)
  /\ finalizing \in Seq(Int) /\ Len(finalizing) = Len(tenant)
  /\ down \in Seq(Int) /\ Len(down) = Len(tenant)
  /\ default \in Built \cup {0} /\ registry \in Seq(Built)
  /\ pc \in [Threads -> PCs] /\ held \in [Threads -> Built \cup {0}]
  /\ work \in [Threads -> Seq(Built)] /\ left \in [Threads -> Int]

\* A thread inside close() has a container to close, which it has marked as closed by the
\* time it detaches the finalizer.
Closers ==
  \A t \in Threads :
    /\ pc[t] \in {"closing", "detaching", "tearing", "waiting"} => work[t] # <<>>
    /\ pc[t] \in {"detaching", "tearing"} => Head(work[t]) \in closed

Detaching(n) == \E t \in Threads : pc[t] = "detaching" /\ Head(work[t]) = n

\* A finalizer fires only for what nobody can reach or close any more; a closed container
\* whose finalizer is still armed is in the hands of the thread that detaches it; and
\* what was neither closed nor finalized is whole.
Untouched ==
  \A n \in Built :
    /\ finalizer[n] = "fired" => ~Reachable(n) /\ n \notin closed
    /\ finalizer[n] = "armed" /\ n \in closed => Detaching(n)
    /\ finalizer[n] # "fired" /\ n \notin closed => down[n] = 0 /\ finalizing[n] = 0

ContainerInv == Shape /\ Closers /\ Untouched

\* Forgetting a key adds nothing to the registry, nor does evicting.
LEMMA RegistryShrinks ==
  ASSUME Shape, NEW key
  PROVE  /\ Without(key) \in Seq(Built) /\ ToSet(Without(key)) \subseteq ToSet(registry)
         /\ Evict(Without(key)) \in Seq(Built) /\ ToSet(Evict(Without(key))) \subseteq ToSet(registry)
<1>1. Without(key) \in Seq(Built) /\ ToSet(Without(key)) \subseteq ToSet(registry)
  <2> DEFINE places == {i \in DOMAIN registry : tenant[registry[i]] = key}
  <2>0. registry \in Seq(Built)
    BY DEF Shape
  <2>1. CASE places = {}
    BY <2>0, <2>1 DEF Without
  <2>2. CASE places # {}
    <3> DEFINE k == CHOOSE i \in places : TRUE
    <3>1. k \in 1..Len(registry)
      BY <2>0, <2>2
    <3>2. Without(key) = RemoveAt(registry, k)
      BY <2>2 DEF Without
    <3> HIDE DEF k
    <3> QED BY <2>0, <3>1, <3>2, RemoveAtElements
  <2> QED BY <2>1, <2>2
<1>2. CASE Len(Without(key)) >= MaxTenants
  <2>1. Without(key) # <<>>
    <3>1. MaxTenants \in Nat /\ MaxTenants >= 1
      BY ContainerAssumption DEF ContainerAssumption
    <3>2. Len(Without(key)) >= 1
      BY <3>1, <1>1, <1>2
    <3>3. Len(<<>>) = 0
      OBVIOUS
    <3> QED BY <3>2, <3>3
  <2>2. Tail(Without(key)) \in Seq(Built) /\ ToSet(Tail(Without(key))) \subseteq ToSet(Without(key))
    BY <1>1, <2>1 DEF ToSet
  <2> QED BY <1>1, <1>2, <2>2 DEF Evict
<1>3. CASE ~(Len(Without(key)) >= MaxTenants)
  BY <1>1, <1>3 DEF Evict
<1> QED BY <1>1, <1>2, <1>3

-----------------------------------------------------------------------------
(* The three ways a step can go.                                           *)

\* A step that creates, closes and tears down nothing, makes nothing reachable that was
\* not, and disturbs no detaching thread.
LEMMA QuietStep ==
  ASSUME Untouched, UNCHANGED <<tenant, closed, finalizer, finalizing, down>>,
         \A n \in Built : Reachable(n)' => Reachable(n),
         \A t \in Threads : pc[t] = "detaching" => pc'[t] = "detaching" /\ work'[t] = work[t]
  PROVE  Untouched'
<1> SUFFICES ASSUME NEW n \in Built'
             PROVE  /\ finalizer'[n] = "fired" => ~Reachable(n)' /\ n \notin closed'
                    /\ finalizer'[n] = "armed" /\ n \in closed' => Detaching(n)'
                    /\ finalizer'[n] # "fired" /\ n \notin closed' => down'[n] = 0 /\ finalizing'[n] = 0
  BY DEF Untouched
<1>1. n \in Built
  BY DEF Built
<1>2. Detaching(n) => Detaching(n)'
  BY DEF Detaching
<1> QED BY <1>1, <1>2 DEF Untouched

\* A container that is being built is armed, open and whole, and the others stay as they were.
LEMMA BuildStep ==
  ASSUME Shape, Untouched, NEW key \in Tenants \cup {Default}, Build(Len(tenant) + 1, key),
         \A n \in Built : Reachable(n)' => Reachable(n),
         \A t \in Threads : pc[t] = "detaching" => pc'[t] = "detaching" /\ work'[t] = work[t]
  PROVE  /\ Untouched' /\ Built' = Built \cup {Len(tenant) + 1}
         /\ tenant' \in Seq(Tenants \cup {Default}) /\ closed' \subseteq Built'
         /\ finalizer' \in Seq(FinalizerStates) /\ Len(finalizer') = Len(tenant')
         /\ finalizing' \in Seq(Int) /\ Len(finalizing') = Len(tenant')
         /\ down' \in Seq(Int) /\ Len(down') = Len(tenant')
<1> DEFINE m == Len(tenant) + 1
<1>0. Len(tenant) \in Nat /\ Built = 1..Len(tenant) /\ m \notin Built /\ m \notin closed
  BY DEF Shape, Built
<1>1. /\ tenant' \in Seq(Tenants \cup {Default}) /\ Len(tenant') = m
      /\ Built' = Built \cup {m} /\ closed' = closed
  BY <1>0 DEF Shape, Build, Built
<1>2. /\ finalizer' \in Seq(FinalizerStates) /\ Len(finalizer') = m /\ finalizer'[m] = "armed"
      /\ \A n \in Built : finalizer'[n] = finalizer[n]
  <2>1. finalizer \in Seq(FinalizerStates) /\ Len(finalizer) = Len(tenant) /\ "armed" \in FinalizerStates
    BY DEF Shape, FinalizerStates
  <2>2. finalizer' = Append(finalizer, "armed")
    BY DEF Build
  <2> QED BY <1>0, <2>1, <2>2, AppendProperties
<1>3. /\ finalizing' \in Seq(Int) /\ Len(finalizing') = m /\ finalizing'[m] = 0
      /\ \A n \in Built : finalizing'[n] = finalizing[n]
  BY <1>0 DEF Shape, Build
<1>4. /\ down' \in Seq(Int) /\ Len(down') = m /\ down'[m] = 0
      /\ \A n \in Built : down'[n] = down[n]
  BY <1>0 DEF Shape, Build
<1>5. ASSUME NEW n \in Built'
      PROVE  /\ finalizer'[n] = "fired" => ~Reachable(n)' /\ n \notin closed'
             /\ finalizer'[n] = "armed" /\ n \in closed' => Detaching(n)'
             /\ finalizer'[n] # "fired" /\ n \notin closed' => down'[n] = 0 /\ finalizing'[n] = 0
  <2>1. CASE n = m
    BY <2>1, <1>0, <1>1, <1>2, <1>3, <1>4
  <2>2. CASE n \in Built
    <3>1. Detaching(n) => Detaching(n)'
      BY DEF Detaching
    <3> QED BY <2>2, <3>1, <1>1, <1>2, <1>3, <1>4 DEF Untouched
  <2> QED BY <1>1, <2>1, <2>2
<1>6. Untouched'
  BY <1>5 DEF Untouched
<1>7. closed' \subseteq Built'
  BY <1>1 DEF Shape
<1> QED BY <1>1, <1>2, <1>3, <1>4, <1>6, <1>7

\* Nothing is built, closed or torn down when a container is created.
LEMMA ContainerInitially == Init => ContainerInv
<1> SUFFICES ASSUME Init PROVE ContainerInv
  OBVIOUS
<1>1. Built = {} /\ Len(tenant) = 0
  BY DEF Init, Built
<1>2. Shape
  BY <1>1 DEF Init, Shape, PCs
<1>3. Closers /\ Untouched
  BY <1>1 DEF Init, Closers, Untouched
<1> QED BY <1>2, <1>3 DEF ContainerInv

-----------------------------------------------------------------------------
(* The actions of a thread that close nothing.                             *)

InClose == {"closing", "detaching", "tearing", "waiting"}

\* A step of a thread that only moves references about.
LEMMA ThreadStep ==
  ASSUME ContainerInv, NEW t \in Threads, NEW p \in PCs, NEW w \in Seq(Built),
         UNCHANGED <<tenant, closed, finalizer, finalizing, down>>, pc[t] # "detaching",
         \A n \in Built : Reachable(n)' => Reachable(n),
         default' \in Built \cup {0}, registry' \in Seq(Built),
         held' \in [Threads -> Built \cup {0}], left' \in [Threads -> Int],
         pc' = [pc EXCEPT ![t] = p], work' = [work EXCEPT ![t] = w],
         p \in InClose => w # <<>>,
         p \in {"detaching", "tearing"} => Head(w) \in closed
  PROVE  ContainerInv'
<1>0. Shape /\ Closers /\ Untouched
  BY DEF ContainerInv
<1>1. Built' = Built
  BY DEF Built
<1>2. \A u \in Threads : pc'[u] = (IF u = t THEN p ELSE pc[u])
                         /\ work'[u] = (IF u = t THEN w ELSE work[u])
  BY <1>0 DEF Shape
<1>3. pc' \in [Threads -> PCs] /\ work' \in [Threads -> Seq(Built)]
  BY <1>0 DEF Shape
<1>4. Shape'
  BY <1>0, <1>1, <1>3 DEF Shape
<1>5. Closers'
  BY <1>0, <1>2 DEF Closers, InClose
<1>6. \A u \in Threads : pc[u] = "detaching" => pc'[u] = "detaching" /\ work'[u] = work[u]
  BY <1>2
<1>7. Untouched'
  BY <1>0, <1>6, QuietStep
<1> QED BY <1>4, <1>5, <1>7 DEF ContainerInv

\* Its work and its place, when they stay as they are.
LEMMA Unmoved ==
  ASSUME Shape, NEW t \in Threads
  PROVE  /\ work = [work EXCEPT ![t] = work[t]] /\ work[t] \in Seq(Built)
         /\ pc = [pc EXCEPT ![t] = pc[t]] /\ pc[t] \in PCs
<1>1. work \in [Threads -> Seq(Built)] /\ pc \in [Threads -> PCs]
  BY DEF Shape
<1>2. work[t] \in Seq(Built) /\ work = [work EXCEPT ![t] = work[t]]
  BY <1>1
<1>3. pc[t] \in PCs /\ pc = [pc EXCEPT ![t] = pc[t]]
  BY <1>1
<1> QED BY <1>2, <1>3

\* get_default without the lock.
LEMMA GetCachedKeeps ==
  ASSUME ContainerInv, NEW t \in Threads, GetCached(t)
  PROVE  ContainerInv'
<1> USE DEF GetCached, regVars, lifeVars, syncVars, exitVars
<1>1. Shape'
  BY DEF ContainerInv, Shape, Built, PCs
<1>2. Closers'
  BY DEF ContainerInv, Closers, Shape
<1>3. Untouched'
  <2>1. \A n \in Built : Reachable(n)' => Reachable(n)
    BY DEF Reachable, ContainerInv, Shape
  <2>2. \A u \in Threads : pc[u] = "detaching" => pc'[u] = "detaching" /\ work'[u] = work[u]
    BY DEF ContainerInv, Shape
  <2> QED BY <2>1, <2>2, QuietStep DEF ContainerInv
<1> QED BY <1>1, <1>2, <1>3 DEF ContainerInv

\* Forgetting a container, starting to boot one, and its sync worker.
LEMMA DropKeeps ==
  ASSUME ContainerInv, NEW t \in Threads,
         Drop(t) \/ Bootstrap(t) \/ EnsureOpen(t) \/ StartSync(t)
  PROVE  ContainerInv'
<1>0. Shape
  BY DEF ContainerInv
<1>1. /\ UNCHANGED <<tenant, closed, finalizer, finalizing, down, default, registry, work, left>>
      /\ pc[t] \in {"idle", "booting", "starting"}
  BY DEF Drop, Bootstrap, EnsureOpen, StartSync, regVars, lifeVars
<1>2. \A u \in Threads : held'[u] \in {held[u], 0}
  BY <1>0 DEF Drop, Bootstrap, EnsureOpen, StartSync, Shape
<1>3. held' \in [Threads -> Built \cup {0}]
  BY <1>0 DEF Drop, Bootstrap, EnsureOpen, StartSync, Shape
<1>4. PICK p \in {"idle", "booting", "starting"} : pc' = [pc EXCEPT ![t] = p]
  <2>1. CASE Drop(t)
    BY <2>1, <1>0, Unmoved DEF Drop
  <2>2. CASE Bootstrap(t) \/ EnsureOpen(t) \/ StartSync(t)
    BY <2>2 DEF Bootstrap, EnsureOpen, StartSync
  <2> QED BY <2>1, <2>2
<1>5. p \in PCs /\ p \notin InClose
  BY DEF PCs, InClose
<1>6. work' = [work EXCEPT ![t] = work[t]] /\ work[t] \in Seq(Built)
  BY <1>0, <1>1, Unmoved
<1>7. \A n \in Built : Reachable(n)' => Reachable(n)
  BY <1>1, <1>2 DEF Reachable, Built
<1>8. left' \in [Threads -> Int] /\ default' \in Built \cup {0} /\ registry' \in Seq(Built)
  BY <1>0, <1>1 DEF Shape
<1> QED BY <1>1, <1>3, <1>4, <1>5, <1>6, <1>7, <1>8, ThreadStep DEF InClose

\* A new container leaves old references what they were.
LEMMA Widened ==
  ASSUME Shape, Built \subseteq Built'
  PROVE  registry \in Seq(Built') /\ work \in [Threads -> Seq(Built')]
<1>1. registry \in Seq(Built) /\ work \in [Threads -> Seq(Built)]
  BY DEF Shape
<1>2. \A s \in Seq(Built) : s \in Seq(Built')
  BY SeqMonotonic, Zenon
<1>3. registry \in Seq(Built') /\ \A u \in Threads : work[u] \in Seq(Built')
  BY <1>1, <1>2
<1> QED BY <1>1, <1>3

\* get_default under the lock.
LEMMA GetDefaultKeeps ==
  ASSUME ContainerInv, NEW t \in Threads, GetDefault(t)
  PROVE  ContainerInv'
<1> USE DEF GetDefault, exitVars
<1>0. Shape /\ Closers /\ Untouched /\ pc[t] = "peeked" /\ pc' = [pc EXCEPT ![t] = "idle"]
      /\ UNCHANGED <<registry, work, left>> /\ Len(tenant) \in Nat /\ Built = 1..Len(tenant)
  BY DEF ContainerInv, Shape, Built
<1>1. \A u \in Threads : pc[u] = "detaching" => pc'[u] = "detaching" /\ work'[u] = work[u]
  BY <1>0 DEF Shape
<1>2. closed' = closed
  BY <1>0 DEF Build, BuildFails, lifeVars
<1>3. Closers'
  BY <1>0, <1>2 DEF Closers, Shape
<1>4. CASE UNCHANGED lifeVars
  <2>1. default' = default /\ \A u \in Threads : held'[u] \in {held[u], default}
    BY <1>0, <1>4 DEF Build, lifeVars, Shape
  <2>2. \A n \in Built : Reachable(n)' => Reachable(n)
    BY <1>0, <2>1 DEF Reachable
  <2>3. Untouched'
    BY <1>0, <1>1, <1>4, <2>2, QuietStep DEF lifeVars
  <2>4. Shape'
    BY <1>0, <1>4, <2>1 DEF Shape, lifeVars, Built, PCs
  <2> QED BY <1>3, <2>3, <2>4 DEF ContainerInv
<1>5. CASE /\ Build(Len(tenant) + 1, Default) /\ default' = Len(tenant) + 1
           /\ held' = [held EXCEPT ![t] = Len(tenant) + 1]
  <2>1. \A n \in Built : Reachable(n)' => Reachable(n)
    BY <1>0, <1>5 DEF Reachable, Shape
  <2>2. Default \in Tenants \cup {Default}
    OBVIOUS
  <2>3. /\ Untouched' /\ Built' = Built \cup {Len(tenant) + 1}
        /\ tenant' \in Seq(Tenants \cup {Default}) /\ closed' \subseteq Built'
        /\ finalizer' \in Seq(FinalizerStates) /\ Len(finalizer') = Len(tenant')
        /\ finalizing' \in Seq(Int) /\ Len(finalizing') = Len(tenant')
        /\ down' \in Seq(Int) /\ Len(down') = Len(tenant')
    BY <1>0, <1>1, <1>5, <2>1, <2>2, BuildStep
  <2>4. /\ default' \in Built' \cup {0} /\ held' \in [Threads -> Built' \cup {0}]
        /\ pc' \in [Threads -> PCs] /\ left' \in [Threads -> Int]
    BY <1>0, <1>5, <2>3 DEF Shape, PCs
  <2>5. registry' \in Seq(Built') /\ work' \in [Threads -> Seq(Built')]
    BY <1>0, <2>3, Widened
  <2> QED BY <1>3, <2>3, <2>4, <2>5 DEF ContainerInv, Shape
<1> QED BY <1>4, <1>5 DEF BuildFails

\* for_tenant, under the tenant lock.
LEMMA ForTenantKeeps ==
  ASSUME ContainerInv, NEW t \in Threads, NEW key \in Tenants, ForTenant(t, key)
  PROVE  ContainerInv'
<1>0. /\ Shape /\ Closers /\ Untouched /\ pc[t] = "idle"
      /\ UNCHANGED <<default, pc, work, left>> /\ Len(tenant) \in Nat /\ Built = 1..Len(tenant)
  BY DEF ContainerInv, Shape, Built, ForTenant
<1>1. /\ Without(key) \in Seq(Built) /\ ToSet(Without(key)) \subseteq ToSet(registry)
      /\ Evict(Without(key)) \in Seq(Built) /\ ToSet(Evict(Without(key))) \subseteq ToSet(registry)
  BY <1>0, RegistryShrinks
<1>2. CASE \E n \in Registered(key) :
             /\ registry' = Append(Without(key), n) /\ held' = [held EXCEPT ![t] = n]
             /\ UNCHANGED lifeVars
  <2>1. PICK n \in Registered(key) :
          /\ registry' = Append(Without(key), n) /\ held' = [held EXCEPT ![t] = n]
          /\ UNCHANGED lifeVars
    BY <1>2
  <2>2. n \in ToSet(registry) /\ n \in Built
    BY <1>0 DEF Registered, Shape, ToSet
  <2>3. registry' \in Seq(Built) /\ ToSet(registry') = ToSet(Without(key)) \cup {n}
    BY <1>1, <2>1, <2>2, Appended
  <2>4. held' \in [Threads -> Built \cup {0}] /\ \A u \in Threads : held'[u] \in {held[u], n}
    BY <1>0, <2>1, <2>2 DEF Shape
  <2>5. \A m \in Built : Reachable(m)' => Reachable(m)
    BY <1>0, <1>1, <2>2, <2>3, <2>4 DEF Reachable
  <2>6. /\ work' = [work EXCEPT ![t] = work[t]] /\ work[t] \in Seq(Built)
        /\ pc' = [pc EXCEPT ![t] = "idle"] /\ "idle" \in PCs /\ "idle" \notin InClose
        /\ left' \in [Threads -> Int] /\ default' \in Built \cup {0}
    BY <1>0, Unmoved DEF PCs, InClose, Shape
  <2>7. UNCHANGED <<tenant, closed, finalizer, finalizing, down>> /\ pc[t] # "detaching"
    BY <1>0, <2>1 DEF lifeVars
  <2> QED BY <2>3, <2>4, <2>5, <2>6, <2>7, ThreadStep DEF InClose
<1>3. CASE /\ Build(Len(tenant) + 1, key) /\ held' = [held EXCEPT ![t] = Len(tenant) + 1]
           /\ registry' = Append(Evict(Without(key)), Len(tenant) + 1)
  <2> DEFINE m == Len(tenant) + 1
  <2>1. key \in Tenants \cup {Default} /\ m \notin Built
    BY <1>0
  <2>2. Evict(Without(key)) \in Seq(Built \cup {m})
    BY <1>1, SeqMonotonic
  <2>3. registry' \in Seq(Built \cup {m}) /\ ToSet(registry') = ToSet(Evict(Without(key))) \cup {m}
    BY <1>3, <2>2, Appended
  <2>4. /\ held' \in [Threads -> Built \cup {m} \cup {0}]
        /\ \A u \in Threads : held'[u] \in {held[u], m}
    BY <1>0, <1>3 DEF Shape
  <2>5. \A n \in Built : Reachable(n)' => Reachable(n)
    BY <1>0, <1>1, <2>1, <2>3, <2>4 DEF Reachable
  <2>6. /\ Untouched' /\ Built' = Built \cup {m}
        /\ tenant' \in Seq(Tenants \cup {Default}) /\ closed' \subseteq Built'
        /\ finalizer' \in Seq(FinalizerStates) /\ Len(finalizer') = Len(tenant')
        /\ finalizing' \in Seq(Int) /\ Len(finalizing') = Len(tenant')
        /\ down' \in Seq(Int) /\ Len(down') = Len(tenant')
    BY <1>0, <1>3, <2>1, <2>5, BuildStep
  <2>7. work' \in [Threads -> Seq(Built')]
    BY <1>0, <2>6, Widened
  <2>8. Shape'
    BY <1>0, <2>3, <2>4, <2>6, <2>7 DEF Shape
  <2>9. Closers'
    BY <1>0, <1>3 DEF Closers, Build
  <2> QED BY <2>6, <2>8, <2>9 DEF ContainerInv
<1>4. CASE registry' = Evict(Without(key)) /\ UNCHANGED <<held, lifeVars>>
  <2>1. \A n \in Built : Reachable(n)' => Reachable(n)
    BY <1>0, <1>1, <1>4 DEF Reachable
  <2>2. /\ work' = [work EXCEPT ![t] = work[t]] /\ work[t] \in Seq(Built)
        /\ pc' = [pc EXCEPT ![t] = "idle"] /\ "idle" \in PCs /\ "idle" \notin InClose
        /\ left' \in [Threads -> Int] /\ default' \in Built \cup {0}
        /\ held' \in [Threads -> Built \cup {0}]
    BY <1>0, <1>4, Unmoved DEF PCs, InClose, Shape
  <2>3. UNCHANGED <<tenant, closed, finalizer, finalizing, down>> /\ pc[t] # "detaching"
    BY <1>0, <1>4 DEF lifeVars
  <2> QED BY <1>1, <1>4, <2>1, <2>2, <2>3, ThreadStep DEF InClose
<1> QED BY <1>2, <1>3, <1>4 DEF ForTenant, BuildFails

-----------------------------------------------------------------------------
(* close() and reset_default().                                            *)

\* close() begins, or a reset collects what it will close.
LEMMA EnterKeeps ==
  ASSUME ContainerInv, NEW t \in Threads, Close(t) \/ ResetDefault(t) \/ ResetTenants(t)
  PROVE  ContainerInv'
<1>0. Shape /\ UNCHANGED <<tenant, closed, finalizer, finalizing, down, held, left>>
      /\ work[t] \in Seq(Built) /\ registry \in Seq(Built) /\ pc[t] # "detaching"
  BY DEF ContainerInv, Shape, Close, ResetDefault, ResetTenants, lifeVars
<1>1. PICK w \in Seq(Built), p \in PCs :
        /\ work' = [work EXCEPT ![t] = w] /\ pc' = [pc EXCEPT ![t] = p]
        /\ p \in InClose => w # <<>>
        /\ p \notin {"detaching", "tearing"}
        /\ ToSet(w) \subseteq ToSet(work[t]) \cup ToSet(registry) \cup ({held[t], default} \ {0})
  <2>1. CASE Close(t)
    <3>1. held[t] \in Built /\ held[t] # 0
      BY <2>1, <1>0 DEF Close, Shape, Built
    <3>2. <<held[t]>> \in Seq(Built) /\ ToSet(<<held[t]>>) = {held[t]} /\ <<held[t]>> # <<>>
      BY <3>1, Single
    <3> QED BY <2>1, <3>1, <3>2 DEF Close, PCs, InClose
  <2>2. CASE ResetDefault(t)
    <3>1. "resetting" \in PCs /\ "resetting" \notin InClose
      BY DEF PCs, InClose
    <3>2. CASE default = 0
      <4>1. <<>> \in Seq(Built) /\ ToSet(<<>>) = {}
        BY NothingIn, EmptySeq
      <4> QED BY <2>2, <3>1, <3>2, <4>1 DEF ResetDefault
    <3>3. CASE default # 0
      <4>1. default \in Built
        BY <3>3, <1>0 DEF Shape
      <4>2. << default >> \in Seq(Built) /\ ToSet(<< default >>) = {default}
        BY <4>1, Single
      <4> QED BY <2>2, <3>1, <3>3, <4>2 DEF ResetDefault
    <3> QED BY <3>2, <3>3
  <2>3. CASE ResetTenants(t)
    <3> DEFINE w == work[t] \o registry
    <3>1. w \in Seq(Built) /\ ToSet(w) = ToSet(work[t]) \cup ToSet(registry)
      BY <1>0, Joined
    <3>2. work' = [work EXCEPT ![t] = w] /\ pc' = [pc EXCEPT ![t] = IF w = <<>> THEN "idle" ELSE "closing"]
      BY <2>3, <1>0 DEF ResetTenants, Shape
    <3> HIDE DEF w
    <3> QED BY <3>1, <3>2 DEF PCs, InClose
  <2> QED BY <2>1, <2>2, <2>3
<1>2. /\ default' \in {default, 0} /\ registry' \in Seq(Built) /\ ToSet(registry') \subseteq ToSet(registry)
  <2>1. <<>> \in Seq(Built) /\ ToSet(<<>>) = {}
    BY NothingIn, EmptySeq
  <2> QED BY <2>1, <1>0 DEF Close, ResetDefault, ResetTenants, regVars
<1>3. \A u \in Threads : work'[u] = IF u = t THEN w ELSE work[u]
  BY <1>0, <1>1 DEF Shape
<1>4. \A n \in Built : Reachable(n)' => Reachable(n)
  BY <1>0, <1>1, <1>2, <1>3 DEF Reachable, Built
<1>5. held' \in [Threads -> Built \cup {0}] /\ left' \in [Threads -> Int] /\ default' \in Built \cup {0}
  BY <1>0, <1>2 DEF Shape
<1> QED BY <1>0, <1>1, <1>2, <1>4, <1>5, ThreadStep

\* What is left of the work of a thread that is done with its first container.
LEMMA NextWorkTypes ==
  ASSUME Shape, Closers, NEW t \in Threads, pc[t] \in InClose, NextWork(t)
  PROVE  \E w \in Seq(Built), p \in PCs :
           /\ work' = [work EXCEPT ![t] = w] /\ pc' = [pc EXCEPT ![t] = p]
           /\ p \in InClose => w # <<>>
           /\ p \notin {"detaching", "tearing"} /\ ToSet(w) \subseteq ToSet(work[t])
<1>1. work[t] \in Seq(Built) /\ work[t] # <<>>
  BY DEF Shape, Closers, InClose
<1>2. /\ Tail(work[t]) \in Seq(Built) /\ ToSet(Tail(work[t])) \subseteq ToSet(work[t])
      /\ Len(work[t]) # 1 => Tail(work[t]) # <<>>
  BY <1>1, HeadAndTail
<1> DEFINE w == Tail(work[t])
           p == IF Len(work[t]) = 1 THEN "idle" ELSE "closing"
<1>3. work' = [work EXCEPT ![t] = w] /\ pc' = [pc EXCEPT ![t] = p]
  BY DEF NextWork
<1>4. p \in PCs /\ p \notin {"detaching", "tearing"} /\ (p \in InClose => w # <<>>)
  BY <1>2 DEF PCs, InClose
<1> HIDE DEF w, p
<1>5. w \in Seq(Built) /\ ToSet(w) \subseteq ToSet(work[t])
  BY <1>2 DEF w
<1> QED BY <1>3, <1>4, <1>5

\* The first container of a thread's work is a reference to it.
LEMMA WorkHead ==
  ASSUME Shape, Closers, NEW t \in Threads, pc[t] \in InClose
  PROVE  Head(work[t]) \in Built /\ Reachable(Head(work[t]))
<1>1. work[t] \in Seq(Built) /\ work[t] # <<>>
  BY DEF Shape, Closers, InClose
<1>2. Head(work[t]) \in Built /\ Head(work[t]) \in ToSet(work[t])
  BY <1>1, HeadAndTail
<1> QED BY <1>2 DEF Reachable

\* A thread that goes on to its next container.
LEMMA NextWorkKeeps ==
  ASSUME ContainerInv, NEW t \in Threads, pc[t] \in InClose \ {"detaching"}, NextWork(t),
         UNCHANGED <<tenant, closed, finalizer, finalizing, down, default, registry, held, left>>
  PROVE  ContainerInv'
<1>0. Shape /\ Closers
  BY DEF ContainerInv
<1>1. PICK w \in Seq(Built), p \in PCs :
        /\ work' = [work EXCEPT ![t] = w] /\ pc' = [pc EXCEPT ![t] = p]
        /\ p \in InClose => w # <<>>
        /\ p \notin {"detaching", "tearing"} /\ ToSet(w) \subseteq ToSet(work[t])
  BY <1>0, NextWorkTypes
<1>2. \A u \in Threads : work'[u] = IF u = t THEN w ELSE work[u]
  BY <1>0, <1>1 DEF Shape
<1>3. \A n \in Built : Reachable(n)' => Reachable(n)
  BY <1>1, <1>2 DEF Reachable
<1>4. /\ held' \in [Threads -> Built \cup {0}] /\ left' \in [Threads -> Int]
      /\ default' \in Built \cup {0} /\ registry' \in Seq(Built)
  BY <1>0 DEF Shape
<1> QED BY <1>1, <1>3, <1>4, ThreadStep

\* The wait of a second close() ends.
LEMMA EndWaitKeeps ==
  ASSUME ContainerInv, NEW t \in Threads, EndWait(t)
  PROVE  ContainerInv'
BY NextWorkKeeps DEF EndWait, InClose, regVars, lifeVars

\* The locked part of close(): what is marked as closed was reachable, hence never finalized.
LEMMA BeginCloseKeeps ==
  ASSUME ContainerInv, NEW t \in Threads, BeginClose(t)
  PROVE  ContainerInv'
<1> DEFINE n == Head(work[t])
<1>0. /\ Shape /\ Closers /\ Untouched /\ pc[t] = "closing"
      /\ UNCHANGED <<tenant, finalizer, finalizing, down, default, registry, held, left>>
  BY DEF ContainerInv, BeginClose, regVars
<1>1. n \in Built /\ Reachable(n)
  BY <1>0, WorkHead DEF InClose
<1>2. CASE NextWork(t) /\ UNCHANGED closed
  BY <1>0, <1>2, NextWorkKeeps DEF InClose
<1>3. CASE pc' = [pc EXCEPT ![t] = "waiting"] /\ UNCHANGED <<work, closed>>
  <2>1. /\ work' = [work EXCEPT ![t] = work[t]] /\ work[t] \in Seq(Built) /\ work[t] # <<>>
        /\ "waiting" \in PCs
    BY <1>0, <1>3, Unmoved DEF PCs, Closers
  <2>2. \A m \in Built : Reachable(m)' => Reachable(m)
    BY <1>0, <1>3 DEF Reachable
  <2>3. /\ held' \in [Threads -> Built \cup {0}] /\ left' \in [Threads -> Int]
        /\ default' \in Built \cup {0} /\ registry' \in Seq(Built)
    BY <1>0 DEF Shape
  <2> QED BY <1>0, <1>3, <2>1, <2>2, <2>3, ThreadStep
<1>4. CASE closed' = closed \cup {n} /\ pc' = [pc EXCEPT ![t] = "detaching"] /\ UNCHANGED work
  <2>1. \A u \in Threads : pc'[u] = IF u = t THEN "detaching" ELSE pc[u]
    BY <1>0, <1>4 DEF Shape
  <2>2. Shape'
    BY <1>0, <1>1, <1>4 DEF Shape, Built, PCs
  <2>3. Closers'
    BY <1>0, <1>4, <2>1 DEF Closers
  <2>4. Built' = Built /\ \A m \in Built : Reachable(m)' <=> Reachable(m)
    BY <1>0, <1>4 DEF Reachable, Built
  <2>5. \A m \in Built : (Detaching(m) => Detaching(m)') /\ Detaching(n)'
    BY <1>4, <2>1 DEF Detaching
  <2>6. Untouched'
    BY <1>0, <1>1, <1>4, <2>4, <2>5 DEF Untouched
  <2> QED BY <2>2, <2>3, <2>6 DEF ContainerInv
<1> QED BY <1>2, <1>3, <1>4 DEF BeginClose

\* The finalizer of a closed container is detached by the thread that closes it.
LEMMA DetachKeeps ==
  ASSUME ContainerInv, NEW t \in Threads, Detach(t)
  PROVE  ContainerInv'
<1> DEFINE n == Head(work[t])
           state == IF finalizer[n] = "armed" THEN "detached" ELSE finalizer[n]
<1>0. /\ Shape /\ Closers /\ Untouched /\ pc[t] = "detaching"
      /\ UNCHANGED <<tenant, closed, finalizing, down, default, registry, held, work>>
      /\ finalizer' = [finalizer EXCEPT ![n] = state] /\ pc' = [pc EXCEPT ![t] = "tearing"]
      /\ left' = [left EXCEPT ![t] = Components]
  BY DEF ContainerInv, Detach, regVars
<1>1. n \in Built /\ n \in closed
  BY <1>0, WorkHead DEF InClose, Closers
<1>2. n \in 1..Len(finalizer) /\ state \in FinalizerStates /\ state # "armed"
      /\ (state = "fired" => finalizer[n] = "fired")
  <2>1. n \in 1..Len(finalizer) /\ finalizer \in Seq(FinalizerStates)
    BY <1>0, <1>1 DEF Shape, Built
  <2>2. finalizer[n] \in FinalizerStates
    BY <2>1
  <2> QED BY <2>1, <2>2 DEF FinalizerStates
<1> HIDE DEF state
<1>3. /\ finalizer' \in Seq(FinalizerStates) /\ Len(finalizer') = Len(finalizer)
      /\ \A m \in Built : finalizer'[m] = IF m = n THEN state ELSE finalizer[m]
  <2>1. finalizer \in Seq(FinalizerStates) /\ Built = 1..Len(finalizer)
    BY <1>0 DEF Shape, Built
  <2>2. /\ [finalizer EXCEPT ![n] = state] \in Seq(FinalizerStates)
        /\ Len([finalizer EXCEPT ![n] = state]) = Len(finalizer)
        /\ \A m \in 1..Len(finalizer) :
             [finalizer EXCEPT ![n] = state][m] = IF m = n THEN state ELSE finalizer[m]
    BY <1>2, <2>1, ExceptSeq
  <2> QED BY <1>0, <2>1, <2>2
<1>4. \A u \in Threads : pc'[u] = IF u = t THEN "tearing" ELSE pc[u]
  BY <1>0 DEF Shape
<1>5. Built' = Built /\ \A m \in Built : Reachable(m)' <=> Reachable(m)
  BY <1>0 DEF Reachable, Built
<1>6. Shape'
  BY <1>0, <1>3, <1>5 DEF Shape, PCs, Components
<1>7. Closers'
  BY <1>0, <1>1, <1>4 DEF Closers
<1>8. \A m \in Built : m # n /\ Detaching(m) => Detaching(m)'
  BY <1>0, <1>4 DEF Detaching
<1>9. Untouched'
  BY <1>0, <1>1, <1>2, <1>3, <1>5, <1>8 DEF Untouched
<1> QED BY <1>6, <1>7, <1>9 DEF ContainerInv

\* Stopping a component changes nothing of other containers.
LEMMA StopTypes ==
  ASSUME Shape, NEW n \in Built, NEW k \in Int, NEW drain \in BOOLEAN, StopOne(n, k, drain)
  PROVE  /\ down' \in Seq(Int) /\ Len(down') = Len(down)
         /\ \A m \in Built : m # n => down'[m] = down[m]
<1> DEFINE d == Max2(down[n], Components - k + 1)
<1>1. n \in 1..Len(down) /\ down \in Seq(Int) /\ Built = 1..Len(down)
  BY DEF Shape, Built
<1>2. down' = [down EXCEPT ![n] = d]
  BY DEF StopOne
<1>3. d \in Int
  BY <1>1 DEF Max2, Components
<1> HIDE DEF d
<1> QED BY <1>1, <1>2, <1>3, ExceptSeq

\* close() stops one component after another of a container it has closed.
LEMMA TearDownKeeps ==
  ASSUME ContainerInv, NEW t \in Threads, TearDown(t)
  PROVE  ContainerInv'
<1> DEFINE n == Head(work[t])
<1>0. /\ Shape /\ Closers /\ Untouched /\ pc[t] = "tearing" /\ StopOne(n, left[t], TRUE)
      /\ UNCHANGED <<tenant, closed, finalizer, finalizing, default, registry, held>>
      /\ left' = [left EXCEPT ![t] = left[t] - 1] /\ left[t] \in Int
  BY DEF ContainerInv, TearDown, regVars, Shape
<1>1. n \in Built /\ n \in closed
  BY <1>0, WorkHead DEF InClose, Closers
<1>2. /\ down' \in Seq(Int) /\ Len(down') = Len(down)
      /\ \A m \in Built : m # n => down'[m] = down[m]
  BY <1>0, <1>1, StopTypes
<1>3. PICK w \in Seq(Built), p \in PCs :
        /\ work' = [work EXCEPT ![t] = w] /\ pc' = [pc EXCEPT ![t] = p]
        /\ p \in InClose => w # <<>>
        /\ p \in {"detaching", "tearing"} => Head(w) \in closed
        /\ ToSet(w) \subseteq ToSet(work[t])
  <2>1. CASE NextWork(t)
    BY <1>0, <2>1, NextWorkTypes DEF InClose
  <2>2. CASE UNCHANGED <<work, pc>>
    <3>1. work[t] # <<>> /\ Head(work[t]) \in closed
      BY <1>0 DEF Closers
    <3> QED BY <1>0, <2>2, <3>1, Unmoved
  <2> QED BY <2>1, <2>2 DEF TearDown
<1>4. \A u \in Threads : pc'[u] = (IF u = t THEN p ELSE pc[u])
                         /\ work'[u] = (IF u = t THEN w ELSE work[u])
  BY <1>0, <1>3 DEF Shape
<1>5. Built' = Built /\ \A m \in Built : Reachable(m)' => Reachable(m)
  BY <1>0, <1>3, <1>4 DEF Reachable, Built
<1>6. pc' \in [Threads -> PCs] /\ work' \in [Threads -> Seq(Built)] /\ left' \in [Threads -> Int]
  BY <1>0, <1>3 DEF Shape
<1>7. Shape'
  BY <1>0, <1>2, <1>5, <1>6 DEF Shape
<1>8. Closers'
  BY <1>0, <1>3, <1>4 DEF Closers, InClose
<1>9. \A m \in Built : Detaching(m) => Detaching(m)'
  BY <1>0, <1>4 DEF Detaching
<1>10. Untouched'
  BY <1>0, <1>1, <1>2, <1>5, <1>9 DEF Untouched
<1> QED BY <1>7, <1>8, <1>10 DEF ContainerInv

-----------------------------------------------------------------------------
(* The collector and the sync thread.                                      *)

\* The sync thread ends.
LEMMA SyncEndsKeeps ==
  ASSUME ContainerInv, NEW n \in Built, SyncEnds(n)
  PROVE  ContainerInv'
<1>1. UNCHANGED <<tenant, closed, finalizer, finalizing, down, default, registry, threadVars>>
  BY DEF SyncEnds, regVars, lifeVars
<1>2. Shape' /\ Closers'
  BY <1>1 DEF ContainerInv, Shape, Closers, threadVars, Built
<1>3. \A m \in Built : Reachable(m)' => Reachable(m)
  BY <1>1 DEF Reachable, threadVars
<1>4. Untouched'
  BY <1>1, <1>3, QuietStep DEF ContainerInv, threadVars
<1> QED BY <1>2, <1>4 DEF ContainerInv

\* A finalizer runs: nobody can reach its container, so nobody has closed it either.
LEMMA CollectKeeps ==
  ASSUME ContainerInv, NEW n \in Built, Collect(n)
  PROVE  ContainerInv'
<1>0. /\ Shape /\ Closers /\ Untouched /\ ~Reachable(n) /\ finalizer[n] = "armed"
      /\ finalizer' = [finalizer EXCEPT ![n] = "fired"]
      /\ finalizing' = [finalizing EXCEPT ![n] = Components]
      /\ UNCHANGED <<tenant, closed, down, default, registry, pc, held, work, left>>
  BY DEF ContainerInv, Collect, Fire, threadVars, regVars
<1>1. n \notin closed
  <2>1. SUFFICES ASSUME NEW t \in Threads, pc[t] = "detaching", Head(work[t]) = n PROVE FALSE
    BY <1>0 DEF Untouched, Detaching
  <2>2. Reachable(n)
    BY <1>0, <2>1, WorkHead DEF InClose
  <2> QED BY <1>0, <2>2
<1>2. n \in 1..Len(finalizer) /\ n \in 1..Len(finalizing) /\ Built = 1..Len(tenant)
  BY <1>0 DEF Shape, Built
<1>3. /\ finalizer' \in Seq(FinalizerStates) /\ Len(finalizer') = Len(finalizer)
      /\ \A m \in Built : finalizer'[m] = IF m = n THEN "fired" ELSE finalizer[m]
  <2>1. "fired" \in FinalizerStates
    BY DEF FinalizerStates
  <2> QED BY <1>0, <1>2, <2>1, ExceptSeq DEF Shape
<1>4. /\ finalizing' \in Seq(Int) /\ Len(finalizing') = Len(finalizing)
      /\ \A m \in Built : m # n => finalizing'[m] = finalizing[m]
  <2>1. Components \in Int
    BY DEF Components
  <2> QED BY <1>0, <1>2, <2>1, ExceptSeq DEF Shape
<1>5. Built' = Built /\ \A m \in Built : (Reachable(m)' <=> Reachable(m)) /\ (Detaching(m) => Detaching(m)')
  BY <1>0 DEF Reachable, Built, Detaching
<1>6. Shape' /\ Closers'
  BY <1>0, <1>3, <1>4, <1>5 DEF Shape, Closers
<1>7. Untouched'
  BY <1>0, <1>1, <1>3, <1>4, <1>5 DEF Untouched
<1> QED BY <1>6, <1>7 DEF ContainerInv

\* A finalizer that runs stops one component after another.
LEMMA FinalizeKeeps ==
  ASSUME ContainerInv, NEW n \in Built, Finalize(n)
  PROVE  ContainerInv'
<1>0. /\ Shape /\ Closers /\ Untouched /\ finalizing[n] > 0 /\ StopOne(n, finalizing[n], FALSE)
      /\ finalizing' = [finalizing EXCEPT ![n] = finalizing[n] - 1]
      /\ UNCHANGED <<tenant, closed, finalizer, default, registry, pc, held, work, left>>
  BY DEF ContainerInv, Finalize, threadVars, regVars
<1>1. n \in 1..Len(finalizing) /\ Built = 1..Len(finalizing) /\ finalizing[n] \in Int
  BY <1>0 DEF Shape, Built
<1>2. finalizer[n] = "fired" \/ n \in closed
  BY <1>0, <1>1 DEF Untouched
<1>3. /\ down' \in Seq(Int) /\ Len(down') = Len(down)
      /\ \A m \in Built : m # n => down'[m] = down[m]
  BY <1>0, <1>1, StopTypes
<1>4. /\ finalizing' \in Seq(Int) /\ Len(finalizing') = Len(finalizing)
      /\ \A m \in Built : m # n => finalizing'[m] = finalizing[m]
  <2>1. finalizing[n] - 1 \in Int
    BY <1>1
  <2> QED BY <1>0, <1>1, <2>1, ExceptSeq DEF Shape
<1>5. Built' = Built /\ \A m \in Built : (Reachable(m)' <=> Reachable(m)) /\ (Detaching(m) => Detaching(m)')
  BY <1>0 DEF Reachable, Built, Detaching
<1>6. Shape' /\ Closers'
  BY <1>0, <1>3, <1>4, <1>5 DEF Shape, Closers
<1>7. Untouched'
  BY <1>0, <1>2, <1>3, <1>4, <1>5 DEF Untouched
<1> QED BY <1>6, <1>7 DEF ContainerInv

-----------------------------------------------------------------------------
(* The theorems.                                                           *)

\* Every step keeps the invariant.
LEMMA ContainerStep == ContainerInv /\ [Next]_vars => ContainerInv'
<1> SUFFICES ASSUME ContainerInv, [Next]_vars PROVE ContainerInv'
  OBVIOUS
<1>1. CASE UNCHANGED vars
  <2>1. UNCHANGED <<tenant, closed, finalizer, finalizing, down, default, registry, pc, held, work, left>>
    BY <1>1 DEF vars, lifeVars, regVars, threadVars
  <2> QED BY <2>1 DEF ContainerInv, Shape, Closers, Untouched, Reachable, Detaching, Built
<1>2. ASSUME NEW t \in Threads, AppThread(t) PROVE ContainerInv'
  BY <1>2, GetCachedKeeps, GetDefaultKeeps, ForTenantKeeps, DropKeeps, EnterKeeps DEF AppThread
<1>3. ASSUME NEW t \in Threads, Closing(t) PROVE ContainerInv'
  BY <1>3, EnterKeeps, BeginCloseKeeps, DetachKeeps, TearDownKeeps, EndWaitKeeps DEF Closing
<1>4. ASSUME NEW n \in Built, SyncEnds(n) \/ Collect(n) \/ Finalize(n) PROVE ContainerInv'
  BY <1>4, SyncEndsKeeps, CollectKeeps, FinalizeKeeps
<1> QED BY <1>1, <1>2, <1>3, <1>4 DEF Next

\* The invariant holds throughout.
LEMMA ContainerAlways == Spec => []ContainerInv
<1>1. Init => ContainerInv
  BY ContainerInitially
<1> QED BY <1>1, ContainerStep, PTL DEF Spec

\* As long as a container is open and anything refers to it, no component of it has been
\* stopped: by eviction from the registry, by a finalizer, or by a reset of others.
THEOREM NothingInUseIsTorn == Spec => []NeverTornInUse
<1>1. ContainerInv => NeverTornInUse
  BY DEF ContainerInv, Untouched, NeverTornInUse, Open
<1> QED BY <1>1, ContainerAlways, PTL

\* No container is torn down by close() and by its finalizer.
THEOREM TornDownOnce == Spec => []TornOnce
<1>1. ContainerInv => TornOnce
  BY DEF ContainerInv, Untouched, TornOnce, Shape
<1> QED BY <1>1, ContainerAlways, PTL
=============================================================================
