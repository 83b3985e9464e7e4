-------------------------------- MODULE Cicl --------------------------------
\* A CICL document (infra.yml) and the rules that decide whether it is accepted:
\* src/docex/cicl/model.py, magic_refs.py, categories.py and validate.py.
\* A rule is an operator that gives the set of its findings' names.
EXTENDS TransferTables, FiniteSets

\* `uses: api.web` is <<api, web>>, `uses: main-db` is <<main-db>>.
names_core_service(entry) == Len(entry) > 1
ParsesAsServiceRef(entry) == Len(entry) = 2 /\ <<>> \notin Elements(entry)

Codebases(doc) == DOMAIN doc.codebases
CoreServices(doc) ==
    UNION {{<<cb, s>> : s \in DOMAIN doc.codebases[cb].core_services} : cb \in Codebases(doc)}
Core(doc, c) == doc.codebases[c[1]].core_services[c[2]]
IsCore(doc, c) == c[1] \in Codebases(doc) /\ c[2] \in DOMAIN doc.codebases[c[1]].core_services
Backing(doc) == DOMAIN doc.backing_services
OnWeb(svc) == "web" \in svc.networks
ExtraFields(svc) ==
    DOMAIN svc.extra \cup (IF Has(svc, "schedules") THEN {"schedules"} ELSE {})

\* The types of the fields that a document is read into.
IsName(n) == n \in Seq(STRING) /\ n # <<>>
IsDocument(doc) ==
    /\ \A n \in Codebases(doc) \cup Backing(doc) : IsName(n)
    /\ \A c \in CoreServices(doc) :
          /\ IsName(c[2]) /\ Core(doc, c).replicas \in Nat
          /\ \A u \in Core(doc, c).uses : u \in Seq(Seq(STRING)) /\ u # <<>>
    /\ \A b \in Backing(doc) : doc.backing_services[b].engine \in Seq(STRING)

CURRENT_CICL_VERSION == "3"
API_STYLE_FORMATS ==
    [rest |-> "openapi", stream |-> "openapi", webhook |-> "openapi", rpc |-> "asyncapi",
     events |-> "asyncapi", socket |-> "asyncapi", graphql |-> "graphql", grpc |-> "proto"]
IMPLEMENTED_CONTRACT_FORMATS == {"openapi", "asyncapi"}

\* Pydantic's own checks: without them there is no document. The shapes that a
\* field cannot have here (a port that is text, an empty command) are left out.
Parses(doc) ==
    /\ doc.cicl_version = CURRENT_CICL_VERSION
    /\ doc.foundation \in {"fixed", "elastic"}
    /\ doc.observability_backend_url = "https"
    /\ doc.reverse_proxy \in {"none", "alb", "ec2_traefik_eip", "ec2_traefik_pip"}
    /\ Codebases(doc) \cap Backing(doc) = {}
    /\ \A cb \in Codebases(doc) :
          DOMAIN doc.codebases[cb].core_services # {} /\ ~doc.codebases[cb].v1_shape
    /\ \A c \in CoreServices(doc) :
          Core(doc, c).networks # {} /\ \A x \in DOMAIN Core(doc, c).surfaces : Core(doc, c).surfaces[x] # {}
    /\ \A b \in Backing(doc) : doc.backing_services[b].networks # {}

-----------------------------------------------------------------------------
\* Magic references: <<"ref", kind, segments>>.
CoreRef(cb, svc, part) == <<"ref", "codebases", <<cb, <<"core_services">>, svc, <<part>>>>>>
BackingRef(name, part) == <<"ref", "backing_services", <<name, <<part>>>>>>

WellFormed(r) ==
    /\ <<>> \notin Elements(r[3])
    /\ \/ r[2] = "codebases" /\ Len(r[3]) = 4 /\ r[3][2] = <<"core_services">>
       \/ r[2] = "backing_services" /\ Len(r[3]) = 2
RefTarget(r) == IF r[2] = "codebases" THEN <<r[3][1], r[3][3]>> ELSE <<r[3][1]>>
RefPart(r) == r[3][Len(r[3])][1]

RefsIn(templates) == UNION {{p \in Elements(x) : p[1] = "ref"} : x \in templates}

EffectiveEnv(cb, svc) == Merge(cb.env, svc.env)
Values(mapping) == {mapping[k] : k \in DOMAIN mapping}
RefTemplates(cb, svc) == Values(EffectiveEnv(cb, svc)) \cup {svc.command} \cup Values(svc.extra)
RefsOf(doc, c) == RefsIn(RefTemplates(doc.codebases[c[1]], Core(doc, c)))

EntriesOf(tables, svc) ==   \* the known engines that a backing service names
    {<<svc.role, svc.engine[i]>> : i \in DOMAIN svc.engine} \cap DOMAIN tables
ExposedParts(doc, tables, target) ==
    UNION {DOMAIN tables[e].provides : e \in
        IF Len(target) = 2 THEN {x \in DOMAIN tables : x[1] = Core(doc, target).role}
        ELSE EntriesOf(tables, doc.backing_services[target[1]])}
TargetExists(doc, target) ==
    IF Len(target) = 2 THEN IsCore(doc, target) ELSE target[1] \in Backing(doc)

-----------------------------------------------------------------------------
\* Where the value of a runtime key comes from (categories.py).
DOCTRINE_INJECTED_SECRETS == {"TELEMETRY_API_KEY"}

KindOf(spec) == IF spec.kind = "text" THEN "secret" ELSE spec.kind
EngineKeysOf(doc, tables, kind) ==
    UNION {LET env == tables[e].env IN {k \in DOMAIN env : KindOf(env[k]) = kind} :
              e \in UNION {EntriesOf(tables, doc.backing_services[b]) : b \in Backing(doc)}}

classify_source_keys(doc, tables) ==
    [tte    |-> EngineKeysOf(doc, tables, "minted"),
     secret |-> DOCTRINE_INJECTED_SECRETS \cup EngineKeysOf(doc, tables, "secret")
                  \cup UNION {doc.codebases[cb].secrets : cb \in Codebases(doc)},
     config |-> UNION {doc.codebases[cb].config : cb \in Codebases(doc)}]
CategoriesOf(cats, key) == {c \in DOMAIN cats : key \in cats[c]}

\* What the stores must hold: what `secrets sync` and `config sync` list, and
\* what a first bring-up mints.
secret_manifest(doc, tables) == classify_source_keys(doc, tables).secret
config_manifest(doc) == UNION {doc.codebases[cb].config : cb \in Codebases(doc)}
minted_policies(doc, tables) == EngineKeysOf(doc, tables, "minted")

-----------------------------------------------------------------------------
\* validate.py, rule by rule. A role without engines is unknown here: either way
\* the document is refused.
Rule(name, broken) == IF broken THEN {name} ELSE {}

RolesAndEngines(doc, tables) ==
    LET known == {b \in Backing(doc) : doc.backing_services[b].role \in Roles(tables)}
        engines(b) == Elements(doc.backing_services[b].engine)
        role(b) == doc.backing_services[b].role
    IN  Rule("rule_2_unknown_role",
             \/ \E c \in CoreServices(doc) : Core(doc, c).role \notin Roles(tables)
             \/ known # Backing(doc))
        \cup Rule("rule_4_unknown_engine",
                  \E b \in known : \E x \in engines(b) : <<role(b), x>> \notin DOMAIN tables)
        \cup Rule("rule_4_engine_foundation_mismatch",
                  \E b \in known : \A e \in EntriesOf(tables, doc.backing_services[b]) :
                      ~Supports(tables[e], doc.foundation))

\* A field of its own must be one that some engine of the role translates.
RoleSpecificFields(doc, tables) ==
    LET undeclared(svc, entries) ==
            ~(ExtraFields(svc) \subseteq UNION {DOMAIN tables[e].fields : e \in entries})
    IN  Rule("tt_rule_4_undeclared_field",
             \/ \E c \in CoreServices(doc) :
                   /\ Core(doc, c).role \in Roles(tables)
                   /\ undeclared(Core(doc, c), {e \in DOMAIN tables : e[1] = Core(doc, c).role})
             \/ \E b \in Backing(doc) :
                   /\ doc.backing_services[b].role \in Roles(tables)
                   /\ undeclared(doc.backing_services[b], EntriesOf(tables, doc.backing_services[b])))

RequiredVersion(doc, tables) ==
    Rule("rule_version_required",
         \E b \in Backing(doc) :
            /\ ~doc.backing_services[b].version
            /\ \E e \in EntriesOf(tables, doc.backing_services[b]) :
                  Supports(tables[e], doc.foundation) /\ Has(tables[e].fields, "version"))

Surfaces(doc) ==
    LET declared == UNION {Values(Core(doc, c).surfaces) : c \in CoreServices(doc)}
        formats(styles) == {API_STYLE_FORMATS[x] : x \in styles \cap DOMAIN API_STYLE_FORMATS}
    IN  Rule("rule_29_unknown_api_style", \E x \in declared : ~(x \subseteq DOMAIN API_STYLE_FORMATS))
        \cup Rule("rule_29_mixed_contract_formats", \E x \in declared : Cardinality(formats(x)) > 1)
        \cup Rule("rule_contract_format_not_implemented",
                  \E x \in declared : ~(formats(x) \subseteq IMPLEMENTED_CONTRACT_FORMATS))

\* A reference names a service and a part that some engine of it exposes, on
\* whatever foundation; a core service uses what it refers to.
MagicRefs(doc, tables) ==
    LET ofCore == {<<c, r>> : c \in CoreServices(doc), r \in UNION {RefsOf(doc, x) : x \in CoreServices(doc)}}
        held == {x \in ofCore : x[2] \in RefsOf(doc, x[1])}
        refs == {x[2] : x \in held}
                  \cup UNION {RefsIn(Values(doc.backing_services[b].extra)) : b \in Backing(doc)}
        resolves(r) == /\ TargetExists(doc, RefTarget(r))
                       /\ RefPart(r) \in ExposedParts(doc, tables, RefTarget(r))
    IN  Rule("rule_3_magic_ref_arity", \E r \in refs : ~WellFormed(r))
        \cup Rule("rule_3_self_magic_ref",
                  \E x \in held : WellFormed(x[2]) /\ RefTarget(x[2]) = x[1])
        \cup Rule("rule_3_unresolved_magic_ref", \E r \in refs : WellFormed(r) /\ ~resolves(r))
        \cup Rule("rule_7_magic_ref_implies_uses",
                  \E x \in held : /\ WellFormed(x[2]) /\ RefTarget(x[2]) # x[1]
                                  /\ TargetExists(doc, RefTarget(x[2]))
                                  /\ RefTarget(x[2]) \notin Core(doc, x[1]).uses)

Uses(doc) ==
    LET edges == UNION {{<<c, u>> : u \in Core(doc, c).uses} : c \in CoreServices(doc)}
        cores == {x \in edges : ParsesAsServiceRef(x[2])}
        bare == {x \in edges : ~names_core_service(x[2])}
    IN  Rule("rule_25_uses_malformed",
             \/ \E x \in edges \ (cores \cup bare) : TRUE
             \/ \E x \in bare : x[2][1] \in Codebases(doc))
        \cup Rule("rule_25_unresolved_uses",
                  \/ \E x \in bare : x[2][1] \notin Backing(doc) \cup Codebases(doc)
                  \/ \E x \in cores : x[1] # x[2] /\ ~IsCore(doc, x[2]))
        \cup Rule("rule_25_self_uses", \E x \in cores : x[1] = x[2])
        \cup Rule("rule_31_uses_target_declares_no_surface",
                  \E x \in cores : x[1] # x[2] /\ IsCore(doc, x[2]) /\ DOMAIN Core(doc, x[2]).surfaces = {})
        \cup Rule("rule_uses_on_backing_service",
                  \E b \in Backing(doc) : Has(doc.backing_services[b].extra, "uses"))

UsesAddressingAssumed(doc) == {}     \* mutant: no port is asked for

\* A used service that someone addresses by its host has a port; one that no
\* one does has none, unless the proxy needs it.
UsesAddressing(doc) ==
    LET users(target) == {c \in CoreServices(doc) \ {target} : target \in Core(doc, c).uses}
        addressers(target) ==
            {c \in users(target) : \E r \in RefsOf(doc, c) :
                r[2] = "codebases" /\ WellFormed(r) /\ RefTarget(r) = target}
        used == {c \in CoreServices(doc) : users(c) # {}}
    IN  Rule("rule_32_direct_target_needs_port",
             \E c \in used : addressers(c) # {} /\ Core(doc, c).port = "none")
        \cup Rule("rule_32_unaddressed_target_declares_port",
                  \E c \in used : addressers(c) = {} /\ Core(doc, c).port # "none" /\ ~OnWeb(Core(doc, c)))

SchemaOwnedBy(doc) ==
    LET databases == {b \in Backing(doc) : doc.backing_services[b].role = "relational_db"}
        owner(b) == doc.backing_services[b].schema_owned_by
    IN  Rule("rule_8_schema_owned_by_required", \E b \in databases : owner(b) = <<>>)
        \cup Rule("rule_8_schema_owned_by_unknown",
                  \E b \in databases : owner(b) # <<>> /\ owner(b) \notin Codebases(doc))

ContainerRegistry(doc) ==
    Rule("rule_9_container_registry_required", doc.foundation = "fixed" /\ ~doc.container_registry)

Resources(doc) ==
    Rule("rule_11_no_gpu_on_elastic",
         doc.foundation = "elastic" /\ \E c \in CoreServices(doc) : Core(doc, c).resources.gpu)

\* Everything that gets a name of its own, with who it stands for.
Identities(doc) ==
    (UNION {LET key == Compiled(c[1], c[2]) IN
                {<<key, <<"core", c, 0>>>>, <<key \o <<"-", "otelcol">>, <<"sidecar", c, 0>>>>}
                \cup {<<key \o <<"-", ToString(i)>>, <<"replica", c, i>>>> :
                         i \in IF Core(doc, c).replicas > 1 THEN 1..Core(doc, c).replicas ELSE {}} :
               c \in CoreServices(doc)})
    \cup {<<b, <<"backing", <<b>>, 0>>>> : b \in Backing(doc)}
    \cup {<<cb \o <<"-", "exec">>, <<"exec", <<cb>>, 0>>>> : cb \in Codebases(doc)}
    \cup {<<cb \o <<"-", "migrate">>, <<"migrate", <<cb>>, 0>>>> : cb \in Codebases(doc)}

RenderedIdentity(doc) ==
    LET ids == Identities(doc)
    IN  Rule("rule_5_rendered_identity_collision",
             Cardinality({NormalizedIdentity(x[1]) : x \in ids}) < Cardinality(ids))

DomainDefaultService(doc) ==
    LET ref == doc.domain_default_service
    IN  IF ref = <<>> THEN {}
        ELSE IF ~ParsesAsServiceRef(ref) THEN {"rule_domain_default_malformed"}
        ELSE IF ~IsCore(doc, ref) THEN {"rule_domain_default_unknown"}
        ELSE Rule("rule_domain_default_not_web", ~OnWeb(Core(doc, ref)))

WebServicePorts(doc) ==
    Rule("rule_web_service_needs_port",
         \/ \E c \in CoreServices(doc) : OnWeb(Core(doc, c)) /\ Core(doc, c).port = "none"
         \/ \E b \in Backing(doc) :
               OnWeb(doc.backing_services[b]) /\ doc.backing_services[b].port = "none")

EnvSecretsConfigOverlap(doc) ==
    Rule("rule_env_secrets_config_overlap",
         \/ \E cb \in Codebases(doc) : doc.codebases[cb].secrets \cap doc.codebases[cb].config # {}
         \/ \E c \in CoreServices(doc) :
               LET cb == doc.codebases[c[1]]
               IN  DOMAIN EffectiveEnv(cb, Core(doc, c)) \cap (cb.secrets \cup cb.config) # {})

\* The engine a service gets on the project's foundation, <<>> for none.
EngineForService(doc, tables, svc) ==
    IF ~Has(svc, "engine") THEN EngineForRole(tables, svc.role, doc.foundation)
    ELSE LET usable == {i \in DOMAIN svc.engine :
                           /\ <<svc.role, svc.engine[i]>> \in DOMAIN tables
                           /\ Supports(tables[<<svc.role, svc.engine[i]>>], doc.foundation)}
         IN  IF usable = {} THEN <<>> ELSE <<svc.role, svc.engine[First(usable)]>>

Emits(doc, tables) ==
    LET cores == {Core(doc, c) : c \in CoreServices(doc)}
        backing == Values(doc.backing_services)
        engine(svc) == EngineForService(doc, tables, svc)
        used == ({engine(s) : s \in cores} \cup {engine(s) : s \in backing}) \ {<<>>}
        foundations == {"fixed"} \cup (IF doc.foundation = "elastic" THEN {"elastic"} ELSE {})
        undeclaredTarget(e) ==
            \E f \in DOMAIN e.fields : \E on \in DOMAIN e.fields[f] :
                /\ Has(e.fields[f][on], "target")
                /\ e.fields[f][on].target \notin Elements(EmitsOn(e, on))
        offWeb(svc) ==
            /\ ~OnWeb(svc) /\ engine(svc) # <<>>
            /\ \E f \in DOMAIN svc.extra \cap DOMAIN tables[engine(svc)].fields :
                  FieldTarget(tables[engine(svc)], f, doc.foundation) = "target_group"
    IN  Rule("EMITS_MISSING", \E e \in used : \E f \in foundations :
                 Supports(tables[e], f) /\ EmitsOn(tables[e], f) = <<>>)
        \cup Rule("FIELD_TARGET_UNDECLARED", \E e \in used : undeclaredTarget(tables[e]))
        \cup Rule("FIELD_TARGET_NOT_APPLICABLE", (\E s \in cores : offWeb(s)) \/ \E s \in backing : offWeb(s))

ReservedEngineNames(doc, tables) ==
    Rule("rule_engine_reserved_name",
         \E b \in Backing(doc) :
            LET e == EngineForService(doc, tables, doc.backing_services[b])
            IN  e # <<>> /\ Lower(b) \in tables[e].reserved_names)

ReservedInTheDoctrine ==     \* mutant: without the one that only a clock gets
    {"PROJECT_VERSION", "OTEL_SERVICE_NAME", "OTEL_EXPORTER_OTLP_ENDPOINT",
     "OTEL_EXPORTER_OTLP_PROTOCOL", "OTEL_RESOURCE_ATTRIBUTES"}
RESERVED_CORE_ENV_KEYS ==
    {"PROJECT_VERSION", "OTEL_SERVICE_NAME", "OTEL_EXPORTER_OTLP_ENDPOINT",
     "OTEL_EXPORTER_OTLP_PROTOCOL", "OTEL_RESOURCE_ATTRIBUTES", "DOCEX_SCHEDULES_YAML"}

ReservedEnvKeys(doc) ==
    LET written == UNION {LET cb == doc.codebases[x]
                          IN  DOMAIN cb.env \cup cb.secrets \cup cb.config
                                \cup UNION {DOMAIN cb.core_services[s].env : s \in DOMAIN cb.core_services} :
                             x \in Codebases(doc)}
    IN  Rule("rule_reserved_env_key", written \cap RESERVED_CORE_ENV_KEYS # {})
        \cup Rule("rule_doctrine_injected_key_reserved", written \cap DOCTRINE_INJECTED_SECRETS # {})

SourceKeyDisjointness(doc, tables) ==
    LET cats == classify_source_keys(doc, tables)
    IN  Rule("rule_source_key_category_conflict",
             \E key \in (cats.tte \cup cats.secret \cup cats.config) \ DOCTRINE_INJECTED_SECRETS :
                 Cardinality(CategoriesOf(cats, key)) > 1)

SLD_LABELS == {"co", "com", "org", "net", "gov", "ac", "edu"}
ApexDomainBare(doc) ==
    LET n == Len(doc.apex_domain)
    IN  Rule("rule_13_apex_domain_required", n = 0)
        \cup Rule("rule_13_apex_domain_bare",
                  n # 0 /\ ~(/\ "" \notin Elements(doc.apex_domain)
                             /\ n = 2 \/ (n = 3 /\ Lower(doc.apex_domain)[2] \in SLD_LABELS)))

RESERVED_SERVICE_NAMES == {<<"dev">>, <<"test">>, <<"stage">>, <<"prod">>, <<"www">>}
ServiceNameBlacklist(doc) ==
    Rule("rule_14_service_name_blacklist",
         (Codebases(doc) \cup Backing(doc) \cup {c[2] : c \in CoreServices(doc)})
            \cap RESERVED_SERVICE_NAMES # {})

ReverseProxyField(doc) ==
    Rule("rule_18_reverse_proxy_elastic_only", doc.foundation = "fixed" /\ doc.reverse_proxy # "none")

\* Of the names that a job is given here, those that are no identifiers.
NotIdentifiers == {"9am"}

ClockServices(doc) ==
    LET clocks == {Core(doc, c) : c \in {x \in CoreServices(doc) : Core(doc, x).role = "clock"}}
    IN  Rule("rule_clock_schedules_required", \E k \in clocks : ~Has(k, "schedules") \/ k.schedules = <<>>)
        \cup Rule("rule_clock_cron_invalid",
                  \E k \in clocks : Has(k, "schedules") /\ "bad" \in Values(k.schedules))
        \cup Rule("rule_clock_job_name_invalid",
                  \E k \in clocks : Has(k, "schedules") /\ DOMAIN k.schedules \cap NotIdentifiers # {})

ServiceRoleRules(doc) ==
    Rule("rule_26_replicas_on_clock",
         \E c \in CoreServices(doc) : Core(doc, c).role = "clock" /\ Core(doc, c).replicas # 0)
    \cup Rule("rule_27_web_network_on_non_web_role",
              \E c \in CoreServices(doc) : Core(doc, c).role \in {"worker", "clock"} /\ OnWeb(Core(doc, c)))

HealthCheckDeclaration(doc) ==
    LET declares(c) == Has(Core(doc, c).extra, "health_check_path")
    IN  Rule("rule_33_web_service_needs_health_check_path",
             \E c \in CoreServices(doc) : OnWeb(Core(doc, c)) /\ ~declares(c))
        \cup Rule("rule_33_health_check_path_off_web",
                  \E c \in CoreServices(doc) : ~OnWeb(Core(doc, c)) /\ declares(c))

ReverseProxyRoleRemoved(doc) ==
    Rule("rule_reverse_proxy_role_removed",
         \/ \E c \in CoreServices(doc) : Core(doc, c).role = "reverse_proxy"
         \/ \E b \in Backing(doc) : doc.backing_services[b].role = "reverse_proxy")

\* validate_document. A document is accepted when nothing is found.
Issues(doc, tables) ==
    RolesAndEngines(doc, tables) \cup RoleSpecificFields(doc, tables) \cup RequiredVersion(doc, tables)
    \cup MagicRefs(doc, tables) \cup Uses(doc) \cup SchemaOwnedBy(doc) \cup ContainerRegistry(doc)
    \cup Resources(doc) \cup RenderedIdentity(doc) \cup DomainDefaultService(doc)
    \cup WebServicePorts(doc) \cup ServiceRoleRules(doc) \cup EnvSecretsConfigOverlap(doc)
    \cup ReservedEngineNames(doc, tables) \cup Emits(doc, tables) \cup ReservedEnvKeys(doc)
    \cup SourceKeyDisjointness(doc, tables) \cup ApexDomainBare(doc) \cup ServiceNameBlacklist(doc)
    \cup ReverseProxyField(doc) \cup ReverseProxyRoleRemoved(doc) \cup ClockServices(doc)
    \cup Surfaces(doc) \cup UsesAddressing(doc) \cup HealthCheckDeclaration(doc)
=============================================================================
