------------------------------ MODULE Emission ------------------------------
\* What an accepted document becomes in one env: compile_env and the emitters
\* (src/docex/cicl/compile.py, src/docex/emit/). The identities that the files
\* claim, the containers they declare and what each of them is handed are
\* modelled; images, health checks, tags and the like are not.
\* A scope is what compile_env is called with. A service is known by its id,
\* <<backing>> or <<codebase, core service>>.
EXTENDS Cicl, Fargate

\* The runtime key that carries a clock's table (emit/schedules.py).
SCHEDULES_ENV_KEY == "DOCEX_SCHEDULES_YAML"

Ids(doc) == {<<b>> : b \in Backing(doc)} \cup CoreServices(doc)
IsCoreId(id) == Len(id) = 2
Declared(doc, id) == IF IsCoreId(id) THEN Core(doc, id) ELSE doc.backing_services[id[1]]
KeyOf(id) == IF IsCoreId(id) THEN Compiled(id[1], id[2]) ELSE id[1]

_env_foundation(doc, env) == IF env \in {"dev", "test"} THEN "fixed" ELSE doc.foundation

EngineOf(doc, tables, id, foundation) ==
    LET svc == Declared(doc, id)
    IN  IF IsCoreId(id) THEN EngineForRole(tables, svc.role, foundation)
        ELSE EngineFor(tables, svc.role, svc.engine, foundation)

Scope(doc, tables, env, slot) ==
    LET foundation == _env_foundation(doc, env)
    IN  [doc |-> doc, env |-> env, slot |-> slot, foundation |-> foundation,
         engine |-> Tabled([id \in Ids(doc) |->
             LET e == EngineOf(doc, tables, id, foundation)
             IN  IF e = <<>> THEN [none |-> TRUE] ELSE tables[e]])]

Service(s, id) == Declared(s.doc, id)
Entry(s, id) == s.engine[id]
EmitsHere(s, id) == Elements(EmitsOn(Entry(s, id), s.foundation))

GlobalNameOf(s, id) ==
    IF IsCoreId(id) THEN GlobalServiceName(s.env, s.slot, id[1], id[2], Entry(s, id).naming)
    ELSE GlobalName(s.env, s.slot, id[1], Entry(s, id).naming)
PortOf(s, id) == IF Service(s, id).port # "none" THEN Service(s, id).port ELSE Entry(s, id).default_port
HostsOf(s, id) ==
    WebHosts(KeyOf(id), Service(s, id).networks,
             IF s.doc.domain_default_service = <<>> THEN <<>>
             ELSE Compiled(s.doc.domain_default_service[1], s.doc.domain_default_service[2]), s.env)
ServicesOfCodebase(s, cb) == {c \in CoreServices(s.doc) : c[1] = cb}
\* The name of a codebase is made with the policy of one of its services.
CodebaseGlobalName(s, cb) ==
    LET c == CHOOSE x \in ServicesOfCodebase(s, cb) : TRUE
    IN  codebase_global_name(s.env, s.slot, cb, Entry(s, c).naming)

-----------------------------------------------------------------------------
\* Substitution.
Variables(s, id) ==
    [name |-> KeyOf(id), global_service_name |-> GlobalNameOf(s, id), env_name |-> <<s.env>>,
     port |-> IF PortOf(s, id) = "none" THEN <<>> ELSE <<PortOf(s, id)>>,
     project_name |-> Project, env_subdomain |-> Subdomain(s.env)]

\* A key whose value the engine fixes is replaced by the value.
Fill(s, id, template) ==
    LET vars == Variables(s, id)
        env == Entry(s, id).env
    IN  [i \in DOMAIN template |->
            LET part == template[i]
            IN  CASE part[1] = "var" /\ part[2] \in DOMAIN vars -> <<"lit", vars[part[2]]>>
                  [] part[1] = "run" /\ part[2] \in DOMAIN env /\ KindOf(env[part[2]]) = "fixed" ->
                        <<"lit", env[part[2]].value>>
                  [] OTHER -> part]

IsEmpty(parts) == \A i \in DOMAIN parts : parts[i] = <<"lit", <<>>>>
IsRaw(parts) == \E i \in DOMAIN parts : parts[i][1] = "raw"
HasUnknown(parts) == \E i \in DOMAIN parts : parts[i][1] = "var"
RuntimeKeys(parts) == {parts[i][2] : i \in {j \in DOMAIN parts : parts[j][1] = "run"}}

Provided(s, r) == Fill(s, RefTarget(r), ProvidesFor(Entry(s, RefTarget(r)), s.foundation)[RefPart(r)])

\* MagicRefResolver: a reference that cannot be resolved for this consumer.
RefFails(s, id, r) ==
    \/ ~WellFormed(r)
    \/ RefTarget(r) = id
    \/ ~TargetExists(s.doc, RefTarget(r))
    \/ RefPart(r) \notin DOMAIN ProvidesFor(Entry(s, RefTarget(r)), s.foundation)
    \/ IsEmpty(Provided(s, r)) \/ HasUnknown(Provided(s, r))

\* A resolved value by its parts, each at its place: what part of the template
\* it is put for, and what part of that which is put there.
InPlace(put) == [x \in UNION {{i} \X DOMAIN put[i] : i \in DOMAIN put} |-> put[x[1]][x[2]]]
resolve_in_string(s, id, template) ==
    InPlace([i \in DOMAIN template |->
        IF template[i][1] = "ref" THEN Provided(s, template[i]) ELSE Fill(s, id, <<template[i]>>)])

\* A secret is handed over whole or not at all.
IsComposed(parts) ==
    /\ ~IsRaw(parts) /\ RuntimeKeys(parts) # {}
    /\ \E i, j \in DOMAIN parts : i # j /\ <<"lit", <<>>>> \notin {parts[i], parts[j]}

-----------------------------------------------------------------------------
\* What a container finds in its environment: the variables, each with the
\* runtime keys that its value is read from.
CodebaseEnv(s, id) == s.doc.codebases[id[1]].env
ServiceEnv(s, id) == EffectiveEnv(s.doc.codebases[id[1]], Service(s, id))

Injected ==
    {"PROJECT_VERSION", "OTEL_SERVICE_NAME", "OTEL_EXPORTER_OTLP_ENDPOINT",
     "OTEL_EXPORTER_OTLP_PROTOCOL", "OTEL_RESOURCE_ATTRIBUTES"}
Handed(keys) == [k \in keys |-> {k}]     \* under their own names
Literal(keys) == [k \in keys |-> {}]

_build_env_surface(s, id, source) ==
    LET cb == s.doc.codebases[id[1]]
        written == [k \in DOMAIN source |-> RuntimeKeys(resolve_in_string(s, id, source[k]))]
    IN  Merge(Merge(written, Handed(cb.secrets \cup cb.config)), Literal(Injected))

schedule_env(s, id) ==
    IF IsCoreId(id) /\ Under(Service(s, id), "schedules", <<>>) # <<>>
    THEN Literal({SCHEDULES_ENV_KEY}) ELSE <<>>

FilledDefaults(s, id, field) ==
    LET block == Under(DefaultsFor(Entry(s, id), s.foundation), field, <<>>)
    IN  [k \in DOMAIN block |-> RuntimeKeys(Fill(s, id, block[k]))]

EnvOf(s, id) ==
    IF ~IsCoreId(id) THEN FilledDefaults(s, id, "environment")
    ELSE Merge(_build_env_surface(s, id, ServiceEnv(s, id)), schedule_env(s, id))
CodebaseEnvOf(s, cb) ==
    LET c == CHOOSE x \in ServicesOfCodebase(s, cb) : TRUE
    IN  _build_env_surface(s, c, s.doc.codebases[cb].env)

SidecarEnv == Handed(DOCTRINE_INJECTED_SECRETS)

-----------------------------------------------------------------------------
\* What only compile_env notices, by the time it does: first an engine that
\* does not run here, then a name that does not fit, then the rest.
TASK_DEF_DEFAULT_READ_KEYS == {"cpu", "memory", "ephemeral_storage", "image", "command", "healthCheck"}

TemplateErrors(s, id, template) ==
    LET refs == {p \in Elements(template) : p[1] = "ref"}
    IN  IF \E r \in refs : RefFails(s, id, r) THEN {"reference"}
        ELSE LET parts == resolve_in_string(s, id, template)
             IN  Rule("variable", HasUnknown(parts)) \cup Rule("composed", IsComposed(parts))

\* Those of a service, and those of its codebase once more for it.
TemplatesFor(s, id) == Values(ServiceEnv(s, id)) \cup Values(CodebaseEnv(s, id))

ServiceErrors(s, id) ==
    LET svc == Service(s, id)
        defaults == DOMAIN DefaultsFor(Entry(s, id), s.foundation)
        onElastic == s.foundation = "elastic"
    IN  Rule("defaults", /\ onElastic /\ EmitsOn(Entry(s, id), "elastic")[1] = "task_definition"
                         /\ ~(defaults \subseteq TASK_DEF_DEFAULT_READ_KEYS))
        \cup IF ~IsCoreId(id) THEN {}
             ELSE Rule("sizing", onElastic /\ ~SizesOnElastic(svc.resources.cpu, svc.resources.memory,
                          svc.resources.disk, "ecs_service" \in EmitsHere(s, id)))
                  \cup UNION {TemplateErrors(s, id, x) : x \in TemplatesFor(s, id)}

LateErrors(s) ==
    LET ids == Ids(s.doc)
        tooLong(id) == \/ GlobalNameOf(s, id) = TooLong
                       \/ \E h \in HostsOf(s, id) : h[1] = TooLong[1]
    IN  IF \E id \in ids : Has(Entry(s, id), "none") THEN {"engine"}
        ELSE IF \E id \in ids : tooLong(id) THEN {"name"}
        ELSE UNION {ServiceErrors(s, id) : id \in ids}

-----------------------------------------------------------------------------
\* A compose file (emit/compose.py): the containers, with who each stands for.
effective_replicas(s, id) ==
    IF ~IsCoreId(id) \/ s.env # "prod" \/ Service(s, id).replicas = 0 THEN 1
    ELSE Service(s, id).replicas

\* The replicas of a service are told apart by a number, and answer to its name.
ServiceContainers(s, id, name, count) ==
    {[key |-> IF count = 1 THEN name ELSE name \o <<"-", ToString(i)>>,
      origin |-> IF count = 1 THEN <<"service", id>> ELSE <<"replica", id, i>>,
      aliases |-> IF count = 1 THEN {} ELSE {name},
      env |-> EnvOf(s, id), networks |-> Service(s, id).networks, needs |-> {}] : i \in 1..count}

\* The collector shares the network of the container it is paired with.
Sidecar(c) ==
    [key |-> c.key \o <<"-", "otelcol">>, origin |-> <<"sidecar", c.origin>>, aliases |-> {},
     env |-> SidecarEnv, networks |-> {}, needs |-> {c.key}]

\* One container per codebase, for `docex exec` and for migrations.
ExecContainer(s, cb) ==
    LET of == ServicesOfCodebase(s, cb)
        uses == UNION {Service(s, c).uses : c \in of}
    IN  [key |-> CodebaseGlobalName(s, cb) \o <<"-", "exec">>, origin |-> <<"exec", cb>>, aliases |-> {},
         env |-> CodebaseEnvOf(s, cb), networks |-> (UNION {Service(s, c).networks : c \in of}) \ {"web"},
         needs |-> {GlobalNameOf(s, u) : u \in {x \in uses : ~names_core_service(x)}}]

WithSidecars(id, own) == own \cup (IF IsCoreId(id) THEN {Sidecar(c) : c \in own} ELSE {})
Containers(s) ==
    (UNION {WithSidecars(id, ServiceContainers(s, id, GlobalNameOf(s, id), effective_replicas(s, id))) : id \in Ids(s.doc)})
    \cup {ExecContainer(s, cb) : cb \in Codebases(s.doc)}

NetworkName(s, n) ==
    dns_label(Project) \o <<"-", s.env>>
    \o (IF s.slot = 1 \/ (n = "web" /\ s.env # "test") THEN <<>> ELSE <<"-", "s", ToString(s.slot)>>)
    \o <<"-", n>>

\* The names a compose file claims on the machine that runs it, each with who
\* claims it. The web network of an env that is not test is the project's.
ComposeClaims(s, containers) ==
    LET ids == Ids(s.doc)
        of(id) == <<s.env, s.slot, <<"service", id>>>>
        networks == UNION {Service(s, id).networks : id \in ids}
        volumes == {id \in ids : Has(DefaultsFor(Entry(s, id), "fixed"), "volumes")}
        routed == {id \in ids : HostsOf(s, id) # {} /\ s.env # "test"}
    IN  {<<"container", c.key, <<s.env, s.slot, c.origin>>>> : c \in containers}
        \cup {<<"volume", GlobalNameOf(s, id) \o <<"_", "data">>, of(id)>> : id \in volumes}
        \cup {<<"network", NetworkName(s, n), <<s.env, s.slot, <<"network", n>>>>>> :
                 n \in IF s.env = "test" THEN networks ELSE networks \ {"web"}}
        \cup {<<"router", GlobalNameOf(s, id), of(id)>> : id \in routed}
        \cup UNION {{<<"host", h, of(id)>> : h \in HostsOf(s, id)} : id \in routed}

\* The project's own compose file: the proxy and the networks it shares with
\* the envs.
emit_project_compose ==
    LET label == dns_label(Project)
    IN  {<<"network", label \o <<"-", env, "-", "web">>, <<"project", env>>>> : env \in {"dev", "stage", "prod"}}
        \cup {<<"container", label \o <<"-", "traefik">>, <<"project", "traefik">>>>,
              <<"volume", label \o <<"-", "traefik-acme">>, <<"project", "traefik">>>>}

-----------------------------------------------------------------------------
\* A main.tf (emit/hcl.py).
SchemaOwners(s) == {cb \in Codebases(s.doc) :
                       \E b \in Backing(s.doc) : s.doc.backing_services[b].schema_owned_by = cb}
UsesAlb(doc) == doc.reverse_proxy \in {"none", "alb"}
OwnTargetGroup(s, id) ==
    /\ "target_group" \in EmitsHere(s, id)
    /\ OnWeb(Service(s, id)) /\ UsesAlb(s.doc)

\* A service is served by a listener rule of its own, above those of other envs.
PriorityBase(env) == CASE env = "stage" -> 1000 [] env = "prod" -> 5000 [] OTHER -> 100
Priority(s, id) ==
    IF IsCoreId(id) THEN <<ToString(PriorityBase(s.env)), "+">> \o KeyOf(id) ELSE <<"100">>

Resource == [rds_instance |-> "aws_db_instance", elasticache_cluster |-> "aws_elasticache_cluster",
             s3_bucket |-> "aws_s3_bucket", efs_file_system |-> "aws_efs_file_system",
             ecs_service |-> "aws_ecs_service", task_definition |-> "aws_ecs_task_definition",
             target_group |-> "aws_lb_target_group"]

render_service(s, id) ==
    LET of == <<s.env, s.slot, <<"service", id>>>>
        name == GlobalNameOf(s, id)
        dests == {d \in EmitsHere(s, id) \cap DOMAIN Resource : d # "target_group" \/ OwnTargetGroup(s, id)}
        read == UNION {RuntimeKeys(Fill(s, id, x)) : x \in Values(DefaultsFor(Entry(s, id), "elastic"))}
    IN  {<<"resource", <<s.env, Resource[d]>> \o KeyOf(id), of>> : d \in dests}
        \cup {<<Resource[d], name, of>> : d \in dests \ {"target_group"}}
        \cup {<<"data", <<s.env>> \o KeyOf(id) \o <<"_", k>>, of>> : k \in read}
        \cup (IF "task_definition" \notin dests THEN {}
              ELSE {<<"log_group", <<s.env, "/">> \o KeyOf(id), of>>})
        \cup (IF "ecs_service" \in dests /\ PortOf(s, id) # "none" THEN {<<"discovery", name, of>>} ELSE {})
        \cup (IF "target_group" \notin dests THEN {}
              ELSE {<<"aws_lb_target_group", apply_policy(name \o <<"_", "tg">>, "alb"), of>>,
                    <<"priority", Priority(s, id), of>>}
                   \cup {<<"host", h, of>> : h \in HostsOf(s, id)})

\* The task that migrates a codebase's schemas has a log group of its own.
render_migration_task_definition(s, cb) ==
    LET of == <<s.env, s.slot, <<"migrate", cb>>>>
    IN  {<<"resource", <<s.env, "aws_ecs_task_definition">> \o cb \o <<"_", "migrate">>, of>>,
         <<"aws_ecs_task_definition", CodebaseGlobalName(s, cb) \o <<"-", "migrate">>, of>>,
         <<"log_group", <<s.env, "/">> \o cb, of>>}

HclClaims(s) ==
    (UNION {render_service(s, id) : id \in Ids(s.doc)})
    \cup UNION {render_migration_task_definition(s, cb) : cb \in SchemaOwners(s)}

\* The project's own production file names a registry per codebase.
emit_hcl_project(doc) ==
    {<<"repository", Underscores(cb), <<"project", cb>>>> : cb \in Codebases(doc)}
=============================================================================
