--------------------------- MODULE TransferTables ---------------------------
\* The transfer tables: what an engine of a role is on each foundation
\* (src/docex/tables/roles/*.yml) and how a project's own tables are laid over
\* the bundled ones (src/docex/cicl/transfer.py).
\* An entry is what its YAML says: a record of the keys that are written, of
\* which those the compiler's output depends on are modelled. A template is a
\* sequence of parts <<kind, what>>: "lit" a name, "var" a compile-time
\* variable, "run" a $[KEY], "ref" a magic reference, "raw" the leading '@' of
\* an HCL expression.
EXTENDS Names

GlobalNamePart == <<"var", "global_service_name">>
HostAndPort == [host |-> [fixed |-> <<GlobalNamePart>>, elastic |-> <<GlobalNamePart>>],
                port |-> [fixed |-> <<<<"var", "port">>>>, elastic |-> <<<<"var", "port">>>>]]
Both(template) == [fixed |-> template, elastic |-> template]
Attribute(type, attr) ==
    <<<<"raw", <<>>>>, <<"lit", <<type, ".">>>>, <<"var", "name">>, <<"lit", <<".", attr>>>>>>

FixedVar(value) == [kind |-> "fixed", value |-> value]
Minted(policy) == [kind |-> "minted", policy |-> policy]
Secret == [kind |-> "text"]    \* a bare description declares a secret

Container(fields, last) ==
    [foundation |-> "both", naming |-> "ecs", env |-> <<>>, fields |-> fields,
     emits |-> [fixed |-> <<"compose_service">>,
                elastic |-> <<"task_definition", "ecs_service", last>>],
     defaults |-> [fixed |-> [healthcheck |-> <<>>], elastic |-> [healthCheck |-> <<>>]],
     provides |-> HostAndPort]

PostgresEnvironment ==
    [POSTGRES_USER |-> <<<<"run", "POSTGRES_USER">>>>,
     POSTGRES_PASSWORD |-> <<<<"run", "POSTGRES_PASSWORD">>>>]
MinioEnvironment ==
    [MINIO_ROOT_USER |-> <<<<"run", "MINIO_ROOT_USER">>>>,
     MINIO_ROOT_PASSWORD |-> <<<<"run", "MINIO_ROOT_PASSWORD">>>>]

WebContainer ==
    Container([health_check_path |-> [elastic |-> [target |-> "target_group"]]], "target_group")
WorkerContainer == Container(<<>>, "container_definition")
ClockContainer == Container([schedules |-> Both(<<>>)], "container_definition")

\* Of the reserved names of postgres the ones that occur are listed.
PostgresEngine ==
    [foundation |-> "both", naming |-> "rds", default_port |-> "5432",
     emits |-> [fixed |-> <<"compose_service">>, elastic |-> <<"rds_instance">>],
     reserved_names |-> {<<"db">>, <<"user">>},
     defaults |-> [fixed |-> [volumes |-> <<"data">>, healthcheck |-> <<>>,
                              environment |-> PostgresEnvironment],
                   elastic |-> [username |-> <<<<"run", "POSTGRES_USER">>>>,
                                password |-> <<<<"run", "POSTGRES_PASSWORD">>>>]],
     fields |-> [version |-> Both(<<>>)],
     provides |-> [host |-> [fixed |-> <<GlobalNamePart>>,
                             elastic |-> Attribute("aws_db_instance", "address")],
                   port |-> Both(<<<<"var", "port">>>>),
                   password |-> Both(<<<<"run", "POSTGRES_PASSWORD">>>>),
                   user |-> Both(<<<<"run", "POSTGRES_USER">>>>)],
     env |-> [POSTGRES_USER |-> FixedVar(<<"appuser">>),
              POSTGRES_PASSWORD |-> Minted("password")]]

RedisEngine ==
    [foundation |-> "both", naming |-> "rds", default_port |-> "6379", env |-> <<>>,
     emits |-> [fixed |-> <<"compose_service">>, elastic |-> <<"elasticache_cluster">>],
     defaults |-> [fixed |-> [volumes |-> <<"data">>, healthcheck |-> <<>>], elastic |-> <<>>],
     fields |-> [version |-> Both(<<>>)],
     provides |-> [host |-> [fixed |-> <<GlobalNamePart>>,
                             elastic |-> Attribute("aws_elasticache_cluster", "address")],
                   port |-> Both(<<<<"var", "port">>>>)]]

MinioEngine ==
    [foundation |-> "fixed", naming |-> "docker", emits |-> [fixed |-> <<"compose_service">>],
     defaults |-> [fixed |-> [volumes |-> <<"data">>, healthcheck |-> <<>>,
                              environment |-> MinioEnvironment]],
     fields |-> [version |-> [fixed |-> <<>>], versioning |-> [fixed |-> <<>>]],
     provides |-> [endpoint |-> [fixed |-> <<GlobalNamePart, <<"lit", <<":", "9000">>>>>>],
                   bucket_name |-> [fixed |-> <<<<"var", "name">>>>],
                   access_key |-> [fixed |-> <<<<"run", "MINIO_ROOT_USER">>>>]],
     env |-> [MINIO_ROOT_USER |-> Secret, MINIO_ROOT_PASSWORD |-> Secret]]

S3Engine ==
    [foundation |-> "elastic", naming |-> "s3", emits |-> [elastic |-> <<"s3_bucket">>],
     defaults |-> [elastic |-> <<>>], env |-> <<>>,
     fields |-> [versioning |-> [elastic |-> <<>>]],
     provides |-> [endpoint |-> [elastic |-> <<<<"lit", <<"s3">>>>>>],
                   bucket_name |-> [elastic |-> Attribute("aws_s3_bucket", "bucket")]]]

\* The bundled tables. An engine is named by its role and its own name.
Shipped == {<<"web", "container">>, <<"worker", "container">>, <<"clock", "container">>,
            <<"relational_db", "postgres">>, <<"cache", "redis">>,
            <<"object_store", "minio">>, <<"object_store", "s3">>}
Bundled ==
    [e \in Shipped |->
        CASE e = <<"web", "container">> -> WebContainer
          [] e = <<"worker", "container">> -> WorkerContainer
          [] e = <<"clock", "container">> -> ClockContainer
          [] e = <<"relational_db", "postgres">> -> PostgresEngine
          [] e = <<"cache", "redis">> -> RedisEngine
          [] e = <<"object_store", "minio">> -> MinioEngine
          [] e = <<"object_store", "s3">> -> S3Engine]

-----------------------------------------------------------------------------
\* Loading. Each file is checked by itself, then laid over what came before it,
\* and the merged entries are parsed.

EngineKeys == {"foundation", "default_port", "emits", "defaults", "fields", "provides", "env",
               "naming", "reserved_names", "persistent_storage"}
EmitDestinations ==
    [fixed |-> {"compose_service"},
     elastic |-> {"task_definition", "ecs_service", "target_group", "rds_instance",
                  "elasticache_cluster", "s3_bucket", "efs_file_system", "container_definition"}]

Has(raw, key) == key \in DOMAIN raw
Elements(seq) == {seq[i] : i \in DOMAIN seq}
First(places) == CHOOSE i \in places : \A j \in places : i <= j
Under(mapping, key, absent) == IF Has(mapping, key) THEN mapping[key] ELSE absent

EnvVarParses(spec) ==
    \/ spec.kind = "text"
    \/ /\ DOMAIN spec \subseteq {"kind", "value", "policy"}
       /\ spec.kind \in {"fixed", "minted", "secret"}
       /\ Has(spec, "value") <=> spec.kind = "fixed"
       /\ Has(spec, "policy") <=> spec.kind = "minted"

\* Persistent storage comes with the file system that keeps it, in one file.
EntryIsValid(raw) ==
    LET emits == Under(raw, "emits", <<>>)
        elastic == Elements(Under(emits, "elastic", <<>>))
        env == Under(raw, "env", <<>>)
    IN  /\ DOMAIN raw \subseteq EngineKeys
        /\ Has(raw, "foundation") => raw.foundation \in {"fixed", "elastic", "both"}
        /\ Has(raw, "naming") => raw.naming # ""
        /\ DOMAIN emits \subseteq {"fixed", "elastic"}
        /\ \A f \in DOMAIN emits : Elements(emits[f]) \subseteq EmitDestinations[f]
        /\ Has(raw, "persistent_storage") <=> "efs_file_system" \in elastic
        /\ \A k \in DOMAIN env : EnvVarParses(env[k])

\* Mappings are merged key by key, anything else is replaced: the blocks of an
\* entry are merged to the depth they have.
Merge(base, over) ==
    [k \in DOMAIN base \cup DOMAIN over |-> IF Has(over, k) THEN over[k] ELSE base[k]]
MergeTwice(base, over) ==
    [k \in DOMAIN base \cup DOMAIN over |->
        IF Has(base, k) /\ Has(over, k) THEN Merge(base[k], over[k]) ELSE Merge(base, over)[k]]
MergeEnv(base, over) ==
    [k \in DOMAIN base \cup DOMAIN over |->
        IF Has(base, k) /\ Has(over, k) /\ "text" \notin {base[k].kind, over[k].kind}
        THEN Merge(base[k], over[k]) ELSE Merge(base, over)[k]]
MergeEntry(base, over) ==
    [k \in DOMAIN base \cup DOMAIN over |->
        IF ~(Has(base, k) /\ Has(over, k)) THEN Merge(base, over)[k]
        ELSE CASE k \in {"provides", "fields", "defaults"} -> MergeTwice(base[k], over[k])
               [] k = "env" -> MergeEnv(base[k], over[k])
               [] k = "emits" -> Merge(base[k], over[k])
               [] OTHER -> over[k]]
MergeTables(base, over) ==
    [e \in DOMAIN base \cup DOMAIN over |->
        IF e \in DOMAIN base /\ e \in DOMAIN over THEN MergeEntry(base[e], over[e])
        ELSE IF e \in DOMAIN over THEN over[e] ELSE base[e]]

\* The policies of generation_policies.yml.
GenerationPolicies == {"password"}

EntryParses(raw) ==
    /\ Has(raw, "foundation") /\ raw.foundation \in {"fixed", "elastic", "both"}
    /\ Has(raw, "naming") /\ raw.naming \in DOMAIN Policies
    /\ \A k \in DOMAIN Under(raw, "env", <<>>) :
          /\ EnvVarParses(raw.env[k])
          /\ raw.env[k].kind = "minted" => raw.env[k].policy \in GenerationPolicies

\* load_transfer_tables: raises, or returns the merged tables. What an entry
\* does not say is empty.
TablesLoad(layer) ==
    /\ \A e \in DOMAIN layer : EntryIsValid(layer[e])
    /\ LET merged == MergeTables(Bundled, layer)
       IN  \A e \in DOMAIN merged : EntryParses(merged[e])

EmptyEntry == [default_port |-> "none", emits |-> <<>>, defaults |-> <<>>, fields |-> <<>>,
               provides |-> <<>>, env |-> <<>>, reserved_names |-> {}, persistent_storage |-> FALSE]
Tables(layer) ==
    LET merged == Tabled(MergeTables(Bundled, layer))
    IN  Tabled([e \in DOMAIN merged |-> Tabled(Merge(EmptyEntry, merged[e]))])

-----------------------------------------------------------------------------
\* What the compiler asks of an entry.
Roles(tables) == {e[1] : e \in DOMAIN tables}
Supports(entry, foundation) == entry.foundation \in {foundation, "both"}
ProvidesFor(entry, foundation) ==
    [p \in {q \in DOMAIN entry.provides : Has(entry.provides[q], foundation)} |->
        entry.provides[p][foundation]]
DefaultsFor(entry, foundation) == Under(entry.defaults, foundation, <<>>)
EmitsOn(entry, foundation) == Under(entry.emits, foundation, <<>>)

\* engine_for: the first of the declared engines that runs on the foundation;
\* <<>> where the code raises, also for an unknown one that comes before it.
EngineFor(tables, role, engines, foundation) ==
    LET usable == {i \in DOMAIN engines :
                      /\ <<role, engines[i]>> \in DOMAIN tables
                      /\ Supports(tables[<<role, engines[i]>>], foundation)}
        first == First(usable)
    IN  IF usable = {} THEN <<>>
        ELSE IF \E j \in 1..first : <<role, engines[j]>> \notin DOMAIN tables THEN <<>>
        ELSE <<role, engines[first]>>

\* A core service has no engine of its own: the role's first that fits.
\* Every bundled core role has one engine, and roles with several are backing.
EngineForRole(tables, role, foundation) ==
    LET usable == {e \in DOMAIN tables : e[1] = role /\ Supports(tables[e], foundation)}
    IN  IF usable = {} THEN <<>> ELSE CHOOSE e \in usable : TRUE

FieldTarget(entry, field, foundation) ==
    IF ~Has(entry.fields, field) \/ ~Has(entry.fields[field], foundation) THEN "none"
    ELSE Under(entry.fields[field][foundation], "target", EmitsOn(entry, foundation)[1])
=============================================================================
