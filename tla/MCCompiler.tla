----------------------------- MODULE MCCompiler -----------------------------
(* TLC instances of Compiler: the documents. One small project for each
   foundation, and what comes of it by one or two changes of the kind an author
   makes; some are legal, some are what a rule is there to refuse. *)
EXTENDS Compiler
LOCAL INSTANCE SequencesExt

Lit(x) == <<<<"lit", <<x>>>>>>
Plain == [replicas |-> 0, command |-> <<>>, extra |-> <<>>, surfaces |-> <<>>, env |-> <<>>, port |-> "none",
          uses |-> {}, networks |-> {"internal"},
          resources |-> [gpu |-> FALSE, cpu |-> 50, memory |-> 512, disk |-> 0]]
MainDb == <<"main", "-", "db">>
Postgres == [role |-> "relational_db", engine |-> <<"postgres">>, version |-> TRUE, schema_owned_by |-> <<"api">>,
             networks |-> {"internal"}, port |-> "none", extra |-> <<>>]
Redis == [Postgres EXCEPT !.role = "cache", !.engine = <<"redis">>, !.schema_owned_by = <<>>]
Store == [Redis EXCEPT !.role = "object_store", !.engine = <<"minio", "s3">>]
Web == [Plain EXCEPT !.networks = {"web", "internal"}, !.port = "8000", !.uses = {<<MainDb>>},
           !.extra = [health_check_path |-> Lit("health")], !.surfaces = [api |-> {"rest", "stream"}],
           !.env = [DATABASE_HOST |-> <<BackingRef(MainDb, "host")>>]] @@ [role |-> "web"]
Jobs == [Plain EXCEPT !.uses = {<<MainDb>>, <<<<"api">>, <<"web">>>>},
            !.env = [API_HOST |-> <<CoreRef(<<"api">>, <<"web">>, "host")>>]] @@ [role |-> "worker"]
Worker == Plain @@ [role |-> "worker"]
Codebase(services) == [core_services |-> services, env |-> <<>>, secrets |-> {}, config |-> {}, v1_shape |-> FALSE]

Base(foundation) ==
    [cicl_version |-> "3", foundation |-> foundation, apex_domain |-> <<"example", "com">>,
     reverse_proxy |-> "none", container_registry |-> TRUE,
     domain_default_service |-> <<<<"api">>, <<"web">>>>, observability_backend_url |-> "https",
     codebases |-> (<<"api">> :> [Codebase((<<"web">> :> Web) @@ (<<"jobs">> :> Jobs)) EXCEPT
                        !.env = [DATABASE_PASSWORD |-> <<BackingRef(MainDb, "password")>>],
                        !.secrets = {"STRIPE_KEY"}, !.config = {"LOG_LEVEL"}]),
     backing_services |-> (MainDb :> Postgres)]

api == <<"api">>
AddCodebase(doc, name, cb) == [doc EXCEPT !.codebases = @ @@ (name :> cb)]
AddBacking(doc, name, b) == [doc EXCEPT !.backing_services = @ @@ (name :> b)]
AddService(doc, name, s) ==     \* what `api` says for all its services refers to the database
    [doc EXCEPT !.codebases[api].core_services = @ @@ (name :> [s EXCEPT !.uses = @ \cup {<<MainDb>>}])]
SetEnv(doc, name, key, value) ==
    [doc EXCEPT !.codebases[api].core_services[name].env = (key :> value) @@ @]
UseIt(doc, name, used) == [doc EXCEPT !.codebases[api].core_services[name].uses = @ \cup {used}]

\* The changes, in the order in which they are made.
Changes ==
    <<"replicas", "clock", "cache", "store", "api-web owner", "API", "api-web", "api-web-1", "main_db",
      "otelcol", "no port", "no uses", "bad part", "self", "composed", "reserved", "overlap", "two stores",
      "store conflict", "huge", "long", "unregistered", "ec2", "shadowed", "own host", "schedule key",
      "own table", "stray table", "gpu", "job name", "web-1-otelcol", "s2">>
Change(doc, change) ==
    CASE change = "replicas" -> [doc EXCEPT !.codebases[api].core_services[<<"web">>].replicas = 2]
      [] change = "clock" -> AddService(doc, <<"nightly">>,
            Plain @@ [role |-> "clock", schedules |-> [purge |-> "ok"]])
      [] change = "cache" -> UseIt(SetEnv(AddBacking(doc, <<"cache">>, Redis), <<"jobs">>, "CACHE",
            <<BackingRef(<<"cache">>, "host"), <<"lit", <<":">>>>, BackingRef(<<"cache">>, "port")>>),
            <<"jobs">>, <<<<"cache">>>>)
      [] change = "store" -> UseIt(SetEnv(AddBacking(doc, <<"store">>, Store), <<"web">>, "BUCKET_KEY",
            <<BackingRef(<<"store">>, "access_key")>>), <<"web">>, <<<<"store">>>>)
      [] change = "api-web owner" -> AddBacking(AddCodebase(doc, <<"api", "-", "web">>,
            Codebase(<<"jobs">> :> Worker)), <<"second">>,
            [Postgres EXCEPT !.schema_owned_by = <<"api", "-", "web">>])
      [] change = "API" -> AddCodebase(doc, <<"API">>, Codebase(<<"web">> :> Worker))
      [] change = "api-web" -> AddBacking(doc, <<"api", "-", "web">>, Redis)
      [] change = "api-web-1" -> AddBacking(doc, <<"api", "-", "web", "-", "1">>, Redis)
      [] change = "main_db" -> AddBacking(doc, <<"main", "_", "db">>, Postgres)
      [] change = "otelcol" -> AddService(doc, <<"web", "-", "otelcol">>, Worker)
      [] change = "no port" -> UseIt(SetEnv(
            AddService(doc, <<"feed">>, [Worker EXCEPT !.surfaces = [x |-> {"rpc"}]]), <<"web">>, "FEED",
            <<CoreRef(api, <<"feed">>, "host")>>), <<"web">>, <<api, <<"feed">>>>)
      [] change = "no uses" -> SetEnv(AddBacking(doc, <<"cache">>, Redis), <<"web">>, "CACHE",
            <<BackingRef(<<"cache">>, "host")>>)
      [] change = "bad part" -> SetEnv(doc, <<"jobs">>, "CA", <<BackingRef(MainDb, "ca")>>)
      [] change = "self" -> SetEnv(doc, <<"web">>, "OWN_HOST", <<CoreRef(api, <<"web">>, "host")>>)
      [] change = "composed" -> SetEnv(doc, <<"jobs">>, "URL",
            <<BackingRef(MainDb, "user"), <<"lit", <<":">>>>, BackingRef(MainDb, "password")>>)
      [] change = "reserved" -> SetEnv(doc, <<"jobs">>, "OTEL_SERVICE_NAME", Lit("mine"))
      [] change = "overlap" -> SetEnv(doc, <<"jobs">>, "STRIPE_KEY", Lit("none"))
      [] change = "two stores" -> [doc EXCEPT !.codebases[api].config = @ \cup {"POSTGRES_PASSWORD"}]
      [] change = "store conflict" -> AddCodebase(doc, <<"web">>,
            [Codebase(<<"jobs">> :> Worker) EXCEPT !.config = {"STRIPE_KEY"}])
      [] change = "huge" -> [doc EXCEPT !.codebases[api].core_services[<<"jobs">>].resources =
                                [gpu |-> FALSE, cpu |-> 1600, memory |-> 140000, disk |-> 0]]
      [] change = "long" -> AddBacking(doc, <<"archive">>, Redis)
      [] change = "unregistered" -> [doc EXCEPT !.container_registry = FALSE]
      [] change = "ec2" -> [doc EXCEPT !.reverse_proxy = "ec2_traefik_eip"]
      [] change = "shadowed" -> [doc EXCEPT
            !.codebases[api].env = @ @@ [HOST |-> <<BackingRef(<<"gone">>, "host")>>],
            !.codebases[api].core_services = [s \in DOMAIN @ |-> [@[s] EXCEPT !.env = @ @@ [HOST |-> Lit("own")]]]]
      [] change = "own host" -> SetEnv([doc EXCEPT
            !.codebases[api].env = @ @@ [WEB_HOST |-> <<CoreRef(api, <<"web">>, "host")>>]],
            <<"web">>, "WEB_HOST", Lit("own"))
      [] change = "schedule key" -> AddService(doc, <<"feed">>,
            [Plain EXCEPT !.env = SCHEDULES_ENV_KEY :> Lit("none")]
            @@ [role |-> "clock", schedules |-> [purge |-> "ok"]])
      [] change = "job name" -> AddService(doc, <<"purge">>,
            Plain @@ [role |-> "clock", schedules |-> "9am" :> "ok"])
      [] change = "gpu" -> [doc EXCEPT !.codebases[api].core_services[<<"jobs">>].resources.gpu = TRUE]
      [] change = "web-1-otelcol" -> AddService(doc, <<"web", "-", "1", "-", "otelcol">>, Worker)
      [] change = "s2" -> AddBacking(doc, <<"s", "2", "-", "cache">>, Redis)
      [] OTHER -> doc

\* The project's own tables change with the document.
OwnTables(changes) ==
    IF "stray table" \in changes
    THEN <<"worker", "container">> :> [defaults |-> [elastic |-> [logging |-> <<>>]]]
    ELSE IF "own table" \in changes
    THEN <<"relational_db", "postgres">> :> [provides |-> [ca |-> [fixed |-> Lit("ca")]]]
    ELSE <<>>

Revision(foundation, changes) ==
    [doc |-> FoldLeft(LAMBDA doc, c : IF c \in changes THEN Change(doc, c) ELSE doc, Base(foundation), Changes),
     layer |-> OwnTables(changes)]
AllChanges == {{}} \cup {{a, b} : a, b \in Elements(Changes)}

AllSources == Tabled([r \in {"fixed", "elastic"} \X AllChanges |-> Revision(r[1], r[2])])
GoTo == {<<"fixed", {}>>, <<"fixed", {"clock"}>>, <<"fixed", {"composed"}>>, <<"fixed", {"main_db"}>>,
         <<"elastic", {}>>, <<"elastic", {"store"}>>}

\* What the theorems ask of the sources holds of these.
ASSUME SourcesAreSound == SoundSources

ProjectName == <<"shop">>
Apex == <<"example", ".", "com">>
Lengths ==
    ("archive" :> 53) @@ [t \in {"shop", "stage", "prod", "test", "dev"} |-> IF t = "stage" THEN 5 ELSE IF t = "dev" THEN 3 ELSE 4]
    @@ [t \in {"-", "_", ".", "1", "2"} |-> 1]
    @@ [t \in {"api", "API", "web", "jobs", "main", "db", "cache", "store", "second", "nightly", "feed", "otelcol",
               "exec", "migrate", "s", "tg", "data", "example", "com", "gone", "traefik", "traefik-acme"} |-> 4]
=============================================================================
