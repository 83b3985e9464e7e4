------------------------------ MODULE Outcome ------------------------------
\* What docex makes of each revision of a project's sources: whether validation
\* accepts it, in which directories compile fails late, which files each
\* directory gets (src/docex/cicl/compile.py), and what these files say. A
\* revision is a state of infra.yml and of the project's own tables.
EXTENDS Emission

CONSTANTS
    Sources,        \* revision -> [doc, layer]
    Slots           \* the stacks that tests are compiled for

SourceOf == Tabled(Sources)
Revisions == DOMAIN SourceOf
ASSUME SourcesAssumption ==
    \A r \in Revisions : IsDocument(SourceOf[r].doc) /\ \A e \in DOMAIN SourceOf[r].layer : Len(e) = 2

Envs == <<"dev", "test", "stage", "prod">>

\* load_project_context and validate_document: the sources are fit to compile.
Accepted(src, tables) ==
    /\ TablesLoad(src.layer) /\ Parses(src.doc)
    /\ Issues(src.doc, tables) = {}

\* The directories of the output, in the order they are written.
EnvDir(env) == <<env, 1>>
SlotDir(slot) == <<"test", slot>>
EnvDirs == [i \in DOMAIN Envs |-> EnvDir(Envs[i])]
OutputDirs == EnvDirs \o <<<<"project", "development">>, <<"project", "production">>>>
IsEnvDir(dir) == dir[1] # "project"
AllDirs == Elements(OutputDirs) \cup {SlotDir(k) : k \in Slots}

HasClock(doc) == \E c \in CoreServices(doc) : Under(Core(doc, c), "schedules", <<>>) # <<>>

\* _emit_env_dir: the files of a directory, in the order they are written. The
\* three files of ansible are one here.
FilesOf(doc, dir) ==
    LET foundation == IF IsEnvDir(dir) THEN _env_foundation(doc, dir[1])
                      ELSE IF dir[2] = "development" THEN "fixed" ELSE doc.foundation
    IN  (IF IsEnvDir(dir) /\ HasClock(doc) THEN <<"schedules.yml">> ELSE <<>>)
        \o (IF foundation = "fixed" THEN <<"docker-compose.yml">> ELSE <<"main.tf">>)
        \o (IF foundation = "fixed" /\ dir[1] \in {"stage", "prod"} THEN <<"ansible">> ELSE <<>>)
PathsOf(doc, dir) == {<<dir, f>> : f \in Elements(FilesOf(doc, dir))}

-----------------------------------------------------------------------------
\* What the output says, file by file.
Main(path) == path[2] \in {"docker-compose.yml", "main.tf"}

\* The hand-written templates that a container's environment is filled from.
TemplatesOf(s, c) ==
    CASE c.origin[1] \in {"service", "replica"} /\ IsCoreId(c.origin[2]) -> Values(ServiceEnv(s, c.origin[2]))
      [] c.origin[1] = "exec" -> Values(s.doc.codebases[c.origin[2]].env)
      [] OTHER -> {}
StandFor(containers, id) ==
    {c \in containers : c.origin[1] \in {"service", "replica"} /\ c.origin[2] = id}
ShareNetwork(doc, a, b) == Declared(doc, a).networks \cap Declared(doc, b).networks # {}

\* On a machine a host is a container's own name or its alias on a network.
Reached(containers, target, host) ==
    {x \in StandFor(containers, target) : host \in {x.key} \cup x.aliases}
OnSharedNetwork(doc, c, target, reached) ==
    /\ reached # {}
    /\ c.origin[1] # "exec" /\ ShareNetwork(doc, c.origin[2], target) =>
          \A x \in reached : c.networks \cap x.networks # {}
LandsInCompose(s, containers, c, r) ==
    OnSharedNetwork(s.doc, c, RefTarget(r), Reached(containers, RefTarget(r), Provided(s, r)[1][2]))
\* On AWS it is a name that Service Connect knows, or a resource's attribute.
LandsInHcl(s, claims, parts, of) ==
    IF IsRaw(parts) THEN <<"resource", <<s.env, parts[2][2][1]>> \o parts[3][2], of>> \in claims
    ELSE <<"discovery", parts[1][2], of>> \in claims

HostRefs(templates) == {r \in RefsIn(templates) : RefPart(r) = "host"}
RefsLandIn(s, path, containers, claims) ==
    /\ \A c \in containers : \A r \in HostRefs(TemplatesOf(s, c)) :
          IF path[2] = "main.tf"
          THEN LandsInHcl(s, claims, Provided(s, r), <<s.env, s.slot, <<"service", RefTarget(r)>>>>)
          ELSE LandsInCompose(s, containers, c, r)
    /\ path[2] # "main.tf" =>
          \A c \in containers : c.needs \subseteq {x.key : x \in containers}

\* Who sets a key of a service's environment.
SettersOf(s, id, key) ==
    LET cb == s.doc.codebases[id[1]]
    IN  {x \in {"author", "secrets", "config", "doctrine", "schedules"} :
            CASE x = "author" -> key \in DOMAIN ServiceEnv(s, id)
              [] x = "secrets" -> key \in cb.secrets
              [] x = "config" -> key \in cb.config
              [] x = "doctrine" -> key \in Injected
              [] x = "schedules" -> key \in DOMAIN schedule_env(s, id)}
StoresOf(s, tables, key) ==
    {store \in {"tte", "secrets", "config"} :
        CASE store = "tte" -> key \in minted_policies(s.doc, tables)
          [] store = "secrets" -> key \in secret_manifest(s.doc, tables)
          [] store = "config" -> key \in config_manifest(s.doc)}
KeysHaveOneSourceIn(s, tables, containers, cats) ==
    /\ \A c \in containers : \A k \in DOMAIN c.env : \A key \in c.env[k] :
          Cardinality(CategoriesOf(cats, key)) = 1 /\ StoresOf(s, tables, key) # {}
    /\ \A id \in CoreServices(s.doc) : \A k \in DOMAIN EnvOf(s, id) : Cardinality(SettersOf(s, id, k)) = 1

\* A file of an env's directory, and one of the project's own.
FileIn(s, tables, path, containers, claims) ==
    [claims |-> claims,
     refsLand |-> RefsLandIn(s, path, containers, claims),
     oneSource |-> KeysHaveOneSourceIn(s, tables, containers, classify_source_keys(s.doc, tables))]
EnvFile(s, tables, path, containers) ==
    FileIn(s, tables, path, containers,
           IF path[2] = "main.tf" THEN HclClaims(s) ELSE ComposeClaims(s, containers))
ProjectFile(doc, path) ==
    [claims |-> IF path[2] = "main.tf" THEN emit_hcl_project(doc) ELSE emit_project_compose]
FileOf(scope, tables, path) ==
    IF IsEnvDir(path[1]) THEN EnvFile(scope, tables, path, Containers(scope))
    ELSE ProjectFile(scope.doc, path)

\* compile_env of one directory.
OutputOf(doc, tables, late) ==
    [accepted |-> TRUE, late |-> late, files |-> Tabled([
        p \in {x \in UNION {PathsOf(doc, d) : d \in AllDirs} : Main(x) /\ late[x[1]] = {}} |->
            FileOf(Scope(doc, tables, p[1][1], p[1][2]), tables, p)])]
LateOf(doc, tables, dir) ==
    IF IsEnvDir(dir) THEN LateErrors(Scope(doc, tables, dir[1], dir[2])) ELSE {}
OutcomeIn(src, tables) ==
    IF Accepted(src, tables)
    THEN OutputOf(src.doc, tables, Tabled([dir \in AllDirs |-> LateOf(src.doc, tables, dir)]))
    ELSE [accepted |-> FALSE]
Outcomes == Tabled([r \in Revisions |-> OutcomeIn(SourceOf[r], Tables(SourceOf[r].layer))])
=============================================================================
