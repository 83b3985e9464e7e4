------------------------------ MODULE Compiler ------------------------------
\* `docex compile`: run_compile and compile_slot (src/docex/cicl/compile.py)
\* over the files they read and write. What a file of the output holds is known
\* by the revision of the sources it was made from.
\* Two compiles do not write to one directory of a checkout at once; the compile
\* of a test stack of its own may come between any two writes of the other.
EXTENDS Outcome

CONSTANTS
    Editable,       \* the revisions that the author goes to and fro between
    MaxEdits, MaxCompiles       \* bounds of the instance

ASSUME EditableAssumption == Editable \subseteq Revisions

Passes(r) == Outcomes[r].accepted
Fails(r, dir) == Outcomes[r].late[dir]

VARIABLES
    rev,        \* what the sources say now
    tree,       \* the files of the output, each with the revision it is from
    run,        \* the compile that runs
    verdict,    \* how the last compile ended, and what it speaks of
    edits, compiles

vars == <<rev, tree, run, verdict, edits, compiles>>

NoRun == [pc |-> "idle"]
NoVerdict == [kind |-> "none"]

Init ==
    /\ rev \in Revisions
    /\ tree = <<>> /\ run = NoRun /\ verdict = NoVerdict
    /\ edits = 0 /\ compiles = 0

WriteAll(t, paths, r) == [p \in DOMAIN t \cup paths |-> IF p \in paths THEN r ELSE t[p]]
Write(t, path, r) == WriteAll(t, {path}, r)

\* The author changes infra.yml or the project's tables.
Edit ==
    /\ edits < MaxEdits /\ rev \in Editable
    /\ rev' \in Editable \ {rev}
    /\ edits' = edits + 1
    /\ UNCHANGED <<tree, run, verdict, compiles>>

\* The sources are read once; if they are refused nothing is written.
StartCompile ==
    /\ run.pc = "idle" /\ compiles < MaxCompiles
    /\ compiles' = compiles + 1
    /\ IF Passes(rev)
       THEN /\ run' = [pc |-> "dir", rev |-> rev, dirs |-> OutputDirs, files |-> <<>>, at |-> tree]
            /\ verdict' = NoVerdict
       ELSE /\ verdict' = [kind |-> "refused", rev |-> rev, at |-> tree]
            /\ UNCHANGED run
    /\ UNCHANGED <<rev, tree, edits>>

PathSeq(files, dir) == [i \in DOMAIN files |-> <<dir, files[i]>>]

\* compile_env for the next env, or the end of the compile with an error.
CompileDir ==
    /\ run.pc = "dir" /\ run.files = <<>> /\ run.dirs # <<>>
    /\ LET dir == Head(run.dirs)
       IN  IF Fails(run.rev, dir) = {}
           THEN /\ run' = [run EXCEPT !.files = PathSeq(FilesOf(SourceOf[run.rev].doc, dir), dir),
                                      !.dirs = Tail(run.dirs)]
                /\ UNCHANGED verdict
           ELSE /\ run' = NoRun
                /\ verdict' = [kind |-> "failed", rev |-> run.rev, at |-> run.at, dir |-> dir]
    /\ UNCHANGED <<rev, tree, edits, compiles>>

WriteFileOnce ==     \* mutant: a file that is there is left alone
    /\ run.pc = "dir" /\ run.files # <<>>
    /\ tree' = IF Head(run.files) \in DOMAIN tree THEN tree ELSE Write(tree, Head(run.files), run.rev)
    /\ run' = [run EXCEPT !.files = Tail(run.files)]
    /\ UNCHANGED <<rev, verdict, edits, compiles>>

WriteFile ==
    /\ run.pc = "dir" /\ run.files # <<>>
    /\ tree' = Write(tree, Head(run.files), run.rev)
    /\ run' = [run EXCEPT !.files = Tail(run.files)]
    /\ UNCHANGED <<rev, verdict, edits, compiles>>

\* The compile prints how many files it wrote and exits 0.
Finish ==
    /\ run.pc = "dir" /\ run.files = <<>> /\ run.dirs = <<>>
    /\ run' = NoRun
    /\ verdict' = [kind |-> "ok", rev |-> run.rev, dirs |-> Elements(OutputDirs)]
    /\ UNCHANGED <<rev, tree, edits, compiles>>

Kill ==
    /\ run.pc = "dir"
    /\ run' = NoRun /\ verdict' = NoVerdict
    /\ UNCHANGED <<rev, tree, edits, compiles>>

\* compile_slot, by a test run. The first stack has the env's own directory.
CompileSlot(k) ==
    /\ k # 1 \/ run.pc = "idle"
    /\ Passes(rev) /\ Fails(rev, SlotDir(k)) = {}
    /\ tree' = WriteAll(tree, PathsOf(SourceOf[rev].doc, SlotDir(k)), rev)
    /\ verdict' = CASE verdict.kind = "ok" -> [verdict EXCEPT !.dirs = @ \ {SlotDir(k)}]
                    [] verdict.kind \in {"refused", "failed"} -> NoVerdict
                    [] OTHER -> verdict
    /\ UNCHANGED <<rev, run, edits, compiles>>

Next ==
    \/ Edit \/ StartCompile \/ CompileDir \/ WriteFile \/ Finish \/ Kill
    \/ \E k \in Slots : CompileSlot(k)

Spec == Init /\ [][Next]_vars

-----------------------------------------------------------------------------
Distinct(claims) ==
    Cardinality({<<c[1], c[2]>> : c \in claims}) = Cardinality(claims)

\* What a file of the output says.
Text(p) == Outcomes[tree[p]].files[p]
MainFiles == {p \in DOMAIN tree : Main(p)}
EnvFiles == {p \in MainFiles : IsEnvDir(p[1])}

\* What rule 5 lets pass: a service that is named like the sidecar of another's
\* replica (validate.py:1134 takes the container's own name to be enough), a
\* codebase with a schema that is named like a service of another, whose log
\* group its migration then shares (hcl.py:714), and anything whose name begins
\* with the segment of a test stack.
NamedLikeSidecar(doc) ==
    LET ids == Identities(doc)
        sidecars == {NormalizedIdentity(x[1] \o <<"-", "otelcol">>) : x \in {y \in ids : y[2][1] = "replica"}}
    IN  \E x \in ids : x[2][1] \in {"core", "backing"} /\ NormalizedIdentity(x[1]) \in sidecars
NamedLikeMigration(doc) ==
    \E c \in CoreServices(doc) : \E b \in Backing(doc) :
        doc.backing_services[b].schema_owned_by = Compiled(c[1], c[2])
NamedLikeSlot(doc) ==
    \E n \in Codebases(doc) \cup Backing(doc), k \in Slots \ {1} :
        Len(n) > 2 /\ <<"_">> \o SubSeq(n, 1, 2) = SlotSegment(k)
PassesRule5(doc) == NamedLikeSidecar(doc) \/ NamedLikeMigration(doc) \/ NamedLikeSlot(doc)

\* No two things of a project claim one name: no container, network, volume,
\* router, host, log group or cloud resource of any env, stack or tier is named like
\* another, whatever revisions the files come from (rule 5 and the naming of
\* compile.py), but for the files of documents with a name of one of the
\* three kinds that rule 5 lets pass. A file that another foundation left behind in a
\* directory is not held against the ones in use.
NamesDistinct ==
    run.pc = "idle" =>
        LET seen == {p \in MainFiles : ~PassesRule5(SourceOf[tree[p]].doc)}
            inUse == {p \in seen : ~\E q \in MainFiles \ {p} : q[1] = p[1]}
        IN  /\ \A p \in seen : Distinct(Text(p).claims)
            /\ Distinct(UNION {Text(p).claims : p \in inUse})

\* Each host that a container is handed is one that the same file declares for
\* the service the author meant, on a network that both are on, and every
\* container a file waits for or shares a network with is in that file.
RefsLand == \A p \in EnvFiles : Text(p).refsLand

\* A runtime key that a container reads is kept in exactly one store, and no
\* variable of a service is set from two sides.
KeysHaveOneSource == \A p \in EnvFiles : Text(p).oneSource

\* What is known of the failures that come after the validation.
\* A codebase's value stands for all its services, but validation sees it only
\* where no service has one of its own.
Shadowed(doc) ==
    \E cb \in Codebases(doc) : \E k \in DOMAIN doc.codebases[cb].env :
        LET services == doc.codebases[cb].core_services
            own == {s \in DOMAIN services : k \in DOMAIN services[s].env}
        IN  \/ own = DOMAIN services
            \/ \E r \in RefsIn({doc.codebases[cb].env[k]}) : \E s \in own : RefTarget(r) = <<cb, s>>
Foreseen(doc) ==
    {"name", "composed"} \cup (IF Shadowed(doc) THEN {"reference"} ELSE {})
        \cup (IF doc.foundation = "elastic" THEN {"reference", "engine", "sizing", "defaults"} ELSE {})

\* What a compile answers for: the stacks of other slots are not its own.
Output(t) == [p \in {q \in DOMAIN t : q[1] \in Elements(OutputDirs)} |-> t[p]]

\* The exit code is right about the output. After success every file of every
\* env is of the revision that was read; a refusal has changed nothing; and a
\* document that was accepted fails later only in the ways foreseen, and with
\* half of its files written only if it is for elastic or a name is too long
\* for a later env.
VerdictIsTrue ==
    /\ verdict.kind = "ok" =>
          \A d \in verdict.dirs : \A p \in PathsOf(SourceOf[verdict.rev].doc, d) : p \in DOMAIN tree /\ tree[p] = verdict.rev
    /\ verdict.kind = "refused" => tree = verdict.at
    /\ verdict.kind = "failed" =>
          /\ Fails(verdict.rev, verdict.dir) \subseteq Foreseen(SourceOf[verdict.rev].doc)
          /\ \/ Output(tree) = Output(verdict.at)
             \/ "name" \in Fails(verdict.rev, verdict.dir)
             \/ SourceOf[verdict.rev].doc.foundation = "elastic" /\ verdict.dir[1] \in {"stage", "prod"}

-----------------------------------------------------------------------------
\* What a project's own files must be, beyond what is validated, for the
\* promises above to hold whatever the document.

\* The compile-time variables, and the parts that an author writes.
VariableNames == {"name", "global_service_name", "env_name", "port", "project_name", "env_subdomain"}
PlainPart(part) == part[1] \in {"lit", "ref"} \/ (part[1] = "var" /\ part[2] \in VariableNames)
PlainTemplate(template) == \A part \in Elements(template) : PlainPart(part)
PlainDocument(doc) ==
    \A cb \in Codebases(doc) :
        /\ \A x \in Values(doc.codebases[cb].env) : PlainTemplate(x)
        /\ \A s \in DOMAIN doc.codebases[cb].core_services :
              \A x \in Values(doc.codebases[cb].core_services[s].env) : PlainTemplate(x)

\* A table declares the runtime keys that its templates read, and leaves the one
\* of the doctrine alone.
DeclaresKeys(entry) ==
    /\ \A f \in {"fixed", "elastic"} :
          \A x \in Values(ProvidesFor(entry, f)) \cup Values(Under(DefaultsFor(entry, f), "environment", <<>>)) :
              RuntimeKeys(x) \subseteq DOMAIN entry.env
    /\ \A k \in DOMAIN entry.env \cap DOCTRINE_INJECTED_SECRETS : KindOf(entry.env[k]) = "secret"

\* Only what a backing service is made of comes with keys of its own.
CoreHoldsNoKeys(doc, tables) ==
    \A c \in CoreServices(doc) : \A e \in {x \in DOMAIN tables : x[1] = Core(doc, c).role} :
        \A f \in {"fixed", "elastic"} : \A x \in Values(ProvidesFor(tables[e], f)) : RuntimeKeys(x) = {}

\* Its `host` is the name that the emitters give the service, or an attribute of
\* a resource that they emit for it.
HostIsReal(entry) ==
    /\ LET provided == ProvidesFor(entry, "fixed")
       IN  "host" \in DOMAIN provided => provided["host"] = <<GlobalNamePart>>
    /\ LET provided == ProvidesFor(entry, "elastic")
           emitted == Elements(EmitsOn(entry, "elastic"))
           h == provided["host"]
       IN  "host" \in DOMAIN provided =>
              \/ (h = <<GlobalNamePart>> /\ "ecs_service" \in emitted)
              \/ \E d \in (emitted \cap DOMAIN Resource) \ {"target_group"} : h = Attribute(Resource[d], h[4][2][2])

\* What an engine offers on a host is offered by all that may stand in for it
\* there, with a value.
HasValue(entry, part) ==
    CASE part[1] = "lit" -> part[2] # <<>>
      [] part[1] = "var" -> part[2] \in {"name", "global_service_name", "env_name", "env_subdomain"}
                            \/ (part[2] = "port" /\ "port" \in DOMAIN entry.provides)
      [] part[1] = "run" -> part[2] \in DOMAIN entry.env /\ KindOf(entry.env[part[2]]) = "fixed" => entry.env[part[2]].value # <<>>
      [] OTHER -> TRUE
OffersOnAHost(entry, p) ==
    /\ p \in DOMAIN ProvidesFor(entry, "fixed")
    /\ LET parts == Elements(ProvidesFor(entry, "fixed")[p])
       IN  /\ \A part \in parts : part[1] = "var" => part[2] \in VariableNames
           /\ \E part \in parts : HasValue(entry, part)
Interchangeable(tables) ==
    \A e \in DOMAIN tables :
        /\ \E d \in DOMAIN tables : d[1] = e[1] /\ Supports(tables[d], "fixed")
        /\ \A d \in DOMAIN tables : d[1] = e[1] /\ Supports(tables[d], "fixed") =>
              \A p \in DOMAIN tables[e].provides : OffersOnAHost(tables[d], p)

SoundTables(tables) ==
    /\ \A e \in DOMAIN tables : DeclaresKeys(tables[e]) /\ HostIsReal(tables[e])
    /\ Interchangeable(tables)

\* A backing service that offers a host or a port has a port.
BackingHasPort(doc, tables) ==
    \A b \in Backing(doc) : \A e \in EntriesOf(tables, doc.backing_services[b]) :
        DOMAIN tables[e].provides \cap {"host", "port"} # {} =>
            doc.backing_services[b].port # "none" \/ tables[e].default_port # "none"

\* A value that is never used does not name a service without a port.
ShadowedHostsHavePorts(doc) ==
    \A cb \in Codebases(doc) : \A k \in DOMAIN doc.codebases[cb].env :
        (\A s \in DOMAIN doc.codebases[cb].core_services : k \in DOMAIN doc.codebases[cb].core_services[s].env) =>
            \A r \in RefsIn({doc.codebases[cb].env[k]}) :
                r[2] = "codebases" /\ WellFormed(r) /\ IsCore(doc, RefTarget(r)) => Core(doc, RefTarget(r)).port # "none"

Sound(src) ==
    /\ PlainDocument(src.doc) /\ ShadowedHostsHavePorts(src.doc)
    /\ LET tables == Tables(src.layer)
       IN  /\ SoundTables(tables)
           /\ CoreHoldsNoKeys(src.doc, tables) /\ BackingHasPort(src.doc, tables)
SoundSources == \A r \in Revisions : Passes(r) => Sound(SourceOf[r])
=============================================================================
